-------------------------- MODULE EvalHarnessProofs --------------------------
(* Theorems of EvalHarness: what a harness returns, whatever runs beside it, *)
(* and what keeps harnesses that take turns apart.                           *)
EXTENDS EvalHarness, PolicyProofs

PC == {"idle", "scenario", "patch", "run", "clear", "restore", "check", "return", "open", "write",
       "ended"}

InScenario == {"scenario", "patch", "run", "clear", "restore", "check"}

Done == {"return", "open", "write"}

ScenarioNames == {l[i].name : l \in Lists, i \in Nat}

Result == [scenario_name : ScenarioNames, passed : BOOLEAN, actual : FinalState]

Use == [proposal : Proposals, function : {"real"} \cup Stub \cup {None}]

Locals ==
    [pc : PC, list : Lists \cup {<<>>}, source : {"script", "model"}, at : Nat \ {0},
     saved : Table, calls_made : Nat, final : FinalState \cup {None}, results : Seq(Result),
     outcome : {"results", "raised", "skipped", None}, output_path : 0..MaxTime, used : Seq(Use)]

(* The i-th result belongs to the i-th scenario and the i-th run.            *)
ResultFits(H, i) ==
    /\ H.results[i].scenario_name = H.list[i].name
    /\ H.results[i].actual = Final(H.list[i], H.used[i].proposal, H.used[i].function)

(* The i-th run was fed the first proposal of the i-th script.               *)
UseFits(H, i) ==
    H.source = "script" => H.used[i].proposal = H.list[i].proposals[1]

(* What the locals of a harness say of each other, at every stage.           *)
Local(H) ==
    /\ H \in Locals
    /\ H.pc = "ended" <=> H.outcome # None
    /\ H.pc = "idle" => H.at = 1 /\ H.results = <<>> /\ H.used = <<>>
    /\ H.pc \in InScenario => H.list \in Lists /\ H.at \in 1..Len(H.list)
    /\ (H.pc \in Done \/ H.outcome = "results") => H.list \in Lists /\ H.at = Len(H.list) + 1
    /\ H.outcome # "raised" => Len(H.results) = H.at - 1
    /\ H.outcome \in {"raised", "skipped"} => H.results = <<>>
    /\ H.outcome = "skipped" => H.used = <<>>
    /\ Len(H.results) <= Len(H.used)
    /\ (H.pc \in {"scenario", "patch", "run"} \cup Done \/ H.outcome = "results") =>
          Len(H.used) = H.at - 1
    /\ H.pc \in {"patch", "run"} => H.calls_made = 0
    /\ H.pc \notin {"open", "write", "ended"} => H.output_path = 0
    /\ H.pc \in {"open", "write"} => H.output_path # 0
    /\ H.pc \in {"clear", "restore", "check"} /\ H.final # None =>
          /\ Len(H.used) = H.at
          /\ H.final = Final(H.list[H.at], H.used[H.at].proposal, H.used[H.at].function)
    /\ \A i \in 1..Len(H.results) : ResultFits(H, i)
    /\ \A i \in 1..Len(H.used) : UseFits(H, i)

Locally == \A h \in Harnesses : Local(harness[h])

HarnessInv ==
    /\ table \in Table
    /\ now \in 1..MaxTime
    /\ overlapped \in BOOLEAN
    /\ harness \in [Harnesses -> Locals]
    /\ Locally

-----------------------------------------------------------------------------
(* The final state of a run is one, or None.                                 *)
LEMMA FinalType ==
    ASSUME NEW scenario, NEW proposal, NEW function
    PROVE  Final(scenario, proposal, function) \in FinalState \cup {None}
<1>1. authorize(proposal, scenario.ticket).decision = "denied" =>
        authorize(proposal, scenario.ticket).rule_id \in {"refund-amount-limit", "status-transition", None}
  BY DEF authorize, Denied, Approved
<1>. QED  BY <1>1 DEF Final, Ended, FinalState

LEMMA HarnessInit == Init => HarnessInv
<1>. SUFFICES ASSUME Init PROVE HarnessInv
  OBVIOUS
<1>1. RealTools \in Table
  BY DEF RealTools, Table
<1>2. <<>> \in Seq(Result) /\ <<>> \in Seq(Use) /\ Len(<<>>) = 0
  OBVIOUS
<1>3. NotStarted \in Locals
  BY <1>1, <1>2, HarnessAssumption DEF NotStarted, Locals, PC
<1>4. Local(NotStarted)
  BY <1>2, <1>3, HarnessAssumption DEF Local, NotStarted, InScenario, Done
<1>5. overlapped \in BOOLEAN
  BY DEF Init
<1>. QED  BY <1>1, <1>3, <1>4, <1>5, HarnessAssumption DEF Init, HarnessInv, Locally

(* A step of a harness only writes the locals of its own thread.             *)
LEMMA LocalStep ==
    ASSUME HarnessInv, NEW h \in Harnesses, NEW N, Local(N), harness' = [harness EXCEPT ![h] = N]
    PROVE  harness' \in [Harnesses -> Locals] /\ Locally'
BY DEF HarnessInv, Locally, Local

(* Steps that only move on between the stages of a scenario.                 *)
LEMMA StageStep ==
    ASSUME NEW H, Local(H), NEW N \in Locals, H.pc \in InScenario, N.pc \in InScenario,
           N.list = H.list, N.at = H.at, N.results = H.results, N.used = H.used,
           N.outcome = H.outcome, N.source = H.source, N.output_path = H.output_path,
           N.pc \in {"patch", "run"} => N.calls_made = 0,
           N.pc \in {"scenario", "patch", "run"} => H.pc \in {"scenario", "patch", "run"},
           N.pc \in {"clear", "restore", "check"} =>
              N.final = None \/ (H.pc \in {"clear", "restore", "check"} /\ N.final = H.final)
    PROVE  Local(N)
<1>1. \A i \in 1..Len(H.results) : ResultFits(N, i) <=> ResultFits(H, i)
  BY DEF ResultFits
<1>2. \A i \in 1..Len(H.used) : UseFits(N, i) <=> UseFits(H, i)
  BY DEF UseFits
<1>. QED  BY <1>1, <1>2 DEF Local, InScenario, Done

(* The last steps hand out what there is.                                    *)
LEMMA ReturnStep ==
    ASSUME NEW H, Local(H), NEW N \in Locals, H.pc \in Done,
           \/ N.pc = "ended" /\ N.outcome = "results"
           \/ N.pc \in {"open", "write"} /\ N.outcome = H.outcome /\ N.output_path # 0,
           N.list = H.list, N.at = H.at, N.results = H.results,
           N.used = H.used, N.source = H.source
    PROVE  Local(N)
<1>1. \A i \in 1..Len(H.results) : ResultFits(N, i) <=> ResultFits(H, i)
  BY DEF ResultFits
<1>2. \A i \in 1..Len(H.used) : UseFits(N, i) <=> UseFits(H, i)
  BY DEF UseFits
<1>. QED  BY <1>1, <1>2, HarnessAssumption DEF Local, InScenario, Done

(* An exception leaves nothing to hand out.                                  *)
LEMMA RaiseStep ==
    ASSUME NEW H, Local(H), NEW N \in Locals, N.pc = "ended", N.outcome = "raised",
           N.results = <<>>, N.list = H.list, N.used = H.used, N.source = H.source
    PROVE  Local(N)
<1>1. \A i \in 1..Len(H.used) : UseFits(N, i) <=> UseFits(H, i)
  BY DEF UseFits
<1>2. Len(N.used) \in Nat /\ Len(N.results) = 0
  BY DEF Locals
<1>. QED  BY <1>1, <1>2, HarnessAssumption DEF Local, InScenario, Done

LEMMA NextLocal ==
    ASSUME HarnessInv, NEW h \in Harnesses,
           \/ \E scenarios \in Lists : Start(h, scenarios)
           \/ Skip(h)
           \/ Go(h)
    PROVE  harness' \in [Harnesses -> Locals] /\ Locally'
<1>. DEFINE H == harness[h]
<1>0. Local(H) /\ H \in Locals /\ table \in Table /\ now \in 1..MaxTime /\ MaxTime \in Nat
  BY HarnessAssumption DEF HarnessInv, Locally
<1>1. ASSUME NEW scenarios \in Lists, Start(h, scenarios) PROVE harness' \in [Harnesses -> Locals] /\ Locally'
  <2>1. PICK source \in {"script", "model"} :
          harness' = [harness EXCEPT ![h].list = scenarios, ![h].source = source, ![h].pc = "scenario"]
    BY <1>1 DEF Start
  <2>. DEFINE N == [H EXCEPT !.list = scenarios, !.source = source, !.pc = "scenario"]
  <2>2. harness' = [harness EXCEPT ![h] = N]
    BY <2>1 DEF HarnessInv
  <2>3. N \in Locals /\ H.pc = "idle"
    BY <1>0, <1>1 DEF Locals, PC, Start, At
  <2>4. Local(N)
    BY <1>0, <2>3, HarnessAssumption DEF Local, Locals, InScenario, Done
  <2>. QED  BY <2>2, <2>4, LocalStep
<1>2. CASE Skip(h)
  <2>. DEFINE N == [H EXCEPT !.source = "model", !.outcome = "skipped", !.pc = "ended"]
  <2>1. harness' = [harness EXCEPT ![h] = N] /\ H.pc = "idle"
    BY <1>2 DEF Skip, At, HarnessInv
  <2>2. N \in Locals
    BY <1>0 DEF Locals, PC
  <2>3. Local(N)
    BY <1>0, <2>1, <2>2, HarnessAssumption DEF Local, Locals, InScenario, Done
  <2>. QED  BY <2>1, <2>3, LocalStep
<1>3. CASE Begin(h)
  <2>. DEFINE N == [H EXCEPT !.calls_made = 0, !.saved = IF Patches(h) THEN table ELSE @,
                             !.pc = IF Patches(h) THEN "patch" ELSE "run"]
  <2>1. harness' = [harness EXCEPT ![h] = N] /\ H.pc = "scenario"
    BY <1>3 DEF Begin, At, HarnessInv
  <2>2. N \in Locals /\ N.pc \in {"patch", "run"} /\ N.calls_made = 0
    BY <1>0 DEF Locals, PC
  <2>3. N.list = H.list /\ N.at = H.at /\ N.results = H.results /\ N.used = H.used
        /\ N.outcome = H.outcome /\ N.source = H.source /\ N.output_path = H.output_path
    BY <1>0 DEF Locals
  <2>4. Local(N)
    BY <1>0, <2>1, <2>2, <2>3, StageStep DEF InScenario
  <2>. QED  BY <2>1, <2>4, LocalStep
<1>4. CASE Patch(h) \/ Clear(h) \/ Restore(h)
  <2>1. PICK pc \in {"run", "restore", "check"}, saved \in Table :
          /\ harness' = [harness EXCEPT ![h].saved = saved, ![h].pc = pc]
          /\ pc = "run" => H.pc = "patch"
          /\ pc # "run" => H.pc \in {"clear", "restore"}
    <3>1. H.saved \in Table /\ RealTools \in Table
      BY <1>0 DEF Locals, RealTools, Table
    <3>2. harness = [harness EXCEPT ![h].saved = H.saved]
      BY <1>0 DEF Locals, HarnessInv
    <3>3. CASE Patch(h)
      <4>1. harness' = [harness EXCEPT ![h].saved = H.saved, ![h].pc = "run"] /\ H.pc = "patch"
        BY <1>0, <3>2, <3>3 DEF Patch, At, HarnessInv, Locals
      <4>. QED  BY <3>1, <4>1
    <3>4. CASE Clear(h)
      <4>1. harness' = [harness EXCEPT ![h].saved = H.saved, ![h].pc = "restore"] /\ H.pc = "clear"
        BY <1>0, <3>2, <3>4 DEF Clear, At, HarnessInv, Locals
      <4>. QED  BY <3>1, <4>1
    <3>5. CASE Restore(h)
      BY <3>1, <3>5 DEF Restore, At
    <3>. QED  BY <1>4, <3>3, <3>4, <3>5
  <2>. DEFINE N == [H EXCEPT !.saved = saved, !.pc = pc]
  <2>2. harness' = [harness EXCEPT ![h] = N]
    BY <2>1 DEF HarnessInv
  <2>3. N \in Locals /\ N.pc = pc /\ N.list = H.list /\ N.at = H.at /\ N.results = H.results
        /\ N.used = H.used /\ N.outcome = H.outcome /\ N.final = H.final
        /\ N.source = H.source /\ N.output_path = H.output_path /\ N.calls_made = H.calls_made
    BY <1>0 DEF Locals, PC
  <2>4. pc = "run" => N.calls_made = 0
    BY <1>0, <2>1, <2>3 DEF Local
  <2>5. Local(N)
    BY <1>0, <2>1, <2>3, <2>4, StageStep DEF InScenario
  <2>. QED  BY <2>2, <2>5, LocalStep
<1>5. CASE ProviderRaises(h)
  <2>. DEFINE N == [H EXCEPT !.final = None, !.pc = IF Patches(h) THEN "clear" ELSE "check"]
  <2>1. harness' = [harness EXCEPT ![h] = N] /\ H.pc = "run"
    BY <1>5 DEF ProviderRaises, At, HarnessInv
  <2>2. N \in Locals /\ N.pc \in {"clear", "check"} /\ N.final = None
    BY <1>0 DEF Locals, PC
  <2>3. N.list = H.list /\ N.at = H.at /\ N.results = H.results /\ N.used = H.used
        /\ N.outcome = H.outcome /\ N.source = H.source /\ N.output_path = H.output_path
    BY <1>0 DEF Locals
  <2>4. Local(N)
    BY <1>0, <2>1, <2>2, <2>3, StageStep DEF InScenario
  <2>. QED  BY <2>1, <2>4, LocalStep
<1>6. ASSUME NEW p \in Proposals, Invoke(h, p) PROVE harness' \in [Harnesses -> Locals] /\ Locally'
  <2>. DEFINE use == [proposal |-> p, function |-> FunctionFor(p)]
              final == Final(Scenario(h), p, FunctionFor(p))
              N == [H EXCEPT !.calls_made = @ + 1, !.final = final, !.used = Append(@, use),
                             !.pc = IF Patches(h) THEN "clear" ELSE "check"]
  <2>1. harness' = [harness EXCEPT ![h] = N] /\ H.pc = "run"
    BY <1>6 DEF Invoke, At, HarnessInv
  <2>2. use \in Use /\ final \in FinalState \cup {None}
    BY <1>0, FinalType DEF Use, FunctionFor, Table
  <2>3. H.used \in Seq(Use) /\ Append(H.used, use) \in Seq(Use)
    BY <1>0, <2>2 DEF Locals
  <2>. HIDE DEF use, final
  <2>4. /\ N \in Locals /\ N.pc \in {"clear", "check"} /\ N.final = final /\ N.used = Append(H.used, use)
        /\ N.list = H.list /\ N.at = H.at /\ N.results = H.results /\ N.outcome = H.outcome
        /\ N.source = H.source /\ N.output_path = H.output_path
    <3>1. H.calls_made + 1 \in Nat
      BY <1>0 DEF Locals
    <3>. QED  BY <1>0, <2>2, <2>3, <3>1 DEF Locals, PC
  <2>5. Len(H.used) = H.at - 1 /\ Len(H.results) <= Len(H.used) /\ Len(H.results) \in Nat
    BY <1>0, <2>1 DEF Local, Locals
  <2>6. /\ Len(N.used) = N.at
        /\ N.used[N.at] = use
        /\ \A i \in 1..Len(H.used) : N.used[i] = H.used[i]
    BY <1>0, <2>3, <2>4, <2>5 DEF Locals
  <2>7. \A i \in 1..Len(H.results) : ResultFits(N, i)
    <3>1. \A i \in 1..Len(H.results) : ResultFits(H, i)
      BY <1>0 DEF Local
    <3>. QED  BY <2>4, <2>5, <2>6, <3>1 DEF ResultFits
  <2>8. N.final = Final(N.list[N.at], N.used[N.at].proposal, N.used[N.at].function)
    BY <2>4, <2>6 DEF Scenario, use, final
  <2>a. H.list \in Lists /\ H.at \in 1..Len(H.list) /\ H.outcome = None /\ Len(H.results) = H.at - 1
        /\ H.calls_made = 0 /\ H.output_path = 0
    BY <1>0, <2>1, HarnessAssumption DEF Local, InScenario
  <2>b. \A i \in 1..Len(N.used) : UseFits(N, i)
    <3>1. \A i \in 1..Len(H.used) : UseFits(N, i)
      <4>1. \A i \in 1..Len(H.used) : UseFits(H, i)
        BY <1>0 DEF Local
      <4>. QED  BY <2>4, <2>6, <4>1 DEF UseFits
    <3>2. H.source = "script" => p = H.list[H.at].proposals[1]
      <4>1. p \in Proposed(h) /\ H.calls_made + 1 = 1
        BY <1>6, <2>a DEF Invoke
      <4>. QED  BY <4>1 DEF Proposed, Scenario
    <3>3. UseFits(N, N.at)
      BY <2>4, <2>6, <3>2 DEF UseFits, use
    <3>4. Len(N.used) = Len(H.used) + 1 /\ Len(H.used) \in Nat /\ N.at = Len(H.used) + 1
      BY <2>3, <2>4, <2>5, <2>6
    <3>. QED  BY <3>1, <3>3, <3>4
  <2>. HIDE DEF N
  <2>9. Local(N)
    BY <2>4, <2>5, <2>6, <2>7, <2>8, <2>a, <2>b, HarnessAssumption DEF Local, InScenario, Done
  <2>. QED  BY <2>1, <2>9, LocalStep
<1>7. CASE Check(h)
  <2>. DEFINE one == EvalResult(Scenario(h), H.final)
              N == [H EXCEPT !.results = Append(@, one), !.at = @ + 1, !.calls_made = 0,
                             !.final = None, !.pc = NextScenario(h)]
  <2>1. harness' = [harness EXCEPT ![h] = N] /\ H.pc = "check" /\ H.final # None
    BY <1>7 DEF Check, At, HarnessInv
  <2>2. H.list \in Lists /\ H.at \in 1..Len(H.list) /\ Len(H.list) \in Nat /\ H.final \in FinalState
    BY <1>0, <2>1, HarnessAssumption DEF Local, Locals, InScenario
  <2>3. one \in Result /\ one.scenario_name = H.list[H.at].name /\ one.actual = H.final
    <3>1. Scenario(h).name \in ScenarioNames
      BY <2>2 DEF Scenario, ScenarioNames
    <3>2. Passed(Scenario(h), H.final) \in BOOLEAN
      BY DEF Passed
    <3>. QED  BY <2>2, <3>1, <3>2 DEF EvalResult, Result, Scenario
  <2>4. H.results \in Seq(Result) /\ Append(H.results, one) \in Seq(Result)
    BY <1>0, <2>3 DEF Locals
  <2>. HIDE DEF one
  <2>5. /\ N \in Locals /\ N.pc = NextScenario(h) /\ N.at = H.at + 1
        /\ N.results = Append(H.results, one) /\ N.used = H.used
        /\ N.list = H.list /\ N.outcome = H.outcome
        /\ N.source = H.source /\ N.output_path = H.output_path /\ N.calls_made = 0
    <3>1. H.at + 1 \in Nat \ {0} /\ NextScenario(h) \in PC
      BY <1>0 DEF Locals, NextScenario, PC
    <3>. QED  BY <1>0, <2>4, <3>1 DEF Locals
  <2>6. Len(H.results) = H.at - 1 /\ Len(H.used) = H.at /\ H.at \in Nat /\ H.outcome = None
        /\ H.output_path = 0
    <3>1. H.outcome = None
      BY <1>0, <2>1 DEF Local
    <3>2. Len(H.results) = H.at - 1 /\ Len(H.used) = H.at
      BY <1>0, <2>1, <3>1, HarnessAssumption DEF Local
    <3>3. H.output_path = 0
      BY <1>0, <2>1 DEF Local
    <3>. QED  BY <2>2, <3>1, <3>2, <3>3
  <2>7. /\ Len(N.results) = H.at
        /\ N.results[H.at] = one
        /\ \A i \in 1..(H.at - 1) : N.results[i] = H.results[i]
    BY <2>4, <2>5, <2>6
  <2>8. \A i \in 1..Len(N.results) : ResultFits(N, i)
    <3>1. \A i \in 1..(H.at - 1) : ResultFits(H, i)
      BY <1>0, <2>6 DEF Local
    <3>2. H.final = Final(H.list[H.at], H.used[H.at].proposal, H.used[H.at].function)
      BY <1>0, <2>1 DEF Local
    <3>3. ResultFits(N, H.at)
      BY <2>3, <2>5, <2>7, <3>2 DEF ResultFits
    <3>4. \A i \in 1..(H.at - 1) : ResultFits(N, i)
      BY <2>5, <2>7, <3>1 DEF ResultFits
    <3>. QED  BY <2>6, <2>7, <3>3, <3>4
  <2>a. \A i \in 1..Len(N.used) : UseFits(N, i)
    <3>1. \A i \in 1..Len(H.used) : UseFits(H, i)
      BY <1>0 DEF Local
    <3>. QED  BY <2>5, <3>1 DEF UseFits
  <2>9. \/ N.pc = "scenario" /\ H.at < Len(H.list)
        \/ N.pc = "return" /\ H.at = Len(H.list)
    BY <2>2, <2>5, <2>6 DEF NextScenario
  <2>b. /\ N.outcome = None /\ N.output_path = 0 /\ N.list \in Lists
        /\ Len(N.used) = N.at - 1 /\ Len(N.results) = N.at - 1 /\ N.at \in Nat
        /\ \/ N.pc = "scenario" /\ N.at \in 1..Len(N.list)
           \/ N.pc = "return" /\ N.at = Len(N.list) + 1
    BY <2>2, <2>5, <2>6, <2>7, <2>9
  <2>. HIDE DEF N
  <2>10. Local(N)
    BY <2>5, <2>8, <2>a, <2>b, HarnessAssumption DEF Local, InScenario, Done
  <2>. QED  BY <2>1, <2>10, LocalStep
<1>8. CASE Propagate(h) \/ PersistRaises(h)
  <2>. DEFINE N == [H EXCEPT !.results = <<>>, !.outcome = "raised", !.pc = "ended"]
  <2>1. harness' = [harness EXCEPT ![h] = N]
    BY <1>8 DEF Propagate, PersistRaises, HarnessInv
  <2>2. /\ N \in Locals /\ N.results = <<>> /\ N.outcome = "raised" /\ N.pc = "ended"
        /\ N.list = H.list /\ N.used = H.used /\ N.source = H.source
    <3>1. <<>> \in Seq(Result)
      OBVIOUS
    <3>. QED  BY <1>0, <3>1 DEF Locals, PC
  <2>. HIDE DEF N
  <2>3. Local(N)
    BY <1>0, <2>2, RaiseStep
  <2>. QED  BY <2>1, <2>3, LocalStep
<1>9. CASE Return(h) \/ WriteFile(h)
  <2>. DEFINE N == [H EXCEPT !.outcome = "results", !.pc = "ended"]
  <2>1. harness' = [harness EXCEPT ![h] = N] /\ H.pc \in Done
    BY <1>9 DEF Return, WriteFile, At, HarnessInv, Done
  <2>2. /\ N \in Locals /\ N.outcome = "results" /\ N.pc = "ended" /\ N.source = H.source
        /\ N.results = H.results /\ N.used = H.used /\ N.list = H.list /\ N.at = H.at
    BY <1>0 DEF Locals, PC
  <2>3. Local(N)
    BY <1>0, <2>1, <2>2, ReturnStep
  <2>. QED  BY <2>1, <2>3, LocalStep
<1>10. CASE NameFile(h)
  <2>. DEFINE N == [H EXCEPT !.output_path = now, !.pc = "open"]
  <2>1. harness' = [harness EXCEPT ![h] = N] /\ H.pc \in Done
    BY <1>10 DEF NameFile, At, HarnessInv, Done
  <2>2. /\ N \in Locals /\ N.outcome = H.outcome /\ N.pc = "open" /\ N.source = H.source
        /\ N.results = H.results /\ N.used = H.used /\ N.list = H.list /\ N.at = H.at
        /\ N.output_path # 0
    <3>1. now \in 0..MaxTime /\ now # 0
      BY <1>0
    <3>. QED  BY <1>0, <3>1 DEF Locals, PC
  <2>. HIDE DEF N
  <2>3. Local(N)
    BY <1>0, <2>1, <2>2, ReturnStep
  <2>. QED  BY <2>1, <2>3, LocalStep
<1>11. CASE OpenFile(h)
  <2>. DEFINE N == [H EXCEPT !.pc = "write"]
  <2>1. harness' = [harness EXCEPT ![h] = N] /\ H.pc = "open"
    BY <1>11 DEF OpenFile, At, HarnessInv
  <2>2. /\ N \in Locals /\ N.outcome = H.outcome /\ N.pc = "write" /\ N.source = H.source
        /\ N.results = H.results /\ N.used = H.used /\ N.list = H.list /\ N.at = H.at
        /\ N.output_path # 0
    <3>1. H.output_path # 0
      BY <1>0, <2>1 DEF Local
    <3>. QED  BY <1>0, <3>1 DEF Locals, PC
  <2>. HIDE DEF N
  <2>3. Local(N)
    BY <1>0, <2>1, <2>2, ReturnStep DEF Done
  <2>. QED  BY <2>1, <2>3, LocalStep
<1>. QED  BY <1>1, <1>2, <1>3, <1>4, <1>5, <1>6, <1>7, <1>8, <1>9, <1>10, <1>11 DEF Go, persist_results

(* The scenario at hand is one.                                              *)
LEMMA ScenarioIsOne ==
    ASSUME HarnessInv, NEW h \in Harnesses, harness[h].pc \in InScenario
    PROVE  IsScenario(Scenario(h))
BY HarnessAssumption DEF HarnessInv, Locally, Local, Scenario

(* Once harnesses overlapped, they have.                                     *)
LEMMA OverlappedStep ==
    ASSUME overlapped \in BOOLEAN, [Next]_vars
    PROVE  overlapped' \in BOOLEAN /\ (overlapped => overlapped')
<1>1. ASSUME NEW h \in Harnesses, NEW scenarios \in Lists, Start(h, scenarios)
      PROVE  overlapped' \in BOOLEAN /\ (overlapped => overlapped')
  <2>1. overlapped' = (overlapped \/ \E g \in Harnesses : Busy(g))
    BY <1>1 DEF Start
  <2>. HIDE DEF Busy
  <2>. QED  BY <2>1
<1>2. CASE overlapped' = overlapped
  BY <1>2
<1>3. ASSUME NEW h \in Harnesses, Skip(h) \/ Go(h) PROVE overlapped' = overlapped
  BY <1>3 DEF Skip, Go, Begin, Patch, Invoke, ProviderRaises, Clear, Restore, Check, Propagate,
     Return, persist_results, NameFile, OpenFile, WriteFile, PersistRaises
<1>. QED  BY <1>1, <1>2, <1>3 DEF Next, vars, Tick

(* The table, the clock and the locals of every harness stay well formed.    *)
LEMMA NextHarnessInv == HarnessInv /\ [Next]_vars => HarnessInv'
<1>. SUFFICES ASSUME HarnessInv, [Next]_vars PROVE HarnessInv'
  OBVIOUS
<1>1. table' \in Table
  <2>1. ASSUME NEW h \in Harnesses, Patch(h) PROVE table' \in Table
    <3>1. IsScenario(Scenario(h))
      BY <2>1, ScenarioIsOne DEF Patch, At, InScenario
    <3>. QED  BY <2>1, <3>1 DEF Patch, IsScenario, Table, HarnessInv
  <2>2. ASSUME NEW h \in Harnesses, Restore(h) PROVE table' \in Table
    <3>1. harness[h].saved \in Table
      BY DEF HarnessInv, Locals
    <3>. QED  BY <2>2, <3>1 DEF Restore, Table, HarnessInv
  <2>3. ASSUME NEW h \in Harnesses, Clear(h) PROVE table' \in Table
    BY <2>3 DEF Clear, Table
  <2>4. CASE table' = table
    BY <2>4 DEF HarnessInv
  <2>. QED  BY <2>1, <2>2, <2>3, <2>4 DEF Next, vars, Tick, Start, Skip, Go, Begin, Invoke,
            ProviderRaises, Check, Propagate, Return,
            persist_results, NameFile, OpenFile, WriteFile, PersistRaises
<1>2. now' \in 1..MaxTime
  <2>1. CASE Tick
    BY <2>1, HarnessAssumption DEF Tick, HarnessInv
  <2>2. CASE now' = now
    BY <2>2 DEF HarnessInv
  <2>. QED  BY <2>1, <2>2 DEF Next, vars, Start, Skip, Go, Begin, Patch, Invoke, ProviderRaises,
            Clear, Restore, Check, Propagate, Return,
            persist_results, NameFile, OpenFile, WriteFile, PersistRaises
<1>3. harness' \in [Harnesses -> Locals] /\ Locally'
  <2>1. CASE harness' = harness
    BY <2>1 DEF HarnessInv, Locally
  <2>. QED  BY <2>1, NextLocal DEF Next, vars, Tick
<1>4. overlapped' \in BOOLEAN
  BY OverlappedStep DEF HarnessInv
<1>. QED  BY <1>1, <1>2, <1>3, <1>4 DEF HarnessInv

LEMMA HarnessInvariant == Init /\ [][Next]_vars => []HarnessInv
  BY HarnessInit, NextHarnessInv, PTL

(* The dispatch table and the locals of every harness keep their types, and  *)
(* while it has not raised a harness has one result for each scenario it has *)
(* done.                                                                     *)
THEOREM HarnessTypeCorrect == Spec => []TypeOK
<1>1. HarnessInv => TypeOK
  BY DEF HarnessInv, Locally, Local, Locals, TypeOK
<1>. QED  BY <1>1, HarnessInvariant, PTL DEF Spec

-----------------------------------------------------------------------------
(* A stub cannot complete a run of a tool whose effect is checked: whatever  *)
(* else is running, a result that says completed for a refund or a change of *)
(* status was the tool function's own work.                                  *)
LEMMA StubsDoNotVerify ==
    ASSUME NEW scenario, IsScenario(scenario), NEW proposal \in Proposals, NEW function,
           Final(scenario, proposal, function) \in FinalState,
           Final(scenario, proposal, function).run_status = "completed",
           proposal.tool_name # "add_ticket_note"
    PROVE  function = "real"
<1>. DEFINE command == CommandOf(proposal)
<1>. SUFFICES ASSUME function # "real" PROVE FALSE
  OBVIOUS
<1>1. /\ authorize(proposal, scenario.ticket).decision # "denied"
      /\ Verified(scenario, proposal, function)
  BY HarnessAssumption DEF Final, Ended
<1>2. authorize(proposal, scenario.ticket).decision = "approved"
  BY <1>1 DEF authorize, Denied, Approved
<1>3. scenario.ticket \in Ticket
  BY DEF IsScenario
<1>4. command \in AuthorizedCommand /\ Permitted(command, scenario.ticket)
  BY <1>2, <1>3, ApprovalIsPermission, ApprovalCarriesACommand
<1>5. command \in UpdateTicketStatusCommand \cup IssueRefundCommand
  BY <1>4 DEF AuthorizedCommand, AddTicketNoteCommand, CommandOf
<1>6. verify(command, scenario.ticket, scenario.ticket)
  BY <1>1 DEF Verified
<1>. QED  BY <1>3, <1>4, <1>5, <1>6, IdleToolsAreCaught

(* A result belongs to a scenario of the list.                               *)
LEMMA ListedScenario ==
    ASSUME NEW H, Local(H), NEW i \in 1..Len(H.results)
    PROVE  H.list \in Lists /\ i \in 1..Len(H.list) /\ IsScenario(H.list[i])
<1>1. H.results # <<>> /\ Len(H.results) \in Nat /\ Len(H.results) = H.at - 1 /\ H.at \in Nat
  BY DEF Local, Locals
<1>2. H.list \in Lists /\ H.at - 1 <= Len(H.list) /\ Len(H.list) \in Nat
  BY <1>1, HarnessAssumption DEF Local, Locals, InScenario, Done, PC
<1>. QED  BY <1>1, <1>2, HarnessAssumption

(* Whatever harnesses run beside it, a foreign stub can make a run fail but  *)
(* never complete.                                                           *)
THEOREM StubsNeverComplete == Spec => []StubsOnlyFailRuns
<1>1. ASSUME HarnessInv PROVE StubsOnlyFailRuns
  <2>. SUFFICES ASSUME NEW h \in Harnesses, NEW i \in DOMAIN harness[h].results
       PROVE  LET run == harness[h].used[i]
                  actual == harness[h].results[i].actual
              IN  /\ (actual.run_status = "completed" /\ run.proposal.tool_name # "add_ticket_note")
                        => run.function = "real"
                  /\ run.function = "real" =>
                        actual = Final(harness[h].list[i], run.proposal, "real")
    BY DEF StubsOnlyFailRuns
  <2>. DEFINE H == harness[h]
  <2>1. Local(H) /\ i \in 1..Len(H.results) /\ Len(H.results) <= Len(H.used)
        /\ H.used \in Seq(Use) /\ H.results \in Seq(Result)
    BY <1>1 DEF HarnessInv, Locally, Local, Locals
  <2>2. ResultFits(H, i) /\ H.used[i] \in Use
    BY <2>1 DEF Local
  <2>3. IsScenario(H.list[i])
    BY <2>1, ListedScenario
  <2>4. H.results[i].actual \in FinalState
    <3>1. H.results[i] \in Result
      BY <2>1
    <3>. QED  BY <3>1 DEF Result
  <2>. QED  BY <2>2, <2>3, <2>4, StubsDoNotVerify DEF ResultFits, Use
<1>. QED  BY <1>1, HarnessInvariant, PTL DEF Spec

-----------------------------------------------------------------------------
(* A harness that returns has a result and a run for each of its scenarios.  *)
LEMMA AllScenarios ==
    ASSUME NEW h, Local(harness[h]), harness[h].outcome = "results"
    PROVE  /\ Names(harness[h].results) = AllNames(h)
           /\ DOMAIN harness[h].used = DOMAIN harness[h].list
           /\ \A i \in DOMAIN harness[h].list : UseFits(harness[h], i)
<1>. DEFINE H == harness[h]
<1>1. H.results \in Seq(Result) /\ H.used \in Seq(Use)
  BY DEF Local, Locals
<1>2. /\ H.list \in Lists /\ DOMAIN H.list = 1..Len(H.list) /\ Len(H.list) \in Nat
      /\ Len(H.results) = Len(H.list) /\ Len(H.used) = Len(H.list)
  BY HarnessAssumption DEF Local
<1>3. DOMAIN H.results = DOMAIN H.list /\ DOMAIN H.used = DOMAIN H.list
  BY <1>1, <1>2
<1>4. \A i \in DOMAIN H.list : H.results[i].scenario_name = H.list[i].name
  BY <1>2 DEF Local, ResultFits
<1>5. \A i \in DOMAIN H.list : UseFits(H, i)
  BY <1>2 DEF Local
<1>. QED  BY <1>3, <1>4, <1>5 DEF Names, AllNames

(* A harness that answers with results has one for each scenario of its list,*)
(* in order, each from a run that was fed that scenario's script.            *)
THEOREM OutcomesAreWhole == Spec => []OutcomesTellTheRun
<1>1. HarnessInv => OutcomesTellTheRun
  BY AllScenarios DEF HarnessInv, Locally, OutcomesTellTheRun, UseFits
<1>. QED  BY <1>1, HarnessInvariant, PTL DEF Spec

-----------------------------------------------------------------------------
(* Whoever a file is by wrote it last; if it is whole, that is what its      *)
(* writer returned.                                                          *)
FileFits(second) ==
    files[second] # None =>
        LET h == files[second].by
        IN  /\ files[second] \in [by : Harnesses, results : Seq(Result), whole : BOOLEAN]
            /\ files[second].whole =>
                  harness[h].outcome = "results" /\ files[second].results = harness[h].results

(* What a harness finds in a file whose name nobody else has taken.          *)
SharesItsFile(h) == \E g \in Harnesses \ {h} : harness[g].output_path = harness[h].output_path

OwnFile(h) ==
    (harness[h].output_path # 0 /\ ~SharesItsFile(h)) =>
        /\ harness[h].pc = "write" => files[harness[h].output_path] = Unfinished(h)
        /\ harness[h].outcome = "results" => files[harness[h].output_path] = Whole(h)

FilesFit ==
    /\ files = [second \in 1..MaxTime |-> files[second]]
    /\ \A second \in 1..MaxTime : FileFits(second)
    /\ \A h \in Harnesses : OwnFile(h)

(* A harness that ended does nothing more.                                   *)
LEMMA EndedIsEnded ==
    ASSUME HarnessInv, [Next]_vars, NEW h \in Harnesses, harness[h].pc = "ended"
    PROVE  harness'[h] = harness[h]
<1>1. ASSUME NEW g \in Harnesses, (\E scenarios \in Lists : Start(g, scenarios)) \/ Skip(g) \/ Go(g)
      PROVE  harness'[h] = harness[h]
  <2>1. harness[g].pc # "ended"
    BY <1>1 DEF Start, Skip, Go, At, Begin, Patch, Invoke, ProviderRaises, Clear, Restore, Check,
       Propagate, Return, persist_results, NameFile, OpenFile, WriteFile, PersistRaises
  <2>2. g # h /\ harness \in [Harnesses -> Locals]
    BY <2>1 DEF HarnessInv
  <2>. QED  BY <1>1, <2>2 DEF Start, Skip, Go, Begin, Patch, Invoke, ProviderRaises, Clear, Restore,
            Check, Propagate, Return, persist_results, NameFile, OpenFile, WriteFile, PersistRaises
<1>2. CASE harness' = harness
  BY <1>2
<1>. QED  BY <1>1, <1>2 DEF Next, vars, Tick

(* What a step of a harness does to its path and to the files.               *)
LEMMA FileStep ==
    ASSUME HarnessInv, files = [second \in 1..MaxTime |-> files[second]], NEW h \in Harnesses,
           \/ \E scenarios \in Lists : Start(h, scenarios)
           \/ Skip(h)
           \/ Go(h)
    PROVE  LET s == harness[h].output_path IN
           /\ \A g \in Harnesses \ {h} : harness'[g] = harness[g]
           /\ harness'[h].output_path # s => s = 0 /\ files' = files /\ harness'[h].outcome = None
                 /\ harness'[h].pc = "open"
           /\ \A second \in 1..MaxTime : second # s => files'[second] = files[second]
           /\ files' = [second \in 1..MaxTime |-> files'[second]]
           /\ s # 0 => s \in 1..MaxTime
           /\ harness[h].outcome = None
           /\ \/ files' = files
              \/ s \in 1..MaxTime /\ files'[s] = Unfinished(h)
              \/ s \in 1..MaxTime /\ files'[s] = Whole(h) /\ WriteFile(h)
           /\ harness'[h].pc = "write" => files'[s] = Unfinished(h)
           /\ (s # 0 /\ harness'[h].outcome = "results") =>
                  /\ harness[h].pc = "write"
                  /\ files[s].by = h => files'[s] = Whole(h)'
           /\ WriteFile(h) => harness'[h].outcome = "results" /\ harness'[h].results = harness[h].results
<1>. DEFINE H == harness[h]
            s == H.output_path
<1>0. Local(H) /\ H \in Locals /\ now \in 1..MaxTime /\ MaxTime \in Nat
  BY HarnessAssumption DEF HarnessInv, Locally
<1>1. \A g \in Harnesses \ {h} : harness'[g] = harness[g]
  BY DEF HarnessInv, Start, Skip, Go, Begin, Patch, Invoke, ProviderRaises, Clear, Restore,
     Check, Propagate, Return, persist_results, NameFile, OpenFile, WriteFile, PersistRaises
<1>2. s \in 0..MaxTime /\ (s # 0 => s \in 1..MaxTime)
  BY <1>0 DEF Locals
<1>3. H.pc # "ended" /\ H.outcome = None
  <2>1. H.pc # "ended"
    BY DEF Start, Skip, Go, At, Begin, Patch, Invoke, ProviderRaises, Clear, Restore, Check,
       Propagate, Return, persist_results, NameFile, OpenFile, WriteFile, PersistRaises
  <2>. QED  BY <1>0, <2>1 DEF Local
<1>4. CASE NameFile(h)
  <2>1. harness'[h] = [H EXCEPT !.output_path = now, !.pc = "open"] /\ files' = files /\ H.pc = "return"
    BY <1>4 DEF NameFile, At, HarnessInv
  <2>2. s = 0 /\ harness'[h].outcome = None /\ harness'[h].pc = "open"
    BY <1>0, <1>3, <2>1 DEF Local, Locals
  <2>3. ~WriteFile(h)
    BY <2>1 DEF WriteFile, At
  <2>. QED  BY <1>1, <1>2, <1>3, <2>1, <2>2, <2>3, HarnessAssumption
<1>5. CASE OpenFile(h)
  <2>1. /\ harness'[h] = [H EXCEPT !.pc = "write"] /\ H.pc = "open"
        /\ files' = [files EXCEPT ![s] = Unfinished(h)]
    BY <1>5 DEF OpenFile, At, HarnessInv
  <2>2. s # 0 /\ harness'[h].output_path = s /\ harness'[h].outcome = None
    BY <1>0, <1>3, <2>1 DEF Local, Locals
  <2>3. ~WriteFile(h)
    BY <2>1 DEF WriteFile, At
  <2>4. files'[s] = Unfinished(h) /\ \A second \in 1..MaxTime : second # s => files'[second] = files[second]
    BY <1>2, <2>1, <2>2
  <2>. QED  BY <1>1, <1>2, <1>3, <2>1, <2>2, <2>3, <2>4, HarnessAssumption
<1>6. CASE WriteFile(h)
  <2>1. /\ harness'[h] = [H EXCEPT !.outcome = "results", !.pc = "ended"] /\ H.pc = "write"
        /\ \/ files' = [files EXCEPT ![s] = Whole(h)]
           \/ files[s].by # h /\ files' = [files EXCEPT ![s] = Unfinished(h)]
    BY <1>6 DEF WriteFile, At, HarnessInv
  <2>2. /\ s # 0 /\ harness'[h].output_path = s /\ harness'[h].outcome = "results"
        /\ harness'[h].pc = "ended" /\ harness'[h].results = H.results
    BY <1>0, <1>3, <2>1 DEF Local, Locals
  <2>3. Whole(h)' = Whole(h)
    BY <2>2 DEF Whole
  <2>4. \A second \in 1..MaxTime : second # s => files'[second] = files[second]
    BY <1>2, <2>1
  <2>5. /\ files'[s] = Whole(h) \/ (files[s].by # h /\ files'[s] = Unfinished(h))
        /\ files' = [second \in 1..MaxTime |-> files'[second]]
    BY <1>2, <2>1, <2>2
  <2>. QED  BY <1>1, <1>2, <1>3, <1>6, <2>1, <2>2, <2>3, <2>4, <2>5, HarnessAssumption
<1>7. CASE PersistRaises(h)
  <2>1. /\ harness'[h] = [H EXCEPT !.results = <<>>, !.outcome = "raised", !.pc = "ended"]
        /\ files' = files \/ files' = [files EXCEPT ![s] = Unfinished(h)]
        /\ H.pc \in {"open", "write"}
    BY <1>7 DEF PersistRaises, At, HarnessInv
  <2>2. /\ s # 0 /\ harness'[h].output_path = s /\ harness'[h].outcome = "raised"
        /\ harness'[h].pc = "ended"
    BY <1>0, <2>1 DEF Local, Locals
  <2>3. ~WriteFile(h)
    BY <2>1, <2>2 DEF WriteFile, HarnessInv, Locals, Local
  <2>4. /\ \A second \in 1..MaxTime : second # s => files'[second] = files[second]
        /\ files' = [second \in 1..MaxTime |-> files'[second]]
        /\ files' = files \/ files'[s] = Unfinished(h)
    BY <1>2, <2>1, <2>2
  <2>. QED  BY <1>1, <1>2, <1>3, <2>1, <2>2, <2>3, <2>4, HarnessAssumption
<1>8. CASE \/ (\E scenarios \in Lists : Start(h, scenarios)) \/ Skip(h) \/ Begin(h) \/ Patch(h)
           \/ (\E p \in Proposals : Invoke(h, p)) \/ ProviderRaises(h) \/ Clear(h) \/ Restore(h)
           \/ Check(h) \/ Propagate(h) \/ Return(h)
  <2>1. files' = files /\ H.pc \notin {"open", "write"}
    BY <1>8 DEF Start, Skip, At, Begin, Patch, Invoke, ProviderRaises, Clear, Restore, Check,
       Propagate, Return
  <2>2. harness'[h].output_path = H.output_path /\ harness'[h].pc # "write"
    <3>1. ASSUME NEW scenarios \in Lists, Start(h, scenarios)
          PROVE  harness'[h].output_path = H.output_path /\ harness'[h].pc # "write"
      <4>1. PICK source \in {"script", "model"} : harness' =
              [harness EXCEPT ![h].list = scenarios, ![h].source = source, ![h].pc = "scenario"]
        BY <3>1 DEF Start
      <4>. QED  BY <1>0, <4>1 DEF HarnessInv, Locals
    <3>6. CASE Skip(h) \/ Patch(h)
      BY <1>0, <3>6 DEF HarnessInv, Locals, Skip, Patch
    <3>7. CASE Begin(h)
      <4>. DEFINE pc == IF Patches(h) THEN "patch" ELSE "run"
                  saved == IF Patches(h) THEN table ELSE H.saved
      <4>1. harness'[h] = [H EXCEPT !.calls_made = 0, !.saved = saved, !.pc = pc]
        BY <3>7 DEF HarnessInv, Begin
      <4>2. pc # "write"
        OBVIOUS
      <4>. HIDE DEF pc, saved
      <4>. QED  BY <1>0, <4>1, <4>2 DEF Locals
    <3>2. ASSUME NEW p \in Proposals, Invoke(h, p)
          PROVE  harness'[h].output_path = H.output_path /\ harness'[h].pc # "write"
      BY <1>0, <3>2 DEF HarnessInv, Locals, Invoke
    <3>3. CASE ProviderRaises(h) \/ Clear(h) \/ Restore(h)
      BY <1>0, <3>3 DEF HarnessInv, Locals, ProviderRaises, Clear, Restore
    <3>4. CASE Check(h)
      BY <1>0, <3>4 DEF HarnessInv, Locals, Check, NextScenario
    <3>5. CASE Propagate(h) \/ Return(h)
      BY <1>0, <3>5 DEF HarnessInv, Locals, Propagate, Return
    <3>. QED  BY <1>8, <3>1, <3>2, <3>3, <3>4, <3>5, <3>6, <3>7
  <2>4. s = 0
    BY <1>0, <1>3, <2>1 DEF Local
  <2>5. ~WriteFile(h)
    BY <2>1 DEF WriteFile, At
  <2>. QED  BY <1>1, <1>2, <1>3, <2>1, <2>2, <2>4, <2>5, HarnessAssumption
<1>. QED  BY <1>4, <1>5, <1>6, <1>7, <1>8 DEF Go, persist_results

LEMMA NextFilesFit == HarnessInv /\ FilesFit /\ [Next]_vars => FilesFit'
<1>. SUFFICES ASSUME HarnessInv, FilesFit, [Next]_vars PROVE FilesFit'
  OBVIOUS
<1>1. CASE harness' = harness /\ files' = files
  BY <1>1 DEF FilesFit, FileFits, OwnFile, SharesItsFile, Unfinished, Whole
<1>2. ASSUME NEW h \in Harnesses,
             (\E scenarios \in Lists : Start(h, scenarios)) \/ Skip(h) \/ Go(h)
      PROVE  FilesFit'
  <2>. DEFINE s == harness[h].output_path
  <2>1. /\ \A g \in Harnesses \ {h} : harness'[g] = harness[g]
        /\ harness'[h].output_path # s => s = 0 /\ files' = files /\ harness'[h].outcome = None
              /\ harness'[h].pc = "open"
        /\ \A second \in 1..MaxTime : second # s => files'[second] = files[second]
        /\ files' = [second \in 1..MaxTime |-> files'[second]]
        /\ s # 0 => s \in 1..MaxTime
        /\ harness[h].outcome = None
    BY <1>2, FileStep DEF FilesFit
  <2>2. /\ \/ files' = files
           \/ s \in 1..MaxTime /\ files'[s] = Unfinished(h)
           \/ s \in 1..MaxTime /\ files'[s] = Whole(h) /\ WriteFile(h)
        /\ harness'[h].pc = "write" => files'[s] = Unfinished(h)
        /\ (s # 0 /\ harness'[h].outcome = "results") =>
               /\ harness[h].pc = "write"
               /\ files[s].by = h => files'[s] = Whole(h)'
        /\ WriteFile(h) => harness'[h].outcome = "results" /\ harness'[h].results = harness[h].results
    BY <1>2, FileStep DEF FilesFit
  <2>3. ASSUME NEW second \in 1..MaxTime PROVE FileFits(second)'
    <3>1. CASE files'[second] = files[second]
      <4>1. files[second] # None /\ files[second].whole => files[second].by # h
        BY <2>1, HarnessAssumption DEF FilesFit, FileFits
      <4>. QED  BY <2>1, <3>1, <4>1 DEF FilesFit, FileFits
    <3>2. CASE second = s /\ files'[s] = Unfinished(h)
      <4>1. <<>> \in Seq(Result)
        OBVIOUS
      <4>. QED  BY <3>2, <4>1 DEF FileFits, Unfinished
    <3>3. CASE second = s /\ files'[s] = Whole(h) /\ WriteFile(h)
      <4>1. harness[h].results \in Seq(Result)
        BY DEF HarnessInv, Locals
      <4>. QED  BY <2>2, <3>3, <4>1 DEF FileFits, Whole
    <3>. QED  BY <2>1, <2>2, <3>1, <3>2, <3>3
  <2>4. ASSUME NEW g \in Harnesses PROVE OwnFile(g)'
    <3>. SUFFICES ASSUME harness'[g].output_path # 0, ~SharesItsFile(g)'
         PROVE  /\ harness'[g].pc = "write" => files'[harness'[g].output_path] = Unfinished(g)
                /\ harness'[g].outcome = "results" => files'[harness'[g].output_path] = Whole(g)'
      BY DEF OwnFile, Unfinished
    <3>1. CASE g = h
      <4>1. CASE harness'[h].output_path # s
        BY <2>1, <3>1, <4>1, HarnessAssumption
      <4>2. CASE harness'[h].output_path = s
        <5>1. ~SharesItsFile(h)
          BY <2>1, <3>1, <4>2 DEF SharesItsFile
        <5>2. harness[h].pc = "write" => files[s].by = h
          <6>1. OwnFile(h) /\ s # 0
            BY <3>1, <4>2 DEF FilesFit
          <6>. QED  BY <5>1, <6>1 DEF OwnFile, Unfinished
        <5>. QED  BY <2>2, <3>1, <4>2, <5>2
      <4>. QED  BY <4>1, <4>2
    <3>2. CASE g # h
      <4>1. harness'[g] = harness[g]
        BY <2>1, <3>2
      <4>2. harness[g].output_path \in 1..MaxTime
        BY <4>1, HarnessAssumption DEF HarnessInv, Locals
      <4>3. harness'[h].output_path # harness[g].output_path
        BY <3>2, <4>1 DEF SharesItsFile
      <4>4. s # harness[g].output_path
        BY <2>1, <4>1, <4>3
      <4>5. ~SharesItsFile(g)
        BY <2>1, <4>1, <4>4 DEF SharesItsFile
      <4>6. files'[harness[g].output_path] = files[harness[g].output_path]
        BY <2>1, <4>2, <4>4
      <4>. QED  BY <4>1, <4>5, <4>6 DEF FilesFit, OwnFile, Whole
    <3>. QED  BY <3>1, <3>2
  <2>. QED  BY <2>1, <2>3, <2>4 DEF FilesFit
<1>. QED  BY <1>1, <1>2 DEF Next, vars, Tick

(* A result file that is whole is what its writer returned, all of it, and   *)
(* who returned has such a file, unless another took the same name: also     *)
(* when a write fails, at any moment, and when harnesses overlap.            *)
THEOREM FilesAreTrue == Spec => []FilesTellTheRun
<1>1. Init => FilesFit
  BY DEF Init, FilesFit, FileFits, OwnFile, NotStarted
<1>2. ASSUME HarnessInv, FilesFit PROVE FilesTellTheRun
  <2>1. ASSUME NEW second \in 1..MaxTime, files[second] # None, files[second].whole
        PROVE  LET h == files[second].by
               IN  /\ harness[h].outcome = "results"
                   /\ files[second].results = harness[h].results
                   /\ Names(files[second].results) = AllNames(h)
    <3>1. /\ files[second].by \in Harnesses /\ harness[files[second].by].outcome = "results"
          /\ files[second].results = harness[files[second].by].results
      BY <1>2, <2>1 DEF FilesFit, FileFits
    <3>. QED  BY <1>2, <3>1, AllScenarios DEF HarnessInv, Locally
  <2>2. ASSUME NEW h \in Harnesses, harness[h].outcome = "results", harness[h].output_path # 0,
               \A g \in Harnesses \ {h} : harness[g].output_path # harness[h].output_path
        PROVE  files[harness[h].output_path] = Whole(h)
    BY <1>2, <2>2 DEF FilesFit, OwnFile, SharesItsFile
  <2>. QED  BY <2>1, <2>2 DEF FilesTellTheRun
<1>. QED  BY <1>1, <1>2, HarnessInvariant, NextFilesFit, PTL DEF Spec

-----------------------------------------------------------------------------
(* Harnesses that took turns so far.  What the table holds at each stage of  *)
(* the one that is busy, and what its runs have met in it.                   *)
Overridden(scenario) == DOMAIN scenario.tool_function_overrides # {}

Patched(scenario) ==
    [tool \in ToolName |->
        IF tool \in DOMAIN scenario.tool_function_overrides
        THEN scenario.tool_function_overrides[tool] ELSE "real"]

Holds(H, t) ==
    /\ H.pc \in {"scenario", "patch", "check", "return", "open", "write"} => t = RealTools
    /\ H.pc \in {"patch", "clear", "restore"} => Overridden(H.list[H.at]) /\ H.saved = RealTools
    /\ H.pc = "run" =>
          IF Overridden(H.list[H.at]) THEN t = Patched(H.list[H.at]) /\ H.saved = RealTools
          ELSE t = RealTools

OwnUses(H) ==
    \A i \in 1..Len(H.used) : H.used[i].function = OwnFunction(H.list[i], H.used[i].proposal)

TakingTurns ==
    /\ \A g, h \in Harnesses : Busy(g) /\ Busy(h) => g = h
    /\ (\A h \in Harnesses : ~Busy(h)) => table = RealTools
    /\ \A h \in Harnesses : Busy(h) => Holds(harness[h], table)
    /\ \A h \in Harnesses : OwnUses(harness[h])

Turns == ~overlapped => TakingTurns

(* A step of the one busy harness.                                           *)
LEMMA TurnStep ==
    ASSUME HarnessInv, TakingTurns, NEW h \in Harnesses, \A g \in Harnesses \ {h} : ~Busy(g),
           NEW N, harness' = [harness EXCEPT ![h] = N],
           OwnUses(N),
           N.pc \notin {"idle", "ended"} => Holds(N, table'),
           N.pc \in {"idle", "ended"} => table' = RealTools
    PROVE  TakingTurns'
<1>1. harness'[h] = N /\ \A g \in Harnesses \ {h} : harness'[g] = harness[g]
  BY DEF HarnessInv
<1>2. Busy(h)' <=> N.pc \notin {"idle", "ended"}
  BY <1>1 DEF Busy
<1>3. \A g \in Harnesses \ {h} : ~Busy(g)'
  BY <1>1 DEF Busy
<1>. QED  BY <1>1, <1>2, <1>3 DEF TakingTurns

(* What the table has for a proposal is what the scenario would have alone.  *)
LEMMA FunctionIsOwn ==
    ASSUME HarnessInv, NEW h \in Harnesses, harness[h].pc = "run", Holds(harness[h], table),
           NEW p \in Proposals
    PROVE  FunctionFor(p) = OwnFunction(Scenario(h), p)
<1>1. IsScenario(Scenario(h))
  BY ScenarioIsOne DEF InScenario
<1>2. CASE Overridden(Scenario(h))
  BY <1>1, <1>2 DEF Holds, Scenario, Patched, FunctionFor, OwnFunction, IsScenario
<1>3. CASE ~Overridden(Scenario(h))
  BY <1>1, <1>3 DEF Holds, Scenario, Overridden, RealTools, FunctionFor, OwnFunction, IsScenario
<1>. QED  BY <1>2, <1>3

LEMMA NextTurns == HarnessInv /\ Turns /\ [Next]_vars => Turns'
<1>. SUFFICES ASSUME HarnessInv, TakingTurns, [Next]_vars, ~overlapped' PROVE TakingTurns'
  <2>1. ASSUME HarnessInv, [Next]_vars PROVE overlapped => overlapped'
    BY <2>1, OverlappedStep DEF HarnessInv
  <2>. QED  BY <2>1 DEF Turns
<1>1. CASE harness' = harness /\ table' = table
  BY <1>1 DEF TakingTurns, Busy
<1>2. ASSUME NEW h \in Harnesses, (\E scenarios \in Lists : Start(h, scenarios)) \/ Skip(h) \/ Go(h)
      PROVE  TakingTurns'
  <2>. DEFINE H == harness[h]
  <2>0. Local(H) /\ H \in Locals /\ OwnUses(H)
    BY DEF HarnessInv, Locally, TakingTurns
  <2>1. ASSUME NEW scenarios \in Lists, Start(h, scenarios) PROVE TakingTurns'
    <3>1. PICK source \in {"script", "model"} :
            harness' = [harness EXCEPT ![h].list = scenarios, ![h].source = source, ![h].pc = "scenario"]
      BY <2>1 DEF Start
    <3>. DEFINE N == [H EXCEPT !.list = scenarios, !.source = source, !.pc = "scenario"]
    <3>2. harness' = [harness EXCEPT ![h] = N]
      BY <3>1 DEF HarnessInv
    <3>3. \A g \in Harnesses : ~Busy(g)
      BY <2>1 DEF Start, Busy
    <3>4. table' = RealTools /\ H.used = <<>>
      BY <2>0, <2>1, <3>3 DEF Start, TakingTurns, At, Local
    <3>5. N.pc = "scenario" /\ N.used = <<>>
      BY <2>0, <3>4 DEF Locals
    <3>6. OwnUses(N) /\ Holds(N, table')
      BY <3>4, <3>5 DEF OwnUses, Holds
    <3>. HIDE DEF N
    <3>. QED  BY <3>2, <3>3, <3>5, <3>6, TurnStep
  <2>2. CASE Skip(h)
    <3>. DEFINE N == [H EXCEPT !.source = "model", !.outcome = "skipped", !.pc = "ended"]
    <3>1. harness' = [harness EXCEPT ![h] = N] /\ table' = table /\ ~Busy(h)
      BY <2>2 DEF Skip, HarnessInv, At, Busy
    <3>2. N.pc = "ended" /\ N.used = H.used /\ N.list = H.list
      BY <2>0 DEF Locals
    <3>3. \A g \in Harnesses : Busy(g)' <=> Busy(g)
      BY <3>1, <3>2 DEF Busy, HarnessInv
    <3>4. OwnUses(N)
      BY <2>0, <3>2 DEF OwnUses
    <3>5. harness'[h] = N /\ \A g \in Harnesses \ {h} : harness'[g] = harness[g]
      BY <3>1 DEF HarnessInv
    <3>. HIDE DEF N
    <3>. QED  BY <3>1, <3>3, <3>4, <3>5 DEF TakingTurns
  <2>3. CASE Go(h)
    <3>1. /\ Busy(h) /\ Holds(H, table)
          /\ \A g \in Harnesses \ {h} : ~Busy(g)
      <4>1. Busy(h)
        BY <2>3 DEF Go, At, Busy, Begin, Patch, Invoke, ProviderRaises, Clear, Restore, Check,
           Propagate, Return,
           persist_results, NameFile, OpenFile, WriteFile, PersistRaises
      <4>. QED  BY <4>1 DEF TakingTurns
    <3>2. CASE Begin(h)
      <4>. DEFINE N == [H EXCEPT !.calls_made = 0, !.saved = IF Patches(h) THEN table ELSE @,
                                 !.pc = IF Patches(h) THEN "patch" ELSE "run"]
      <4>1. harness' = [harness EXCEPT ![h] = N] /\ table' = table /\ table = RealTools
        BY <3>1, <3>2 DEF Begin, HarnessInv, At, Holds
      <4>2. N.used = H.used /\ N.list = H.list /\ N.at = H.at
            /\ (Patches(h) => N.saved = table)
            /\ N.pc = IF Patches(h) THEN "patch" ELSE "run"
        BY <2>0 DEF Locals
      <4>3. OwnUses(N)
        BY <2>0, <4>2 DEF OwnUses
      <4>4. Patches(h) <=> Overridden(H.list[H.at])
        BY DEF Patches, Overridden, Scenario
      <4>. HIDE DEF N
      <4>5. Holds(N, table') /\ N.pc \notin {"idle", "ended"}
        BY <4>1, <4>2, <4>4 DEF Holds
      <4>. QED  BY <3>1, <4>1, <4>3, <4>5, TurnStep
    <3>3. CASE Patch(h)
      <4>. DEFINE N == [H EXCEPT !.pc = "run"]
      <4>1. harness' = [harness EXCEPT ![h] = N] /\ H.pc = "patch" /\ table = RealTools
        BY <3>1, <3>3 DEF Patch, HarnessInv, At, Holds
      <4>2. N.used = H.used /\ N.list = H.list /\ N.at = H.at /\ N.saved = H.saved /\ N.pc = "run"
        BY <2>0 DEF Locals
      <4>3. table' = Patched(H.list[H.at])
        BY <3>3, <4>1 DEF Patch, Patched, RealTools, Scenario
      <4>4. OwnUses(N)
        BY <2>0, <4>2 DEF OwnUses
      <4>. HIDE DEF N
      <4>5. Holds(N, table')
        BY <3>1, <4>1, <4>2, <4>3 DEF Holds
      <4>. QED  BY <3>1, <4>1, <4>2, <4>4, <4>5, TurnStep
    <3>4. ASSUME NEW p \in Proposals, Invoke(h, p) PROVE TakingTurns'
      <4>. DEFINE use == [proposal |-> p, function |-> FunctionFor(p)]
                  final == Final(Scenario(h), p, FunctionFor(p))
                  N == [H EXCEPT !.calls_made = @ + 1, !.final = final, !.used = Append(@, use),
                                 !.pc = IF Patches(h) THEN "clear" ELSE "check"]
      <4>1. harness' = [harness EXCEPT ![h] = N] /\ H.pc = "run" /\ table' = table
        BY <3>4 DEF Invoke, HarnessInv, At
      <4>2. H.used \in Seq(Use) /\ use \in Use /\ Len(H.used) = H.at - 1
        <5>1. FunctionFor(p) \in {"real"} \cup Stub \cup {None}
          BY DEF FunctionFor, HarnessInv, Table
        <5>. QED  BY <2>0, <4>1, <5>1 DEF Local, Locals, Use
      <4>3. use.proposal = p /\ use.function = OwnFunction(H.list[H.at], p)
        BY <3>1, <4>1, FunctionIsOwn DEF Scenario
      <4>4. Patches(h) <=> Overridden(H.list[H.at])
        BY DEF Patches, Overridden, Scenario
      <4>. HIDE DEF use, final
      <4>5. N.used = Append(H.used, use) /\ N.list = H.list /\ N.at = H.at /\ N.saved = H.saved
            /\ N.pc = IF Patches(h) THEN "clear" ELSE "check"
        BY <2>0 DEF Locals
      <4>6. OwnUses(N)
        <5>1. /\ Len(N.used) = Len(H.used) + 1 /\ Len(H.used) \in Nat
              /\ N.used[Len(H.used) + 1] = use
              /\ \A i \in 1..Len(H.used) : N.used[i] = H.used[i]
          BY <4>2, <4>5
        <5>2. Len(H.used) + 1 = H.at
          BY <2>0, <4>2 DEF Locals
        <5>. QED  BY <2>0, <4>3, <4>5, <5>1, <5>2 DEF OwnUses
      <4>. HIDE DEF N
      <4>7. Holds(N, table') /\ N.pc \notin {"idle", "ended"}
        BY <3>1, <4>1, <4>4, <4>5 DEF Holds
      <4>. QED  BY <3>1, <4>1, <4>6, <4>7, TurnStep
    <3>5. CASE ProviderRaises(h)
      <4>. DEFINE N == [H EXCEPT !.final = None, !.pc = IF Patches(h) THEN "clear" ELSE "check"]
      <4>1. harness' = [harness EXCEPT ![h] = N] /\ H.pc = "run" /\ table' = table
        BY <3>5 DEF ProviderRaises, HarnessInv, At
      <4>2. N.used = H.used /\ N.list = H.list /\ N.at = H.at /\ N.saved = H.saved
            /\ N.pc = IF Patches(h) THEN "clear" ELSE "check"
        BY <2>0 DEF Locals
      <4>3. OwnUses(N)
        BY <2>0, <4>2 DEF OwnUses
      <4>4. Patches(h) <=> Overridden(H.list[H.at])
        BY DEF Patches, Overridden, Scenario
      <4>. HIDE DEF N
      <4>5. Holds(N, table') /\ N.pc \notin {"idle", "ended"}
        BY <3>1, <4>1, <4>2, <4>4 DEF Holds
      <4>. QED  BY <3>1, <4>1, <4>3, <4>5, TurnStep
    <3>6. CASE Clear(h)
      <4>. DEFINE N == [H EXCEPT !.pc = "restore"]
      <4>1. harness' = [harness EXCEPT ![h] = N] /\ H.pc = "clear"
        BY <3>6 DEF Clear, At, HarnessInv
      <4>2. N.used = H.used /\ N.list = H.list /\ N.at = H.at /\ N.saved = H.saved /\ N.pc = "restore"
        BY <2>0 DEF Locals
      <4>3. OwnUses(N)
        BY <2>0, <4>2 DEF OwnUses
      <4>. HIDE DEF N
      <4>4. Holds(N, table')
        BY <3>1, <4>1, <4>2 DEF Holds
      <4>. QED  BY <3>1, <4>1, <4>2, <4>3, <4>4, TurnStep
    <3>9. CASE Restore(h)
      <4>. DEFINE N == [H EXCEPT !.saved = RealTools, !.pc = "check"]
      <4>1. harness' = [harness EXCEPT ![h] = N] /\ H.pc = "restore"
        BY <3>9 DEF Restore, At, HarnessInv
      <4>2. N.used = H.used /\ N.list = H.list /\ N.at = H.at /\ N.pc = "check"
        BY <2>0 DEF Locals
      <4>3. OwnUses(N)
        BY <2>0, <4>2 DEF OwnUses
      <4>4. H.saved = RealTools
        BY <3>1, <4>1 DEF Holds
      <4>5. table' = RealTools
        BY <3>9, <4>4, HarnessAssumption DEF Restore, RealTools
      <4>. HIDE DEF N
      <4>6. Holds(N, table')
        BY <4>2, <4>5 DEF Holds
      <4>. QED  BY <3>1, <4>1, <4>2, <4>3, <4>6, TurnStep
    <3>7. CASE Check(h)
      <4>. DEFINE one == EvalResult(Scenario(h), H.final)
                  N == [H EXCEPT !.results = Append(@, one), !.at = @ + 1, !.calls_made = 0,
                                 !.final = None, !.pc = NextScenario(h)]
      <4>1. harness' = [harness EXCEPT ![h] = N] /\ table' = table /\ table = RealTools
        BY <3>1, <3>7 DEF Check, HarnessInv, At, Holds
      <4>. HIDE DEF one
      <4>2. N.used = H.used /\ N.list = H.list /\ N.pc = NextScenario(h)
        BY <2>0 DEF Locals
      <4>3. OwnUses(N)
        BY <2>0, <4>2 DEF OwnUses
      <4>. HIDE DEF N
      <4>4. N.pc \in {"scenario", "return"} /\ Holds(N, table')
        BY <4>1, <4>2 DEF Holds, NextScenario
      <4>. QED  BY <3>1, <4>1, <4>3, <4>4, TurnStep
    <3>8. CASE Propagate(h) \/ Return(h) \/ persist_results(h)
      <4>. DEFINE N == harness'[h]
      <4>1. table' = table /\ table = RealTools
        BY <3>1, <3>8 DEF Propagate, Return, persist_results, NameFile, OpenFile, WriteFile,
           PersistRaises, At, Holds
      <4>2. harness' = [harness EXCEPT ![h] = N]
        BY <3>8 DEF Propagate, Return, persist_results, NameFile, OpenFile, WriteFile,
           PersistRaises, HarnessInv
      <4>3. N.pc \in {"ended", "open", "write"} /\ N.used = H.used /\ N.list = H.list
        BY <2>0, <3>8 DEF Propagate, Return, persist_results, NameFile, OpenFile, WriteFile,
           PersistRaises, HarnessInv, Locals
      <4>. HIDE DEF N
      <4>4. OwnUses(N)
        BY <2>0, <4>3 DEF OwnUses
      <4>5. Holds(N, table')
        BY <4>1, <4>3 DEF Holds
      <4>. QED  BY <3>1, <4>1, <4>2, <4>3, <4>4, <4>5, TurnStep
    <3>. QED  BY <2>3, <3>2, <3>3, <3>4, <3>5, <3>6, <3>7, <3>8, <3>9 DEF Go
  <2>. QED  BY <1>2, <2>1, <2>2, <2>3
<1>. QED  BY <1>1, <1>2 DEF Next, vars, Tick

LEMMA TurnsInvariant == Spec => [](HarnessInv /\ Turns)
<1>1. Init => Turns
  BY DEF Init, Turns, TakingTurns, Busy, OwnUses, NotStarted
<1>. QED  BY <1>1, HarnessInvariant, NextTurns, PTL DEF Spec

(* Until harnesses overlap, every scenario leaves the process its tool        *)
(* functions, however it ends.                                               *)
THEOREM ToolsComeBack == Spec => []ToolsAreRestored
<1>1. ASSUME HarnessInv, TakingTurns, \A h \in Harnesses : ~Patching(h) PROVE table = RealTools
  <2>1. ASSUME NEW h \in Harnesses, Busy(h) PROVE table = RealTools
    <3>1. Holds(harness[h], table) /\ harness[h].pc \in PC
      BY <1>1, <2>1 DEF TakingTurns, HarnessInv, Locals
    <3>2. Patches(h) <=> Overridden(harness[h].list[harness[h].at])
      BY DEF Patches, Overridden, Scenario
    <3>. QED  BY <1>1, <2>1, <3>1, <3>2 DEF Holds, PC, Busy, Patching
  <2>. QED  BY <1>1, <2>1 DEF TakingTurns
<1>2. HarnessInv /\ Turns => ToolsAreRestored
  BY <1>1 DEF ToolsAreRestored, StubsStayInTheirScenario, Turns
<1>. QED  BY <1>2, TurnsInvariant, PTL

(* Until harnesses overlap, a result is what the scenario comes to with its  *)
(* own overrides and the tool functions.                                     *)
THEOREM ResultsDoNotLeak == Spec => []ResultsAreTheirOwn
<1>1. ASSUME HarnessInv, Turns PROVE ResultsAreTheirOwn
  <2>. SUFFICES ASSUME TakingTurns, NEW h \in Harnesses, NEW i \in DOMAIN harness[h].results
       PROVE  harness[h].results[i].actual
                = Final(harness[h].list[i], harness[h].used[i].proposal,
                        OwnFunction(harness[h].list[i], harness[h].used[i].proposal))
    BY <1>1 DEF ResultsAreTheirOwn, Turns
  <2>. DEFINE H == harness[h]
  <2>1. /\ Local(H) /\ OwnUses(H) /\ i \in 1..Len(H.results)
        /\ Len(H.results) <= Len(H.used) /\ Len(H.results) \in Nat /\ Len(H.used) \in Nat
    BY <1>1 DEF HarnessInv, Locally, Local, Locals, TakingTurns
  <2>. QED  BY <2>1 DEF Local, ResultFits, OwnUses
<1>. QED  BY <1>1, TurnsInvariant, PTL
=============================================================================
