------------------------------ MODULE EvalHarness ------------------------------
(* src/graph/evaluation.py: threads that each run a list of scenarios and    *)
(* compare the outcome of each with what it expects.  A scenario may replace *)
(* entries of the process-wide _TOOL_FUNCTIONS while it runs; patch.dict     *)
(* (external) copies the dict and updates it, and afterwards clears it and   *)
(* updates it with the copy, whether or not the scenario raised.  What one   *)
(* run of the graph comes to is Final: a scenario has its own wrapper and    *)
(* tracer, so the dispatch table is all that a run can share.                *)
EXTENDS Policy

CONSTANTS
    Harnesses,      \* threads
    Lists,          \* sequences of scenarios
    Answers,        \* what the model may propose in a real-provider run
    MaxTime         \* bound on the seconds of the clock

(* What an entry of _TOOL_FUNCTIONS may be: the tool function, a stub that   *)
(* returns the ticket as it was, a stub that raises; None while it is gone.  *)
Stub == {"idle", "raises"}

Table == [ToolName -> {"real"} \cup Stub \cup {None}]

RealTools == [tool \in ToolName |-> "real"]

(* tool_function_overrides is a function on the tools it replaces;           *)
(* should_fail the attempts it answers True for.                             *)
IsScenario(s) ==
    /\ s.ticket \in Ticket
    /\ \A i \in DOMAIN s.proposals : s.proposals[i] \in Proposals
    /\ DOMAIN s.tool_function_overrides \subseteq ToolName
    /\ \A tool \in DOMAIN s.tool_function_overrides : s.tool_function_overrides[tool] \in Stub
    /\ s.should_fail \subseteq 1..3

FinalState ==
    [run_status : {"completed", "denied", "failed"},
     rule_id : {"refund-amount-limit", "status-transition", None},
     execution_status : {"success", "verification_failed", "failure", None}]

ASSUME HarnessAssumption ==
    /\ \A l \in Lists :
          /\ Len(l) \in Nat \ {0} /\ DOMAIN l = 1..Len(l)
          /\ \A i \in DOMAIN l : IsScenario(l[i])
    /\ Answers \subseteq Proposals
    /\ None \notin FinalState
    /\ None \notin {"real"} \cup Stub
    /\ None \notin {"results", "raised", "skipped"}
    /\ MaxTime \in Nat \ {0}

VARIABLES
    table,      \* _TOOL_FUNCTIONS
    harness,    \* the locals of each thread
    files,      \* the result files, by the second each is named after
    now,        \* the clock
    overlapped  \* history: has a harness started while another was running?

vars == <<table, harness, files, now, overlapped>>

(* saved is patch.dict's copy; calls_made and final belong to the scenario   *)
(* at hand, final is None when its run raised; output_path is the second the *)
(* file is named after.  used is a history of the runs: what was proposed    *)
(* and which function the table had for it.                                  *)
NotStarted ==
    [pc |-> "idle", list |-> <<>>, source |-> "script", at |-> 1, saved |-> RealTools,
     calls_made |-> 0, final |-> None, results |-> <<>>, outcome |-> None,
     output_path |-> 0, used |-> <<>>]

Scenario(h) == harness[h].list[harness[h].at]

Patches(h) == DOMAIN Scenario(h).tool_function_overrides # {}

At(h, pc) == harness[h].pc = pc

Busy(h) == harness[h].pc \notin {"idle", "ended"}

(* A file has a writer, the last that opened or wrote it, and is whole when  *)
(* it can be read back: all of that writer's results and nothing else.       *)
Unfinished(h) == [by |-> h, results |-> <<>>, whole |-> FALSE]

Whole(h) == [by |-> h, results |-> harness[h].results, whole |-> TRUE]

TypeOK ==
    /\ table \in Table
    /\ now \in 1..MaxTime
    /\ overlapped \in BOOLEAN
    /\ \A h \in Harnesses :
          LET H == harness[h]
          IN  /\ H.saved \in Table
              /\ H.final \in FinalState \cup {None}
              /\ H.outcome \in {"results", "raised", "skipped", None}
              /\ H.pc = "ended" <=> H.outcome # None
              /\ H.outcome # "raised" => Len(H.results) = H.at - 1

Init ==
    /\ table = RealTools
    /\ harness = [h \in Harnesses |-> NotStarted]
    /\ files = [second \in 1..MaxTime |-> None]
    /\ now = 1
    /\ overlapped = FALSE

-----------------------------------------------------------------------------
(* The final state of graph.invoke() for a proposal, given the table entry   *)
(* the execution layer finds; None if an exception leaves it.                *)
Verified(scenario, proposal, function) ==
    LET command == CommandOf(proposal)
        after == IF function = "real" THEN Apply(command, scenario.ticket) ELSE scenario.ticket
    IN  verify(command, scenario.ticket, after)

Breaks(scenario, proposal, function) ==
    \/ function = "raises"
    \/ /\ function = "real"
       /\ ~TargetsTicket(CommandOf(proposal), scenario.ticket)

Ended(run_status, rule_id, execution_status) ==
    [run_status |-> run_status, rule_id |-> rule_id, execution_status |-> execution_status]

Final(scenario, proposal, function) ==
    LET authorization == authorize(proposal, scenario.ticket)
    IN  IF authorization.decision = "denied" THEN Ended("denied", authorization.rule_id, None)
        ELSE IF function = None THEN None
        ELSE IF 1..3 \subseteq scenario.should_fail THEN Ended("failed", None, "failure")
        ELSE IF Breaks(scenario, proposal, function) THEN None
        ELSE IF Verified(scenario, proposal, function) THEN Ended("completed", None, "success")
        ELSE Ended("failed", None, "verification_failed")

FunctionFor(proposal) ==
    IF proposal.tool_name \in ToolName THEN table[proposal.tool_name] ELSE None

(* run_scenarios(), run_scenarios_with_real_provider().                      *)
Start(h, scenarios) ==
    /\ At(h, "idle")
    /\ \E source \in {"script", "model"} :
         harness' = [harness EXCEPT ![h].list = scenarios, ![h].source = source,
                                    ![h].pc = "scenario"]
    /\ overlapped' = (overlapped \/ \E g \in Harnesses : Busy(g))
    /\ UNCHANGED <<table, files, now>>

(* A real-provider run of the default scenarios without ANTHROPIC_API_KEY.   *)
Skip(h) ==
    /\ At(h, "idle")
    /\ harness' = [harness EXCEPT ![h].source = "model", ![h].outcome = "skipped",
                                  ![h].pc = "ended"]
    /\ UNCHANGED <<table, files, now, overlapped>>

(* run_scenario(): a fresh provider, and patch.dict's copy of the table.     *)
Begin(h) ==
    /\ At(h, "scenario")
    /\ harness' = [harness EXCEPT
          ![h].calls_made = 0,
          ![h].saved = IF Patches(h) THEN table ELSE @,
          ![h].pc = IF Patches(h) THEN "patch" ELSE "run"]
    /\ UNCHANGED <<table, files, now, overlapped>>

Patch(h) ==
    /\ At(h, "patch")
    /\ table' = [tool \in ToolName |->
          IF tool \in DOMAIN Scenario(h).tool_function_overrides
          THEN Scenario(h).tool_function_overrides[tool] ELSE table[tool]]
    /\ harness' = [harness EXCEPT ![h].pc = "run"]
    /\ UNCHANGED <<files, now, overlapped>>

(* The next proposal of the script, or any the model makes.                  *)
Proposed(h) ==
    IF harness[h].source = "model" THEN Answers
    ELSE {Scenario(h).proposals[i] : i \in {harness[h].calls_made + 1} \cap DOMAIN Scenario(h).proposals}

(* graph.invoke() asks the provider once.                                    *)
Invoke(h, proposal) ==
    /\ At(h, "run")
    /\ proposal \in Proposed(h)
    /\ harness' = [harness EXCEPT
          ![h].calls_made = @ + 1,
          ![h].final = Final(Scenario(h), proposal, FunctionFor(proposal)),
          ![h].used = Append(@, [proposal |-> proposal, function |-> FunctionFor(proposal)]),
          ![h].pc = IF Patches(h) THEN "clear" ELSE "check"]
    /\ UNCHANGED <<table, files, now, overlapped>>

(* Mutant: the patch is not undone when the provider raises.                 *)
ProviderRaisesPatched(h) ==
    /\ At(h, "run")
    /\ harness[h].source = "model" \/ Proposed(h) = {}
    /\ harness' = [harness EXCEPT ![h].final = None, ![h].pc = "check"]
    /\ UNCHANGED <<table, files, now, overlapped>>

(* The script is empty, or the API call fails.                               *)
ProviderRaises(h) ==
    /\ At(h, "run")
    /\ harness[h].source = "model" \/ Proposed(h) = {}
    /\ harness' = [harness EXCEPT
          ![h].final = None,
          ![h].pc = IF Patches(h) THEN "clear" ELSE "check"]
    /\ UNCHANGED <<table, files, now, overlapped>>

(* patch.dict undone, in two steps.                                          *)
Clear(h) ==
    /\ At(h, "clear")
    /\ table' = [tool \in ToolName |-> None]
    /\ harness' = [harness EXCEPT ![h].pc = "restore"]
    /\ UNCHANGED <<files, now, overlapped>>

Restore(h) ==
    /\ At(h, "restore")
    /\ table' = [tool \in ToolName |->
          IF harness[h].saved[tool] # None THEN harness[h].saved[tool] ELSE table[tool]]
    /\ harness' = [harness EXCEPT ![h].saved = RealTools, ![h].pc = "check"]
    /\ UNCHANGED <<files, now, overlapped>>

(* An expectation that is None is not compared.                              *)
Passed(scenario, final) ==
    /\ final.run_status = scenario.expected_run_status
    /\ scenario.expected_rule_id # None => final.rule_id = scenario.expected_rule_id
    /\ scenario.expected_execution_status # None =>
          final.execution_status = scenario.expected_execution_status

EvalResult(scenario, final) ==
    [scenario_name |-> scenario.name, passed |-> Passed(scenario, final), actual |-> final]

NextScenario(h) == IF harness[h].at < Len(harness[h].list) THEN "scenario" ELSE "return"

Check(h) ==
    /\ At(h, "check")
    /\ harness[h].final # None
    /\ harness' = [harness EXCEPT
          ![h].results = Append(@, EvalResult(Scenario(h), harness[h].final)),
          ![h].at = @ + 1, ![h].calls_made = 0, ![h].final = None,
          ![h].pc = NextScenario(h)]
    /\ UNCHANGED <<table, files, now, overlapped>>

(* Mutants: a scenario that raised is left out of the results; it is run     *)
(* again.                                                                    *)
PropagateSkips(h) ==
    /\ At(h, "check")
    /\ harness[h].final = None
    /\ harness' = [harness EXCEPT ![h].at = @ + 1, ![h].pc = NextScenario(h)]
    /\ UNCHANGED <<table, files, now, overlapped>>

PropagateRetries(h) ==
    /\ At(h, "check")
    /\ harness[h].final = None
    /\ harness' = [harness EXCEPT ![h].pc = "scenario", ![h].used = <<>>]
    /\ UNCHANGED <<table, files, now, overlapped>>

(* The exception leaves the harness, and the results so far are gone.        *)
Propagate(h) ==
    /\ At(h, "check")
    /\ harness[h].final = None
    /\ harness' = [harness EXCEPT ![h].results = <<>>, ![h].outcome = "raised", ![h].pc = "ended"]
    /\ UNCHANGED <<table, files, now, overlapped>>

(* The list of results is returned.                                          *)
Return(h) ==
    /\ At(h, "return")
    /\ harness' = [harness EXCEPT ![h].outcome = "results", ![h].pc = "ended"]
    /\ UNCHANGED <<table, files, now, overlapped>>

(* persist_results(), for the default scenarios against the real provider:   *)
(* the file is named after the second, opened, which empties what is there,  *)
(* and written.                                                              *)
NameFile(h) ==
    /\ At(h, "return") /\ harness[h].source = "model"
    /\ harness' = [harness EXCEPT ![h].output_path = now, ![h].pc = "open"]
    /\ UNCHANGED <<table, files, now, overlapped>>

OpenFile(h) ==
    /\ At(h, "open")
    /\ files' = [files EXCEPT ![harness[h].output_path] = Unfinished(h)]
    /\ harness' = [harness EXCEPT ![h].pc = "write"]
    /\ UNCHANGED <<table, now, overlapped>>

(* Who writes a file that another has opened since may mix with it.          *)
WriteFile(h) ==
    /\ At(h, "write")
    /\ LET s == harness[h].output_path
       IN  \/ files' = [files EXCEPT ![s] = Whole(h)]
           \/ /\ files[s].by # h
              /\ files' = [files EXCEPT ![s] = Unfinished(h)]
    /\ harness' = [harness EXCEPT ![h].outcome = "results", ![h].pc = "ended"]
    /\ UNCHANGED <<table, now, overlapped>>

(* Mutant: a file that cannot be written is passed over.                     *)
PersistSwallowed(h) ==
    /\ At(h, "open") \/ At(h, "write")
    /\ harness' = [harness EXCEPT ![h].outcome = "results", ![h].pc = "ended"]
    /\ UNCHANGED <<table, files, now, overlapped>>

(* The directory, the file or the write fails: the results are gone, and     *)
(* part of a write may be in the file.                                       *)
PersistRaises(h) ==
    /\ At(h, "open") \/ At(h, "write")
    /\ \/ UNCHANGED files
       \/ /\ At(h, "write")
          /\ files' = [files EXCEPT ![harness[h].output_path] = Unfinished(h)]
    /\ harness' = [harness EXCEPT ![h].results = <<>>, ![h].outcome = "raised", ![h].pc = "ended"]
    /\ UNCHANGED <<table, now, overlapped>>

persist_results(h) == NameFile(h) \/ OpenFile(h) \/ WriteFile(h) \/ PersistRaises(h)

Tick ==
    /\ now < MaxTime
    /\ now' = now + 1
    /\ UNCHANGED <<table, harness, files, overlapped>>

Go(h) ==
    \/ Begin(h) \/ Patch(h)
    \/ (\E p \in Proposals : Invoke(h, p)) \/ ProviderRaises(h)
    \/ Clear(h) \/ Restore(h)
    \/ Check(h) \/ Propagate(h)
    \/ Return(h) \/ persist_results(h)

Next ==
    \/ \E h \in Harnesses :
          \/ \E scenarios \in Lists : Start(h, scenarios)
          \/ Skip(h)
          \/ Go(h)
    \/ Tick

(* A harness that was started keeps running.                                 *)
Fairness == \A h \in Harnesses : WF_vars(Go(h))

Spec == Init /\ [][Next]_vars /\ Fairness

-----------------------------------------------------------------------------
(* Properties.                                                               *)

Patching(h) == harness[h].pc \in {"run", "clear", "restore"} /\ Patches(h)

(* However a scenario ends, the process has its tool functions back when no  *)
(* scenario is running: nothing that runs afterwards meets a stub.  Harnesses*)
(* that overlapped may have undone their patches in the wrong order.         *)
StubsStayInTheirScenario == (\A h \in Harnesses : ~Patching(h)) => table = RealTools

ToolsAreRestored == ~overlapped => StubsStayInTheirScenario

(* Harnesses that took turns did not touch each other: each result is what   *)
(* the scenario comes to in a process of its own, with its overrides and the *)
(* tool functions for the rest, also after scenarios that raised.            *)
OwnFunction(scenario, proposal) ==
    IF proposal.tool_name \in DOMAIN scenario.tool_function_overrides
    THEN scenario.tool_function_overrides[proposal.tool_name]
    ELSE IF proposal.tool_name \in ToolName THEN "real" ELSE None

ResultsAreTheirOwn ==
    ~overlapped =>
    \A h \in Harnesses : \A i \in DOMAIN harness[h].results :
        LET scenario == harness[h].list[i]
            proposal == harness[h].used[i].proposal
        IN  harness[h].results[i].actual = Final(scenario, proposal, OwnFunction(scenario, proposal))

(* Harnesses that overlap meet each other's stubs, or an empty table, but    *)
(* that can only make a run fail or raise: a refund or a change of status    *)
(* that a result calls completed was done by the tool function itself.       *)
StubsOnlyFailRuns ==
    \A h \in Harnesses : \A i \in DOMAIN harness[h].results :
        LET run == harness[h].used[i]
            actual == harness[h].results[i].actual
        IN  /\ (actual.run_status = "completed" /\ run.proposal.tool_name # "add_ticket_note")
                  => run.function = "real"
            /\ run.function = "real" =>
                  actual = Final(harness[h].list[i], run.proposal, "real")

(* A harness that answers with results has one for each of its scenarios, in *)
(* order, each from one run of the graph that was fed the first proposal of  *)
(* that scenario's script: none is skipped, repeated or fed another's.       *)
Names(sequence) == [i \in DOMAIN sequence |-> sequence[i].scenario_name]

AllNames(h) == [i \in DOMAIN harness[h].list |-> harness[h].list[i].name]

OutcomesTellTheRun ==
    \A h \in Harnesses : harness[h].outcome = "results" =>
        LET H == harness[h]
        IN  /\ Names(H.results) = AllNames(h)
            /\ DOMAIN H.used = DOMAIN H.list
            /\ H.source = "script" =>
                  \A i \in DOMAIN H.list : H.used[i].proposal = H.list[i].proposals[1]

(* A result file that is whole is that of a run that answered with these     *)
(* results, all of them; and a run that answered has its file, unless another*)
(* wrote to the same name.                                                   *)
FilesTellTheRun ==
    /\ \A second \in 1..MaxTime :
          (files[second] # None /\ files[second].whole) =>
              LET h == files[second].by
              IN  /\ harness[h].outcome = "results"
                  /\ files[second].results = harness[h].results
                  /\ Names(files[second].results) = AllNames(h)
    /\ \A h \in Harnesses :
          (/\ harness[h].outcome = "results" /\ harness[h].output_path # 0
           /\ \A g \in Harnesses \ {h} : harness[g].output_path # harness[h].output_path)
              => files[harness[h].output_path] = Whole(h)

(* A harness that was started ends, with results or an exception.            *)
HarnessesEnd == \A h \in Harnesses : Busy(h) ~> At(h, "ended")

-----------------------------------------------------------------------------
(* Claims of the repository's texts that the code does not keep.             *)

(* evaluation.py:253-256: files are named after a timestamp "so successive   *)
(* real-provider runs never collide".                                        *)
RunsKeepTheirFiles ==
    \A h \in Harnesses :
        (harness[h].outcome = "results" /\ harness[h].output_path # 0) =>
            files[harness[h].output_path] = Whole(h)

(* evaluation.py:51-53: proposals are fed to a provider "so a scenario can   *)
(* script a multi-turn sequence".                                            *)
ScriptsArePlayed ==
    \A h \in Harnesses :
        (At(h, "check") /\ harness[h].source = "script" /\ harness[h].final # None) =>
            harness[h].calls_made = Len(Scenario(h).proposals)
=============================================================================
