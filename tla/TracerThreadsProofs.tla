------------------------- MODULE TracerThreadsProofs -------------------------
(* Proofs about TracerThreads, for any number of threads, runs and events.   *)
EXTENDS TracerThreads, TLAPS

LEMMA InitType == Init => TypeOK
BY TracerAssumption DEF Init, TypeOK

(* The length a thread reads, and the trace after Build, are those of the    *)
(* run's trace before it.                                                    *)
LEMMA BuildType ==
    ASSUME TypeOK, NEW t \in Threads, Build(t)
    PROVE  /\ TypeOK'
           /\ \A run \in Runs : events_for_run(run)' = events_for_run(run)
           /\ pending'[t].sequence = Len(events_for_run(RunOf[t]))
           /\ \A u \in Threads \ {t} : pending'[u] = pending[u]
<1>1. RunOf[t] \in Runs
  BY TracerAssumption
<1>2. events_for_run(RunOf[t]) \in Seq(TraceEvents)
  BY <1>1 DEF TypeOK, events_for_run
<1>3. lists' = [lists EXCEPT ![RunOf[t]] = events_for_run(RunOf[t])] /\ recorded' = recorded
  BY DEF Build
<1>4. PICK event_type \in EventTypes, payload \in Payloads :
        pending' = [pending EXCEPT ![t] =
            TraceEvent(event_type, Len(events_for_run(RunOf[t])), payload)]
  BY DEF Build
<1>5. TraceEvent(event_type, Len(events_for_run(RunOf[t])), payload) \in TraceEvents
  BY <1>2 DEF TraceEvent, TraceEvents
<1>6. None \notin Seq(TraceEvents)
  BY TracerAssumption DEF TraceEvents
<1>7. lists' \in [Runs -> Seq(TraceEvents) \cup {None}]
  BY <1>1, <1>2, <1>3 DEF TypeOK
<1>8. \A run \in Runs : lists[run] # None => lists'[run] # None
  BY <1>1, <1>2, <1>3, <1>6 DEF TypeOK
<1>9. lists'[RunOf[t]] # None
  BY <1>1, <1>2, <1>3, <1>6 DEF TypeOK
<1>10. pending' \in [Threads -> TraceEvents \cup {None}] /\ pending'[t] = 
          TraceEvent(event_type, Len(events_for_run(RunOf[t])), payload)
  BY <1>4, <1>5 DEF TypeOK
<1>11. \A u \in Threads \ {t} : pending'[u] = pending[u]
  BY <1>4 DEF TypeOK
<1>12. TypeOK'
  BY <1>3, <1>7, <1>8, <1>9, <1>10, <1>11, TracerAssumption DEF TypeOK
<1>13. \A run \in Runs : events_for_run(run)' = events_for_run(run)
  BY <1>1, <1>2, <1>3, <1>6 DEF TypeOK, events_for_run
<1>14. pending'[t].sequence = Len(events_for_run(RunOf[t]))
  BY <1>10 DEF TraceEvent
<1>. QED  BY <1>11, <1>12, <1>13, <1>14

(* AppendEvent adds the pending event to the end of the run's trace and      *)
(* leaves every other trace alone.                                           *)
LEMMA AppendType ==
    ASSUME TypeOK, NEW t \in Threads, AppendEvent(t)
    PROVE  /\ TypeOK'
           /\ events_for_run(RunOf[t]) \in Seq(TraceEvents)
           /\ pending[t] \in TraceEvents
           /\ events_for_run(RunOf[t])' = Append(events_for_run(RunOf[t]), pending[t])
           /\ \A run \in Runs \ {RunOf[t]} : events_for_run(run)' = events_for_run(run)
           /\ pending'[t] = None
           /\ \A u \in Threads \ {t} : pending'[u] = pending[u]
<1>1. RunOf[t] \in Runs
  BY TracerAssumption
<1>2. pending[t] \in TraceEvents /\ pending[t].sequence \in Nat
  BY DEF AppendEvent, TypeOK, TraceEvents
<1>3. lists[RunOf[t]] # None /\ lists[RunOf[t]] \in Seq(TraceEvents)
  BY <1>1 DEF AppendEvent, TypeOK
<1>4. lists' = [lists EXCEPT ![RunOf[t]] = Append(lists[RunOf[t]], pending[t])]
  BY <1>1 DEF AppendEvent, TypeOK
<1>5. recorded' = [recorded EXCEPT ![t] = Append(recorded[t], pending[t].sequence)]
  BY DEF AppendEvent, TypeOK
<1>6. pending' = [pending EXCEPT ![t] = None]
  BY DEF AppendEvent
<1>7. None \notin Seq(TraceEvents)
  BY TracerAssumption DEF TraceEvents
<1>8. Append(lists[RunOf[t]], pending[t]) \in Seq(TraceEvents)
  BY <1>2, <1>3
<1>9. lists' \in [Runs -> Seq(TraceEvents) \cup {None}]
  BY <1>1, <1>4, <1>8 DEF TypeOK
<1>10. \A run \in Runs : lists[run] # None => lists'[run] # None
  BY <1>1, <1>4, <1>7, <1>8 DEF TypeOK
<1>11. recorded' \in [Threads -> Seq(Nat)]
  <2>1. recorded[t] \in Seq(Nat)
    BY DEF TypeOK
  <2>2. Append(recorded[t], pending[t].sequence) \in Seq(Nat)
    BY <1>2, <2>1
  <2>. QED  BY <1>5, <2>2 DEF TypeOK
<1>12. pending' \in [Threads -> TraceEvents \cup {None}]
  BY <1>6 DEF TypeOK
<1>13. pending'[t] = None /\ \A u \in Threads \ {t} : pending'[u] = pending[u]
  BY <1>6 DEF TypeOK
<1>14. TypeOK'
  BY <1>9, <1>10, <1>11, <1>12, <1>13, TracerAssumption DEF TypeOK
<1>15. events_for_run(RunOf[t])' = Append(events_for_run(RunOf[t]), pending[t])
  BY <1>1, <1>3, <1>4, <1>7, <1>8 DEF TypeOK, events_for_run
<1>16. \A run \in Runs \ {RunOf[t]} : events_for_run(run)' = events_for_run(run)
  BY <1>1, <1>4 DEF TypeOK, events_for_run
<1>17. events_for_run(RunOf[t]) \in Seq(TraceEvents)
  BY <1>3 DEF events_for_run
<1>. QED  BY <1>2, <1>13, <1>14, <1>15, <1>16, <1>17

LEMMA NextType == TypeOK /\ [Next]_vars => TypeOK'
<1>1. ASSUME TypeOK, UNCHANGED vars PROVE TypeOK'
  BY <1>1 DEF vars, TypeOK
<1>. QED  BY <1>1, BuildType, AppendType DEF Next

(* The lists, the events in the making and the histories keep their types,   *)
(* and a thread with an event in the making has a list to append it to:      *)
(* setdefault() ran.                                                         *)
THEOREM TracerTypeCorrect == Spec => []TypeOK
BY InitType, NextType, PTL DEF Spec

-----------------------------------------------------------------------------
(* A trace that somebody read stays the beginning of the trace, whichever    *)
(* threads record in whichever runs: Tracer only ever appends.               *)
THEOREM TracesOnlyGrow == Spec => TracesGrow
<1>. DEFINE Grows == \A run \in Runs :
        /\ Len(events_for_run(run)) <= Len(events_for_run(run)')
        /\ \A i \in DOMAIN events_for_run(run) :
              events_for_run(run)'[i] = events_for_run(run)[i]
<1>1. ASSUME TypeOK, NEW run \in Runs PROVE events_for_run(run) \in Seq(TraceEvents)
  BY <1>1 DEF TypeOK, events_for_run
<1>2. ASSUME TypeOK, [Next]_vars PROVE [Grows]_vars
  <2>1. CASE UNCHANGED vars
    BY <2>1
  <2>2. ASSUME NEW t \in Threads, Build(t) PROVE Grows
    <3>1. \A run \in Runs : events_for_run(run)' = events_for_run(run)
      BY <1>2, <2>2, BuildType
    <3>. QED  BY <1>1, <1>2, <3>1
  <2>3. ASSUME NEW t \in Threads, AppendEvent(t) PROVE Grows
    <3>. SUFFICES ASSUME NEW run \in Runs
         PROVE  /\ Len(events_for_run(run)) <= Len(events_for_run(run)')
                /\ \A i \in DOMAIN events_for_run(run) :
                      events_for_run(run)'[i] = events_for_run(run)[i]
      OBVIOUS
    <3>1. CASE run = RunOf[t]
      <4>1. /\ events_for_run(run) \in Seq(TraceEvents) /\ pending[t] \in TraceEvents
            /\ events_for_run(run)' = Append(events_for_run(run), pending[t])
        BY <1>2, <2>3, <3>1, AppendType
      <4>. QED  BY <4>1
    <3>2. CASE run # RunOf[t]
      <4>1. events_for_run(run)' = events_for_run(run)
        BY <1>2, <2>3, <3>2, AppendType
      <4>. QED  BY <1>1, <1>2, <4>1
    <3>. QED  BY <3>1, <3>2
  <2>. QED  BY <1>2, <2>1, <2>2, <2>3 DEF Next
<1>. QED  BY <1>2, TracerTypeCorrect, PTL DEF Spec, TracesGrow

-----------------------------------------------------------------------------
(* One thread for each run.  A number that a thread has read is still the    *)
(* length of the list when it appends.                                       *)
NumbersAreCurrent ==
    \A t \in Threads : pending[t] # None =>
        pending[t].sequence = Len(events_for_run(RunOf[t]))

OwnRunInv == TypeOK /\ NumbersAreCurrent /\ SequenceIsPosition

LEMMA OwnRunInit == Init => OwnRunInv
<1>1. Init => NumbersAreCurrent
  BY DEF Init, NumbersAreCurrent
<1>2. Init => SequenceIsPosition
  BY DEF Init, SequenceIsPosition, events_for_run
<1>. QED  BY <1>1, <1>2, InitType DEF OwnRunInv

LEMMA OwnRunBuild ==
    ASSUME OneThreadPerRun, OwnRunInv, NEW t \in Threads, Build(t)
    PROVE  OwnRunInv'
<1>. USE DEF OwnRunInv
<1>1. /\ TypeOK'
      /\ \A run \in Runs : events_for_run(run)' = events_for_run(run)
      /\ pending'[t].sequence = Len(events_for_run(RunOf[t]))
      /\ \A u \in Threads \ {t} : pending'[u] = pending[u]
  BY BuildType
<1>2. \A u \in Threads : RunOf[u] \in Runs
  BY TracerAssumption
<1>3. NumbersAreCurrent'
  BY <1>1, <1>2 DEF NumbersAreCurrent
<1>4. SequenceIsPosition'
  BY <1>1 DEF SequenceIsPosition
<1>. QED  BY <1>1, <1>3, <1>4

LEMMA OwnRunAppend ==
    ASSUME OneThreadPerRun, OwnRunInv, NEW t \in Threads, AppendEvent(t)
    PROVE  OwnRunInv'
<1>. USE DEF OwnRunInv
<1>. DEFINE trace == events_for_run(RunOf[t])
<1>1. /\ TypeOK'
      /\ trace \in Seq(TraceEvents) /\ pending[t] \in TraceEvents
      /\ trace' = Append(trace, pending[t])
      /\ \A run \in Runs \ {RunOf[t]} : events_for_run(run)' = events_for_run(run)
      /\ pending'[t] = None
      /\ \A u \in Threads \ {t} : pending'[u] = pending[u]
  BY AppendType
<1>2. \A u \in Threads : RunOf[u] \in Runs
  BY TracerAssumption
<1>3. \A u \in Threads \ {t} : RunOf[u] # RunOf[t]
  BY DEF OneThreadPerRun
<1>4. NumbersAreCurrent'
  BY <1>1, <1>2, <1>3 DEF NumbersAreCurrent
<1>5. pending[t].sequence = Len(trace)
  BY DEF AppendEvent, NumbersAreCurrent
<1>6. \A i \in DOMAIN trace : trace[i].sequence = i - 1
  BY <1>2 DEF SequenceIsPosition
<1>7. \A i \in DOMAIN trace' : trace'[i].sequence = i - 1
  <2>. HIDE DEF trace
  <2>. QED  BY <1>1, <1>5, <1>6
<1>8. SequenceIsPosition'
  BY <1>1, <1>7 DEF SequenceIsPosition
<1>. QED  BY <1>1, <1>4, <1>8

LEMMA OwnRunInvariant ==
    ASSUME OneThreadPerRun PROVE Init /\ [][Next]_vars => []OwnRunInv
<1>1. OwnRunInv /\ [Next]_vars => OwnRunInv'
  <2>1. ASSUME OwnRunInv, UNCHANGED vars PROVE OwnRunInv'
    BY <2>1 DEF vars, OwnRunInv, TypeOK, NumbersAreCurrent, SequenceIsPosition, events_for_run
  <2>. QED  BY <2>1, OwnRunBuild, OwnRunAppend DEF Next
<1>. QED  BY <1>1, OwnRunInit, PTL

(* A run that one thread drives has a trace numbered by position, without    *)
(* gap or repetition, whatever other runs record meanwhile.                  *)
THEOREM OwnRunsAreNumbered ==
    ASSUME OneThreadPerRun PROVE Spec => []SequenceIsPosition
<1>1. OwnRunInv => SequenceIsPosition
  BY DEF OwnRunInv
<1>. QED  BY <1>1, OwnRunInvariant, PTL DEF Spec

(* With one thread for each run, the two steps of _record() implement the    *)
(* one step of EventLog.                                                     *)
THEOREM TracerImplementsLog ==
    ASSUME OneThreadPerRun PROVE Spec => ImplementsLog
<1>. DEFINE traces == [run \in Runs |-> events_for_run(run)]
<1>1. Init => Log!Init
  BY DEF Init, Log!Init, events_for_run
<1>2. ASSUME OwnRunInv, [Next]_vars PROVE [Log!Next]_traces
  <2>. USE <1>2 DEF OwnRunInv
  <2>1. CASE UNCHANGED vars
    BY <2>1 DEF vars, events_for_run
  <2>2. ASSUME NEW t \in Threads, Build(t) PROVE UNCHANGED traces
    <3>1. \A run \in Runs : events_for_run(run)' = events_for_run(run)
      BY <2>2, BuildType
    <3>. QED  BY <3>1
  <2>3. ASSUME NEW t \in Threads, AppendEvent(t) PROVE Log!Next
    <3>1. RunOf[t] \in Runs
      BY TracerAssumption
    <3>2. /\ pending[t] \in TraceEvents
          /\ events_for_run(RunOf[t])' = Append(events_for_run(RunOf[t]), pending[t])
          /\ \A run \in Runs \ {RunOf[t]} : events_for_run(run)' = events_for_run(run)
      BY <2>3, AppendType
    <3>3. pending[t].sequence = Len(events_for_run(RunOf[t]))
      BY <2>3 DEF AppendEvent, NumbersAreCurrent
    <3>4. PICK event_type \in EventTypes, payload \in Payloads :
            pending[t] = TraceEvent(event_type, Len(events_for_run(RunOf[t])), payload)
      BY <3>2, <3>3 DEF TraceEvents, TraceEvent
    <3>5. traces' = [traces EXCEPT ![RunOf[t]] =
                Append(traces[RunOf[t]],
                       TraceEvent(event_type, Len(traces[RunOf[t]]), payload))]
      BY <3>1, <3>2, <3>4
    <3>6. Log!Record(RunOf[t])
      BY <3>5 DEF Log!Record, Log!_record, Log!TraceEvent, TraceEvent
    <3>. QED  BY <3>1, <3>6 DEF Log!Next
  <2>. QED  BY <2>1, <2>2, <2>3 DEF Next
<1>. QED  BY <1>1, <1>2, OwnRunInvariant, PTL DEF Spec, ImplementsLog, Log!Spec
=============================================================================
