---------------------------- MODULE TracerThreads ----------------------------
(* Tracer._record() of src/observability/tracer.py as threads execute it: it *)
(* makes the run's list if there is none and reads its length, and appends   *)
(* the event later; nothing locks the list in between.  A thread records for *)
(* the run RunOf[thread].  The tracer of the API serves all of its requests. *)
EXTENDS Tracer, FiniteSets

CONSTANTS
    Threads,
    Runs,           \* run_ids
    RunOf,          \* the run each thread drives
    EventTypes,
    Payloads,
    MaxRecords,     \* bound on the events one thread records
    None

ASSUME TracerAssumption ==
    /\ RunOf \in [Threads -> Runs]
    /\ None \notin Seq([event_type : EventTypes, sequence : Nat, payload : Payloads])
    /\ None \notin [event_type : EventTypes, sequence : Nat, payload : Payloads]

TraceEvents == [event_type : EventTypes, sequence : Nat, payload : Payloads]

VARIABLES
    lists,      \* _events_by_run, None where the run has no entry
    pending,    \* the event a thread has built and not appended yet, or None
    recorded    \* history: the sequence numbers of each thread's events

vars == <<lists, pending, recorded>>

TypeOK ==
    /\ lists \in [Runs -> Seq(TraceEvents) \cup {None}]
    /\ pending \in [Threads -> TraceEvents \cup {None}]
    /\ recorded \in [Threads -> Seq(Nat)]
    /\ \A t \in Threads : pending[t] # None => lists[RunOf[t]] # None

Init ==
    /\ lists = [run \in Runs |-> None]
    /\ pending = [t \in Threads |-> None]
    /\ recorded = [t \in Threads |-> <<>>]

events_for_run(run) == IF lists[run] = None THEN <<>> ELSE lists[run]

run_ids == {run \in Runs : lists[run] # None}

(* Mutant: events are numbered from 1.                                       *)
BuildFromOne(t) ==
    /\ pending[t] = None
    /\ Len(recorded[t]) < MaxRecords
    /\ lists' = [lists EXCEPT ![RunOf[t]] = events_for_run(RunOf[t])]
    /\ \E event_type \in EventTypes, payload \in Payloads :
         pending' = [pending EXCEPT ![t] =
            TraceEvent(event_type, Len(events_for_run(RunOf[t])) + 1, payload)]
    /\ UNCHANGED recorded

(* setdefault, then TraceEvent(sequence=len(events)).                        *)
Build(t) ==
    /\ pending[t] = None
    /\ Len(recorded[t]) < MaxRecords
    /\ lists' = [lists EXCEPT ![RunOf[t]] = events_for_run(RunOf[t])]
    /\ \E event_type \in EventTypes, payload \in Payloads :
         pending' = [pending EXCEPT ![t] =
            TraceEvent(event_type, Len(events_for_run(RunOf[t])), payload)]
    /\ UNCHANGED recorded

(* Mutants: the event is put in front; it is dropped.                        *)
AppendInFront(t) ==
    /\ pending[t] # None
    /\ lists' = [lists EXCEPT ![RunOf[t]] = <<pending[t]>> \o @]
    /\ recorded' = [recorded EXCEPT ![t] = Append(@, pending[t].sequence)]
    /\ pending' = [pending EXCEPT ![t] = None]

AppendDropped(t) ==
    /\ pending[t] # None
    /\ recorded' = [recorded EXCEPT ![t] = Append(@, pending[t].sequence)]
    /\ pending' = [pending EXCEPT ![t] = None]
    /\ UNCHANGED lists

(* events.append(event)                                                      *)
AppendEvent(t) ==
    /\ pending[t] # None
    /\ lists' = [lists EXCEPT ![RunOf[t]] = Append(@, pending[t])]
    /\ recorded' = [recorded EXCEPT ![t] = Append(@, pending[t].sequence)]
    /\ pending' = [pending EXCEPT ![t] = None]

Next == \E t \in Threads : Build(t) \/ AppendEvent(t)

(* A thread that has built an event appends it.                              *)
Fairness == \A t \in Threads : WF_vars(AppendEvent(t))

Spec == Init /\ [][Next]_vars /\ Fairness

-----------------------------------------------------------------------------
(* Properties.                                                               *)

OneThreadPerRun == \A t, u \in Threads : RunOf[t] = RunOf[u] => t = u

(* A run driven by one thread: its trace is numbered by position without gap *)
(* or repetition, whatever the threads of other runs do in the meantime.     *)
SequenceIsPosition ==
    \A run \in Runs : \A i \in DOMAIN events_for_run(run) :
        events_for_run(run)[i].sequence = i - 1

(* What is left of that when threads share a run: no event is lost, none is  *)
(* numbered beyond its position, and each thread finds its own events in the *)
(* order it recorded them, numbered increasingly.                            *)
EventsOf(run) == {<<t, i>> : t \in {u \in Threads : RunOf[u] = run}, i \in 1..MaxRecords}

SharedRunsKeepEvents ==
    /\ \A run \in Runs :
          /\ Len(events_for_run(run))
                = Cardinality({e \in EventsOf(run) : e[2] \in DOMAIN recorded[e[1]]})
          /\ \A i \in DOMAIN events_for_run(run) : events_for_run(run)[i].sequence < i
    /\ \A t \in Threads : \A i, j \in DOMAIN recorded[t] :
          i < j => recorded[t][i] < recorded[t][j]

(* A reader that asked before sees the same events again, and maybe more: a  *)
(* trace only grows at its end, also while several threads record.           *)
TracesGrow ==
    [][\A run \in Runs :
        /\ Len(events_for_run(run)) <= Len(events_for_run(run)')
        /\ \A i \in DOMAIN events_for_run(run) :
              events_for_run(run)'[i] = events_for_run(run)[i]]_vars

(* A run that run_ids() lists gets the event that made it appear.            *)
ListedRunsGetEvents ==
    \A run \in Runs : run \in run_ids ~> events_for_run(run) # <<>>

-----------------------------------------------------------------------------
Log == INSTANCE EventLog WITH events <- [run \in Runs |-> events_for_run(run)]

(* With one thread for each run the tracer is the abstract log, so the graph *)
(* may treat the recording of an event as one step.                          *)
ImplementsLog == Log!Spec

(* tracer.py:132-133: run_ids() are "All run_ids with at least one recorded  *)
(* event".                                                                   *)
ListedRunsHaveEvents == \A run \in run_ids : events_for_run(run) # <<>>
=============================================================================
