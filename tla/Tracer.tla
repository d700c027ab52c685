-------------------------------- MODULE Tracer --------------------------------
(* src/observability/tracer.py: an ordered list of events per run, in memory.*)
(* _record is one step here: TracerThreads shows that it may be, as long as  *)
(* one thread drives a run.  The timestamp is left out; a payload stands for *)
(* whichever of the four payload fields the event type populates.            *)
EXTENDS Sequences, Naturals

TraceEvent(event_type, sequence, payload) ==
    [event_type |-> event_type, sequence |-> sequence, payload |-> payload]

(* Mutant: only the last two events of a run are kept.                       *)
_recordKeepsTwo(events, run, event_type, payload) ==
    [events EXCEPT ![run] =
        Append(IF Len(@) < 2 THEN @ ELSE Tail(@), TraceEvent(event_type, Len(@), payload))]

_record(events, run, event_type, payload) ==
    [events EXCEPT ![run] = Append(@, TraceEvent(event_type, Len(@), payload))]

record_proposal(events, run, proposed_action) ==
    _record(events, run, "proposed", proposed_action)

record_authorization(events, run, authorization_result) ==
    _record(events, run, "authorized", authorization_result)

record_execution(events, run, execution_result) ==
    _record(events, run, "executed", execution_result)

record_run_finished(events, run, run_status) ==
    _record(events, run, "run_finished", run_status)
=============================================================================
