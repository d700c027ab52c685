------------------------------- MODULE EventLog -------------------------------
(* What a Tracer promises its users: recording an event is one indivisible   *)
(* step that numbers it with its position.  AgentGraph records this way.     *)
EXTENDS Tracer

CONSTANTS Runs, EventTypes, Payloads

VARIABLE events

Init == events = [run \in Runs |-> <<>>]

Record(run) ==
    \E event_type \in EventTypes, payload \in Payloads :
        events' = _record(events, run, event_type, payload)

Next == \E run \in Runs : Record(run)

Spec == Init /\ [][Next]_events
=============================================================================
