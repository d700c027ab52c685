----------------------------- MODULE AtomicTickets -----------------------------
(* What a ticket store behind the tools promises: each call that is served   *)
(* changes the ticket it names, as it is at that moment, in one step.        *)
EXTENDS TicketTools

CONSTANTS Commands, Seed

VARIABLE tickets

Init == tickets = Seed

Serve(command) ==
    LET id == command.args.ticket_id
    IN  /\ tickets[id] # None
        /\ TargetsTicket(command, tickets[id])
        /\ tickets' = [tickets EXCEPT ![id] = Apply(command, @)]

Next == \E command \in Commands : Serve(command)

Spec == Init /\ [][Next]_tickets
=============================================================================
