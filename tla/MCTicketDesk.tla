----------------------------- MODULE MCTicketDesk -----------------------------
(* Instances of TicketDesk for TLC.                                          *)
EXTENDS TicketDesk, TLC

CONSTANTS r1, r2, r3, r4, w1, w2, w3, T1, T2, damaged, lost, noteA

MCWrapperEach == (r1 :> w1) @@ (r2 :> w2) @@ (r3 :> w3)

MCWrapperShared == [r \in Callers |-> w1]

MCTicket(status, balance) ==
    [id |-> T1, status |-> status, refund_eligible_amount |-> balance, notes |-> <<>>]

MCFirstTicket == MCTicket("open", 3)

MCTickets == {MCTicket(s, b) : s \in {"open", "in_progress", "closed"}, b \in 0..3}

MCRefund(id, amount, reason) ==
    [tool_name |-> "issue_refund",
     arguments |-> [ticket_id |-> id, amount |-> amount, digits |-> "0", reason |-> reason]]

MCStatus(status) ==
    [tool_name |-> "update_ticket_status",
     arguments |-> [ticket_id |-> T1, new_status |-> status, reason |-> damaged]]

(* Refunds of parts, of all and of more than is left, for two reasons; two   *)
(* moves of the status; a refund on another ticket.                          *)
MCProposals ==
    {MCRefund(T1, a, damaged) : a \in 1..3}
    \cup {MCRefund(T1, 1, lost), MCRefund(T2, 1, damaged)}
    \cup {MCStatus(s) : s \in {"in_progress", "closed"}}

(* Orders that can be repeated while other refunds come between.             *)
MCOrders == {MCRefund(T1, 1, damaged), MCRefund(T1, 1, lost), MCRefund(T1, 2, damaged)}

(* One order, which the ticket covers once.                                  *)
MCOneOrder == {MCRefund(T1, 2, damaged)}

MCCommandsOf(proposals) == {CommandOf(p) : p \in proposals}

MCCommands == MCCommandsOf(MCProposals)

MCOrderCommands == MCCommandsOf(MCOrders)

MCOneCommand == MCCommandsOf(MCOneOrder)
=============================================================================
