------------------------------ MODULE MCMcpServer ------------------------------
(* Instances of McpServer for TLC.                                           *)
EXTENDS McpServer, TLC

CONSTANTS T1, T2, T3, T4, T5, damaged, noteA, malformed

MCTicket(id, status, balance, notes) ==
    [id |-> id, status |-> status, refund_eligible_amount |-> balance, notes |-> notes]

(* A balance; none; the copy of T1 filed under another id; no ticket T4; a   *)
(* negative balance, which the first refund lifts to zero.                   *)
MCSeed ==
    (T1 :> MCTicket(T1, "open", 3, <<>>)) @@ (T2 :> MCTicket(T2, "closed", None, <<noteA>>))
    @@ (T3 :> MCTicket(T1, "open", 3, <<>>)) @@ (T4 :> None)
    @@ (T5 :> MCTicket(T5, "open", -1, <<>>))

MCCall(tool, arguments) == [tool_name |-> tool, arguments |-> arguments]

MCRefund(id, amount) ==
    MCCall("issue_refund", [ticket_id |-> id, amount |-> amount, digits |-> "0", reason |-> damaged])

MCNote(id) == MCCall("add_ticket_note", [ticket_id |-> id, note |-> noteA])

MCReopen(id) ==
    MCCall("update_ticket_status", [ticket_id |-> id, new_status |-> "open", reason |-> damaged])

MCCalls ==
    {MCRefund(T1, 1), MCRefund(T1, 2), MCRefund(T2, 1), MCRefund(T3, 1), MCRefund(T4, 1), MCRefund(T5, 1),
     MCNote(T1), MCNote(T2), MCNote(T3), MCReopen(T2),
     MCCall("issue_refund", malformed), MCCall("delete_ticket", malformed)}
=============================================================================
