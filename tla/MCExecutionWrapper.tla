-------------------------- MODULE MCExecutionWrapper --------------------------
(* Instances of ExecutionWrapper for TLC.                                    *)
EXTENDS ExecutionWrapper

CONSTANTS c1, c2, c3, w1, T1, T2, damaged, noteA

MCWrapperOfShared == [c \in Callers |-> w1]

MCTicket(id, status, eligible, notes) ==
    [id |-> id, status |-> status, refund_eligible_amount |-> eligible, notes |-> notes]

MCRefund(id, amount, digits, reason) ==
    [tool_name |-> "issue_refund",
     args |-> [ticket_id |-> id, amount |-> amount, digits |-> digits, reason |-> reason]]

MCStatus(id, status) ==
    [tool_name |-> "update_ticket_status",
     args |-> [ticket_id |-> id, new_status |-> status, reason |-> damaged]]

MCNote(id, note) ==
    [tool_name |-> "add_ticket_note", args |-> [ticket_id |-> id, note |-> note]]

MCOneCommand == {MCRefund(T1, 2, "0", damaged)}

(* The same refund written with one and with two decimals.                   *)
MCTwoSpellings == {MCRefund(T1, 2, d, damaged) : d \in Digits}

(* One command of each tool.                                                 *)
MCCommands == {MCRefund(T1, 2, "0", damaged), MCNote(T1, noteA), MCStatus(T1, "in_progress")}

(* The ticket before and after that refund: a repeated command may meet the  *)
(* ticket it has already changed.                                            *)
MCTickets == {MCTicket(T1, "open", 3, <<>>), MCTicket(T1, "open", 1, <<>>)}

(* A stub of a refund may do nothing, do its work or do it on another ticket.*)
MCStubReturns ==
    {MCTicket(T1, "open", 3, <<>>), MCTicket(T1, "open", 1, <<>>), MCTicket(T2, "open", 1, <<>>)}
=============================================================================
