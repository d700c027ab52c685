------------------------------- MODULE MCTaskApi -------------------------------
(* Instances of TaskApi for TLC.                                             *)
EXTENDS TaskApi, TLC

CONSTANTS r1, r2, w1, w2, T1, T2, damaged, noteA

MCWrapperEach == (r1 :> w1) @@ (r2 :> w2)

MCTicket(balance) ==
    [id |-> T1, status |-> "open", refund_eligible_amount |-> balance, notes |-> <<>>]

MCRefund(id, amount) == [ticket_id |-> id, amount |-> amount, digits |-> "0", reason |-> damaged]

MCClose == [ticket_id |-> T1, new_status |-> "closed", reason |-> damaged]

MCTickets == {MCTicket(2)}

MCTool(name, input) == [type |-> "tool_use", name |-> name, input |-> input]

MCText == [type |-> "text"]

(* No content; no blocks; text only; a tool use without a dict; one behind it*)
(* and a text; two in one answer; a tool that does not exist; and something  *)
(* that is no list of blocks.                                                *)
MCContents ==
    {None, <<>>, <<MCText>>, <<MCTool("issue_refund", None)>>,
     <<MCText, MCTool(None, MCClose), MCTool("issue_refund", MCRefund(T1, 2))>>,
     <<MCTool("update_ticket_status", MCClose), MCTool("issue_refund", MCRefund(T1, 1))>>,
     <<MCTool("delete_ticket", MCClose)>>,
     NotIterable}

MCProposal(tool, arguments) == [tool_name |-> tool, arguments |-> arguments]

(* What the answers say, and what requests carry: a refund, one above the    *)
(* limit, and one for another ticket.                                        *)
MCScripted ==
    {MCProposal("issue_refund", MCRefund(T1, 1)),
     MCProposal("issue_refund", MCRefund(T1, 3)),
     MCProposal("issue_refund", MCRefund(T2, 1))}

MCProposals ==
    MCScripted \cup {_parse_tool_use_response(c) : c \in MCContents \ {NotIterable}}

MCRequests ==
    {[ticket |-> MCTicket(2), proposed_action |-> p, injected |-> FALSE, api_key |-> FALSE] :
        p \in MCScripted \cup {None}}
    \cup {[ticket |-> MCTicket(2), proposed_action |-> None, injected |-> i, api_key |-> ~i] :
        i \in BOOLEAN}

MCCommands == {CommandOf(p) : p \in {q \in MCProposals : HasSchema(q)}}
=============================================================================
