----------------------------- MODULE MCAgentGraph -----------------------------
(* Instances of AgentGraph for TLC.                                          *)
EXTENDS AgentGraph

CONSTANTS r1, r2, w1, w2, T1, T2, damaged, noteA, malformed

MCWrapperShared == [r \in Callers |-> w1]

MCTicket(id, status, eligible, notes) ==
    [id |-> id, status |-> status, refund_eligible_amount |-> eligible, notes |-> notes]

MCRefundArgs(id, amount) ==
    [ticket_id |-> id, amount |-> amount, digits |-> "0", reason |-> damaged]

MCStatusArgs(id, status) == [ticket_id |-> id, new_status |-> status, reason |-> damaged]

MCNoteArgs(id) == [ticket_id |-> id, note |-> noteA]

MCProposal(tool, arguments) == [tool_name |-> tool, arguments |-> arguments]

(* Refunds below, at and above the limit and the schema's bound of zero, every*)
(* status, a note, another ticket, arguments of another tool or of none, and *)
(* a tool that does not exist.                                               *)
MCProposals ==
    {MCProposal("issue_refund", MCRefundArgs(T1, a)) : a \in -1..3}
    \cup {MCProposal("issue_refund", MCRefundArgs(T2, 1))}
    \cup {MCProposal("update_ticket_status", MCStatusArgs(T1, s)) : s \in TicketStatus}
    \cup {MCProposal("update_ticket_status", MCStatusArgs(T2, "closed"))}
    \cup {MCProposal("add_ticket_note", MCNoteArgs(T1)),
          MCProposal("add_ticket_note", MCNoteArgs(T2)),
          MCProposal("add_ticket_note", MCRefundArgs(T1, 1)),
          MCProposal("issue_refund", malformed),
          MCProposal("update_ticket_status", MCNoteArgs(T1)),
          MCProposal("delete_ticket", MCNoteArgs(T1))}

MCCommands == {CommandOf(p) : p \in {q \in MCProposals : HasSchema(q)}}

(* Every status with a balance; no balance, none left, and a negative one.   *)
MCTickets ==
    {MCTicket(T1, s, 2, <<>>) : s \in TicketStatus}
    \cup {MCTicket(T1, "open", e, <<>>) : e \in {None, 0, -1}}
    \cup {MCTicket(T1, "open", 2, <<noteA>>)}

(* Two runs that may repeat each other's commands on a ticket that changed.  *)
MCFewProposals ==
    {MCProposal("issue_refund", MCRefundArgs(T1, 1)),
     MCProposal("update_ticket_status", MCStatusArgs(T1, "in_progress")),
     MCProposal("add_ticket_note", MCNoteArgs(T1)),
     MCProposal("issue_refund", malformed)}

MCFewCommands == {CommandOf(p) : p \in {q \in MCFewProposals : HasSchema(q)}}

MCFewTickets ==
    {MCTicket(T1, "open", 2, <<>>), MCTicket(T1, "in_progress", 1, <<noteA>>)}
=============================================================================
