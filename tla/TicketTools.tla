----------------------------- MODULE TicketTools -----------------------------
(* The data the engine works on and the three tools that change it           *)
(* (src/tools/schemas.py, src/tools/functions.py).                           *)
(*                                                                           *)
(* A ticket keeps the fields some branch of the code reads: its id, status,  *)
(* refundable amount and notes.  Amounts are integers in the smallest unit   *)
(* of the currency.  A refund command keeps, beside the amount, the digits   *)
(* it was written with ("20.0" and "20.00" are the same Decimal but not the  *)
(* same text) and the free-text reason; the currency is, like the reason,    *)
(* hashed into the idempotency key and read by nothing else, so "reason"     *)
(* stands for both.                                                          *)
EXTENDS Integers, Sequences

CONSTANTS
    TicketIds,      \* the ticket ids in use
    NoteTexts,      \* texts of notes
    Reasons,        \* free-text justifications (and currencies)
    Digits,         \* ways of writing the same Decimal
    None            \* Python's None

ASSUME NoneIsNoNumber == None \notin Int

TicketStatus ==
    {"open", "in_progress", "pending_customer", "escalated", "resolved", "closed"}

(* refund_eligible_amount is Decimal | None with no lower bound.             *)
Ticket ==
    [id : TicketIds,
     status : TicketStatus,
     refund_eligible_amount : Int \cup {None},
     notes : Seq(NoteTexts)]

ToolName == {"update_ticket_status", "issue_refund", "add_ticket_note"}

UpdateTicketStatusArgs ==
    [ticket_id : TicketIds, new_status : TicketStatus, reason : Reasons]

IssueRefundArgs ==
    [ticket_id : TicketIds, amount : {a \in Int : a > 0}, digits : Digits, reason : Reasons]

AddTicketNoteArgs == [ticket_id : TicketIds, note : NoteTexts]

UpdateTicketStatusCommand ==
    [tool_name : {"update_ticket_status"}, args : UpdateTicketStatusArgs]

IssueRefundCommand == [tool_name : {"issue_refund"}, args : IssueRefundArgs]

AddTicketNoteCommand == [tool_name : {"add_ticket_note"}, args : AddTicketNoteArgs]

AuthorizedCommand ==
    UpdateTicketStatusCommand \cup IssueRefundCommand \cup AddTicketNoteCommand

(* A proposal is untrusted: any tool name, any arguments.  Its arguments are *)
(* represented by what pydantic reads out of the raw dict, which need not be *)
(* the arguments of the tool it names.                                       *)
HasSchema(proposal) ==
    \/ /\ proposal.tool_name = "update_ticket_status"
       /\ proposal.arguments \in UpdateTicketStatusArgs
    \/ /\ proposal.tool_name = "issue_refund"
       /\ proposal.arguments \in IssueRefundArgs
    \/ /\ proposal.tool_name = "add_ticket_note"
       /\ proposal.arguments \in AddTicketNoteArgs

CommandOf(proposal) == [tool_name |-> proposal.tool_name, args |-> proposal.arguments]

-----------------------------------------------------------------------------
(* The tool functions.  Each first checks that the command names the ticket  *)
(* it is applied to and raises ValueError otherwise: TargetsTicket is that   *)
(* check, and Apply is only used where it holds.                             *)

TargetsTicket(command, ticket) == command.args.ticket_id = ticket.id

update_ticket_status(command, ticket) ==
    [ticket EXCEPT !.status = command.args.new_status]

FloorAtZero(amount) == IF amount < 0 THEN 0 ELSE amount

RemainingEligible(command, ticket) ==
    IF ticket.refund_eligible_amount = None
    THEN None
    ELSE FloorAtZero(ticket.refund_eligible_amount - command.args.amount)

issue_refund(command, ticket) ==
    [ticket EXCEPT !.refund_eligible_amount = RemainingEligible(command, ticket)]

add_ticket_note(command, ticket) ==
    [ticket EXCEPT !.notes = Append(@, command.args.note)]

Apply(command, ticket) ==
    CASE command.tool_name = "update_ticket_status" -> update_ticket_status(command, ticket)
      [] command.tool_name = "issue_refund" -> issue_refund(command, ticket)
      [] command.tool_name = "add_ticket_note" -> add_ticket_note(command, ticket)

-----------------------------------------------------------------------------
(* src/execution/verification.py: does the ticket after the run show the     *)
(* effect the command was authorized to have on the ticket before it?        *)

(* Mutant: any move of the status will do.                                   *)
verifyStatusMoved(command, before, after) ==
    after.id = before.id /\ after.status # before.status

verify(command, before, after) ==
    /\ after.id = before.id
    /\ CASE command.tool_name = "update_ticket_status" ->
              after.status = command.args.new_status
         [] command.tool_name = "issue_refund" ->
              after.refund_eligible_amount = RemainingEligible(command, before)
         [] command.tool_name = "add_ticket_note" ->
              \E i \in DOMAIN after.notes : after.notes[i] = command.args.note
=============================================================================
