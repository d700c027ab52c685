----------------------------- MODULE PolicyProofs -----------------------------
(* What the policy, the tools and the verification guarantee together, for   *)
(* every proposal and every ticket.                                          *)
EXTENDS Policy, TLAPS

(* authorize() approves exactly what fits a tool's schema and the rules      *)
(* permit on the ticket: the order of the rules and of the schema check      *)
(* changes what a denial says, never what is approved.                       *)
THEOREM ApprovalIsPermission ==
    ASSUME NEW proposal, NEW ticket \in Ticket
    PROVE  authorize(proposal, ticket).decision = "approved"
             <=> HasSchema(proposal) /\ Permitted(CommandOf(proposal), ticket)
<1>. DEFINE rules == refund_amount_rule(proposal, ticket) /\ status_transition_rule(proposal, ticket)
<1>1. authorize(proposal, ticket).decision = "approved" <=> rules /\ HasSchema(proposal)
  BY DEF authorize, Denied, Approved
<1>2. ASSUME HasSchema(proposal) PROVE rules <=> Permitted(CommandOf(proposal), ticket)
  <2>1. CASE proposal.tool_name = "update_ticket_status"
    BY <1>2, <2>1 DEF HasSchema, Permitted, CommandOf, refund_amount_rule, status_transition_rule
  <2>2. CASE proposal.tool_name = "issue_refund"
    <3>1. proposal.arguments \in IssueRefundArgs
      BY <1>2, <2>2 DEF HasSchema
    <3>2. proposal.arguments.amount \in Int /\ proposal.arguments.amount > 0
      BY <3>1 DEF IssueRefundArgs
    <3>3. ticket.refund_eligible_amount \in Int \cup {None}
      BY DEF Ticket
    <3>. QED
      BY <2>2, <3>1, <3>2, <3>3 DEF Permitted, CommandOf, refund_amount_rule, status_transition_rule
  <2>3. CASE proposal.tool_name = "add_ticket_note"
    BY <2>3 DEF Permitted, CommandOf, refund_amount_rule, status_transition_rule
  <2>. QED  BY <1>2, <2>1, <2>2, <2>3 DEF HasSchema
<1>. QED  BY <1>1, <1>2

(* The command an approval carries is a well-formed one.                     *)
THEOREM ApprovalCarriesACommand ==
    ASSUME NEW proposal, NEW ticket, authorize(proposal, ticket).decision = "approved"
    PROVE  /\ authorize(proposal, ticket) = Approved(CommandOf(proposal))
           /\ CommandOf(proposal) \in AuthorizedCommand
<1>1. HasSchema(proposal) /\ authorize(proposal, ticket) = Approved(CommandOf(proposal))
  BY DEF authorize, Denied, Approved
<1>2. CommandOf(proposal) \in AuthorizedCommand
  BY <1>1 DEF HasSchema, CommandOf, AuthorizedCommand, UpdateTicketStatusCommand,
              IssueRefundCommand, AddTicketNoteCommand
<1>. QED  BY <1>1, <1>2

(* A tool that does its work on the ticket its command names passes the      *)
(* verification: no correct run is reported VERIFICATION_FAILED.             *)
THEOREM CorrectToolsAreVerified ==
    ASSUME NEW command \in AuthorizedCommand, NEW ticket \in Ticket
    PROVE  verify(command, ticket, Apply(command, ticket))
<1>1. CASE command \in UpdateTicketStatusCommand
  BY <1>1 DEF verify, Apply, update_ticket_status, UpdateTicketStatusCommand, Ticket
<1>2. CASE command \in IssueRefundCommand
  <2>1. Apply(command, ticket) = issue_refund(command, ticket) /\ command.tool_name = "issue_refund"
    BY <1>2 DEF Apply, IssueRefundCommand
  <2>2. issue_refund(command, ticket).refund_eligible_amount = RemainingEligible(command, ticket)
    BY DEF issue_refund, Ticket
  <2>3. issue_refund(command, ticket).id = ticket.id
    BY DEF issue_refund, Ticket
  <2>. QED  BY <2>1, <2>2, <2>3 DEF verify
<1>3. CASE command \in AddTicketNoteCommand
  <2>1. Apply(command, ticket) = add_ticket_note(command, ticket) /\ command.tool_name = "add_ticket_note"
    BY <1>3 DEF Apply, AddTicketNoteCommand
  <2>2. /\ add_ticket_note(command, ticket).notes = Append(ticket.notes, command.args.note)
        /\ add_ticket_note(command, ticket).id = ticket.id
    BY DEF add_ticket_note, Ticket
  <2>3. /\ Len(ticket.notes) + 1 \in DOMAIN Append(ticket.notes, command.args.note)
        /\ Append(ticket.notes, command.args.note)[Len(ticket.notes) + 1] = command.args.note
    BY <1>3 DEF AddTicketNoteCommand, AddTicketNoteArgs, Ticket
  <2>. QED  BY <2>1, <2>2, <2>3 DEF verify
<1>. QED  BY <1>1, <1>2, <1>3 DEF AuthorizedCommand

(* A refund or a status change that the policy approved cannot be verified on*)
(* an untouched ticket: a tool that silently does nothing is always caught.  *)
(* The policy is needed for it: it rules out refunds of zero and moves of a  *)
(* status to itself.  (Nothing alike holds of notes.)                        *)
THEOREM IdleToolsAreCaught ==
    ASSUME NEW command \in UpdateTicketStatusCommand \cup IssueRefundCommand,
           NEW ticket \in Ticket, Permitted(command, ticket)
    PROVE  ~verify(command, ticket, ticket)
<1>1. CASE command \in UpdateTicketStatusCommand
  <2>1. \A s \in TicketStatus : s \notin AllowedStatusTransitions[s]
    BY DEF TicketStatus, AllowedStatusTransitions
  <2>2. command.args.new_status # ticket.status
    BY <1>1, <2>1 DEF Permitted, UpdateTicketStatusCommand, Ticket
  <2>. QED  BY <1>1, <2>2 DEF verify, UpdateTicketStatusCommand
<1>2. CASE command \in IssueRefundCommand
  <2>1. command.args.amount \in Int /\ command.args.amount > 0 /\ command.tool_name = "issue_refund"
    BY <1>2 DEF IssueRefundCommand, IssueRefundArgs
  <2>2. ticket.refund_eligible_amount \in Int /\ command.args.amount <= ticket.refund_eligible_amount
    BY <2>1, NoneIsNoNumber DEF Permitted, Ticket
  <2>3. ticket.refund_eligible_amount # None
    BY <2>2, NoneIsNoNumber
  <2>4. RemainingEligible(command, ticket) # ticket.refund_eligible_amount
    BY <2>1, <2>2, <2>3 DEF RemainingEligible, FloorAtZero
  <2>. QED  BY <2>1, <2>4 DEF verify
<1>. QED  BY <1>1, <1>2

(* A denial is never arbitrary: it names the rule that the proposal breaks on*)
(* the ticket, or no rule exactly when it fits no tool's schema.             *)
THEOREM DenialsHaveACause ==
    ASSUME NEW proposal, NEW ticket \in Ticket, authorize(proposal, ticket).decision = "denied"
    PROVE  LET rule == authorize(proposal, ticket).rule_id
           IN  /\ HasSchema(proposal) => ~Permitted(CommandOf(proposal), ticket)
               /\ HasSchema(proposal) <=> rule # None
               /\ rule = "refund-amount-limit" => proposal.tool_name = "issue_refund"
               /\ rule = "status-transition" => proposal.tool_name = "update_ticket_status"
<1>. DEFINE rule == authorize(proposal, ticket).rule_id
<1>1. HasSchema(proposal) => ~Permitted(CommandOf(proposal), ticket)
  BY ApprovalIsPermission
<1>2. CASE ~refund_amount_rule(proposal, ticket)
  <2>1. HasSchema(proposal) /\ proposal.tool_name = "issue_refund"
    BY <1>2 DEF refund_amount_rule, HasSchema
  <2>2. rule = "refund-amount-limit"
    BY <1>2 DEF authorize, Denied
  <2>. QED  BY <1>1, <2>1, <2>2, NoneIsNoRule
<1>3. CASE refund_amount_rule(proposal, ticket) /\ ~status_transition_rule(proposal, ticket)
  <2>1. HasSchema(proposal) /\ proposal.tool_name = "update_ticket_status"
    BY <1>3 DEF status_transition_rule, HasSchema
  <2>2. rule = "status-transition"
    BY <1>3 DEF authorize, Denied
  <2>. QED  BY <1>1, <2>1, <2>2, NoneIsNoRule
<1>4. CASE /\ refund_amount_rule(proposal, ticket) /\ status_transition_rule(proposal, ticket)
           /\ ~HasSchema(proposal)
  <2>1. rule = None
    BY <1>4 DEF authorize, Denied
  <2>. QED  BY <1>4, <2>1, NoneIsNoRule
<1>5. CASE /\ refund_amount_rule(proposal, ticket) /\ status_transition_rule(proposal, ticket)
           /\ HasSchema(proposal)
  BY <1>5 DEF authorize, Approved
<1>. QED  BY <1>2, <1>3, <1>4, <1>5
=============================================================================
