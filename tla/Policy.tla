-------------------------------- MODULE Policy --------------------------------
(* The authorization layer: src/policy/rules.py and src/policy/interface.py. *)
(* Rules are pure functions of the untrusted proposal and the ticket; the    *)
(* first that fails denies, and only then is the proposal validated against  *)
(* the schema of its tool.                                                   *)
EXTENDS TicketTools

CONSTANT Proposals      \* what the proposal source (an LLM) may answer

AuthorizationResult ==
    [decision : {"approved", "denied"},
     authorized_command : AuthorizedCommand \cup {None},
     rule_id : {"refund-amount-limit", "status-transition", None}]

ASSUME NoneIsNoRule == None \notin {"refund-amount-limit", "status-transition"}

(* Mutant: a closed ticket may be reopened.                                  *)
AllowedReopening ==
    [open |-> {"in_progress", "escalated", "closed"},
     in_progress |-> {"pending_customer", "escalated", "resolved", "closed"},
     pending_customer |-> {"in_progress", "escalated", "closed"},
     escalated |-> {"in_progress", "resolved", "closed"},
     resolved |-> {"in_progress", "closed"},
     closed |-> {"in_progress"}]

AllowedStatusTransitions ==
    [open |-> {"in_progress", "escalated", "closed"},
     in_progress |-> {"pending_customer", "escalated", "resolved", "closed"},
     pending_customer |-> {"in_progress", "escalated", "closed"},
     escalated |-> {"in_progress", "resolved", "closed"},
     resolved |-> {"in_progress", "closed"},
     closed |-> {}]

(* Both rules pass over a proposal for another tool, and over arguments they *)
(* cannot parse: those are left to the schema validation in authorize.       *)
(* Mutants: the limit itself is refused; no limit is the same as no bound;   *)
(* only the presence of a limit is checked.                                  *)
refund_amount_rule_strict(proposal, ticket) ==
    \/ proposal.tool_name # "issue_refund" \/ proposal.arguments \notin IssueRefundArgs
    \/ /\ ticket.refund_eligible_amount # None
       /\ proposal.arguments.amount < ticket.refund_eligible_amount

refund_amount_rule_none_is_unlimited(proposal, ticket) ==
    \/ proposal.tool_name # "issue_refund" \/ proposal.arguments \notin IssueRefundArgs
    \/ ticket.refund_eligible_amount = None
    \/ proposal.arguments.amount <= ticket.refund_eligible_amount

refund_amount_rule_unlimited(proposal, ticket) ==
    proposal.tool_name = "issue_refund" => ticket.refund_eligible_amount # None

refund_amount_rule(proposal, ticket) ==
    \/ proposal.tool_name # "issue_refund"
    \/ proposal.arguments \notin IssueRefundArgs
    \/ /\ ticket.refund_eligible_amount # None
       /\ proposal.arguments.amount <= ticket.refund_eligible_amount

(* Mutant: staying in a status counts as a transition.                       *)
status_transition_rule_reflexive(proposal, ticket) ==
    \/ proposal.tool_name # "update_ticket_status"
    \/ proposal.arguments \notin UpdateTicketStatusArgs
    \/ proposal.arguments.new_status \in AllowedStatusTransitions[ticket.status] \cup {ticket.status}

status_transition_rule(proposal, ticket) ==
    \/ proposal.tool_name # "update_ticket_status"
    \/ proposal.arguments \notin UpdateTicketStatusArgs
    \/ proposal.arguments.new_status \in AllowedStatusTransitions[ticket.status]

Denied(rule) == [decision |-> "denied", authorized_command |-> None, rule_id |-> rule]

Approved(command) ==
    [decision |-> "approved", authorized_command |-> command, rule_id |-> None]

authorize(proposal, ticket) ==
    CASE ~refund_amount_rule(proposal, ticket) -> Denied("refund-amount-limit")
      [] /\ refund_amount_rule(proposal, ticket)
         /\ ~status_transition_rule(proposal, ticket) -> Denied("status-transition")
      [] /\ refund_amount_rule(proposal, ticket)
         /\ status_transition_rule(proposal, ticket)
         /\ ~HasSchema(proposal) -> Denied(None)
      [] OTHER -> Approved(CommandOf(proposal))

-----------------------------------------------------------------------------
(* What the business rules allow, said of commands instead of proposals and  *)
(* without the order the rules run in.                                       *)
Permitted(command, ticket) ==
    /\ command.tool_name = "issue_refund" =>
          /\ ticket.refund_eligible_amount # None
          /\ command.args.amount \in 1..ticket.refund_eligible_amount
    /\ command.tool_name = "update_ticket_status" =>
          command.args.new_status \in AllowedStatusTransitions[ticket.status]
=============================================================================
