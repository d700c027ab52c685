------------------------------ MODULE AgentGraph ------------------------------
(* The agent's state machine: src/graph/build.py, src/graph/nodes.py and     *)
(* src/graph/state.py, composed with the policy, the execution wrapper and   *)
(* the tracer.  A run is one invoke() of the compiled graph, driven by one   *)
(* thread: the caller of ExecutionWrapper with the same name.  WrapperOf     *)
(* says whether runs have a wrapper each (build_agent_graph's default, the   *)
(* API and the evaluation harness) or reuse one across invoke() calls.       *)
EXTENDS ExecutionWrapper, Policy, Tracer

CONSTANT ProposeMayRaise    \* may the proposal source raise?

RunStatus == {"pending", "authorizing", "executing", "completed", "denied", "failed"}

Terminal == {"completed", "denied", "failed"}

AgentState ==
    [ticket : Tickets,
     proposed_action : Proposals \cup {None},
     authorization_result : AuthorizationResult \cup {None},
     execution_result : ExecutionResult \cup {None},
     retry_count : Nat,
     run_status : RunStatus]

Node ==
    {"start", "propose", "authorize", "execute",
     "mark_denied", "mark_completed", "mark_failed", "end", "raised"}

Event ==
    [event_type : {"proposed"}, sequence : Nat, payload : Proposals]
    \cup [event_type : {"authorized"}, sequence : Nat, payload : AuthorizationResult]
    \cup [event_type : {"executed"}, sequence : Nat, payload : ExecutionResult]
    \cup [event_type : {"run_finished"}, sequence : Nat, payload : Terminal]

ASSUME GraphAssumption ==
    /\ \A p \in Proposals : HasSchema(p) => CommandOf(p) \in Commands
    /\ 3 \in MaxAttempts
    /\ None \notin AuthorizationResult /\ None \notin Proposals /\ None \notin Terminal

VARIABLES
    node,       \* the node each run executes next
    state,      \* its AgentState
    events      \* Tracer._events_by_run

vars == <<wrapperVars, node, state, events>>

AgentTypeOK ==
    /\ node \in [Callers -> Node]
    /\ state \in [Callers -> AgentState \cup {None}]
    /\ \A r \in Callers : node[r] # "start" => state[r] \in AgentState
    /\ events \in [Callers -> Seq(Event)]

GraphTypeOK == TypeOK /\ AgentTypeOK

Init ==
    /\ WrapperInit
    /\ node = [r \in Callers |-> "start"]
    /\ state = [r \in Callers |-> None]
    /\ events = [r \in Callers |-> <<>>]

InitialState(ticket) ==
    [ticket |-> ticket, proposed_action |-> None, authorization_result |-> None,
     execution_result |-> None, retry_count |-> 0, run_status |-> "pending"]

(* invoke(AgentState(run_id, ticket, ...)): START -> propose.                *)
Invoke(r, ticket) ==
    /\ node[r] = "start"
    /\ node' = [node EXCEPT ![r] = "propose"]
    /\ state' = [state EXCEPT ![r] = InitialState(ticket)]
    /\ UNCHANGED <<wrapperVars, events>>

propose_node(r, proposal) ==
    /\ node[r] = "propose"
    /\ events' = record_proposal(events, r, proposal)
    /\ state' = [state EXCEPT ![r].proposed_action = proposal,
                              ![r].run_status = "authorizing"]
    /\ node' = [node EXCEPT ![r] = "authorize"]
    /\ UNCHANGED wrapperVars

(* The scripted provider has run out, or the API call failed.                *)
ProposeRaises(r) ==
    /\ ProposeMayRaise
    /\ node[r] = "propose"
    /\ node' = [node EXCEPT ![r] = "raised"]
    /\ UNCHANGED <<wrapperVars, state, events>>

route_after_authorize(authorization) ==
    IF authorization.decision = "approved" THEN "execute" ELSE "mark_denied"

(* Mutant: only approvals are traced.                                        *)
authorize_node_traces_approvals(r) ==
    /\ node[r] = "authorize"
    /\ LET authorization == authorize(state[r].proposed_action, state[r].ticket)
           approved == authorization.decision = "approved"
       IN  /\ events' = IF approved THEN record_authorization(events, r, authorization) ELSE events
           /\ state' = [state EXCEPT
                 ![r].authorization_result = authorization,
                 ![r].run_status = IF approved THEN "executing" ELSE @]
           /\ node' = [node EXCEPT ![r] = route_after_authorize(authorization)]
    /\ UNCHANGED wrapperVars

authorize_node(r) ==
    /\ node[r] = "authorize"
    /\ LET authorization == authorize(state[r].proposed_action, state[r].ticket)
       IN  /\ events' = record_authorization(events, r, authorization)
           /\ state' = [state EXCEPT
                 ![r].authorization_result = authorization,
                 ![r].run_status =
                    IF authorization.decision = "approved" THEN "executing" ELSE @]
           /\ node' = [node EXCEPT ![r] = route_after_authorize(authorization)]
    /\ UNCHANGED wrapperVars

(* execute_node calls the wrapper with the default max_attempts; only the    *)
(* evaluation harness injects a should_fail.                                 *)
execute_node_calls(r) ==
    /\ node[r] = "execute"
    /\ \E should_fail \in ShouldFail :
         Call(r, [command |-> state[r].authorization_result.authorized_command,
                  ticket |-> state[r].ticket,
                  max_attempts |-> 3,
                  should_fail |-> should_fail])
    /\ UNCHANGED <<node, state, events>>

execute_node_waits(r) ==
    /\ Execute(r)
    /\ UNCHANGED <<node, state, events>>

(* Mutant: only a failed verification fails a run.                           *)
route_unverified_only(execution) ==
    IF execution.status # "verification_failed" THEN "mark_completed" ELSE "mark_failed"

route_after_execute(execution) ==
    IF execution.status = "success" THEN "mark_completed" ELSE "mark_failed"

execute_node_returns(r) ==
    /\ pc[r] = "returned"
    /\ events' = record_execution(events, r, result[r])
    /\ state' = [state EXCEPT ![r].execution_result = result[r]]
    /\ node' = [node EXCEPT ![r] = route_after_execute(result[r])]
    /\ TakeResult(r)

(* An exception of the wrapper leaves invoke(): no event, no terminal node.  *)
execute_node_raises(r) ==
    /\ pc[r] = "raised"
    /\ node' = [node EXCEPT ![r] = "raised"]
    /\ TakeResult(r)
    /\ UNCHANGED <<state, events>>

Finish(r, run_status) ==
    /\ events' = record_run_finished(events, r, run_status)
    /\ state' = [state EXCEPT ![r].run_status = run_status]
    /\ node' = [node EXCEPT ![r] = "end"]
    /\ UNCHANGED wrapperVars

mark_denied_node(r) == node[r] = "mark_denied" /\ Finish(r, "denied")

mark_completed_node(r) == node[r] = "mark_completed" /\ Finish(r, "completed")

mark_failed_node(r) == node[r] = "mark_failed" /\ Finish(r, "failed")

Step(r) ==
    \/ \E p \in Proposals : propose_node(r, p)
    \/ ProposeRaises(r)
    \/ authorize_node(r)
    \/ execute_node_calls(r) \/ execute_node_waits(r)
    \/ execute_node_returns(r) \/ execute_node_raises(r)
    \/ mark_denied_node(r) \/ mark_completed_node(r) \/ mark_failed_node(r)

Next ==
    \E r \in Callers :
        \/ \E ticket \in Tickets : Invoke(r, ticket)
        \/ Step(r)

(* invoke() runs the graph on the thread that called it until it returns.    *)
Fairness == \A r \in Callers : WF_vars(Step(r))

Spec == Init /\ [][Next]_vars /\ Fairness

-----------------------------------------------------------------------------
(* Properties.                                                               *)

Reached(r) == node[r] # "start"

HasStatus(r, run_status) == Reached(r) /\ state[r].run_status = run_status

Command(r) == state[r].authorization_result.authorized_command

(* The key that the execution of an approved run has in the store.           *)
KeyOfRun(r) == <<WrapperOf[r], Command(r), state[r].ticket.id>>

(* The trust boundary: a tool function only ever ran a command that some run *)
(* proposed, that the policy approved for that run, and that the rules permit*)
(* on the ticket of that run; also when the call then raised.                *)
OnlyAuthorizedEffects ==
    \A k \in Key : ran[k] > 0 \/ k \in unrecorded =>
        \E r \in Callers :
            /\ WrapperOf[r] = k[1]
            /\ Reached(r)
            /\ state[r].authorization_result = Approved(k[2])
            /\ CommandOf(state[r].proposed_action) = k[2]
            /\ state[r].ticket.id = k[3]
            /\ Permitted(k[2], state[r].ticket)

(* Why: the execution layer is only entered from the execute node, with the  *)
(* command that this run's approval carries and the ticket it was judged on. *)
CallsFollowApproval ==
    \A r \in Callers :
        /\ pc[r] # "idle" =>
              /\ node[r] = "execute"
              /\ request[r].command = Command(r)
              /\ request[r].ticket = state[r].ticket
        /\ node[r] \in {"propose", "authorize"} => state[r].authorization_result = None
        /\ node[r] = "authorize" => state[r].proposed_action \in Proposals
        /\ node[r] = "execute" =>
              /\ state[r].proposed_action \in Proposals
              /\ HasSchema(state[r].proposed_action)
              /\ state[r].authorization_result = Approved(CommandOf(state[r].proposed_action))
              /\ Permitted(CommandOf(state[r].proposed_action), state[r].ticket)

(* A denial is never arbitrary: it names the rule that the proposal breaks,  *)
(* or no rule when the proposal does not fit the schema of a tool at all.    *)
DenialsNameTheirCause ==
    \A r \in Callers : HasStatus(r, "denied") =>
        LET p == state[r].proposed_action
            rule == state[r].authorization_result.rule_id
        IN  /\ HasSchema(p) => ~Permitted(CommandOf(p), state[r].ticket)
            /\ HasSchema(p) <=> rule # None
            /\ rule = "refund-amount-limit" => p.tool_name = "issue_refund"
            /\ rule = "status-transition" => p.tool_name = "update_ticket_status"

(* The final status says what happened: completed is an approved command     *)
(* whose effect was verified, failed an approved one without it, and denied  *)
(* a run that never reached the execution layer.                             *)
StatusFollowsEvidence ==
    \A r \in Callers : Reached(r) =>
        LET authorization == state[r].authorization_result
            execution == state[r].execution_result
        IN  /\ HasStatus(r, "completed") =>
                  /\ authorization.decision = "approved"
                  /\ execution.status = "success" /\ execution.verified
            /\ HasStatus(r, "failed") =>
                  /\ authorization.decision = "approved"
                  /\ execution.status # "success" /\ ~execution.verified
            /\ HasStatus(r, "denied") =>
                  /\ authorization.decision = "denied"
                  /\ execution = None /\ request[r] = None
            /\ node[r] = "end" <=> state[r].run_status \in Terminal

(* With a wrapper to itself, a run that completes shows its effect exactly,  *)
(* even if the tool function misbehaves: a refund took the whole amount off a*)
(* balance that covered it (the floor at zero is never what happened), and a *)
(* status change left the status it started from.                            *)
CompletedShowsTheEffect ==
    \A r \in Callers : HasStatus(r, "completed") =>
        LET before == state[r].ticket
            after == state[r].execution_result.ticket
            args == Command(r).args
        IN  /\ after.id = before.id
            /\ Command(r).tool_name = "issue_refund" =>
                  /\ after.refund_eligible_amount = before.refund_eligible_amount - args.amount
                  /\ after.refund_eligible_amount \in 0..(before.refund_eligible_amount - 1)
            /\ Command(r).tool_name = "update_ticket_status" =>
                  /\ after.status = args.new_status
                  /\ after.status # before.status
                  /\ before.status # "closed"

(* The events a run must have left, from the state it is in.                 *)
Moment(event_type, payload) == IF payload = None THEN <<>> ELSE << <<event_type, payload>> >>

ExpectedTrace(s) ==
    Moment("proposed", s.proposed_action) \o Moment("authorized", s.authorization_result)
    \o Moment("executed", s.execution_result)
    \o Moment("run_finished", IF s.run_status \in Terminal THEN s.run_status ELSE None)

(* The trace of a run is its story, at every moment of it: one event for each*)
(* thing that happened, in order, numbered from 0, with what was decided.    *)
TraceTellsTheRun ==
    \A r \in Callers : Reached(r) =>
        LET expected == ExpectedTrace(state[r])
        IN  /\ Len(events[r]) = Len(expected)
            /\ \A i \in DOMAIN expected :
                  /\ events[r][i].sequence = i - 1
                  /\ events[r][i].event_type = expected[i][1]
                  /\ events[r][i].payload = expected[i][2]

(* Runs that share a wrapper and execute the same command on the same ticket *)
(* id report the same outcome, whatever happened between them.               *)
ReplaysAgree ==
    \A q, r \in Callers :
        LET Executed(x) == Reached(x) /\ state[x].execution_result # None
        IN  (Executed(q) /\ Executed(r) /\ WrapperOf[q] = WrapperOf[r]
              /\ Command(q) = Command(r) /\ state[q].ticket.id = state[r].ticket.id
              /\ state[q].execution_result.status # "failure"
              /\ state[r].execution_result.status # "failure")
            => state[q].execution_result = state[r].execution_result

(* An invoke() that was started comes back, with a final state or an         *)
(* exception: no run waits for ever on another or loops in the graph.        *)
RunsEnd == \A r \in Callers : Reached(r) ~> node[r] \in {"end", "raised"}

-----------------------------------------------------------------------------
(* Claims of the repository's texts that the code does not keep.             *)

(* build.py:3-7: the graph "always reaches one of the three terminal nodes". *)
EveryRunReachesATerminalNode == \A r \in Callers : Reached(r) ~> node[r] = "end"

(* verification.py:12-15: verification "re-derives the expected ticket_after *)
(* state ... and compares", so a completed note run added its note.          *)
CompletedNotesWereAdded ==
    \A r \in Callers :
        (HasStatus(r, "completed") /\ Command(r).tool_name = "add_ticket_note") =>
            state[r].execution_result.ticket.notes
                = Append(state[r].ticket.notes, Command(r).args.note)

=============================================================================
