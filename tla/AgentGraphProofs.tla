--------------------------- MODULE AgentGraphProofs ---------------------------
(* Proofs about AgentGraph, for every number of runs, however they share     *)
(* wrappers and overlap, and every proposal source.                          *)
EXTENDS AgentGraph, ExecutionWrapperProofs, PolicyProofs, SequenceTheorems

GraphInv == GraphTypeOK /\ CallsFollowApproval

(* authorize() answers with a well-formed AuthorizationResult.               *)
LEMMA AuthorizeType ==
    ASSUME NEW proposal, NEW ticket
    PROVE  authorize(proposal, ticket) \in AuthorizationResult
<1>1. CASE authorize(proposal, ticket).decision = "approved"
  BY <1>1, ApprovalCarriesACommand DEF Approved, AuthorizationResult
<1>2. CASE authorize(proposal, ticket).decision # "approved"
  BY <1>2 DEF authorize, Denied, Approved, AuthorizationResult
<1>. QED  BY <1>1, <1>2

(* What execute_node passes to the wrapper is a request it can serve.        *)
LEMMA GraphRequestType ==
    ASSUME GraphInv, NEW r \in Callers, node[r] = "execute", NEW should_fail \in ShouldFail
    PROVE  [command |-> Command(r), ticket |-> state[r].ticket,
            max_attempts |-> 3, should_fail |-> should_fail] \in Request
<1>1. state[r] \in AgentState
  BY DEF GraphInv, GraphTypeOK, AgentTypeOK
<1>2. Command(r) \in Commands
  <2>. DEFINE p == state[r].proposed_action
  <2>1. p \in Proposals /\ HasSchema(p) /\ state[r].authorization_result = Approved(CommandOf(p))
    BY DEF GraphInv, CallsFollowApproval
  <2>2. Command(r) = CommandOf(p)
    BY <2>1 DEF Command, Approved
  <2>. QED  BY <2>1, <2>2, GraphAssumption
<1>. QED  BY <1>1, <1>2, GraphAssumption DEF AgentState, Request

-----------------------------------------------------------------------------
(* Every step of the graph is a step of the wrapper or leaves it alone, so   *)
(* what holds of the wrapper under any callers holds of it under the graph.  *)
LEMMA GraphStepIsWrapperStep ==
    GraphInv /\ [Next]_vars => [WrapperNext]_wrapperVars
<1>. SUFFICES ASSUME GraphInv, [Next]_vars PROVE [WrapperNext]_wrapperVars
  OBVIOUS
<1>1. ASSUME NEW r \in Callers, execute_node_calls(r) PROVE WrapperNext
  <2>1. PICK should_fail \in ShouldFail :
          Call(r, [command |-> Command(r), ticket |-> state[r].ticket,
                   max_attempts |-> 3, should_fail |-> should_fail])
    BY <1>1 DEF execute_node_calls, Command
  <2>2. node[r] = "execute"
    BY <1>1 DEF execute_node_calls
  <2>. QED  BY <2>1, <2>2, GraphRequestType DEF WrapperNext
<1>2. ASSUME NEW r \in Callers, execute_node_waits(r) PROVE WrapperNext
  BY <1>2 DEF execute_node_waits, WrapperNext
<1>3. ASSUME NEW r \in Callers, execute_node_returns(r) \/ execute_node_raises(r)
      PROVE  WrapperNext
  BY <1>3 DEF execute_node_returns, execute_node_raises, WrapperNext
<1>4. ASSUME NEW r \in Callers,
             \/ \E ticket \in Tickets : Invoke(r, ticket)
             \/ \E p \in Proposals : propose_node(r, p)
             \/ ProposeRaises(r) \/ authorize_node(r)
             \/ mark_denied_node(r) \/ mark_completed_node(r) \/ mark_failed_node(r)
      PROVE  UNCHANGED wrapperVars
  BY <1>4 DEF Invoke, propose_node, ProposeRaises, authorize_node, mark_denied_node,
              mark_completed_node, mark_failed_node, Finish
<1>5. CASE UNCHANGED vars
  BY <1>5 DEF vars
<1>. QED  BY <1>1, <1>2, <1>3, <1>4, <1>5 DEF Next, Step

(* Recording an event of a run keeps the type of the traces.                 *)
LEMMA RecordType ==
    ASSUME events \in [Callers -> Seq(Event)], NEW r \in Callers,
           NEW event_type, NEW payload,
           \A n \in Nat : TraceEvent(event_type, n, payload) \in Event,
           events' = _record(events, r, event_type, payload)
    PROVE  events' \in [Callers -> Seq(Event)]
<1>1. Append(events[r], TraceEvent(event_type, Len(events[r]), payload)) \in Seq(Event)
  OBVIOUS
<1>. QED  BY <1>1 DEF _record

(* Every run keeps a well-formed state and trace at every node.              *)
LEMMA GraphNextType == GraphInv /\ [Next]_vars => GraphTypeOK'
<1>. SUFFICES ASSUME GraphInv, [Next]_vars PROVE GraphTypeOK'
  OBVIOUS
<1>. USE DEF GraphInv
<1>1. TypeOK'
  BY GraphStepIsWrapperStep, NextType DEF GraphTypeOK
<1>2. ASSUME NEW r \in Callers, NEW ticket \in Tickets, Invoke(r, ticket) PROVE AgentTypeOK'
  <2>1. InitialState(ticket) \in AgentState
    BY DEF InitialState, AgentState, RunStatus
  <2>. QED  BY <1>2, <2>1 DEF GraphTypeOK, AgentTypeOK, Invoke, Node
<1>3. ASSUME NEW r \in Callers, NEW p \in Proposals, propose_node(r, p) PROVE AgentTypeOK'
  <2>1. state[r] \in AgentState
    BY <1>3 DEF GraphTypeOK, AgentTypeOK, propose_node
  <2>2. [state[r] EXCEPT !.proposed_action = p, !.run_status = "authorizing"] \in AgentState
    BY <2>1 DEF AgentState, RunStatus
  <2>3. events' \in [Callers -> Seq(Event)]
    BY <1>3, RecordType DEF GraphTypeOK, AgentTypeOK, propose_node, record_proposal, TraceEvent, Event
  <2>. QED  BY <1>3, <2>2, <2>3 DEF GraphTypeOK, AgentTypeOK, propose_node, Node
<1>4. ASSUME NEW r \in Callers, ProposeRaises(r) PROVE AgentTypeOK'
  BY <1>4 DEF GraphTypeOK, AgentTypeOK, ProposeRaises, Node
<1>5. ASSUME NEW r \in Callers, authorize_node(r) PROVE AgentTypeOK'
  <2>. DEFINE authorization == authorize(state[r].proposed_action, state[r].ticket)
              s == [state[r] EXCEPT
                     !.authorization_result = authorization,
                     !.run_status = IF authorization.decision = "approved" THEN "executing" ELSE @]
  <2>1. state[r] \in AgentState
    BY <1>5 DEF GraphTypeOK, AgentTypeOK, authorize_node
  <2>2. authorization \in AuthorizationResult
    BY AuthorizeType
  <2>3. s \in AgentState
    BY <2>1, <2>2 DEF AgentState, RunStatus
  <2>4. events' \in [Callers -> Seq(Event)]
    <3>1. events' = _record(events, r, "authorized", authorization)
      BY <1>5 DEF authorize_node, record_authorization
    <3>2. \A n \in Nat : TraceEvent("authorized", n, authorization) \in Event
      BY <2>2 DEF TraceEvent, Event
    <3>. QED  BY <3>1, <3>2, RecordType DEF GraphTypeOK, AgentTypeOK
  <2>5. state' = [state EXCEPT ![r] = s]
    BY <1>5 DEF authorize_node
  <2>6. node' = [node EXCEPT ![r] = route_after_authorize(authorization)]
    BY <1>5 DEF authorize_node
  <2>. HIDE DEF s, authorization
  <2>. QED  BY <1>5, <2>3, <2>4, <2>5, <2>6 DEF GraphTypeOK, AgentTypeOK, route_after_authorize, Node
<1>6. ASSUME NEW r \in Callers, execute_node_calls(r) \/ execute_node_waits(r) PROVE AgentTypeOK'
  BY <1>6 DEF GraphTypeOK, AgentTypeOK, execute_node_calls, execute_node_waits
<1>7. ASSUME NEW r \in Callers, execute_node_returns(r) PROVE AgentTypeOK'
  <2>1. node[r] = "execute" /\ state[r] \in AgentState
    BY <1>7 DEF GraphTypeOK, AgentTypeOK, CallsFollowApproval, execute_node_returns
  <2>2. result[r] \in ExecutionResult
    BY <1>7 DEF GraphTypeOK, AgentTypeOK, TypeOK, execute_node_returns
  <2>3. [state[r] EXCEPT !.execution_result = result[r]] \in AgentState
    BY <2>1, <2>2 DEF AgentState
  <2>4. events' \in [Callers -> Seq(Event)]
    <3>1. events' = _record(events, r, "executed", result[r])
      BY <1>7 DEF execute_node_returns, record_execution
    <3>2. \A n \in Nat : TraceEvent("executed", n, result[r]) \in Event
      BY <2>2 DEF TraceEvent, Event
    <3>. QED  BY <3>1, <3>2, RecordType DEF GraphTypeOK, AgentTypeOK
  <2>. QED
    BY <1>7, <2>3, <2>4 DEF GraphTypeOK, AgentTypeOK, execute_node_returns, route_after_execute, Node
<1>8. ASSUME NEW r \in Callers, execute_node_raises(r) PROVE AgentTypeOK'
  <2>1. node[r] = "execute" /\ state[r] \in AgentState
    BY <1>8 DEF GraphTypeOK, AgentTypeOK, CallsFollowApproval, execute_node_raises
  <2>. QED  BY <1>8, <2>1 DEF GraphTypeOK, AgentTypeOK, execute_node_raises, Node
<1>9. ASSUME NEW r \in Callers,
             mark_denied_node(r) \/ mark_completed_node(r) \/ mark_failed_node(r)
      PROVE  AgentTypeOK'
  <2>1. PICK status \in Terminal : Finish(r, status)
    BY <1>9 DEF mark_denied_node, mark_completed_node, mark_failed_node, Terminal
  <2>2. state[r] \in AgentState
    BY <1>9 DEF GraphTypeOK, AgentTypeOK, mark_denied_node, mark_completed_node, mark_failed_node
  <2>3. [state[r] EXCEPT !.run_status = status] \in AgentState
    BY <2>2 DEF AgentState, RunStatus, Terminal
  <2>4. events' \in [Callers -> Seq(Event)]
    BY <2>1, RecordType DEF GraphTypeOK, AgentTypeOK, Finish, record_run_finished, TraceEvent, Event
  <2>. QED  BY <2>1, <2>3, <2>4 DEF GraphTypeOK, AgentTypeOK, Finish, Node
<1>10. ASSUME UNCHANGED vars PROVE AgentTypeOK'
  BY <1>10 DEF GraphTypeOK, AgentTypeOK, vars
<1>11. AgentTypeOK'
  BY <1>2, <1>3, <1>4, <1>5, <1>6, <1>7, <1>8, <1>9, <1>10 DEF Next, Step
<1>. QED  BY <1>1, <1>11 DEF GraphTypeOK

(* The graph starts in the invariant, with no call in progress.              *)
LEMMA GraphInit == Init => GraphInv /\ WrapperInit
<1>1. \A r \in Callers : <<>> \in Seq(Event)
  OBVIOUS
<1>. QED
  BY <1>1, InitType DEF Init, GraphInv, GraphTypeOK, AgentTypeOK, CallsFollowApproval, WrapperInit, Node

(* The execution layer is entered with the approved command only, and a call *)
(* in progress is never left behind by its node.                             *)
LEMMA NextFollowsApproval == GraphInv /\ [Next]_vars => CallsFollowApproval'
<1>. SUFFICES ASSUME GraphInv, [Next]_vars PROVE CallsFollowApproval'
  OBVIOUS
<1>. DEFINE Follows(r) ==
       /\ pc[r] # "idle" =>
             /\ node[r] = "execute"
             /\ request[r].command = Command(r)
             /\ request[r].ticket = state[r].ticket
       /\ node[r] \in {"propose", "authorize"} => state[r].authorization_result = None
       /\ node[r] = "authorize" => state[r].proposed_action \in Proposals
       /\ node[r] = "execute" =>
             /\ state[r].proposed_action \in Proposals
             /\ HasSchema(state[r].proposed_action)
             /\ state[r].authorization_result = Approved(CommandOf(state[r].proposed_action))
             /\ Permitted(CommandOf(state[r].proposed_action), state[r].ticket)
<1>. SUFFICES ASSUME NEW r \in Callers PROVE Follows(r)'
  BY DEF CallsFollowApproval
<1>0. Follows(r)
  BY DEF GraphInv, CallsFollowApproval
<1>. USE DEF GraphInv, GraphTypeOK, AgentTypeOK, TypeOK
<1>1. ASSUME node'[r] = node[r], state'[r] = state[r], pc'[r] = pc[r], request'[r] = request[r]
      PROVE  Follows(r)'
  BY <1>0, <1>1 DEF Command
<1>2. ASSUME NEW q \in Callers, q # r,
             (\E ticket \in Tickets : Invoke(q, ticket)) \/ Step(q)
      PROVE  Follows(r)'
  <2>1. node'[r] = node[r] /\ state'[r] = state[r] /\ pc'[r] = pc[r] /\ request'[r] = request[r]
    BY <1>2 DEF Step, Invoke, propose_node, ProposeRaises, authorize_node, execute_node_calls,
                execute_node_waits, execute_node_returns, execute_node_raises, mark_denied_node,
                mark_completed_node, mark_failed_node, Finish, wrapperVars, Call, Execute, LookupHit,
                LookupMiss, TransientFailure, RunTool, ToolRaises, Record, Exhaust, TakeResult
  <2>. QED  BY <1>1, <2>1
<1>3. ASSUME NEW ticket \in Tickets, Invoke(r, ticket) PROVE Follows(r)'
  BY <1>0, <1>3 DEF Invoke, InitialState, wrapperVars
<1>4. ASSUME NEW p \in Proposals, propose_node(r, p) PROVE Follows(r)'
  <2>1. state[r] \in AgentState
    BY <1>4 DEF propose_node
  <2>2. /\ state'[r].proposed_action = p
        /\ state'[r].authorization_result = state[r].authorization_result
    BY <1>4, <2>1 DEF propose_node, AgentState
  <2>. QED  BY <1>0, <1>4, <2>2 DEF propose_node, wrapperVars
<1>5. ASSUME ProposeRaises(r) PROVE Follows(r)'
  BY <1>0, <1>5 DEF ProposeRaises, wrapperVars
<1>6. ASSUME authorize_node(r) PROVE Follows(r)'
  <2>. DEFINE p == state[r].proposed_action
              t == state[r].ticket
  <2>1. state[r] \in AgentState /\ p \in Proposals /\ pc[r] = "idle"
    BY <1>0, <1>6 DEF authorize_node
  <2>2. t \in Ticket
    BY <2>1, WrapperAssumption DEF AgentState
  <2>3. /\ state'[r].authorization_result = authorize(p, t)
        /\ state'[r].proposed_action = p
        /\ state'[r].ticket = t
    BY <1>6, <2>1 DEF authorize_node, AgentState
  <2>4. node'[r] = route_after_authorize(authorize(p, t)) /\ pc' = pc
    BY <1>6 DEF authorize_node, wrapperVars
  <2>5. node'[r] \in {"execute", "mark_denied"}
    BY <2>4 DEF route_after_authorize
  <2>6. ASSUME node'[r] = "execute"
        PROVE  /\ HasSchema(p) /\ Permitted(CommandOf(p), t)
               /\ authorize(p, t) = Approved(CommandOf(p))
    <3>1. authorize(p, t).decision = "approved"
      BY <2>4, <2>6 DEF route_after_authorize
    <3>. HIDE DEF p, t
    <3>. QED  BY <2>2, <3>1, ApprovalIsPermission, ApprovalCarriesACommand
  <2>. QED  BY <2>1, <2>3, <2>4, <2>5, <2>6
<1>7. ASSUME execute_node_calls(r) PROVE Follows(r)'
  <2>1. PICK should_fail \in ShouldFail :
          Call(r, [command |-> Command(r), ticket |-> state[r].ticket,
                   max_attempts |-> 3, should_fail |-> should_fail])
    BY <1>7 DEF execute_node_calls, Command
  <2>2. request'[r].command = Command(r) /\ request'[r].ticket = state[r].ticket
    BY <2>1 DEF Call
  <2>3. node' = node /\ state' = state /\ node[r] = "execute"
    BY <1>7 DEF execute_node_calls
  <2>4. Command(r)' = Command(r)
    BY <2>3 DEF Command
  <2>. QED  BY <1>0, <2>2, <2>3, <2>4
<1>8. ASSUME execute_node_waits(r) PROVE Follows(r)'
  <2>1. pc[r] # "idle" /\ request' = request /\ node' = node /\ state' = state
    BY <1>8 DEF execute_node_waits, Execute, LookupHit, LookupMiss, TransientFailure, RunTool,
                ToolRaises, Record, Exhaust, HasAttempt
  <2>. QED  BY <1>0, <2>1 DEF Command
<1>9. ASSUME execute_node_returns(r) \/ execute_node_raises(r) PROVE Follows(r)'
  <2>1. pc'[r] = "idle" /\ node'[r] \in {"mark_completed", "mark_failed", "raised"}
    BY <1>9 DEF execute_node_returns, execute_node_raises, TakeResult, route_after_execute
  <2>. QED  BY <2>1
<1>10. ASSUME mark_denied_node(r) \/ mark_completed_node(r) \/ mark_failed_node(r)
       PROVE  Follows(r)'
  <2>1. pc[r] = "idle" /\ pc' = pc /\ node'[r] = "end"
    BY <1>0, <1>10 DEF mark_denied_node, mark_completed_node, mark_failed_node, Finish, wrapperVars
  <2>. QED  BY <2>1
<1>11. ASSUME UNCHANGED vars PROVE Follows(r)'
  BY <1>1, <1>11 DEF vars, wrapperVars
<1>12. ASSUME NEW q \in Callers, (\E ticket \in Tickets : Invoke(q, ticket)) \/ Step(q)
       PROVE  Follows(r)'
  <2>1. CASE q # r
    BY <1>2, <1>12, <2>1
  <2>2. CASE q = r
    BY <1>3, <1>4, <1>5, <1>6, <1>7, <1>8, <1>9, <1>10, <1>12, <2>2 DEF Step
  <2>. QED  BY <2>1, <2>2
<1>. HIDE DEF Follows
<1>. QED  BY <1>11, <1>12 DEF Next

(* Types and the approval discipline hold together: each needs the other.    *)
LEMMA GraphInvariant == Init /\ [][Next]_vars => []GraphInv
<1>1. GraphInv /\ [Next]_vars => GraphInv'
  BY GraphNextType, NextFollowsApproval DEF GraphInv
<1>. QED  BY GraphInit, <1>1, PTL

(* A run's state and trace are well formed at every node.                    *)
THEOREM GraphTypeCorrect == Spec => []GraphTypeOK
  BY GraphInvariant, PTL DEF Spec, GraphInv

(* The wrapper is only ever called from the execute node, on the ticket the  *)
(* policy judged, with the command it approved there.                        *)
THEOREM ExecutionFollowsApproval == Spec => []CallsFollowApproval
  BY GraphInvariant, PTL DEF Spec, GraphInv

(* The wrapper's inductive invariant holds under the graph's runs too, when  *)
(* the runs that share a wrapper do not execute at the same time.            *)
LEMMA GraphSerial ==
    ASSUME OneCallPerWrapper
    PROVE  Init /\ [][Next]_vars => []Inv
<1>1. WrapperInit => Inv
  BY InitType, InitAccounting, InitSerial DEF Inv
<1>2. Inv /\ [WrapperNext]_wrapperVars => Inv'
  BY NextType, NextAccounting, NextSerial DEF Inv
<1>. QED  BY GraphInvariant, GraphInit, GraphStepIsWrapperStep, <1>1, <1>2, PTL

(* The effects of a graph's runs happen at most once per key.                *)
THEOREM GraphEffectsHappenAtMostOnce ==
    ASSUME OneCallPerWrapper
    PROVE  Spec => []AtMostOnce
<1>1. Inv => AtMostOnce
  BY DEF Inv, Serial
<1>. QED  BY GraphSerial, <1>1, PTL DEF Spec

(* Runs that share a wrapper and overlap may repeat an effect, but never more*)
(* often than there are runs.                                                *)
THEOREM GraphRepeatsAreBounded ==
    ASSUME IsFiniteSet(Callers)
    PROVE  Spec => []RepeatsOnlyOverlap
<1>1. TypeOK /\ RunsCounted => RepeatsOnlyOverlap
  BY CountBounds
<1>2. TypeOK /\ RunsCounted /\ [WrapperNext]_wrapperVars => RunsCounted'
  BY NextCounted
<1>. QED
  BY InitCounted, InitType, NextType, GraphInvariant, GraphInit, GraphStepIsWrapperStep, <1>1, <1>2,
     PTL DEF Spec

(* Under the graph's runs the wrapper is the abstract executor: runs that    *)
(* repeat a command on a ticket id get its one outcome.                      *)
THEOREM GraphImplementsExecutor ==
    ASSUME OneCallPerWrapper
    PROVE  Spec => ImplementsExecutor
  BY GraphInvariant, GraphInit, GraphSerial, GraphStepIsWrapperStep, InitIsAbstract, NextIsAbstract,
     PTL DEF Spec, ImplementsExecutor, Executor!Spec

-----------------------------------------------------------------------------
(* Once a run has been authorized, what was proposed, judged and approved    *)
(* stays on record in its state.                                             *)
LEMMA ApprovalIsKept ==
    ASSUME GraphInv, [Next]_vars,
           NEW r \in Callers, Reached(r), NEW command \in AuthorizedCommand,
           state[r].authorization_result = Approved(command)
    PROVE  /\ Reached(r)'
           /\ state'[r].authorization_result = state[r].authorization_result
           /\ state'[r].proposed_action = state[r].proposed_action
           /\ state'[r].ticket = state[r].ticket
<1>. DEFINE Kept == /\ Reached(r)'
                    /\ state'[r].authorization_result = state[r].authorization_result
                    /\ state'[r].proposed_action = state[r].proposed_action
                    /\ state'[r].ticket = state[r].ticket
<1>1. state[r] \in AgentState
  BY DEF GraphInv, GraphTypeOK, AgentTypeOK, Reached
<1>2. node[r] \notin {"start", "propose", "authorize"}
  <2>1. state[r].authorization_result # None
    BY GraphAssumption DEF Approved, AuthorizationResult
  <2>. QED  BY <2>1 DEF GraphInv, CallsFollowApproval, Reached
<1>3. ASSUME NEW q \in Callers, (\E ticket \in Tickets : Invoke(q, ticket)) \/ Step(q) PROVE Kept
  <2>. USE <1>1, <1>2, <1>3 DEF GraphInv, GraphTypeOK, AgentTypeOK, Reached, AgentState
  <2>1. CASE \E ticket \in Tickets : Invoke(q, ticket)
    BY <2>1 DEF Invoke
  <2>2. CASE (\E p \in Proposals : propose_node(q, p)) \/ ProposeRaises(q)
    BY <2>2 DEF propose_node, ProposeRaises
  <2>3. CASE authorize_node(q)
    <3>1. q # r /\ node[q] = "authorize"
      BY <2>3 DEF authorize_node
    <3>. QED  BY <2>3, <3>1 DEF authorize_node
  <2>4. CASE execute_node_calls(q) \/ execute_node_waits(q)
    BY <2>4 DEF execute_node_calls, execute_node_waits
  <2>5. CASE execute_node_returns(q)
    <3>1. route_after_execute(result[q]) # "start"
      BY DEF route_after_execute
    <3>2. node'[r] # "start"
      BY <2>5, <3>1 DEF execute_node_returns
    <3>3. state' = [state EXCEPT ![q] = [state[q] EXCEPT !.execution_result = result[q]]]
      BY <2>5 DEF execute_node_returns
    <3>. QED  BY <3>2, <3>3
  <2>7. CASE execute_node_raises(q)
    BY <2>7 DEF execute_node_raises
  <2>6. CASE mark_denied_node(q) \/ mark_completed_node(q) \/ mark_failed_node(q)
    <3>1. PICK status \in Terminal : Finish(q, status)
      BY <2>6 DEF mark_denied_node, mark_completed_node, mark_failed_node, Terminal
    <3>2. /\ state' = [state EXCEPT ![q] = [state[q] EXCEPT !.run_status = status]]
          /\ node' = [node EXCEPT ![q] = "end"]
      BY <3>1 DEF Finish
    <3>. QED  BY <3>2
  <2>. QED  BY <1>3, <2>1, <2>2, <2>3, <2>4, <2>5, <2>6, <2>7 DEF Step
<1>4. ASSUME UNCHANGED vars PROVE Kept
  BY <1>4 DEF vars, Reached
<1>. HIDE DEF Kept
<1>5. Kept
  BY <1>3, <1>4 DEF Next
<1>. QED  BY <1>5 DEF Kept

(* The key that a step of the graph adds an effect to is that of a run whose *)
(* tool function ran in this step.                                           *)
LEMMA EffectsComeFromExecute ==
    ASSUME GraphInv, [Next]_vars, NEW k \in Key,
           ran'[k] # ran[k] \/ (k \in unrecorded' /\ k \notin unrecorded)
    PROVE  \E r \in Callers : node[r] = "execute" /\ pc[r] = "attempt" /\ KeyOf(r) = k
<1>1. [WrapperNext]_wrapperVars
  BY GraphStepIsWrapperStep
<1>2. PICK r \in Callers : RunTool(r) \/ ToolRaises(r)
  BY <1>1 DEF WrapperNext, Execute, Call, LookupHit, LookupMiss, TransientFailure,
              Record, Exhaust, TakeResult, wrapperVars
<1>3. KeyOf(r) = k
  BY <1>2 DEF RunTool, ToolRaises, GraphInv, GraphTypeOK, TypeOK
<1>4. pc[r] = "attempt"
  BY <1>2 DEF RunTool, ToolRaises, HasAttempt
<1>. QED  BY <1>3, <1>4 DEF GraphInv, CallsFollowApproval

(* A step that adds an effect finds its authorization in the state of its run,*)
(* and no other step takes the authorization of an earlier effect away.      *)
LEMMA NextAuthorizedEffects ==
    GraphInv /\ OnlyAuthorizedEffects /\ [Next]_vars => OnlyAuthorizedEffects'
<1>. DEFINE Authorizes(r, k) ==
       /\ WrapperOf[r] = k[1]
       /\ Reached(r)
       /\ state[r].authorization_result = Approved(k[2])
       /\ CommandOf(state[r].proposed_action) = k[2]
       /\ state[r].ticket.id = k[3]
       /\ Permitted(k[2], state[r].ticket)
<1>. SUFFICES ASSUME GraphInv, OnlyAuthorizedEffects, [Next]_vars,
                     NEW k \in Key, ran'[k] > 0 \/ k \in unrecorded'
              PROVE  \E r \in Callers : Authorizes(r, k)'
  BY DEF OnlyAuthorizedEffects
<1>1. PICK r \in Callers : Authorizes(r, k)
  <2>1. CASE ran'[k] = ran[k] /\ (k \in unrecorded' => k \in unrecorded)
    BY <2>1 DEF OnlyAuthorizedEffects
  <2>2. CASE ran'[k] # ran[k] \/ (k \in unrecorded' /\ k \notin unrecorded)
    <3>1. PICK r \in Callers : node[r] = "execute" /\ pc[r] = "attempt" /\ KeyOf(r) = k
      BY <2>2, EffectsComeFromExecute
    <3>. DEFINE p == state[r].proposed_action
    <3>2. /\ request[r].command = Command(r) /\ request[r].ticket = state[r].ticket
          /\ state[r].authorization_result = Approved(CommandOf(p))
          /\ Permitted(CommandOf(p), state[r].ticket)
      BY <3>1 DEF GraphInv, CallsFollowApproval
    <3>3. Command(r) = CommandOf(p)
      BY <3>2 DEF Command, Approved
    <3>4. k[1] = WrapperOf[r] /\ k[2] = CommandOf(p) /\ k[3] = state[r].ticket.id
      BY <3>1, <3>2, <3>3 DEF KeyOf
    <3>. QED  BY <3>1, <3>2, <3>4 DEF Reached
  <2>. QED  BY <2>1, <2>2
<1>2. k[2] \in AuthorizedCommand
  BY WrapperAssumption DEF Key
<1>3. Authorizes(r, k)'
  BY <1>1, <1>2, ApprovalIsKept
<1>. QED  BY <1>3

LEMMA TrustInvariant == Init /\ [][Next]_vars => []OnlyAuthorizedEffects
<1>1. Init => OnlyAuthorizedEffects
  BY DEF Init, WrapperInit, OnlyAuthorizedEffects
<1>. QED  BY <1>1, GraphInvariant, NextAuthorizedEffects, PTL

(* The trust boundary holds whatever the model proposes, however many runs   *)
(* share a wrapper and however their calls overlap: no tool function ever    *)
(* applies a command that some run did not propose and the policy approve.   *)
THEOREM TrustBoundary == Spec => []OnlyAuthorizedEffects
  BY TrustInvariant, PTL DEF Spec

-----------------------------------------------------------------------------
(* A step of one run leaves what belongs to the others alone.                *)
LEMMA OtherRunsAreKept ==
    ASSUME GraphInv, NEW r \in Callers, NEW q \in Callers, q # r,
           (\E ticket \in Tickets : Invoke(q, ticket)) \/ Step(q)
    PROVE  /\ node'[r] = node[r] /\ state'[r] = state[r] /\ events'[r] = events[r]
           /\ pc'[r] = pc[r] /\ request'[r] = request[r] /\ result'[r] = result[r]
BY DEF GraphInv, GraphTypeOK, AgentTypeOK, TypeOK, Step, Invoke, propose_node, ProposeRaises,
       authorize_node, execute_node_calls, execute_node_waits, execute_node_returns,
       execute_node_raises, mark_denied_node, mark_completed_node, mark_failed_node, Finish,
       wrapperVars, Call, Execute, LookupHit, LookupMiss, TransientFailure, RunTool, ToolRaises,
       Record, Exhaust, TakeResult, _record, record_proposal, record_authorization,
       record_execution, record_run_finished

(* What a run knows at each node: how far its status has come and what the   *)
(* decision and the execution it is based on were.                           *)
Judged(r) == state[r].authorization_result = authorize(state[r].proposed_action, state[r].ticket)

DeniedRun(r) ==
    /\ Judged(r) /\ state[r].authorization_result.decision = "denied"
    /\ state[r].execution_result = None

VerifiedRun(r) ==
    /\ state[r].authorization_result = Approved(CommandOf(state[r].proposed_action))
    /\ HasSchema(state[r].proposed_action)
    /\ Permitted(CommandOf(state[r].proposed_action), state[r].ticket)
    /\ state[r].execution_result \in ExecutionResult
    /\ state[r].execution_result.status = "success" /\ state[r].execution_result.verified

UnverifiedRun(r) ==
    /\ state[r].authorization_result = Approved(CommandOf(state[r].proposed_action))
    /\ HasSchema(state[r].proposed_action)
    /\ state[r].execution_result \in ExecutionResult
    /\ state[r].execution_result.status # "success" /\ ~state[r].execution_result.verified

RunEvidence(r) ==
    /\ pc[r] = "idle" => request[r] = None
    /\ node[r] = "propose" =>
          state[r].run_status = "pending" /\ state[r].execution_result = None
    /\ node[r] = "authorize" =>
          state[r].run_status = "authorizing" /\ state[r].execution_result = None
    /\ node[r] = "execute" =>
          state[r].run_status = "executing" /\ state[r].execution_result = None
    /\ node[r] = "mark_denied" => state[r].run_status = "authorizing" /\ DeniedRun(r)
    /\ node[r] = "mark_completed" => state[r].run_status = "executing" /\ VerifiedRun(r)
    /\ node[r] = "mark_failed" => state[r].run_status = "executing" /\ UnverifiedRun(r)
    /\ node[r] = "raised" => state[r].run_status \in {"pending", "executing"}
    /\ node[r] = "end" =>
          \/ state[r].run_status = "denied" /\ DeniedRun(r)
          \/ state[r].run_status = "completed" /\ VerifiedRun(r)
          \/ state[r].run_status = "failed" /\ UnverifiedRun(r)

Evidence == \A r \in Callers : RunEvidence(r)

LEMMA EvidenceOfRun ==
    ASSUME GraphInv, GraphInv', NEW r \in Callers, RunEvidence(r), Step(r)
    PROVE  RunEvidence(r)'
<1>. USE DEF GraphInv, GraphTypeOK, AgentTypeOK, TypeOK
<1>1. ASSUME NEW p \in Proposals, propose_node(r, p) PROVE RunEvidence(r)'
  <2>1. state[r] \in AgentState /\ node'[r] = "authorize" /\ pc' = pc /\ request' = request
    BY <1>1 DEF propose_node, wrapperVars
  <2>2. /\ state'[r].run_status = "authorizing"
        /\ state'[r].execution_result = state[r].execution_result
    BY <1>1, <2>1 DEF propose_node, AgentState
  <2>. QED  BY <1>1, <2>1, <2>2 DEF propose_node, RunEvidence
<1>2. ASSUME ProposeRaises(r) PROVE RunEvidence(r)'
  BY <1>2 DEF ProposeRaises, RunEvidence, wrapperVars
<1>3. ASSUME authorize_node(r) PROVE RunEvidence(r)'
  <2>. DEFINE authorization == authorize(state[r].proposed_action, state[r].ticket)
  <2>1. state[r] \in AgentState /\ pc' = pc /\ request' = request
    BY <1>3 DEF authorize_node, wrapperVars
  <2>2. /\ state'[r].authorization_result = authorization
        /\ state'[r].proposed_action = state[r].proposed_action
        /\ state'[r].ticket = state[r].ticket
        /\ state'[r].execution_result = None
        /\ state'[r].run_status =
              IF authorization.decision = "approved" THEN "executing" ELSE "authorizing"
        /\ node'[r] = IF authorization.decision = "approved" THEN "execute" ELSE "mark_denied"
    BY <1>3, <2>1 DEF authorize_node, route_after_authorize, AgentState, RunEvidence
  <2>3. authorization.decision \in {"approved", "denied"}
    BY AuthorizeType DEF AuthorizationResult
  <2>. HIDE DEF authorization
  <2>4. Judged(r)'
    BY <2>2 DEF Judged, authorization
  <2>. QED  BY <2>1, <2>2, <2>3, <2>4 DEF RunEvidence, DeniedRun
<1>4. ASSUME execute_node_calls(r) \/ execute_node_waits(r) PROVE RunEvidence(r)'
  <2>1. node' = node /\ state' = state /\ node[r] = "execute"
    <3>1. execute_node_waits(r) => pc[r] # "idle"
      BY DEF execute_node_waits, Execute, LookupHit, LookupMiss, TransientFailure, RunTool,
             ToolRaises, Record, Exhaust, HasAttempt
    <3>. QED  BY <1>4, <3>1 DEF execute_node_calls, execute_node_waits, CallsFollowApproval
  <2>2. pc'[r] # "idle"
    <3>1. execute_node_calls(r) => pc'[r] # "idle"
      BY DEF execute_node_calls, Call
    <3>2. execute_node_waits(r) => pc'[r] # "idle"
      BY DEF execute_node_waits, Execute, LookupHit, LookupMiss, TransientFailure, RunTool,
             ToolRaises, Record, Exhaust, HasAttempt
    <3>. QED  BY <1>4, <3>1, <3>2
  <2>. QED  BY <2>1, <2>2 DEF RunEvidence
<1>5. ASSUME execute_node_returns(r) PROVE RunEvidence(r)'
  <2>1. /\ node[r] = "execute" /\ state[r] \in AgentState
        /\ result[r] \in ExecutionResult
        /\ state[r].authorization_result = Approved(CommandOf(state[r].proposed_action))
        /\ HasSchema(state[r].proposed_action)
        /\ Permitted(CommandOf(state[r].proposed_action), state[r].ticket)
        /\ state[r].run_status = "executing"
    BY <1>5 DEF execute_node_returns, CallsFollowApproval, RunEvidence
  <2>2. /\ state'[r].authorization_result = state[r].authorization_result
        /\ state'[r].proposed_action = state[r].proposed_action
        /\ state'[r].ticket = state[r].ticket
        /\ state'[r].execution_result = result[r]
        /\ state'[r].run_status = "executing"
        /\ node'[r] = IF result[r].status = "success" THEN "mark_completed" ELSE "mark_failed"
    BY <1>5, <2>1 DEF execute_node_returns, route_after_execute, AgentState
  <2>3. result[r].verified = (result[r].status = "success")
    BY <2>1 DEF ExecutionResult, AppliedResult, FailureResult
  <2>4. pc'[r] = "idle" /\ request'[r] = None
    BY <1>5 DEF execute_node_returns, TakeResult
  <2>. QED  BY <2>1, <2>2, <2>3, <2>4 DEF RunEvidence, VerifiedRun, UnverifiedRun
<1>6. ASSUME execute_node_raises(r) PROVE RunEvidence(r)'
  <2>1. node[r] = "execute" /\ pc'[r] = "idle" /\ request'[r] = None
        /\ node'[r] = "raised" /\ state' = state
    BY <1>6 DEF execute_node_raises, TakeResult, CallsFollowApproval
  <2>. QED  BY <2>1 DEF RunEvidence
<1>7. ASSUME mark_denied_node(r) \/ mark_completed_node(r) \/ mark_failed_node(r)
      PROVE  RunEvidence(r)'
  <2>1. state[r] \in AgentState
    BY <1>7 DEF mark_denied_node, mark_completed_node, mark_failed_node
  <2>2. PICK status \in Terminal :
          /\ Finish(r, status)
          /\ \/ status = "denied" /\ node[r] = "mark_denied"
             \/ status = "completed" /\ node[r] = "mark_completed"
             \/ status = "failed" /\ node[r] = "mark_failed"
    BY <1>7 DEF mark_denied_node, mark_completed_node, mark_failed_node, Terminal
  <2>3. /\ state'[r].authorization_result = state[r].authorization_result
        /\ state'[r].proposed_action = state[r].proposed_action
        /\ state'[r].ticket = state[r].ticket
        /\ state'[r].execution_result = state[r].execution_result
        /\ state'[r].run_status = status
        /\ node'[r] = "end" /\ pc' = pc /\ request' = request
    BY <2>1, <2>2 DEF Finish, AgentState, wrapperVars
  <2>4. /\ DeniedRun(r) => DeniedRun(r)'
        /\ VerifiedRun(r) => VerifiedRun(r)'
        /\ UnverifiedRun(r) => UnverifiedRun(r)'
    BY <2>3 DEF DeniedRun, VerifiedRun, UnverifiedRun, Judged
  <2>. QED  BY <2>2, <2>3, <2>4 DEF RunEvidence
<1>. QED  BY <1>1, <1>2, <1>3, <1>4, <1>5, <1>6, <1>7 DEF Step

LEMMA NextEvidence == GraphInv /\ Evidence /\ [Next]_vars => Evidence'
<1>. SUFFICES ASSUME GraphInv, Evidence, [Next]_vars, NEW r \in Callers PROVE RunEvidence(r)'
  BY DEF Evidence
<1>0. RunEvidence(r) /\ GraphInv'
  BY GraphNextType, NextFollowsApproval DEF Evidence, GraphInv
<1>1. ASSUME node'[r] = node[r], state'[r] = state[r], pc'[r] = pc[r], request'[r] = request[r]
      PROVE  RunEvidence(r)'
  BY <1>0, <1>1 DEF RunEvidence, DeniedRun, VerifiedRun, UnverifiedRun, Judged
<1>2. ASSUME NEW ticket \in Tickets, Invoke(r, ticket) PROVE RunEvidence(r)'
  BY <1>0, <1>2 DEF Invoke, InitialState, wrapperVars, RunEvidence, GraphInv, GraphTypeOK, AgentTypeOK
<1>3. CASE Step(r)
  BY <1>0, <1>3, EvidenceOfRun
<1>4. CASE UNCHANGED vars
  BY <1>1, <1>4 DEF vars, wrapperVars
<1>5. ASSUME NEW q \in Callers, q # r, (\E ticket \in Tickets : Invoke(q, ticket)) \/ Step(q)
      PROVE  RunEvidence(r)'
  BY <1>1, <1>5, OtherRunsAreKept
<1>. QED  BY <1>2, <1>3, <1>4, <1>5 DEF Next

LEMMA EvidenceInvariant == Init /\ [][Next]_vars => [](GraphInv /\ Evidence)
<1>1. Init => Evidence
  BY DEF Init, WrapperInit, Evidence, RunEvidence
<1>. QED  BY <1>1, GraphInvariant, NextEvidence, PTL

(* The final status of a run says what happened to it, and it is final       *)
(* exactly when the run is over.                                             *)
THEOREM StatusTellsTheOutcome == Spec => []StatusFollowsEvidence
<1>1. ASSUME GraphInv, Evidence PROVE StatusFollowsEvidence
  <2>. SUFFICES ASSUME NEW r \in Callers, Reached(r)
       PROVE  /\ HasStatus(r, "completed") =>
                   /\ state[r].authorization_result.decision = "approved"
                   /\ state[r].execution_result.status = "success"
                   /\ state[r].execution_result.verified
              /\ HasStatus(r, "failed") =>
                   /\ state[r].authorization_result.decision = "approved"
                   /\ state[r].execution_result.status # "success"
                   /\ ~state[r].execution_result.verified
              /\ HasStatus(r, "denied") =>
                   /\ state[r].authorization_result.decision = "denied"
                   /\ state[r].execution_result = None /\ request[r] = None
              /\ node[r] = "end" <=> state[r].run_status \in Terminal
    BY DEF StatusFollowsEvidence
  <2>1. RunEvidence(r) /\ node[r] \in Node /\ node[r] # "start"
        /\ (node[r] = "end" => pc[r] = "idle")
    BY <1>1 DEF Evidence, GraphInv, GraphTypeOK, AgentTypeOK, Reached, CallsFollowApproval
  <2>2. node[r] = "end" <=> state[r].run_status \in Terminal
    BY <2>1 DEF RunEvidence, Node, Terminal
  <2>. QED  BY <2>1, <2>2 DEF HasStatus, Terminal, RunEvidence, DeniedRun, VerifiedRun,
                              UnverifiedRun, Approved
<1>. QED  BY <1>1, EvidenceInvariant, PTL DEF Spec

(* A denied run names the rule its proposal breaks on its ticket, or none    *)
(* exactly when the proposal fits no tool's schema.                          *)
THEOREM DeniedRunsNameTheirCause == Spec => []DenialsNameTheirCause
<1>1. ASSUME GraphInv, Evidence PROVE DenialsNameTheirCause
  <2>. SUFFICES ASSUME NEW r \in Callers, HasStatus(r, "denied")
       PROVE  LET p == state[r].proposed_action
                  rule == state[r].authorization_result.rule_id
              IN  /\ HasSchema(p) => ~Permitted(CommandOf(p), state[r].ticket)
                  /\ HasSchema(p) <=> rule # None
                  /\ rule = "refund-amount-limit" => p.tool_name = "issue_refund"
                  /\ rule = "status-transition" => p.tool_name = "update_ticket_status"
    BY DEF DenialsNameTheirCause
  <2>1. RunEvidence(r) /\ node[r] \in Node /\ node[r] # "start" /\ state[r].run_status = "denied"
        /\ state[r].ticket \in Ticket
    BY <1>1, WrapperAssumption DEF Evidence, GraphInv, GraphTypeOK, AgentTypeOK, Reached, HasStatus,
       AgentState
  <2>2. DeniedRun(r)
    BY <2>1 DEF RunEvidence, Node
  <2>. QED  BY <2>1, <2>2, DenialsHaveACause DEF DeniedRun, Judged
<1>. QED  BY <1>1, EvidenceInvariant, PTL DEF Spec

-----------------------------------------------------------------------------
(* Runs with a wrapper each.  Nothing is recorded in a run's wrapper before  *)
(* its own call does, so what the call returns was verified on the run's own *)
(* ticket and is no replay.                                                  *)
NothingRecorded(r) ==
    (node[r] \in {"start", "propose", "authorize"}
     \/ (node[r] = "execute" /\ pc[r] \in {"idle", "lookup", "attempt", "record"})) =>
        \A k \in Key : k[1] = WrapperOf[r] => store[k] = None

ResultIsVerified(r) ==
    (pc[r] \in {"record", "returned"} /\ result[r].status = "success") =>
        verify(request[r].command, request[r].ticket, result[r].ticket)

RunIsVerified(r) ==
    (Reached(r) /\ state[r].execution_result # None
      /\ state[r].execution_result.status = "success") =>
        verify(Command(r), state[r].ticket, state[r].execution_result.ticket)

OwnRun(r) == NothingRecorded(r) /\ ResultIsVerified(r) /\ RunIsVerified(r)

OwnInv == GraphInv /\ Evidence /\ \A r \in Callers : OwnRun(r)

(* A run's wrapper is only written by its own Record.                        *)
LEMMA OnlyRecordWrites ==
    ASSUME OwnWrappers, GraphInv, [Next]_vars, NEW r \in Callers, ~Record(r),
           NEW k \in Key, k[1] = WrapperOf[r]
    PROVE  store'[k] = store[k]
<1>1. [WrapperNext]_wrapperVars
  BY GraphStepIsWrapperStep
<1>2. ASSUME NEW q \in Callers, Record(q) PROVE store'[k] = store[k]
  <2>1. q # r /\ KeyOf(q)[1] = WrapperOf[q]
    BY <1>2 DEF KeyOf
  <2>2. KeyOf(q) # k
    BY <2>1 DEF OwnWrappers
  <2>. QED  BY <1>2, <2>2 DEF Record, GraphInv, GraphTypeOK, TypeOK
<1>3. CASE store' = store
  BY <1>3
<1>. QED
  BY <1>1, <1>2, <1>3 DEF WrapperNext, Execute, Call, LookupHit, LookupMiss, TransientFailure,
    RunTool, ToolRaises, Exhaust, TakeResult, wrapperVars

LEMMA OwnRunOfOther ==
    ASSUME OwnWrappers, OwnInv, [Next]_vars, NEW r \in Callers,
           node'[r] = node[r], state'[r] = state[r],
           pc'[r] = pc[r], request'[r] = request[r], result'[r] = result[r]
    PROVE  OwnRun(r)'
<1>1. ~Record(r)
  BY DEF Record, OwnInv, GraphInv, GraphTypeOK, TypeOK
<1>2. \A k \in Key : k[1] = WrapperOf[r] => store'[k] = store[k]
  BY <1>1, OnlyRecordWrites DEF OwnInv
<1>. QED  BY <1>2 DEF OwnInv, OwnRun, NothingRecorded, ResultIsVerified, RunIsVerified, Reached, Command

LEMMA OwnRunOfNode ==
    ASSUME OwnWrappers, OwnInv, [Next]_vars, NEW r \in Callers,
           \/ \E ticket \in Tickets : Invoke(r, ticket)
           \/ \E p \in Proposals : propose_node(r, p)
           \/ ProposeRaises(r) \/ authorize_node(r)
           \/ mark_denied_node(r) \/ mark_completed_node(r) \/ mark_failed_node(r)
    PROVE  OwnRun(r)'
<1>. USE DEF OwnInv, GraphInv, GraphTypeOK, AgentTypeOK
<1>1. OwnRun(r) /\ RunEvidence(r) /\ UNCHANGED wrapperVars /\ pc[r] = "idle"
  BY DEF Evidence, Invoke, propose_node, ProposeRaises, authorize_node, mark_denied_node,
         mark_completed_node, mark_failed_node, Finish, CallsFollowApproval
<1>2. NothingRecorded(r)'
  <2>1. CASE \/ \E ticket \in Tickets : Invoke(r, ticket)
             \/ \E p \in Proposals : propose_node(r, p)
             \/ ProposeRaises(r) \/ authorize_node(r)
    BY <1>1, <2>1 DEF Invoke, propose_node, ProposeRaises, authorize_node, OwnRun, NothingRecorded,
                      wrapperVars
  <2>2. CASE mark_denied_node(r) \/ mark_completed_node(r) \/ mark_failed_node(r)
    BY <2>2 DEF mark_denied_node, mark_completed_node, mark_failed_node, Finish, NothingRecorded
  <2>. QED  BY <2>1, <2>2
<1>3. ResultIsVerified(r)'
  BY <1>1 DEF OwnRun, ResultIsVerified, wrapperVars
<1>4. RunIsVerified(r)'
  <2>1. CASE \E ticket \in Tickets : Invoke(r, ticket)
    BY <2>1 DEF Invoke, InitialState, RunIsVerified
  <2>2. CASE (\E p \in Proposals : propose_node(r, p)) \/ authorize_node(r)
    <3>1. state[r] \in AgentState /\ state[r].execution_result = None
      BY <1>1, <2>2 DEF propose_node, authorize_node, RunEvidence
    <3>2. state'[r].execution_result = None
      <4>1. CASE \E p \in Proposals : propose_node(r, p)
        <5>1. PICK p \in Proposals : propose_node(r, p)
          BY <4>1
        <5>2. state'[r] = [state[r] EXCEPT !.proposed_action = p, !.run_status = "authorizing"]
          BY <5>1 DEF propose_node
        <5>. QED  BY <3>1, <5>2 DEF AgentState
      <4>2. CASE authorize_node(r)
        BY <3>1, <4>2 DEF authorize_node, AgentState
      <4>. QED  BY <2>2, <4>1, <4>2
    <3>. QED  BY <3>2 DEF RunIsVerified
  <2>3. CASE ProposeRaises(r)
    BY <1>1, <2>3 DEF ProposeRaises, OwnRun, RunIsVerified, Reached, Command
  <2>4. CASE mark_denied_node(r) \/ mark_completed_node(r) \/ mark_failed_node(r)
    <3>1. state[r] \in AgentState /\ node[r] # "start"
      BY <2>4 DEF mark_denied_node, mark_completed_node, mark_failed_node
    <3>2. /\ state'[r].execution_result = state[r].execution_result
          /\ state'[r].authorization_result = state[r].authorization_result
          /\ state'[r].ticket = state[r].ticket
      BY <2>4, <3>1 DEF mark_denied_node, mark_completed_node, mark_failed_node, Finish, AgentState
    <3>. QED  BY <1>1, <3>1, <3>2 DEF OwnRun, RunIsVerified, Reached, Command
  <2>. QED  BY <2>1, <2>2, <2>3, <2>4
<1>. QED  BY <1>2, <1>3, <1>4 DEF OwnRun

LEMMA OwnRunOfWrapper ==
    ASSUME OwnWrappers, OwnInv, [Next]_vars, NEW r \in Callers,
           execute_node_calls(r) \/ execute_node_waits(r)
    PROVE  OwnRun(r)'
<1>. USE DEF OwnInv, GraphInv, GraphTypeOK, AgentTypeOK, TypeOK
<1>1. /\ OwnRun(r) /\ node[r] = "execute" /\ node' = node /\ state' = state
  <2>1. execute_node_waits(r) => pc[r] # "idle"
    BY DEF execute_node_waits, Execute, LookupHit, LookupMiss, TransientFailure, RunTool,
           ToolRaises, Record, Exhaust, HasAttempt
  <2>. QED  BY <2>1 DEF execute_node_calls, execute_node_waits, CallsFollowApproval
<1>2. RunIsVerified(r)'
  BY <1>1 DEF OwnRun, RunIsVerified, Reached, Command
<1>3. CASE execute_node_calls(r)
  <2>1. pc[r] = "idle" /\ store' = store /\ pc'[r] \in {"lookup", "raised"}
    BY <1>3 DEF execute_node_calls, Call
  <2>. QED  BY <1>1, <1>2, <2>1 DEF OwnRun, NothingRecorded, ResultIsVerified
<1>4. ASSUME pc[r] \in {"lookup", "attempt"} PROVE store[KeyOf(r)] = None
  <2>1. KeyOf(r) \in Key /\ KeyOf(r)[1] = WrapperOf[r]
    BY <1>4, KeyType DEF KeyOf
  <2>. QED  BY <1>1, <1>4, <2>1 DEF OwnRun, NothingRecorded
<1>5. CASE LookupHit(r)
  BY <1>4, <1>5 DEF LookupHit
<1>6. CASE LookupMiss(r) \/ TransientFailure(r) \/ ToolRaises(r)
  <2>1. /\ store' = store /\ result' = result /\ request' = request
        /\ pc[r] \in {"lookup", "attempt"} /\ pc'[r] \in {"attempt", "raised"}
    BY <1>6 DEF LookupMiss, TransientFailure, ToolRaises, HasAttempt
  <2>. QED  BY <1>1, <1>2, <2>1 DEF OwnRun, NothingRecorded, ResultIsVerified
<1>7. CASE RunTool(r)
  <2>1. /\ store' = store /\ request' = request /\ pc[r] = "attempt" /\ pc'[r] = "record"
        /\ request[r] \in Request
    BY <1>7 DEF RunTool, HasAttempt
  <2>2. PICK after \in ToolReturns(request[r].command, request[r].ticket) :
          result'[r] = Outcome(request[r], after, attempt[r])
    BY <1>7 DEF RunTool
  <2>3. result'[r].status = "success" =>
           verify(request[r].command, request[r].ticket, result'[r].ticket)
    BY <2>2 DEF Outcome
  <2>. QED  BY <1>1, <1>2, <2>1, <2>3 DEF OwnRun, NothingRecorded, ResultIsVerified
<1>8. CASE Record(r)
  <2>1. result' = result /\ request' = request /\ pc[r] = "record" /\ pc'[r] = "returned"
    BY <1>8 DEF Record
  <2>. QED  BY <1>1, <1>2, <2>1 DEF OwnRun, NothingRecorded, ResultIsVerified
<1>9. CASE Exhaust(r)
  <2>1. pc'[r] = "returned" /\ result'[r].status = "failure"
    BY <1>9 DEF Exhaust
  <2>. QED  BY <1>1, <1>2, <2>1 DEF OwnRun, NothingRecorded, ResultIsVerified
<1>. QED  BY <1>3, <1>5, <1>6, <1>7, <1>8, <1>9 DEF execute_node_waits, Execute

LEMMA OwnRunOfResult ==
    ASSUME OwnWrappers, OwnInv, NEW r \in Callers, execute_node_returns(r) \/ execute_node_raises(r)
    PROVE  OwnRun(r)'
<1>. USE DEF OwnInv, GraphInv, GraphTypeOK, AgentTypeOK, TypeOK
<1>1. /\ OwnRun(r) /\ node[r] = "execute" /\ state[r] \in AgentState /\ pc[r] # "idle"
      /\ request[r].command = Command(r) /\ request[r].ticket = state[r].ticket
      /\ pc'[r] = "idle" /\ node'[r] \in {"mark_completed", "mark_failed", "raised"}
  BY DEF execute_node_returns, execute_node_raises, TakeResult, route_after_execute,
         CallsFollowApproval
<1>2. NothingRecorded(r)' /\ ResultIsVerified(r)'
  BY <1>1 DEF NothingRecorded, ResultIsVerified
<1>3. CASE execute_node_raises(r)
  BY <1>1, <1>2, <1>3 DEF execute_node_raises, OwnRun, RunIsVerified, Reached, Command
<1>4. CASE execute_node_returns(r)
  <2>1. /\ state'[r].execution_result = result[r]
        /\ state'[r].authorization_result = state[r].authorization_result
        /\ state'[r].ticket = state[r].ticket
    BY <1>1, <1>4 DEF execute_node_returns, AgentState
  <2>2. pc[r] = "returned"
    BY <1>4 DEF execute_node_returns
  <2>. QED  BY <1>1, <1>2, <2>1, <2>2 DEF OwnRun, RunIsVerified, ResultIsVerified, Command
<1>. QED  BY <1>3, <1>4

LEMMA NextOwn == ASSUME OwnWrappers PROVE OwnInv /\ [Next]_vars => OwnInv'
<1>. SUFFICES ASSUME OwnInv, [Next]_vars, NEW r \in Callers PROVE OwnRun(r)'
  BY GraphNextType, NextFollowsApproval, NextEvidence DEF OwnInv, GraphInv
<1>1. CASE UNCHANGED vars
  BY <1>1, OwnRunOfOther DEF vars, wrapperVars
<1>2. ASSUME NEW q \in Callers, q # r, (\E ticket \in Tickets : Invoke(q, ticket)) \/ Step(q)
      PROVE  OwnRun(r)'
  BY <1>2, OtherRunsAreKept, OwnRunOfOther DEF OwnInv
<1>3. CASE (\E ticket \in Tickets : Invoke(r, ticket)) \/ Step(r)
  BY <1>3, OwnRunOfNode, OwnRunOfWrapper, OwnRunOfResult DEF Step
<1>. QED  BY <1>1, <1>2, <1>3 DEF Next

(* What verify() has seen on a permitted command's ticket.                   *)
LEMMA VerifiedEffect ==
    ASSUME NEW command \in AuthorizedCommand, NEW before \in Ticket, NEW after,
           Permitted(command, before), verify(command, before, after)
    PROVE  /\ after.id = before.id
           /\ command.tool_name = "issue_refund" =>
                 /\ after.refund_eligible_amount = before.refund_eligible_amount - command.args.amount
                 /\ after.refund_eligible_amount \in 0..(before.refund_eligible_amount - 1)
           /\ command.tool_name = "update_ticket_status" =>
                 /\ after.status = command.args.new_status
                 /\ after.status # before.status
                 /\ before.status # "closed"
<1>1. after.id = before.id
  BY DEF verify
<1>2. ASSUME command.tool_name = "issue_refund"
      PROVE  /\ after.refund_eligible_amount = before.refund_eligible_amount - command.args.amount
             /\ after.refund_eligible_amount \in 0..(before.refund_eligible_amount - 1)
  <2>1. command.args.amount \in Int /\ command.args.amount > 0
    BY <1>2 DEF AuthorizedCommand, UpdateTicketStatusCommand, IssueRefundCommand, IssueRefundArgs,
                AddTicketNoteCommand
  <2>2. /\ before.refund_eligible_amount \in Int /\ before.refund_eligible_amount # None
        /\ command.args.amount <= before.refund_eligible_amount
    BY <1>2, <2>1, NoneIsNoNumber DEF Permitted, Ticket
  <2>3. after.refund_eligible_amount = RemainingEligible(command, before)
    BY <1>2 DEF verify
  <2>. QED  BY <2>1, <2>2, <2>3 DEF RemainingEligible, FloorAtZero
<1>3. ASSUME command.tool_name = "update_ticket_status"
      PROVE  /\ after.status = command.args.new_status
             /\ after.status # before.status
             /\ before.status # "closed"
  <2>1. after.status = command.args.new_status
    BY <1>3 DEF verify
  <2>2. \A s \in TicketStatus : s \notin AllowedStatusTransitions[s]
    BY DEF TicketStatus, AllowedStatusTransitions
  <2>3. AllowedStatusTransitions["closed"] = {}
    BY DEF AllowedStatusTransitions
  <2>. QED  BY <1>3, <2>1, <2>2, <2>3 DEF Permitted, Ticket
<1>. QED  BY <1>1, <1>2, <1>3

(* Then a completed run shows its effect.                                    *)
LEMMA OwnRunsShowTheEffect ==
    ASSUME OwnInv
    PROVE  CompletedShowsTheEffect
<1>. SUFFICES ASSUME NEW r \in Callers, HasStatus(r, "completed")
     PROVE  LET before == state[r].ticket
                after == state[r].execution_result.ticket
                args == Command(r).args
            IN  /\ after.id = before.id
                /\ Command(r).tool_name = "issue_refund" =>
                      /\ after.refund_eligible_amount = before.refund_eligible_amount - args.amount
                      /\ after.refund_eligible_amount \in 0..(before.refund_eligible_amount - 1)
                /\ Command(r).tool_name = "update_ticket_status" =>
                      /\ after.status = args.new_status
                      /\ after.status # before.status
                      /\ before.status # "closed"
  BY DEF CompletedShowsTheEffect
<1>1. /\ RunEvidence(r) /\ RunIsVerified(r) /\ Reached(r) /\ node[r] \in Node
      /\ state[r].run_status = "completed" /\ state[r].ticket \in Ticket
      /\ state[r].proposed_action \in Proposals \cup {None}
  BY WrapperAssumption DEF OwnInv, OwnRun, Evidence, GraphInv, GraphTypeOK, AgentTypeOK,
     HasStatus, Reached, AgentState
<1>2. VerifiedRun(r)
  BY <1>1 DEF RunEvidence, Node, Reached
<1>3. Command(r) = CommandOf(state[r].proposed_action)
  BY <1>2 DEF VerifiedRun, Command, Approved
<1>4. Command(r) \in AuthorizedCommand
  BY <1>2, <1>3 DEF VerifiedRun, HasSchema, CommandOf, AuthorizedCommand,
     UpdateTicketStatusCommand, IssueRefundCommand, AddTicketNoteCommand
<1>5. verify(Command(r), state[r].ticket, state[r].execution_result.ticket)
  BY <1>1, <1>2, NoneIsNoResult DEF VerifiedRun, RunIsVerified
<1>6. Permitted(Command(r), state[r].ticket)
  BY <1>2, <1>3 DEF VerifiedRun
<1>. QED  BY <1>1, <1>4, <1>5, <1>6, VerifiedEffect

LEMMA OwnInvariant ==
    ASSUME OwnWrappers
    PROVE  Init /\ [][Next]_vars => []OwnInv
<1>1. Init => OwnInv
  <2>1. ASSUME Init PROVE \A r \in Callers : OwnRun(r)
    BY <2>1 DEF Init, WrapperInit, OwnRun, NothingRecorded, ResultIsVerified, RunIsVerified, Reached
  <2>2. Init => Evidence
    BY DEF Init, WrapperInit, Evidence, RunEvidence
  <2>. QED  BY <2>1, <2>2, GraphInit DEF OwnInv
<1>2. OwnInv /\ [Next]_vars => OwnInv'
  BY NextOwn
<1>. QED  BY <1>1, <1>2, PTL

(* With a wrapper to itself a run that completes shows the whole effect of   *)
(* its command on its own ticket, whatever the tool function does.           *)
THEOREM CompletedRunsShowTheEffect ==
    ASSUME OwnWrappers
    PROVE  Spec => []CompletedShowsTheEffect
  BY OwnInvariant, OwnRunsShowTheEffect, PTL DEF Spec

-----------------------------------------------------------------------------
(* Runs that share a wrapper, one call at a time.  A run's execution result, *)
(* if it is not a FAILURE, is the outcome recorded for its command.          *)
Executed(r) == Reached(r) /\ state[r].execution_result # None

RunsAreRecorded ==
    \A r \in Callers : (Executed(r) /\ state[r].execution_result.status # "failure") =>
        KeyOfRun(r) \in Key /\ store[KeyOfRun(r)] = state[r].execution_result

LEMMA ExecutionIsKept ==
    ASSUME GraphInv, Evidence, [Next]_vars,
           NEW r \in Callers, Executed(r)', ~execute_node_returns(r)
    PROVE  /\ Executed(r)
           /\ state'[r].execution_result = state[r].execution_result
           /\ state'[r].authorization_result = state[r].authorization_result
           /\ state'[r].ticket = state[r].ticket
<1>. USE DEF GraphInv, GraphTypeOK, AgentTypeOK
<1>1. CASE node'[r] = node[r] /\ state'[r] = state[r]
  BY <1>1 DEF Executed, Reached
<1>2. ASSUME NEW q \in Callers, q # r, (\E ticket \in Tickets : Invoke(q, ticket)) \/ Step(q)
      PROVE  node'[r] = node[r] /\ state'[r] = state[r]
  BY <1>2, OtherRunsAreKept
<1>3. CASE UNCHANGED vars
  BY <1>1, <1>3 DEF vars
<1>4. ASSUME NEW ticket \in Tickets, Invoke(r, ticket) PROVE FALSE
  BY <1>4 DEF Invoke, InitialState, Executed
<1>5. ASSUME NEW p \in Proposals, propose_node(r, p) PROVE FALSE
  <2>1. state[r] \in AgentState /\ state[r].execution_result = None
    BY <1>5 DEF propose_node, Evidence, RunEvidence
  <2>2. state'[r] = [state[r] EXCEPT !.proposed_action = p, !.run_status = "authorizing"]
    BY <1>5 DEF propose_node
  <2>. QED  BY <2>1, <2>2 DEF AgentState, Executed
<1>6. ASSUME authorize_node(r) PROVE FALSE
  <2>1. state[r] \in AgentState /\ state[r].execution_result = None
    BY <1>6 DEF authorize_node, Evidence, RunEvidence
  <2>. QED  BY <1>6, <2>1 DEF authorize_node, AgentState, Executed
<1>7. CASE ProposeRaises(r) \/ execute_node_raises(r)
  BY <1>7 DEF ProposeRaises, execute_node_raises, Executed, Reached, CallsFollowApproval
<1>8. CASE execute_node_calls(r) \/ execute_node_waits(r)
  BY <1>1, <1>8 DEF execute_node_calls, execute_node_waits
<1>9. CASE mark_denied_node(r) \/ mark_completed_node(r) \/ mark_failed_node(r)
  <2>1. state[r] \in AgentState /\ node[r] # "start"
    BY <1>9 DEF mark_denied_node, mark_completed_node, mark_failed_node
  <2>. QED  BY <1>9, <2>1 DEF mark_denied_node, mark_completed_node, mark_failed_node, Finish,
                              AgentState, Executed, Reached
<1>. QED  BY <1>1, <1>2, <1>3, <1>4, <1>5, <1>6, <1>7, <1>8, <1>9 DEF Next, Step

LEMMA NextRunsAreRecorded ==
    /\ GraphInv /\ Evidence /\ Inv /\ ReturnsAreRecorded /\ RunsAreRecorded
    /\ [Next]_vars
    => RunsAreRecorded'
<1>. SUFFICES ASSUME GraphInv, Evidence, Inv, ReturnsAreRecorded, RunsAreRecorded, [Next]_vars,
                     NEW r \in Callers, Executed(r)', state'[r].execution_result.status # "failure"
              PROVE  KeyOfRun(r)' \in Key /\ store'[KeyOfRun(r)'] = state'[r].execution_result
  BY DEF RunsAreRecorded
<1>1. [WrapperNext]_wrapperVars
  BY GraphStepIsWrapperStep
<1>2. CASE execute_node_returns(r)
  <2>1. /\ pc[r] = "returned" /\ store' = store
        /\ state' = [state EXCEPT ![r] = [state[r] EXCEPT !.execution_result = result[r]]]
    BY <1>2 DEF execute_node_returns, TakeResult
  <2>2. /\ state[r] \in AgentState /\ request[r] \in Request
        /\ request[r].command = Command(r) /\ request[r].ticket = state[r].ticket
    BY <2>1 DEF GraphInv, GraphTypeOK, AgentTypeOK, TypeOK, CallsFollowApproval
  <2>3. KeyOf(r) \in Key /\ KeyOf(r) = KeyOfRun(r)
    BY <2>2, KeyType DEF KeyOf, KeyOfRun
  <2>4. /\ state'[r].execution_result = result[r]
        /\ state'[r].authorization_result = state[r].authorization_result
        /\ state'[r].ticket = state[r].ticket
    BY <2>1, <2>2 DEF AgentState, GraphInv, GraphTypeOK, AgentTypeOK
  <2>5. KeyOfRun(r)' = KeyOfRun(r)
    BY <2>4 DEF KeyOfRun, Command
  <2>6. store[KeyOf(r)] = result[r]
    BY <2>1, <2>4 DEF ReturnsAreRecorded
  <2>. QED  BY <2>1, <2>3, <2>4, <2>5, <2>6
<1>3. CASE ~execute_node_returns(r)
  <2>1. /\ Executed(r)
        /\ state'[r].execution_result = state[r].execution_result
        /\ state'[r].authorization_result = state[r].authorization_result
        /\ state'[r].ticket = state[r].ticket
    BY <1>3, ExecutionIsKept
  <2>2. KeyOfRun(r)' = KeyOfRun(r)
    BY <2>1 DEF KeyOfRun, Command
  <2>3. /\ KeyOfRun(r) \in Key /\ store[KeyOfRun(r)] = state[r].execution_result
        /\ state[r].execution_result # None
    BY <2>1 DEF RunsAreRecorded, Executed
  <2>4. store'[KeyOfRun(r)] = store[KeyOfRun(r)]
    BY <1>1, <2>3, StoreGrows DEF Inv
  <2>. QED  BY <2>1, <2>2, <2>3, <2>4
<1>. QED  BY <1>2, <1>3

LEMMA RecordedRuns ==
    ASSUME OneCallPerWrapper
    PROVE  Init /\ [][Next]_vars => [](ReturnsAreRecorded /\ RunsAreRecorded)
<1>1. Init => ReturnsAreRecorded /\ RunsAreRecorded
  BY DEF Init, WrapperInit, ReturnsAreRecorded, RunsAreRecorded, Executed, Reached
<1>2. Inv /\ ReturnsAreRecorded /\ [WrapperNext]_wrapperVars => ReturnsAreRecorded'
  BY NextReturnsAreRecorded DEF Inv
<1>. QED
  BY <1>1, <1>2, EvidenceInvariant, GraphSerial, GraphStepIsWrapperStep, NextRunsAreRecorded, PTL

LEMMA RecordedRunsAgree == RunsAreRecorded => ReplaysAgree
<1>. SUFFICES ASSUME RunsAreRecorded, NEW q \in Callers, NEW r \in Callers,
                     Executed(q), Executed(r), WrapperOf[q] = WrapperOf[r],
                     Command(q) = Command(r), state[q].ticket.id = state[r].ticket.id,
                     state[q].execution_result.status # "failure",
                     state[r].execution_result.status # "failure"
              PROVE  state[q].execution_result = state[r].execution_result
  BY DEF ReplaysAgree, Executed
<1>1. KeyOfRun(q) = KeyOfRun(r)
  BY DEF KeyOfRun
<1>. QED  BY <1>1 DEF RunsAreRecorded

(* Runs that execute the same command on the same ticket id through one      *)
(* wrapper, one after the other, report one and the same outcome.            *)
THEOREM ReplaysDoAgree ==
    ASSUME OneCallPerWrapper
    PROVE  Spec => []ReplaysAgree
  BY RecordedRuns, RecordedRunsAgree, PTL DEF Spec

-----------------------------------------------------------------------------
(* The trace of a run at each node.                                          *)
Proposed(r) == TraceEvent("proposed", 0, state[r].proposed_action)
Authorized(r) == TraceEvent("authorized", 1, state[r].authorization_result)
Execution(r) == TraceEvent("executed", 2, state[r].execution_result)
Finished(r, n) == TraceEvent("run_finished", n, state[r].run_status)

RunTrace(r) ==
    /\ node[r] \in {"start", "propose"} => events[r] = <<>>
    /\ node[r] = "propose" =>
          state[r].proposed_action = None /\ state[r].authorization_result = None
    /\ node[r] = "authorize" => events[r] = <<Proposed(r)>>
    /\ node[r] \in {"execute", "mark_denied"} => events[r] = <<Proposed(r), Authorized(r)>>
    /\ node[r] \in {"mark_completed", "mark_failed"} =>
          events[r] = <<Proposed(r), Authorized(r), Execution(r)>>
    /\ node[r] = "end" =>
          events[r] = IF state[r].execution_result = None
                      THEN <<Proposed(r), Authorized(r), Finished(r, 2)>>
                      ELSE <<Proposed(r), Authorized(r), Execution(r), Finished(r, 3)>>
    /\ node[r] = "raised" =>
          \/ /\ events[r] = <<>>
             /\ state[r].proposed_action = None /\ state[r].authorization_result = None
          \/ events[r] = <<Proposed(r), Authorized(r)>> /\ state[r].proposed_action \in Proposals
             /\ state[r].authorization_result \in AuthorizationResult
    /\ node[r] = "raised" => state[r].execution_result = None
    /\ node[r] \notin {"start", "propose", "raised"} => state[r].proposed_action \in Proposals
    /\ node[r] \notin {"start", "propose", "authorize", "raised"} =>
          state[r].authorization_result \in AuthorizationResult

Traced == \A r \in Callers : RunTrace(r)

(* Short sequences: one more element, by Append or by concatenation.         *)
LEMMA PairsJoin ==
    ASSUME NEW a, NEW b
    PROVE  <<a>> \o <<b>> = <<a, b>> /\ Append(<<a>>, b) = <<a, b>>
<1>. DEFINE S == {a, b}
            s == <<a>> \o <<b>>
            t == <<a, b>>
<1>1. <<a>> \in Seq(S) /\ <<b>> \in Seq(S) /\ Len(<<a>>) = 1 /\ Len(<<b>>) = 1
  OBVIOUS
<1>2. s \in Seq(S) /\ Len(s) = 2 /\ s[1] = a /\ s[2] = b
  <2>1. s \in Seq(S) /\ Len(s) = 2
    BY <1>1, ConcatProperties
  <2>2. <<a>>[1] = a
    OBVIOUS
  <2>. QED  BY <1>1, <2>1, <2>2, ConcatProperties
<1>3. t \in Seq(S) /\ Len(t) = 2 /\ t[1] = a /\ t[2] = b
  OBVIOUS
<1>4. Append(<<a>>, b) = s
  BY <1>1, AppendIsConcat
<1>. HIDE DEF s, t, S
<1>5. s = t
  BY <1>2, <1>3, SeqEqual
<1>. QED
  BY <1>4, <1>5 DEF s, t

LEMMA TriplesJoin ==
    ASSUME NEW a, NEW b, NEW c
    PROVE  <<a, b>> \o <<c>> = <<a, b, c>> /\ Append(<<a, b>>, c) = <<a, b, c>>
<1>. DEFINE S == {a, b, c}
            s == <<a, b>> \o <<c>>
            t == <<a, b, c>>
<1>1. <<a, b>> \in Seq(S) /\ <<c>> \in Seq(S) /\ Len(<<a, b>>) = 2 /\ Len(<<c>>) = 1
  OBVIOUS
<1>2. s \in Seq(S) /\ Len(s) = 3 /\ s[1] = a /\ s[2] = b /\ s[3] = c
  <2>1. s \in Seq(S) /\ Len(s) = 3
    BY <1>1, ConcatProperties
  <2>2. <<a, b>>[1] = a /\ <<a, b>>[2] = b
    OBVIOUS
  <2>. QED  BY <1>1, <2>1, <2>2, ConcatProperties
<1>3. t \in Seq(S) /\ Len(t) = 3 /\ t[1] = a /\ t[2] = b /\ t[3] = c
  OBVIOUS
<1>4. Append(<<a, b>>, c) = s
  BY <1>1, AppendIsConcat
<1>. HIDE DEF s, t, S
<1>5. s = t
  BY <1>2, <1>3, SeqEqual
<1>. QED
  BY <1>4, <1>5 DEF s, t

LEMMA QuadruplesJoin ==
    ASSUME NEW a, NEW b, NEW c, NEW d
    PROVE  <<a, b, c>> \o <<d>> = <<a, b, c, d>> /\ Append(<<a, b, c>>, d) = <<a, b, c, d>>
<1>. DEFINE S == {a, b, c, d}
            s == <<a, b, c>> \o <<d>>
            t == <<a, b, c, d>>
<1>1. <<a, b, c>> \in Seq(S) /\ <<d>> \in Seq(S) /\ Len(<<a, b, c>>) = 3 /\ Len(<<d>>) = 1
  OBVIOUS
<1>2. s \in Seq(S) /\ Len(s) = 4 /\ s[1] = a /\ s[2] = b /\ s[3] = c /\ s[4] = d
  <2>1. s \in Seq(S) /\ Len(s) = 4
    BY <1>1, ConcatProperties
  <2>2. <<a, b, c>>[1] = a /\ <<a, b, c>>[2] = b /\ <<a, b, c>>[3] = c
    OBVIOUS
  <2>. QED  BY <1>1, <2>1, <2>2, ConcatProperties
<1>3. t \in Seq(S) /\ Len(t) = 4 /\ t[1] = a /\ t[2] = b /\ t[3] = c /\ t[4] = d
  OBVIOUS
<1>4. Append(<<a, b, c>>, d) = s
  BY <1>1, AppendIsConcat
<1>. HIDE DEF s, t, S
<1>5. s = t
  BY <1>2, <1>3, SeqEqual
<1>. QED
  BY <1>4, <1>5 DEF s, t

(* Recording an event adds it to the end of a short trace.                   *)
LEMMA RecordGrows ==
    ASSUME GraphInv, NEW r \in Callers, NEW event_type, NEW payload,
           events' = _record(events, r, event_type, payload)
    PROVE  events'[r] = Append(events[r], TraceEvent(event_type, Len(events[r]), payload))
BY DEF GraphInv, GraphTypeOK, AgentTypeOK, _record

LEMMA TraceOfRun ==
    ASSUME GraphInv, Evidence, NEW r \in Callers, RunTrace(r), Step(r)
    PROVE  RunTrace(r)'
<1>. USE DEF GraphInv, GraphTypeOK, AgentTypeOK
<1>0. RunEvidence(r)
  BY DEF Evidence
<1>1. ASSUME NEW p \in Proposals, propose_node(r, p) PROVE RunTrace(r)'
  <2>1. state[r] \in AgentState /\ events[r] = <<>> /\ node'[r] = "authorize"
    BY <1>1 DEF propose_node, RunTrace
  <2>2. state'[r] = [state[r] EXCEPT !.proposed_action = p, !.run_status = "authorizing"]
    BY <1>1 DEF propose_node
  <2>3. state'[r].proposed_action = p
    BY <2>1, <2>2 DEF AgentState
  <2>4. events'[r] = <<TraceEvent("proposed", 0, p)>>
    BY <1>1, <2>1 DEF propose_node, record_proposal, _record
  <2>. QED  BY <2>1, <2>3, <2>4 DEF RunTrace, Proposed
<1>2. ASSUME ProposeRaises(r) PROVE RunTrace(r)'
  BY <1>0, <1>2 DEF ProposeRaises, RunTrace, RunEvidence
<1>3. ASSUME authorize_node(r) PROVE RunTrace(r)'
  <2>. DEFINE authorization == authorize(state[r].proposed_action, state[r].ticket)
  <2>1. /\ state[r] \in AgentState /\ events[r] = <<Proposed(r)>>
        /\ state[r].proposed_action \in Proposals
    BY <1>3 DEF authorize_node, RunTrace
  <2>2. authorization \in AuthorizationResult
    BY AuthorizeType
  <2>3. /\ state'[r].authorization_result = authorization
        /\ state'[r].proposed_action = state[r].proposed_action
        /\ node'[r] \in {"execute", "mark_denied"}
    BY <1>3, <2>1 DEF authorize_node, route_after_authorize, AgentState
  <2>4. events' = _record(events, r, "authorized", authorization)
    BY <1>3 DEF authorize_node, record_authorization
  <2>. HIDE DEF authorization
  <2>5. events'[r] = <<Proposed(r), TraceEvent("authorized", 1, authorization)>>
    <3>1. events'[r] = Append(events[r], TraceEvent("authorized", Len(events[r]), authorization))
      BY <2>4, RecordGrows
    <3>2. Len(events[r]) = 1
      BY <2>1
    <3>. QED  BY <2>1, <3>1, <3>2, PairsJoin
  <2>. QED  BY <2>1, <2>2, <2>3, <2>5 DEF RunTrace, Proposed, Authorized
<1>4. ASSUME execute_node_calls(r) \/ execute_node_waits(r) PROVE RunTrace(r)'
  BY <1>4 DEF execute_node_calls, execute_node_waits, RunTrace, Proposed, Authorized, Execution,
              Finished
<1>5. ASSUME execute_node_returns(r) PROVE RunTrace(r)'
  <2>1. /\ node[r] = "execute" /\ state[r] \in AgentState
        /\ events[r] = <<Proposed(r), Authorized(r)>>
        /\ state[r].proposed_action \in Proposals
        /\ state[r].authorization_result \in AuthorizationResult
    BY <1>5 DEF execute_node_returns, CallsFollowApproval, RunTrace
  <2>2. state' = [state EXCEPT ![r] = [state[r] EXCEPT !.execution_result = result[r]]]
        /\ node'[r] \in {"mark_completed", "mark_failed"}
    BY <1>5, <2>1 DEF execute_node_returns, route_after_execute
  <2>3. /\ state'[r].execution_result = result[r]
        /\ state'[r].proposed_action = state[r].proposed_action
        /\ state'[r].authorization_result = state[r].authorization_result
    BY <2>1, <2>2 DEF AgentState
  <2>4. events' = _record(events, r, "executed", result[r])
    BY <1>5 DEF execute_node_returns, record_execution
  <2>5. events'[r] = <<Proposed(r), Authorized(r), TraceEvent("executed", 2, result[r])>>
    <3>1. events'[r] = Append(events[r], TraceEvent("executed", Len(events[r]), result[r]))
      BY <2>4, RecordGrows
    <3>2. Len(events[r]) = 2
      BY <2>1
    <3>. QED  BY <2>1, <3>1, <3>2, TriplesJoin
  <2>. QED  BY <2>1, <2>2, <2>3, <2>5 DEF RunTrace, Proposed, Authorized, Execution
<1>6. ASSUME execute_node_raises(r) PROVE RunTrace(r)'
  <2>1. node[r] = "execute" /\ node'[r] = "raised" /\ events' = events /\ state' = state
    BY <1>6 DEF execute_node_raises, CallsFollowApproval
  <2>. QED  BY <1>0, <2>1 DEF RunTrace, RunEvidence, Proposed, Authorized
<1>7. ASSUME mark_denied_node(r) \/ mark_completed_node(r) \/ mark_failed_node(r)
      PROVE  RunTrace(r)'
  <2>1. PICK status \in Terminal : Finish(r, status)
    BY <1>7 DEF mark_denied_node, mark_completed_node, mark_failed_node, Terminal
  <2>2. /\ state[r] \in AgentState /\ node'[r] = "end"
        /\ state[r].proposed_action \in Proposals
        /\ state[r].authorization_result \in AuthorizationResult
    BY <1>7, <2>1 DEF mark_denied_node, mark_completed_node, mark_failed_node, Finish, RunTrace
  <2>3. state' = [state EXCEPT ![r] = [state[r] EXCEPT !.run_status = status]]
        /\ events' = _record(events, r, "run_finished", status)
    BY <2>1 DEF Finish, record_run_finished
  <2>4. /\ state'[r].execution_result = state[r].execution_result
        /\ state'[r].proposed_action = state[r].proposed_action
        /\ state'[r].authorization_result = state[r].authorization_result
        /\ state'[r].run_status = status
    BY <2>2, <2>3 DEF AgentState
  <2>7. events'[r] = Append(events[r], TraceEvent("run_finished", Len(events[r]), status))
    BY <2>3, RecordGrows
  <2>5. CASE mark_denied_node(r)
    <3>1. events[r] = <<Proposed(r), Authorized(r)>> /\ state[r].execution_result = None
      BY <1>0, <2>5 DEF mark_denied_node, RunTrace, RunEvidence, DeniedRun
    <3>2. events'[r] = <<Proposed(r), Authorized(r), TraceEvent("run_finished", 2, status)>>
      <4>1. Len(events[r]) = 2
        BY <3>1
      <4>. QED  BY <2>7, <3>1, <4>1, TriplesJoin
    <3>. QED  BY <2>2, <2>4, <3>1, <3>2 DEF RunTrace, Proposed, Authorized, Finished
  <2>6. CASE mark_completed_node(r) \/ mark_failed_node(r)
    <3>1. events[r] = <<Proposed(r), Authorized(r), Execution(r)>>
          /\ state[r].execution_result # None
      BY <1>0, <2>6, NoneIsNoResult DEF mark_completed_node, mark_failed_node, RunTrace, RunEvidence,
         VerifiedRun, UnverifiedRun
    <3>2. events'[r] = <<Proposed(r), Authorized(r), Execution(r),
                         TraceEvent("run_finished", 3, status)>>
      <4>1. Len(events[r]) = 3
        BY <3>1
      <4>. QED  BY <2>7, <3>1, <4>1, QuadruplesJoin
    <3>. QED  BY <2>2, <2>4, <3>1, <3>2 DEF RunTrace, Proposed, Authorized, Execution, Finished
  <2>. QED  BY <1>7, <2>5, <2>6
<1>. QED  BY <1>1, <1>2, <1>3, <1>4, <1>5, <1>6, <1>7 DEF Step

LEMMA NextTraced == GraphInv /\ Evidence /\ Traced /\ [Next]_vars => Traced'
<1>. SUFFICES ASSUME GraphInv, Evidence, Traced, [Next]_vars, NEW r \in Callers PROVE RunTrace(r)'
  BY DEF Traced
<1>0. RunTrace(r)
  BY DEF Traced
<1>1. ASSUME node'[r] = node[r], state'[r] = state[r], events'[r] = events[r] PROVE RunTrace(r)'
  BY <1>0, <1>1 DEF RunTrace, Proposed, Authorized, Execution, Finished
<1>2. ASSUME NEW ticket \in Tickets, Invoke(r, ticket) PROVE RunTrace(r)'
  BY <1>0, <1>2 DEF Invoke, InitialState, RunTrace, GraphInv, GraphTypeOK, AgentTypeOK
<1>3. CASE Step(r)
  BY <1>0, <1>3, TraceOfRun
<1>4. CASE UNCHANGED vars
  BY <1>1, <1>4 DEF vars
<1>5. ASSUME NEW q \in Callers, q # r, (\E ticket \in Tickets : Invoke(q, ticket)) \/ Step(q)
      PROVE  RunTrace(r)'
  BY <1>1, <1>5, OtherRunsAreKept
<1>. QED  BY <1>2, <1>3, <1>4, <1>5 DEF Next

(* What did not happen leaves no moment.                                     *)
LEMMA NothingJoins ==
    ASSUME NEW a, NEW b, NEW c
    PROVE  /\ <<>> \o <<>> = <<>>
           /\ <<a>> \o <<>> = <<a>>
           /\ <<a, b>> \o <<>> = <<a, b>>
           /\ <<a, b, c>> \o <<>> = <<a, b, c>>
<1>. DEFINE S == {a, b, c}
<1>1. <<>> \in Seq(S) /\ <<a>> \in Seq(S) /\ <<a, b>> \in Seq(S) /\ <<a, b, c>> \in Seq(S)
  OBVIOUS
<1>. QED
  BY <1>1, ConcatEmptySeq

(* The trace of a run tells what its state says, at every moment: one event  *)
(* for each thing that happened, in order and numbered from 0.               *)
THEOREM TracesTellTheirRuns == Spec => []TraceTellsTheRun
<1>1. Init => Traced
  BY DEF Init, Traced, RunTrace
<1>2. ASSUME GraphInv, Evidence, Traced PROVE TraceTellsTheRun
  <2>. SUFFICES ASSUME NEW r \in Callers, Reached(r)
       PROVE  LET expected == ExpectedTrace(state[r])
              IN  /\ Len(events[r]) = Len(expected)
                  /\ \A i \in DOMAIN expected :
                        /\ events[r][i].sequence = i - 1
                        /\ events[r][i].event_type = expected[i][1]
                        /\ events[r][i].payload = expected[i][2]
    BY DEF TraceTellsTheRun
  <2>. DEFINE s == state[r]
              a == <<"proposed", s.proposed_action>>
              b == <<"authorized", s.authorization_result>>
              c == <<"executed", s.execution_result>>
              d == <<"run_finished", s.run_status>>
  <2>1. RunTrace(r) /\ RunEvidence(r) /\ node[r] \in Node /\ node[r] # "start"
    BY <1>2 DEF Evidence, Traced, GraphInv, GraphTypeOK, AgentTypeOK, Reached
  <2>2. None \notin Proposals /\ None \notin AuthorizationResult /\ None \notin ExecutionResult
        /\ None \notin Terminal
    BY GraphAssumption, NoneIsNoResult
  <2>3. CASE node[r] = "propose" \/ (node[r] = "raised" /\ events[r] = <<>>)
    <3>1. /\ s.proposed_action = None /\ s.authorization_result = None /\ s.execution_result = None
          /\ s.run_status \notin Terminal /\ events[r] = <<>>
      <4>1. <<Proposed(r), Authorized(r)>> # <<>>
        OBVIOUS
      <4>2. events[r] = <<>> /\ s.execution_result = None /\ s.run_status \notin Terminal
        BY <2>1, <2>3 DEF RunTrace, RunEvidence, Terminal
      <4>3. s.proposed_action = None /\ s.authorization_result = None
        BY <2>1, <2>3, <4>1 DEF RunTrace
      <4>. QED  BY <4>2, <4>3
    <3>2. ExpectedTrace(s) = <<>>
      BY <3>1, NothingJoins DEF ExpectedTrace, Moment
    <3>. QED  BY <3>1, <3>2
  <2>4. CASE node[r] = "authorize"
    <3>1. /\ s.proposed_action # None /\ s.authorization_result = None /\ s.execution_result = None
          /\ s.run_status \notin Terminal /\ events[r] = <<Proposed(r)>>
      BY <1>2, <2>1, <2>2, <2>4 DEF RunTrace, RunEvidence, Terminal, GraphInv, CallsFollowApproval
    <3>2. ExpectedTrace(s) = <<a>>
      BY <3>1, NothingJoins DEF ExpectedTrace, Moment
    <3>. QED  BY <3>1, <3>2 DEF Proposed, TraceEvent
  <2>5. CASE node[r] \in {"execute", "mark_denied"} \/ (node[r] = "raised" /\ events[r] # <<>>)
    <3>1. /\ s.proposed_action # None /\ s.authorization_result # None /\ s.execution_result = None
          /\ s.run_status \notin Terminal /\ events[r] = <<Proposed(r), Authorized(r)>>
      BY <2>1, <2>2, <2>5 DEF RunTrace, RunEvidence, Terminal, DeniedRun
    <3>2. ExpectedTrace(s) = <<a, b>>
      <4>1. ExpectedTrace(s) = <<a>> \o <<b>> \o <<>> \o <<>>
        BY <3>1 DEF ExpectedTrace, Moment
      <4>. QED  BY <4>1, PairsJoin, NothingJoins
    <3>. QED  BY <3>1, <3>2 DEF Proposed, Authorized, TraceEvent
  <2>6. CASE node[r] \in {"mark_completed", "mark_failed"}
    <3>1. /\ s.proposed_action # None /\ s.authorization_result # None /\ s.execution_result # None
          /\ s.run_status \notin Terminal /\ events[r] = <<Proposed(r), Authorized(r), Execution(r)>>
      BY <2>1, <2>2, <2>6 DEF RunTrace, RunEvidence, Terminal, VerifiedRun, UnverifiedRun
    <3>2. ExpectedTrace(s) = <<a, b, c>>
      <4>1. ExpectedTrace(s) = <<a>> \o <<b>> \o <<c>> \o <<>>
        BY <3>1 DEF ExpectedTrace, Moment
      <4>. HIDE DEF s, a, b, c, d
      <4>2. <<a>> \o <<b>> = <<a, b>>
        BY PairsJoin
      <4>3. <<a, b>> \o <<c>> = <<a, b, c>> /\ <<a, b>> \o <<d>> = <<a, b, d>>
        BY TriplesJoin
      <4>4. <<a, b>> \o <<>> = <<a, b>> /\ <<a, b, c>> \o <<>> = <<a, b, c>>
        BY NothingJoins
      <4>. QED  BY <4>1, <4>2, <4>3, <4>4
    <3>. QED  BY <3>1, <3>2 DEF Proposed, Authorized, Execution, TraceEvent
  <2>7. CASE node[r] = "end" /\ s.execution_result = None
    <3>1. /\ s.proposed_action # None /\ s.authorization_result # None
          /\ s.run_status \in Terminal /\ s.run_status # None
          /\ events[r] = <<Proposed(r), Authorized(r), Finished(r, 2)>>
      BY <2>1, <2>2, <2>7 DEF RunTrace, RunEvidence, Terminal
    <3>2. ExpectedTrace(s) = <<a, b, d>>
      <4>1. ExpectedTrace(s) = <<a>> \o <<b>> \o <<>> \o <<d>>
        BY <2>7, <3>1 DEF ExpectedTrace, Moment
      <4>. HIDE DEF s, a, b, c, d
      <4>2. <<a>> \o <<b>> = <<a, b>>
        BY PairsJoin
      <4>3. <<a, b>> \o <<c>> = <<a, b, c>> /\ <<a, b>> \o <<d>> = <<a, b, d>>
        BY TriplesJoin
      <4>4. <<a, b>> \o <<>> = <<a, b>> /\ <<a, b, c>> \o <<>> = <<a, b, c>>
        BY NothingJoins
      <4>. QED  BY <4>1, <4>2, <4>3, <4>4
    <3>. QED  BY <3>1, <3>2 DEF Proposed, Authorized, Finished, TraceEvent
  <2>8. CASE node[r] = "end" /\ s.execution_result # None
    <3>1. /\ s.proposed_action # None /\ s.authorization_result # None
          /\ s.run_status \in Terminal /\ s.run_status # None
          /\ events[r] = <<Proposed(r), Authorized(r), Execution(r), Finished(r, 3)>>
      BY <2>1, <2>2, <2>8 DEF RunTrace, RunEvidence, Terminal
    <3>2. ExpectedTrace(s) = <<a, b, c, d>>
      <4>1. ExpectedTrace(s) = <<a>> \o <<b>> \o <<c>> \o <<d>>
        BY <2>8, <3>1 DEF ExpectedTrace, Moment
      <4>. HIDE DEF s, a, b, c, d
      <4>2. <<a>> \o <<b>> = <<a, b>>
        BY PairsJoin
      <4>3. <<a, b>> \o <<c>> = <<a, b, c>>
        BY TriplesJoin
      <4>4. <<a, b, c>> \o <<d>> = <<a, b, c, d>>
        BY QuadruplesJoin
      <4>. QED  BY <4>1, <4>2, <4>3, <4>4
    <3>. QED  BY <3>1, <3>2 DEF Proposed, Authorized, Execution, Finished, TraceEvent
  <2>9. \/ node[r] = "propose" \/ (node[r] = "raised" /\ events[r] = <<>>)
        \/ node[r] = "authorize"
        \/ node[r] \in {"execute", "mark_denied"} \/ (node[r] = "raised" /\ events[r] # <<>>)
        \/ node[r] \in {"mark_completed", "mark_failed"}
        \/ node[r] = "end"
    BY <2>1 DEF Node
  <2>. HIDE DEF s, a, b, c, d
  <2>. QED  BY <2>3, <2>4, <2>5, <2>6, <2>7, <2>8, <2>9
<1>. QED  BY <1>1, <1>2, EvidenceInvariant, NextTraced, PTL DEF Spec
-----------------------------------------------------------------------------
(* The work a run has left: how many steps it can still take, with the steps *)
(* of its call of the wrapper.  execute_node asks for three attempts.        *)
StepsToGo(r) ==
    CASE node[r] = "start" -> 12
      [] node[r] = "propose" -> 11
      [] node[r] = "authorize" -> 10
      [] node[r] = "execute" -> IF pc[r] = "idle" THEN 9 ELSE StepsLeft(r) + 2
      [] node[r] \in {"mark_denied", "mark_completed", "mark_failed"} -> 1
      [] node[r] \in {"end", "raised"} -> 0

ThreeAttempts == \A r \in Callers : pc[r] # "idle" => request[r].max_attempts = 3

LEMMA NextThreeAttempts == GraphInv /\ ThreeAttempts /\ [Next]_vars => ThreeAttempts'
<1>. SUFFICES ASSUME GraphInv, ThreeAttempts, [Next]_vars, NEW r \in Callers, pc'[r] # "idle"
              PROVE  request'[r].max_attempts = 3
  BY DEF ThreeAttempts
<1>. USE DEF GraphInv, GraphTypeOK, TypeOK, ThreeAttempts
<1>1. ASSUME pc[r] # "idle", request'[r] = request[r] PROVE request'[r].max_attempts = 3
  BY <1>1
<1>2. ASSUME NEW q \in Callers, execute_node_calls(q) PROVE request'[r].max_attempts = 3
  <2>1. PICK should_fail \in ShouldFail :
          Call(q, [command |-> Command(q), ticket |-> state[q].ticket,
                   max_attempts |-> 3, should_fail |-> should_fail])
    BY <1>2 DEF execute_node_calls, Command
  <2>. QED  BY <2>1 DEF Call
<1>3. ASSUME NEW q \in Callers, execute_node_waits(q) PROVE request'[r].max_attempts = 3
  BY <1>3 DEF execute_node_waits, Execute, LookupHit, LookupMiss, TransientFailure, RunTool,
              ToolRaises, Record, Exhaust, HasAttempt
<1>4. ASSUME NEW q \in Callers, execute_node_returns(q) \/ execute_node_raises(q)
      PROVE  request'[r].max_attempts = 3
  BY <1>4 DEF execute_node_returns, execute_node_raises, TakeResult
<1>5. ASSUME NEW q \in Callers,
             \/ \E ticket \in Tickets : Invoke(q, ticket)
             \/ \E p \in Proposals : propose_node(q, p)
             \/ ProposeRaises(q) \/ authorize_node(q)
             \/ mark_denied_node(q) \/ mark_completed_node(q) \/ mark_failed_node(q)
      PROVE  request'[r].max_attempts = 3
  BY <1>5 DEF Invoke, propose_node, ProposeRaises, authorize_node, mark_denied_node,
              mark_completed_node, mark_failed_node, Finish, wrapperVars
<1>6. CASE UNCHANGED vars
  BY <1>6 DEF vars, wrapperVars
<1>. QED  BY <1>2, <1>3, <1>4, <1>5, <1>6 DEF Next, Step

(* Each step of a run uses some of its work up: the graph has no way back to *)
(* a node, and a call of the wrapper none to an earlier place in its loop.   *)
LEMMA StepsUseWorkUp ==
    ASSUME GraphInv, ThreeAttempts, AttemptsInRange, NEW r \in Callers, Step(r)
    PROVE  StepsToGo(r) \in 0..11 /\ StepsToGo(r)' \in 0..11 /\ StepsToGo(r)' < StepsToGo(r)
<1>. USE DEF GraphInv, GraphTypeOK, AgentTypeOK, TypeOK
<1>0. pc[r] # "idle" => node[r] = "execute" /\ request[r].max_attempts = 3
  BY DEF CallsFollowApproval, ThreeAttempts
<1>1. CASE (\E p \in Proposals : propose_node(r, p)) \/ ProposeRaises(r)
  <2>1. node[r] = "propose" /\ node'[r] \in {"authorize", "raised"}
    BY <1>1 DEF propose_node, ProposeRaises
  <2>2. StepsToGo(r) = 11
    BY <2>1 DEF StepsToGo
  <2>3. StepsToGo(r)' \in {0, 10}
    BY <2>1 DEF StepsToGo
  <2>. QED  BY <2>2, <2>3
<1>2. CASE authorize_node(r)
  <2>1. node[r] = "authorize" /\ node'[r] \in {"execute", "mark_denied"} /\ pc'[r] = pc[r]
    BY <1>2 DEF authorize_node, route_after_authorize, wrapperVars
  <2>. QED  BY <1>0, <2>1 DEF StepsToGo
<1>3. CASE execute_node_calls(r)
  <2>1. /\ node[r] = "execute" /\ pc[r] = "idle" /\ node' = node
        /\ pc'[r] = "lookup" /\ request'[r].max_attempts = 3
    BY <1>3 DEF execute_node_calls, Call
  <2>2. StepsToGo(r) = 9
    BY <2>1 DEF StepsToGo
  <2>3. StepsToGo(r)' = 8
    BY <2>1 DEF StepsToGo, StepsLeft
  <2>. QED  BY <2>2, <2>3
<1>4. CASE execute_node_waits(r)
  <2>1. /\ Execute(r) /\ node' = node /\ pc[r] # "idle" /\ pc'[r] # "idle"
        /\ pc[r] \in {"lookup", "attempt", "record"} /\ attempt[r] \in Int
    BY <1>4 DEF execute_node_waits, Execute, LookupHit, LookupMiss, TransientFailure, RunTool,
                ToolRaises, Record, Exhaust, HasAttempt
  <2>2. StepsLeft(r) \in Nat /\ StepsLeft(r)' \in Nat /\ StepsLeft(r)' < StepsLeft(r)
    BY <2>1, ExecuteUsesSteps
  <2>3. StepsLeft(r) <= 6
    BY <1>0, <2>1 DEF StepsLeft, AttemptsInRange
  <2>4. StepsToGo(r) = StepsLeft(r) + 2 /\ StepsToGo(r)' = StepsLeft(r)' + 2
    BY <1>0, <2>1 DEF StepsToGo
  <2>. HIDE DEF GraphInv, GraphTypeOK, AgentTypeOK, TypeOK
  <2>. QED  BY <2>2, <2>3, <2>4
<1>5. CASE execute_node_returns(r) \/ execute_node_raises(r)
  <2>1. /\ pc[r] \in {"returned", "raised"} /\ node[r] = "execute"
        /\ node'[r] \in {"mark_completed", "mark_failed", "raised"}
    BY <1>0, <1>5 DEF execute_node_returns, execute_node_raises, route_after_execute
  <2>2. StepsLeft(r) = 0
    BY <2>1 DEF StepsLeft
  <2>3. StepsToGo(r) = 2
    BY <2>1, <2>2 DEF StepsToGo
  <2>4. StepsToGo(r)' \in {0, 1}
    BY <2>1 DEF StepsToGo
  <2>. QED  BY <2>3, <2>4
<1>6. CASE mark_denied_node(r) \/ mark_completed_node(r) \/ mark_failed_node(r)
  BY <1>6 DEF mark_denied_node, mark_completed_node, mark_failed_node, Finish, StepsToGo
<1>. QED  BY <1>1, <1>2, <1>3, <1>4, <1>5, <1>6 DEF Step

(* A run that was invoked takes at most 11 steps, each of which brings it    *)
(* closer to its end, and no other run sets it back: the graph has no loop,  *)
(* and neither retries nor the runs it shares a wrapper with make one.       *)
RunAdvances(r) ==
    /\ Step(r) => StepsToGo(r) \in 0..11 /\ StepsToGo(r)' \in 0..11 /\ StepsToGo(r)' < StepsToGo(r)
    /\ Reached(r) /\ ~Step(r) => StepsToGo(r)' = StepsToGo(r)

RunsAdvance == [][\A r \in Callers : RunAdvances(r)]_vars

LEMMA NextRunAdvances ==
    ASSUME GraphInv, ThreeAttempts, AttemptsInRange, [Next]_vars, NEW r \in Callers
    PROVE  RunAdvances(r)
<1>1. ASSUME node'[r] = node[r], pc'[r] = pc[r], request'[r] = request[r], attempt'[r] = attempt[r]
      PROVE  StepsToGo(r)' = StepsToGo(r)
  BY <1>1 DEF StepsToGo, StepsLeft
<1>2. ASSUME NEW q \in Callers, q # r, (\E ticket \in Tickets : Invoke(q, ticket)) \/ Step(q)
      PROVE  StepsToGo(r)' = StepsToGo(r)
  <2>1. attempt'[r] = attempt[r]
    BY <1>2 DEF GraphInv, GraphTypeOK, TypeOK, Step, Invoke, propose_node, ProposeRaises,
       authorize_node, execute_node_calls, execute_node_waits, execute_node_returns,
       execute_node_raises, mark_denied_node, mark_completed_node, mark_failed_node, Finish,
       wrapperVars, Call, Execute, LookupHit, LookupMiss, TransientFailure, RunTool, ToolRaises,
       Record, Exhaust, TakeResult
  <2>. QED  BY <1>1, <1>2, <2>1, OtherRunsAreKept
<1>3. ASSUME NEW ticket \in Tickets, Invoke(r, ticket) PROVE ~Reached(r)
  BY <1>3 DEF Invoke, Reached
<1>4. ASSUME UNCHANGED vars PROVE StepsToGo(r)' = StepsToGo(r)
  BY <1>1, <1>4 DEF vars, wrapperVars
<1>5. Reached(r) /\ ~Step(r) => StepsToGo(r)' = StepsToGo(r)
  BY <1>2, <1>3, <1>4 DEF Next
<1>. QED  BY <1>5, StepsUseWorkUp DEF RunAdvances

(* Every invoke() runs out of steps.                                         *)
THEOREM RunsDoAdvance == Spec => RunsAdvance
<1>1. Init => ThreeAttempts
  BY DEF Init, WrapperInit, ThreeAttempts
<1>2. GraphInv /\ AttemptsInRange /\ [Next]_vars => AttemptsInRange'
  BY GraphStepIsWrapperStep, NextInRange DEF GraphInv, GraphTypeOK
<1>3. GraphInv /\ ThreeAttempts /\ AttemptsInRange /\ [Next]_vars
        => [\A r \in Callers : RunAdvances(r)]_vars
  BY NextRunAdvances
<1>. QED
  BY <1>1, <1>2, <1>3, InitInRange, GraphInit, GraphInvariant, NextThreeAttempts,
     PTL DEF Spec, RunsAdvance
=============================================================================
