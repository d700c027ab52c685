--------------------------- MODULE TicketDeskProofs ---------------------------
(* Proofs about TicketDesk: whatever the desk does are runs of the agent     *)
(* graph, and the two ways of using them that keep the money right do so for *)
(* every number of runs, every ticket and every proposal source.             *)
EXTENDS TicketDesk, AgentGraphProofs

-----------------------------------------------------------------------------
(* What the desk files and submits again is a ticket a run can be given: it  *)
(* comes out of a result, and every result on its way there carries one.     *)
CarriesATicket(outcome) == outcome.status # "failure" => outcome.ticket \in Tickets

Resubmittable ==
    /\ filed \in Tickets
    /\ \A k \in Key : store[k] # None => CarriesATicket(store[k])
    /\ \A r \in Callers :
          /\ pc[r] \in {"record", "returned"} => CarriesATicket(result[r])
          /\ Executed(r) => CarriesATicket(state[r].execution_result)

DeskInv == GraphInv /\ Evidence /\ Resubmittable

LEMMA DeskStepIsGraphStep == filed \in Tickets /\ [DeskNext]_deskVars => [Next]_vars
<1>. SUFFICES ASSUME filed \in Tickets, [DeskNext]_deskVars PROVE [Next]_vars
  OBVIOUS
<1>1. ASSUME NEW r \in Callers, Submit(r) PROVE Next
  BY <1>1 DEF Submit, Next
<1>2. ASSUME NEW r \in Callers, Work(r) PROVE Next
  BY <1>2 DEF Work, Next
<1>3. ASSUME NEW r \in Callers, Collect(r) \/ GiveUp(r) PROVE UNCHANGED vars
  BY <1>3 DEF Collect, GiveUp
<1>4. CASE UNCHANGED deskVars
  BY <1>4 DEF deskVars
<1>. QED  BY <1>1, <1>2, <1>3, <1>4 DEF DeskNext

(* What the tool function of a call returns can be submitted again.          *)
LEMMA ToolReturnsTickets ==
    ASSUME NEW r \in Request
    PROVE  ToolReturns(r.command, r.ticket) \subseteq Tickets
<1>1. r.command \in Commands /\ r.ticket \in Tickets
  BY DEF Request
<1>. QED  BY <1>1, TicketsClosed DEF ToolReturns

(* The results a wrapper step leaves in the store and with the callers.      *)
LEMMA NextCarries ==
    ASSUME DeskInv, [WrapperNext]_wrapperVars
    PROVE  /\ \A k \in Key : store'[k] # None => CarriesATicket(store'[k])
           /\ \A r \in Callers : pc'[r] \in {"record", "returned"} => CarriesATicket(result'[r])
<1>. DEFINE Carried ==
       /\ \A k \in Key : store'[k] # None => CarriesATicket(store'[k])
       /\ \A r \in Callers : pc'[r] \in {"record", "returned"} => CarriesATicket(result'[r])
<1>. USE DEF DeskInv, Resubmittable, GraphInv, GraphTypeOK, TypeOK
<1>1. ASSUME store' = store,
             \A r \in Callers : pc'[r] \in {"record", "returned"} =>
                pc[r] \in {"record", "returned"} /\ result'[r] = result[r]
      PROVE  Carried
  BY <1>1
<1>2. ASSUME NEW c \in Callers, NEW r \in Request, Call(c, r) PROVE Carried
  BY <1>1, <1>2 DEF Call
<1>3. ASSUME NEW c \in Callers, LookupHit(c) PROVE Carried
  <2>1. KeyOf(c) \in Key
    BY <1>3, KeyType DEF LookupHit
  <2>. QED  BY <1>3, <2>1 DEF LookupHit
<1>4. ASSUME NEW c \in Callers, LookupMiss(c) \/ TransientFailure(c) \/ ToolRaises(c) \/ TakeResult(c)
      PROVE  Carried
  BY <1>1, <1>4 DEF LookupMiss, TransientFailure, ToolRaises, TakeResult, HasAttempt
<1>5. ASSUME NEW c \in Callers, RunTool(c) PROVE Carried
  <2>1. request[c] \in Request /\ pc[c] = "attempt"
    BY <1>5 DEF RunTool, HasAttempt
  <2>2. PICK after \in ToolReturns(request[c].command, request[c].ticket) :
          result' = [result EXCEPT ![c] = Outcome(request[c], after, attempt[c])]
    BY <1>5 DEF RunTool
  <2>3. after \in Tickets
    BY <2>1, <2>2, ToolReturnsTickets
  <2>4. CarriesATicket(Outcome(request[c], after, attempt[c]))
    BY <2>3 DEF CarriesATicket, Outcome
  <2>. QED  BY <1>5, <2>2, <2>4 DEF RunTool
<1>6. ASSUME NEW c \in Callers, Record(c) PROVE Carried
  <2>1. CarriesATicket(result[c]) /\ result' = result
    BY <1>6 DEF Record
  <2>2. \A k \in Key : store'[k] = store[k] \/ store'[k] = result[c]
    BY <1>6 DEF Record
  <2>3. \A r \in Callers : pc'[r] \in {"record", "returned"} => pc[r] \in {"record", "returned"}
    BY <1>6 DEF Record
  <2>4. \A k \in Key : store'[k] # None => CarriesATicket(store'[k])
    BY <2>1, <2>2
  <2>5. \A r \in Callers : pc'[r] \in {"record", "returned"} => CarriesATicket(result'[r])
    BY <2>1, <2>3
  <2>. QED  BY <2>4, <2>5
<1>7. ASSUME NEW c \in Callers, Exhaust(c) PROVE Carried
  BY <1>7 DEF Exhaust, CarriesATicket
<1>8. ASSUME UNCHANGED wrapperVars PROVE Carried
  BY <1>1, <1>8 DEF wrapperVars
<1>. HIDE DEF Carried, DeskInv, Resubmittable, GraphInv, GraphTypeOK, TypeOK
<1>9. Carried
  BY <1>2, <1>3, <1>4, <1>5, <1>6, <1>7, <1>8 DEF WrapperNext, Execute
<1>. QED  BY <1>9 DEF Carried

(* A run that is over and completed has a verified result in its state.      *)
LEMMA CompletedRun ==
    ASSUME GraphInv, Evidence, NEW r \in Callers, node[r] = "end", state[r].run_status = "completed"
    PROVE  VerifiedRun(r) /\ Executed(r)
BY NoneIsNoResult DEF Evidence, RunEvidence, VerifiedRun, Executed, Reached

LEMMA NextResubmittable == DeskInv /\ [DeskNext]_deskVars => DeskInv'
<1>. SUFFICES ASSUME DeskInv, [DeskNext]_deskVars PROVE DeskInv'
  OBVIOUS
<1>1. [Next]_vars
  BY DeskStepIsGraphStep DEF DeskInv, Resubmittable
<1>2. GraphInv' /\ Evidence' /\ [WrapperNext]_wrapperVars
  BY <1>1, GraphNextType, NextFollowsApproval, NextEvidence, GraphStepIsWrapperStep DEF DeskInv, GraphInv
<1>3. filed' \in Tickets
  <2>1. ASSUME NEW r \in Callers, Collect(r) PROVE filed' \in Tickets
    <3>1. CASE node[r] = "end" /\ state[r].run_status = "completed"
      <4>1. state[r].execution_result.ticket \in Tickets
        BY <3>1, CompletedRun DEF DeskInv, Resubmittable, CarriesATicket, VerifiedRun
      <4>. QED  BY <2>1, <3>1, <4>1 DEF Collect
    <3>2. CASE ~(node[r] = "end" /\ state[r].run_status = "completed")
      BY <2>1, <3>2 DEF Collect, DeskInv, Resubmittable
    <3>. QED  BY <3>1, <3>2
  <2>. QED
    BY <2>1 DEF DeskInv, Resubmittable, DeskNext, Submit, Work, GiveUp, deskVars
<1>4. ASSUME NEW r \in Callers, Executed(r)' PROVE CarriesATicket(state'[r].execution_result)
  <2>1. CASE execute_node_returns(r)
    <3>1. state'[r].execution_result = result[r] /\ pc[r] = "returned"
      BY <2>1 DEF execute_node_returns, DeskInv, GraphInv, GraphTypeOK, AgentTypeOK, AgentState,
                  CallsFollowApproval
    <3>. QED  BY <3>1 DEF DeskInv, Resubmittable
  <2>2. CASE ~execute_node_returns(r)
    <3>1. Executed(r) /\ state'[r].execution_result = state[r].execution_result
      BY <1>1, <1>4, <2>2, ExecutionIsKept DEF DeskInv
    <3>. QED  BY <3>1 DEF DeskInv, Resubmittable
  <2>. QED  BY <2>1, <2>2
<1>5. Resubmittable'
  BY <1>2, <1>3, <1>4, NextCarries DEF Resubmittable, CarriesATicket
<1>. QED  BY <1>2, <1>5 DEF DeskInv

LEMMA DeskInvariant == DeskInit /\ [][DeskNext]_deskVars => []DeskInv
<1>1. DeskInit => DeskInv
  BY GraphInit, DeskAssumption
    DEF DeskInit, Init, WrapperInit, DeskInv, Resubmittable, Evidence, RunEvidence, Executed, Reached
<1>. QED  BY <1>1, NextResubmittable, PTL

(* Whatever the desk submits and however often it gives up waiting, what the *)
(* runs do are steps of the agent graph, from its initial states on: what is *)
(* proved of the graph's runs holds of the desk's.                           *)
THEOREM DeskRunsTheGraph == DeskSpec => Init /\ [][Next]_vars
<1>1. DeskInit => Init
  BY DEF DeskInit
<1>2. DeskInv /\ [DeskNext]_deskVars => [Next]_vars
  BY DeskStepIsGraphStep DEF DeskInv, Resubmittable
<1>. QED  BY <1>1, <1>2, DeskInvariant, PTL DEF DeskSpec

(* No refund or other effect of the desk's runs is one that no run proposed  *)
(* and the policy did not permit on the ticket of that run.                  *)
THEOREM DeskTrustBoundary == DeskSpec => []OnlyAuthorizedEffects
  BY DeskRunsTheGraph, TrustInvariant, PTL

(* An order that is repeated on one wrapper is answered as the first time,   *)
(* even when the desk gave up waiting for that answer.  This one assumes that*)
(* nobody calls a wrapper while another call is inside it (Overlap = FALSE), *)
(* which no code enforces: two calls that both missed the store may build    *)
(* answers that differ in their attempt.                                     *)
THEOREM DeskReplaysAgree ==
    ASSUME OneCallPerWrapper
    PROVE  DeskSpec => []ReplaysAgree
  BY DeskRunsTheGraph, RecordedRuns, RecordedRunsAgree, PTL

-----------------------------------------------------------------------------
(* The result of a run while it is on its way from the tool to the state.    *)
NoResultYet == \A r \in Callers : pc[r] \notin {"record", "returned"} => result[r] = None

LEMMA NextNoResultYet ==
    ASSUME GraphInv, NoResultYet, [Next]_vars
    PROVE  NoResultYet'
<1>. USE DEF GraphInv, GraphTypeOK, TypeOK, NoResultYet
<1>0. [WrapperNext]_wrapperVars
  BY GraphStepIsWrapperStep
<1>1. ASSUME NEW c \in Callers, NEW r \in Request, Call(c, r) PROVE NoResultYet'
  BY <1>1 DEF Call
<1>2. ASSUME NEW c \in Callers, Execute(c) PROVE NoResultYet'
  BY <1>2 DEF Execute, LookupHit, LookupMiss, TransientFailure, RunTool, ToolRaises, Record,
              Exhaust, HasAttempt
<1>3. ASSUME NEW c \in Callers, TakeResult(c) PROVE NoResultYet'
  BY <1>3 DEF TakeResult
<1>4. CASE UNCHANGED wrapperVars
  BY <1>4 DEF wrapperVars
<1>. QED  BY <1>0, <1>1, <1>2, <1>3, <1>4 DEF WrapperNext

(* What execute_node has in hand: the command that its approval carries, on  *)
(* the ticket the policy judged.                                             *)
LEMMA CallInProgress ==
    ASSUME GraphInv, NEW r \in Callers, node[r] = "execute"
    PROVE  /\ Reached(r)
           /\ Command(r) = CommandOf(state[r].proposed_action)
           /\ HasSchema(state[r].proposed_action) /\ state[r].proposed_action \in Proposals
           /\ state[r].authorization_result = Approved(Command(r))
           /\ Command(r) \in Commands /\ Command(r) \in AuthorizedCommand
           /\ state[r].ticket \in Tickets /\ state[r].ticket \in Ticket
           /\ Permitted(Command(r), state[r].ticket)
<1>1. state[r] \in AgentState
  BY DEF GraphInv, GraphTypeOK, AgentTypeOK
<1>2. /\ state[r].authorization_result = Approved(CommandOf(state[r].proposed_action))
      /\ HasSchema(state[r].proposed_action) /\ state[r].proposed_action \in Proposals
      /\ Permitted(CommandOf(state[r].proposed_action), state[r].ticket)
  BY DEF GraphInv, CallsFollowApproval
<1>3. Command(r) = CommandOf(state[r].proposed_action)
  BY <1>2 DEF Command, Approved
<1>. QED  BY <1>1, <1>2, <1>3, GraphAssumption, WrapperAssumption DEF AgentState, Reached

RunInv == GraphInv /\ Evidence /\ Traced /\ NoResultYet

LEMMA InitRunInv == Init => RunInv
  BY GraphInit DEF Init, WrapperInit, RunInv, Evidence, RunEvidence, Traced, RunTrace, NoResultYet

LEMMA NextRunInv == RunInv /\ [Next]_vars => RunInv'
  BY GraphNextType, NextFollowsApproval, NextEvidence, NextTraced, NextNoResultYet DEF RunInv, GraphInv

(* A run that has a result was approved.                                     *)
LEMMA ResultsAreApproved ==
    ASSUME RunInv, NEW r \in Callers, Reached(r), ResultOf(r) # None
    PROVE  /\ state[r].authorization_result = Approved(Command(r))
           /\ Command(r) \in AuthorizedCommand
<1>. USE DEF RunInv
<1>1. CASE result[r] # None
  <2>1. node[r] = "execute"
    BY <1>1 DEF NoResultYet, GraphInv, CallsFollowApproval
  <2>. QED  BY <2>1, CallInProgress
<1>2. CASE result[r] = None
  <2>. DEFINE p == state[r].proposed_action
  <2>1. state[r].execution_result # None /\ RunEvidence(r) /\ node[r] \in Node /\ node[r] # "raised"
    BY <1>2 DEF ResultOf, Evidence, Traced, RunTrace, GraphInv, GraphTypeOK, AgentTypeOK
  <2>2. VerifiedRun(r) \/ UnverifiedRun(r)
    BY <2>1 DEF RunEvidence, DeniedRun, Reached, Node
  <2>3. state[r].authorization_result = Approved(CommandOf(p)) /\ HasSchema(p)
    BY <2>2 DEF VerifiedRun, UnverifiedRun
  <2>4. Command(r) = CommandOf(p)
    BY <2>3 DEF Command, Approved
  <2>5. CommandOf(p) \in AuthorizedCommand
    BY <2>3 DEF HasSchema, CommandOf, AuthorizedCommand, UpdateTicketStatusCommand,
                IssueRefundCommand, AddTicketNoteCommand
  <2>. QED  BY <2>3, <2>4, <2>5
<1>. QED  BY <1>1, <1>2

(* A run's ticket is its own from the start, and its command from the result *)
(* on.                                                                       *)
LEMMA TicketIsKept ==
    ASSUME RunInv, NEW r \in Callers, Step(r)
    PROVE  Reached(r) /\ Reached(r)' /\ state'[r].ticket = state[r].ticket
<1>. USE DEF RunInv, GraphInv, GraphTypeOK, AgentTypeOK
<1>1. Reached(r) /\ state[r] \in AgentState
  <2>1. pc[r] # "idle" => node[r] = "execute"
    BY DEF CallsFollowApproval
  <2>2. Reached(r)
    BY <2>1 DEF Step, Reached, propose_node, ProposeRaises, authorize_node, execute_node_calls,
       execute_node_waits, Execute, LookupHit, LookupMiss, TransientFailure, RunTool, ToolRaises,
       Record, Exhaust, HasAttempt, execute_node_returns, execute_node_raises, mark_denied_node,
       mark_completed_node, mark_failed_node
  <2>. QED  BY <2>2 DEF Reached
<1>. USE DEF Reached, AgentState
<1>2. CASE (\E p \in Proposals : propose_node(r, p)) \/ ProposeRaises(r)
  <2>1. ASSUME NEW p \in Proposals, propose_node(r, p)
        PROVE  node'[r] = "authorize" /\ state'[r].ticket = state[r].ticket
    BY <1>1, <2>1 DEF propose_node
  <2>2. ASSUME ProposeRaises(r) PROVE node'[r] = "raised" /\ state' = state
    BY <1>1, <2>2 DEF ProposeRaises
  <2>. QED  BY <1>1, <1>2, <2>1, <2>2
<1>6. CASE authorize_node(r)
  <2>1. node'[r] \in {"execute", "mark_denied"}
    BY <1>6 DEF authorize_node, route_after_authorize
  <2>. QED  BY <1>1, <1>6, <2>1 DEF authorize_node
<1>3. CASE execute_node_calls(r) \/ execute_node_waits(r) \/ execute_node_raises(r)
  BY <1>1, <1>3 DEF execute_node_calls, execute_node_waits, execute_node_raises
<1>4. CASE execute_node_returns(r)
  <2>1. node'[r] \in {"mark_completed", "mark_failed"}
    BY <1>4 DEF execute_node_returns, route_after_execute
  <2>2. state' = [state EXCEPT ![r] = [state[r] EXCEPT !.execution_result = result[r]]]
    BY <1>4 DEF execute_node_returns
  <2>. QED  BY <1>1, <2>1, <2>2
<1>5. CASE mark_denied_node(r) \/ mark_completed_node(r) \/ mark_failed_node(r)
  <2>1. PICK status \in Terminal : Finish(r, status)
    BY <1>5 DEF mark_denied_node, mark_completed_node, mark_failed_node, Terminal
  <2>2. /\ state' = [state EXCEPT ![r] = [state[r] EXCEPT !.run_status = status]]
        /\ node' = [node EXCEPT ![r] = "end"]
    BY <2>1 DEF Finish
  <2>. QED  BY <1>1, <2>2
<1>. QED  BY <1>2, <1>3, <1>4, <1>5, <1>6 DEF Step

(* Only two steps of a run decide what its result is, the tool's run and the *)
(* answer found on record; every other one hands the result on, or gives up  *)
(* with a failure where there was none.                                      *)
LEMMA ResultIsHandedOn ==
    ASSUME RunInv, NEW r \in Callers, Step(r),
           ~(execute_node_waits(r) /\ (RunTool(r) \/ LookupHit(r)))
    PROVE  /\ ran' = ran
           /\ \/ ResultOf(r)' = ResultOf(r)
              \/ ResultOf(r) = None /\ ResultOf(r)'.status = "failure"
<1>. USE DEF RunInv, GraphInv, GraphTypeOK, AgentTypeOK, TypeOK
<1>0. (pc[r] # "idle" => node[r] = "execute") /\ (node[r] # "start" => state[r] \in AgentState)
  BY DEF CallsFollowApproval
<1>1. CASE ProposeRaises(r)
  BY <1>1 DEF ProposeRaises, wrapperVars, ResultOf
<1>2. CASE \/ \E p \in Proposals : propose_node(r, p)
           \/ authorize_node(r)
           \/ mark_denied_node(r) \/ mark_completed_node(r) \/ mark_failed_node(r)
  <2>1. UNCHANGED wrapperVars /\ state[r] \in AgentState
    BY <1>0, <1>2 DEF propose_node, authorize_node, mark_denied_node, mark_completed_node,
                      mark_failed_node, Finish
  <2>2. state'[r].execution_result = state[r].execution_result
    <3>1. CASE \E p \in Proposals : propose_node(r, p)
      BY <2>1, <3>1 DEF propose_node, AgentState
    <3>2. CASE authorize_node(r)
      BY <2>1, <3>2 DEF authorize_node, AgentState
    <3>3. CASE mark_denied_node(r) \/ mark_completed_node(r) \/ mark_failed_node(r)
      <4>1. PICK status \in Terminal : Finish(r, status)
        BY <3>3 DEF mark_denied_node, mark_completed_node, mark_failed_node, Terminal
      <4>2. state' = [state EXCEPT ![r] = [state[r] EXCEPT !.run_status = status]]
        BY <4>1 DEF Finish
      <4>. QED  BY <2>1, <4>2 DEF AgentState
    <3>. QED  BY <1>2, <3>1, <3>2, <3>3
  <2>. QED  BY <2>1, <2>2 DEF ResultOf, wrapperVars
<1>3. CASE execute_node_calls(r)
  BY <1>3 DEF execute_node_calls, Call, NoResultYet, ResultOf
<1>4. CASE execute_node_waits(r)
  <2>1. state' = state
    BY <1>4 DEF execute_node_waits
  <2>2. CASE LookupMiss(r) \/ TransientFailure(r) \/ ToolRaises(r) \/ Record(r)
    BY <2>1, <2>2 DEF LookupMiss, TransientFailure, ToolRaises, Record, ResultOf
  <2>3. CASE Exhaust(r)
    <3>1. result[r] = None /\ state[r].execution_result = None
      BY <1>0, <2>3 DEF Exhaust, NoResultYet, Evidence, RunEvidence
    <3>2. /\ result'[r] = [status |-> "failure", ticket |-> None, verified |-> FALSE,
                           attempt |-> request[r].max_attempts]
          /\ ran' = ran
      BY <2>3 DEF Exhaust
    <3>3. result'[r] \in ExecutionResult
      BY <1>0, <2>3, <3>2, WrapperAssumption DEF Exhaust, Request, ExecutionResult, FailureResult
    <3>4. ResultOf(r) = None
      BY <3>1 DEF ResultOf
    <3>5. result'[r] # None
      BY <3>3, NoneIsNoResult
    <3>6. ResultOf(r)' = result'[r]
      BY <3>5 DEF ResultOf
    <3>7. result'[r].status = "failure"
      BY <3>2
    <3>. QED  BY <3>2, <3>4, <3>6, <3>7
  <2>. QED  BY <1>4, <2>2, <2>3 DEF execute_node_waits, Execute
<1>5. CASE execute_node_returns(r)
  <2>1. pc[r] = "returned" /\ result[r] \in ExecutionResult /\ state[r] \in AgentState
    BY <1>0, <1>5 DEF execute_node_returns
  <2>2. /\ state'[r].execution_result = result[r]
        /\ result'[r] = None /\ ran' = ran
    BY <1>5, <2>1 DEF execute_node_returns, TakeResult, AgentState
  <2>. QED  BY <2>1, <2>2, NoneIsNoResult DEF ResultOf
<1>6. CASE execute_node_raises(r)
  BY <1>6 DEF execute_node_raises, TakeResult, NoResultYet, ResultOf
<1>. QED  BY <1>1, <1>2, <1>3, <1>4, <1>5, <1>6 DEF Step
(* A real tool function that runs shows the effect of an approved command on *)
(* the run's own ticket, and passes the verification.                        *)
LEMMA ToolShowsTheEffect ==
    ASSUME RunInv, Stubbed = {}, NEW r \in Callers, execute_node_waits(r), RunTool(r)
    PROVE  /\ node[r] = "execute" /\ pc[r] = "attempt" /\ request[r].command = Command(r)
           /\ ran' # ran /\ ran' = [ran EXCEPT ![KeyOf(r)] = @ + 1]
           /\ ResultOf(r) = None
           /\ state' = state
           /\ TargetsTicket(Command(r), state[r].ticket)
           /\ result'[r] # None
           /\ result'[r].status = "success"
           /\ result'[r].ticket = Apply(Command(r), state[r].ticket)
<1>. DEFINE command == Command(r)
            ticket == state[r].ticket
<1>1. /\ pc[r] = "attempt" /\ request[r] \in Request /\ attempt[r] \in Int
      /\ ran \in [Key -> Nat] /\ result \in [Callers -> ExecutionResult \cup {None}]
  BY DEF RunTool, HasAttempt, RunInv, GraphInv, GraphTypeOK, TypeOK
<1>2. node[r] = "execute" /\ request[r].command = command /\ request[r].ticket = ticket
  BY <1>1 DEF RunInv, GraphInv, CallsFollowApproval
<1>3. command \in AuthorizedCommand /\ ticket \in Ticket
  BY <1>2, CallInProgress DEF RunInv
<1>4. result[r] = None /\ state[r].execution_result = None
  BY <1>1, <1>2 DEF RunInv, NoResultYet, Evidence, RunEvidence
<1>5. PICK after \in ToolReturns(command, ticket) :
        result' = [result EXCEPT ![r] = Outcome(request[r], after, attempt[r])]
  BY <1>2 DEF RunTool
<1>. HIDE DEF command, ticket
<1>6. TargetsTicket(command, ticket) /\ after = Apply(command, ticket)
  BY <1>5 DEF ToolReturns
<1>7. verify(request[r].command, request[r].ticket, after)
  BY <1>2, <1>3, <1>6, CorrectToolsAreVerified
<1>8. result'[r] = Outcome(request[r], after, attempt[r])
  BY <1>1, <1>5
<1>9. result'[r].status = "success" /\ result'[r].ticket = after
  BY <1>7, <1>8 DEF Outcome
<1>10. result'[r] # None
  <2>1. after \in ToolReturns(request[r].command, request[r].ticket)
    BY <1>2, <1>5
  <2>2. result'[r] \in AppliedResult
    BY <1>1, <1>8, <2>1, OutcomeType
  <2>. QED  BY <2>2, NoneIsNoResult DEF ExecutionResult
<1>11. KeyOf(r) \in Key /\ ran' = [ran EXCEPT ![KeyOf(r)] = @ + 1]
  BY <1>1, KeyType DEF RunTool
<1>12. ran' # ran
  <2>1. ran'[KeyOf(r)] = ran[KeyOf(r)] + 1 /\ ran[KeyOf(r)] \in Nat
    BY <1>1, <1>11
  <2>. QED  BY <2>1
<1>13. ResultOf(r) = None /\ state' = state
  BY <1>4 DEF ResultOf, execute_node_waits
<1>. QED  BY <1>1, <1>2, <1>6, <1>9, <1>10, <1>11, <1>12, <1>13 DEF command, ticket

-----------------------------------------------------------------------------
(* Money.  What the tool function takes off a ticket's balance for a command *)
(* that the policy permits on it is exactly what it pays out.                *)
AmountOf(command) == IF command.tool_name = "issue_refund" THEN command.args.amount ELSE 0

LEMMA EffectIsExact ==
    ASSUME NEW command \in AuthorizedCommand, NEW ticket \in Ticket,
           Permitted(command, ticket), ticket.refund_eligible_amount \in Int
    PROVE  LET before == ticket.refund_eligible_amount
           IN  /\ Apply(command, ticket).refund_eligible_amount = before - AmountOf(command)
               /\ AmountOf(command) = 0 \/ AmountOf(command) \in 1..before
<1>1. CASE command \in IssueRefundCommand
  <2>1. /\ command.tool_name = "issue_refund" /\ command.args.amount \in Int
        /\ command.args.amount \in 1..ticket.refund_eligible_amount
    BY <1>1 DEF IssueRefundCommand, IssueRefundArgs, Permitted
  <2>2. Apply(command, ticket).refund_eligible_amount = RemainingEligible(command, ticket)
    BY <1>1 DEF Apply, issue_refund, IssueRefundCommand, Ticket
  <2>3. ticket.refund_eligible_amount # None
    BY NoneIsNoNumber
  <2>. QED  BY <2>1, <2>2, <2>3 DEF AmountOf, RemainingEligible, FloorAtZero
<1>2. CASE command \in UpdateTicketStatusCommand
  BY <1>2 DEF Apply, update_ticket_status, UpdateTicketStatusCommand, Ticket, AmountOf
<1>3. CASE command \in AddTicketNoteCommand
  BY <1>3 DEF Apply, add_ticket_note, AddTicketNoteCommand, Ticket, AmountOf
<1>. QED  BY <1>1, <1>2, <1>3 DEF AuthorizedCommand

(* No permitted command moves a ticket out of closed.                        *)
LEMMA ClosedIsKept ==
    ASSUME NEW command \in AuthorizedCommand, NEW ticket \in Ticket,
           Permitted(command, ticket), ticket.status = "closed"
    PROVE  Apply(command, ticket).status = "closed"
<1>1. CASE command \in UpdateTicketStatusCommand
  BY <1>1 DEF Permitted, AllowedStatusTransitions, UpdateTicketStatusCommand
<1>2. CASE command \in IssueRefundCommand
  BY <1>2 DEF Apply, issue_refund, IssueRefundCommand, Ticket
<1>3. CASE command \in AddTicketNoteCommand
  BY <1>3 DEF Apply, add_ticket_note, AddTicketNoteCommand, Ticket
<1>. QED  BY <1>1, <1>2, <1>3 DEF AuthorizedCommand
-----------------------------------------------------------------------------
(* The desk that waits for every answer and whose runs have a wrapper each.  *)
(* At most one run is under way, on the ticket as it is filed.               *)
FreshDesk == OwnWrappers /\ ~Timeouts /\ Stubbed = {}

OneAtATime ==
    /\ awaiting \in Callers \cup {None}
    /\ \A r \in Callers : r # awaiting => node[r] \in {"start", "end", "raised"}
    /\ awaiting # None => Reached(awaiting) /\ state[awaiting].ticket = filed

Succeeded(r) == ResultOf(r) # None /\ ResultOf(r).status = "success"

(* Its success is the effect of a permitted command on that ticket.          *)
ExactEffect ==
    (awaiting # None /\ Succeeded(awaiting)) =>
        /\ Command(awaiting) \in AuthorizedCommand
        /\ Permitted(Command(awaiting), filed)
        /\ ResultOf(awaiting).ticket = Apply(Command(awaiting), filed)

Balanced ==
    /\ paid \in Nat
    /\ LeftOver = FirstTicket.refund_eligible_amount - paid
    /\ paid = 0 \/ LeftOver >= 0

FreshInv == DeskInv /\ OwnInv /\ RunInv /\ OneAtATime /\ ExactEffect /\ Balanced

LEMMA StepsAreUnderWay ==
    ASSUME GraphInv, NEW r \in Callers, Step(r)
    PROVE  node[r] \notin {"start", "end", "raised"}
<1>1. pc[r] # "idle" => node[r] = "execute"
  BY DEF GraphInv, CallsFollowApproval
<1>. QED
  BY <1>1 DEF Step, propose_node, ProposeRaises, authorize_node, execute_node_calls,
     execute_node_waits, Execute, LookupHit, LookupMiss, TransientFailure, RunTool, ToolRaises,
     Record, Exhaust, HasAttempt, execute_node_returns, execute_node_raises, mark_denied_node,
     mark_completed_node, mark_failed_node

(* The run the desk waits for is the only one that works, and the only result*)
(* it can come to is that of its own tool function.                          *)
LEMMA OnlyTheAwaitedWorks ==
    ASSUME FreshInv, NEW r \in Callers, Work(r)
    PROVE  /\ r = awaiting /\ awaiting # None /\ Step(r)
           /\ ~(execute_node_waits(r) /\ LookupHit(r))
<1>1. Step(r) /\ r = awaiting /\ awaiting # None
  BY StepsAreUnderWay, DeskAssumption DEF Work, FreshInv, OneAtATime, RunInv
<1>2. ASSUME LookupHit(r) PROVE FALSE
  <2>1. pc[r] = "lookup" /\ request[r] \in Request /\ node[r] = "execute" /\ store[KeyOf(r)] # None
    BY <1>2 DEF LookupHit, FreshInv, OwnInv, GraphInv, GraphTypeOK, TypeOK, CallsFollowApproval
  <2>2. KeyOf(r) \in Key /\ KeyOf(r)[1] = WrapperOf[r]
    BY <2>1, KeyType DEF KeyOf
  <2>. QED  BY <2>1, <2>2 DEF FreshInv, OwnInv, OwnRun, NothingRecorded
<1>. QED  BY <1>1, <1>2

LEMMA NextOneAtATime ==
    ASSUME ~Timeouts, FreshInv, [DeskNext]_deskVars
    PROVE  OneAtATime'
<1>. USE DEF FreshInv, RunInv, GraphInv, GraphTypeOK, AgentTypeOK, OneAtATime
<1>1. ASSUME NEW r \in Callers, Submit(r) PROVE OneAtATime'
  <2>1. /\ node' = [node EXCEPT ![r] = "propose"] /\ state' = [state EXCEPT ![r] = InitialState(filed)]
        /\ awaiting = None /\ awaiting' = r /\ filed' = filed
    BY <1>1 DEF Submit, Invoke
  <2>2. \A q \in Callers : q # None
    BY DeskAssumption
  <2>. QED  BY <2>1, <2>2 DEF Reached, InitialState
<1>2. ASSUME NEW r \in Callers, Work(r) PROVE OneAtATime'
  <2>1. r = awaiting /\ awaiting # None /\ Step(r)
    BY <1>2, OnlyTheAwaitedWorks
  <2>2. Reached(r)' /\ state'[r].ticket = state[r].ticket
    BY <2>1, TicketIsKept
  <2>3. \A q \in Callers : q # r => node'[q] = node[q]
    BY <2>1, OtherRunsAreKept
  <2>4. awaiting' = awaiting /\ filed' = filed
    BY <1>2 DEF Work
  <2>. QED  BY <2>1, <2>2, <2>3, <2>4
<1>3. ASSUME NEW r \in Callers, Collect(r) PROVE OneAtATime'
  BY <1>3 DEF Collect, vars
<1>4. ASSUME NEW r \in Callers, GiveUp(r) PROVE OneAtATime'
  BY <1>4 DEF GiveUp
<1>5. CASE UNCHANGED deskVars
  BY <1>5 DEF deskVars, vars, Reached
<1>. QED  BY <1>1, <1>2, <1>3, <1>4, <1>5 DEF DeskNext

(* When a run is over, what it leaves in its state decides what is filed: the*)
(* ticket of its success, or the one filed already.                          *)
LEMMA CollectFilesTheSuccess ==
    ASSUME FreshInv, NEW r \in Callers, Collect(r)
    PROVE  /\ r = awaiting /\ awaiting # None
           /\ filed' = IF Succeeded(r) THEN ResultOf(r).ticket ELSE filed
           /\ awaiting' = None /\ paid' = paid
<1>1. r = awaiting /\ awaiting # None /\ node[r] \in {"end", "raised"} /\ awaiting' = None /\ paid' = paid
  BY DeskAssumption DEF Collect
<1>2. result[r] = None
  BY <1>1 DEF FreshInv, RunInv, NoResultYet, GraphInv, CallsFollowApproval
<1>3. ResultOf(r) = state[r].execution_result
  BY <1>2 DEF ResultOf
<1>4. CASE node[r] = "end" /\ state[r].run_status = "completed"
  <2>1. VerifiedRun(r) /\ Executed(r)
    BY <1>4, CompletedRun DEF FreshInv, RunInv
  <2>2. Succeeded(r)
    BY <1>3, <2>1 DEF Succeeded, VerifiedRun, Executed
  <2>. QED  BY <1>1, <1>3, <1>4, <2>2 DEF Collect
<1>5. CASE node[r] = "end" /\ state[r].run_status # "completed"
  <2>1. DeniedRun(r) \/ UnverifiedRun(r)
    BY <1>5 DEF FreshInv, RunInv, Evidence, RunEvidence
  <2>2. ~Succeeded(r)
    BY <1>3, <2>1 DEF Succeeded, DeniedRun, UnverifiedRun
  <2>. QED  BY <1>1, <1>5, <2>2 DEF Collect
<1>6. CASE node[r] = "raised"
  <2>1. ~Succeeded(r)
    BY <1>3, <1>6 DEF Succeeded, FreshInv, RunInv, Traced, RunTrace
  <2>. QED  BY <1>1, <1>6, <2>1 DEF Collect
<1>. QED  BY <1>1, <1>4, <1>5, <1>6

(* Before anything has run, a submitted run has no result.                   *)
LEMMA SubmittedHasNoResult ==
    ASSUME RunInv, NEW r \in Callers, Submit(r)
    PROVE  /\ awaiting = None /\ awaiting' = r /\ r # None /\ filed' = filed /\ paid' = paid
           /\ ResultOf(r)' = None
<1>1. node[r] = "start" /\ result' = result /\ state' = [state EXCEPT ![r] = InitialState(filed)]
  BY DEF Submit, Invoke, wrapperVars
<1>2. result[r] = None
  BY <1>1 DEF RunInv, NoResultYet, GraphInv, CallsFollowApproval
<1>3. state'[r].execution_result = None
  BY <1>1 DEF RunInv, GraphInv, GraphTypeOK, AgentTypeOK, InitialState
<1>. QED  BY <1>1, <1>2, <1>3, DeskAssumption DEF Submit, ResultOf
(* What a working run does to the money: its tool function takes what it pays*)
(* out of what is left, and nothing else touches either.                     *)
LEMMA WorkPays ==
    ASSUME FreshDesk, FreshInv, NEW r \in Callers, Work(r)
    PROVE  ExactEffect' /\ [Account!IssueRefund]_(Account!account)
<1>. USE DEF Account!account
<1>1. /\ r = awaiting /\ awaiting # None /\ awaiting' = awaiting /\ filed' = filed /\ Step(r)
      /\ ~(execute_node_waits(r) /\ LookupHit(r))
      /\ state[r].ticket = filed /\ Reached(r)
  BY OnlyTheAwaitedWorks DEF Work, FreshInv, OneAtATime
<1>2. filed \in Ticket
  BY WrapperAssumption DEF FreshInv, DeskInv, Resubmittable
<1>3. CASE execute_node_waits(r) /\ RunTool(r)
  <2>. DEFINE command == Command(r)
              after == Apply(command, filed)
  <2>1. /\ node[r] = "execute" /\ request[r].command = command /\ ran' # ran
        /\ ResultOf(r) = None /\ state' = state
        /\ result'[r] # None /\ result'[r].status = "success" /\ result'[r].ticket = after
    BY <1>1, <1>3, ToolShowsTheEffect DEF FreshInv, FreshDesk
  <2>2. command \in AuthorizedCommand /\ Permitted(command, filed)
    BY <1>1, <2>1, CallInProgress DEF FreshInv, RunInv
  <2>3. ResultOf(r)' = result'[r] /\ Command(r)' = command
    BY <2>1 DEF ResultOf, Command
  <2>4. LeftOver = filed.refund_eligible_amount /\ LeftOver' = after.refund_eligible_amount
    BY <1>1, <2>1, <2>3 DEF LeftOver
  <2>5. filed.refund_eligible_amount \in Int /\ paid \in Nat
    BY <2>4, DeskAssumption DEF FreshInv, Balanced
  <2>6. ExactEffect'
    BY <1>1, <2>1, <2>2, <2>3 DEF ExactEffect, Succeeded
  <2>7. paid' = paid + AmountOf(command)
    BY <2>1 DEF Work, Payment, AmountOf
  <2>. HIDE DEF command
  <2>8. /\ LeftOver' = LeftOver - AmountOf(command)
        /\ AmountOf(command) = 0 \/ AmountOf(command) \in 1..LeftOver
    BY <1>2, <2>2, <2>4, <2>5, EffectIsExact
  <2>9. CASE AmountOf(command) = 0
    BY <2>4, <2>5, <2>7, <2>8, <2>9, <2>6
  <2>10. CASE AmountOf(command) \in 1..LeftOver
    BY <2>6, <2>7, <2>8, <2>10 DEF Account!IssueRefund
  <2>. QED  BY <2>8, <2>9, <2>10
<1>4. CASE ~(execute_node_waits(r) /\ RunTool(r))
  <2>1. /\ ran' = ran
        /\ \/ ResultOf(r)' = ResultOf(r)
           \/ ResultOf(r) = None /\ ResultOf(r)'.status = "failure"
    BY <1>1, <1>4, ResultIsHandedOn DEF FreshInv
  <2>2. paid' = paid
    BY <2>1 DEF Work
  <2>3. CASE ResultOf(r)' = ResultOf(r)
    <3>1. LeftOver' = LeftOver
      BY <1>1, <2>3 DEF LeftOver
    <3>2. ASSUME Succeeded(r) PROVE Command(r)' = Command(r)
      <4>1. state[r].authorization_result = Approved(Command(r)) /\ Command(r) \in AuthorizedCommand
        BY <1>1, <3>2, ResultsAreApproved DEF Succeeded, FreshInv
      <4>2. [Next]_vars
        BY <1>1 DEF Next
      <4>3. state'[r].authorization_result = state[r].authorization_result
        BY <1>1, <4>1, <4>2, ApprovalIsKept DEF FreshInv, RunInv
      <4>. QED  BY <4>3 DEF Command
    <3>3. ExactEffect'
      BY <1>1, <2>3, <3>2 DEF FreshInv, ExactEffect, Succeeded
    <3>. QED  BY <2>2, <3>1, <3>3
  <2>4. CASE ResultOf(r) = None /\ ResultOf(r)'.status = "failure"
    <3>1. LeftOver' = LeftOver
      BY <1>1, <2>4 DEF LeftOver
    <3>2. ExactEffect'
      BY <1>1, <2>4 DEF ExactEffect, Succeeded
    <3>. QED  BY <2>2, <3>1, <3>2
  <2>. QED  BY <2>1, <2>3, <2>4
<1>. QED  BY <1>3, <1>4

(* Every step of the desk is a payment from the account, or no money moves.  *)
LEMMA NextPays ==
    ASSUME FreshDesk, FreshInv, [DeskNext]_deskVars
    PROVE  ExactEffect' /\ [Account!IssueRefund]_(Account!account)
<1>. USE DEF Account!account
<1>1. ASSUME NEW r \in Callers, Submit(r) PROVE ExactEffect' /\ UNCHANGED <<LeftOver, paid>>
  <2>1. /\ awaiting = None /\ awaiting' = r /\ filed' = filed /\ paid' = paid /\ ResultOf(r)' = None
    BY <1>1, SubmittedHasNoResult DEF FreshInv
  <2>. QED  BY <2>1 DEF ExactEffect, Succeeded, LeftOver
<1>2. ASSUME NEW r \in Callers, Work(r) PROVE ExactEffect' /\ [Account!IssueRefund]_(Account!account)
  BY <1>2, WorkPays
<1>3. ASSUME NEW r \in Callers, Collect(r) PROVE ExactEffect' /\ UNCHANGED <<LeftOver, paid>>
  <2>1. /\ r = awaiting /\ awaiting # None /\ awaiting' = None /\ paid' = paid
        /\ filed' = IF Succeeded(r) THEN ResultOf(r).ticket ELSE filed
    BY <1>3, CollectFilesTheSuccess
  <2>. QED  BY <2>1 DEF ExactEffect, Succeeded, LeftOver
<1>4. ASSUME NEW r \in Callers, GiveUp(r) PROVE FALSE
  BY <1>4 DEF GiveUp, FreshDesk
<1>5. CASE UNCHANGED deskVars
  <2>1. ExactEffect'
    BY <1>5 DEF FreshInv, ExactEffect, Succeeded, ResultOf, Command, deskVars, vars, wrapperVars
  <2>2. UNCHANGED <<LeftOver, paid>>
    BY <1>5 DEF LeftOver, ResultOf, deskVars, vars, wrapperVars
  <2>. QED  BY <2>1, <2>2
<1>. QED  BY <1>1, <1>2, <1>3, <1>4, <1>5 DEF DeskNext

(* A payment keeps the balance exact, and never takes it below zero.         *)
LEMMA PaymentsBalance ==
    ASSUME Balanced, [Account!IssueRefund]_(Account!account)
    PROVE  Balanced'
<1>. USE DEF Account!account
<1>1. FirstTicket.refund_eligible_amount \in Int /\ LeftOver \in Int
  BY DeskAssumption DEF Balanced
<1>2. CASE UNCHANGED <<LeftOver, paid>>
  BY <1>2 DEF Balanced
<1>3. CASE Account!IssueRefund
  <2>1. PICK amount \in 1..LeftOver : LeftOver' = LeftOver - amount /\ paid' = paid + amount
    BY <1>3 DEF Account!IssueRefund
  <2>. QED  BY <1>1, <2>1 DEF Balanced
<1>. QED  BY <1>2, <1>3

LEMMA NextFresh ==
    ASSUME FreshDesk
    PROVE  FreshInv /\ [DeskNext]_deskVars => FreshInv'
<1>. SUFFICES ASSUME FreshInv, [DeskNext]_deskVars PROVE FreshInv'
  OBVIOUS
<1>1. [Next]_vars
  BY DeskStepIsGraphStep DEF FreshInv, DeskInv, Resubmittable
<1>2. DeskInv' /\ OwnInv' /\ RunInv'
  BY <1>1, NextResubmittable, NextOwn, NextRunInv DEF FreshInv, FreshDesk
<1>3. OneAtATime'
  BY NextOneAtATime DEF FreshDesk
<1>. QED  BY <1>2, <1>3, NextPays, PaymentsBalance DEF FreshInv

LEMMA FreshInvariant ==
    ASSUME FreshDesk
    PROVE  DeskInit /\ [][DeskNext]_deskVars => []FreshInv
<1>1. ASSUME DeskInit PROVE FreshInv
  <2>1. Init /\ filed = FirstTicket /\ awaiting = None /\ paid = 0
    BY <1>1 DEF DeskInit
  <2>2. RunInv /\ GraphInv
    BY <2>1, InitRunInv DEF RunInv
  <2>3. DeskInv
    BY <2>1, <2>2, DeskAssumption
      DEF RunInv, DeskInv, Resubmittable, Init, WrapperInit, Executed, Reached
  <2>4. OwnInv
    BY <2>1, <2>2 DEF OwnInv, RunInv, Init, WrapperInit, OwnRun, NothingRecorded,
                      ResultIsVerified, RunIsVerified, Reached
  <2>5. OneAtATime /\ ExactEffect
    BY <2>1 DEF OneAtATime, ExactEffect, Init
  <2>6. Balanced
    BY <2>1, DeskAssumption DEF Balanced, LeftOver
  <2>. QED  BY <2>2, <2>3, <2>4, <2>5, <2>6 DEF FreshInv
<1>. QED  BY <1>1, NextFresh, PTL

(* Between tasks the balance on file is what it was at the start less all    *)
(* that was paid out, whatever the proposals and wherever runs failed.       *)
THEOREM FiledBalancesAreExact ==
    ASSUME FreshDesk
    PROVE  DeskSpec => []FiledBalanceIsExact
<1>1. FreshInv => FiledBalanceIsExact
  BY DEF FreshInv, Balanced, LeftOver, FiledBalanceIsExact
<1>. QED  BY <1>1, FreshInvariant, PTL DEF DeskSpec

(* The refunds of however many runs stay within the eligible amount.         *)
THEOREM FreshDeskPaysWithinEligibility ==
    ASSUME FreshDesk
    PROVE  DeskSpec => []PaidWithinEligibility
<1>1. FreshInv => PaidWithinEligibility
  BY DeskAssumption DEF FreshInv, Balanced, PaidWithinEligibility
<1>. QED  BY <1>1, FreshInvariant, PTL DEF DeskSpec

(* Tasks with a wrapper each are payments from one account: the money that a *)
(* ticket stands for is paid out once.                                       *)
THEOREM DeskImplementsRefundAccount ==
    ASSUME FreshDesk
    PROVE  DeskSpec => ImplementsRefundAccount
<1>1. DeskInit => Account!Unspent
  BY DeskAssumption DEF DeskInit, LeftOver, Account!Unspent
<1>2. FreshInv /\ [DeskNext]_deskVars => [Account!IssueRefund]_(Account!account)
  BY NextPays
<1>. QED  BY <1>1, <1>2, FreshInvariant, PTL
      DEF DeskSpec, ImplementsRefundAccount, Account!RefundsAreCovered

(* What was seen closed stays closed: no run's ticket reopens it.            *)
THEOREM ClosedTicketsStayClosed ==
    ASSUME FreshDesk
    PROVE  DeskSpec => ClosedStaysClosed
<1>1. ASSUME FreshInv, [DeskNext]_deskVars, filed.status = "closed" PROVE filed'.status = "closed"
  <2>1. ASSUME NEW r \in Callers, Collect(r) PROVE filed'.status = "closed"
    <3>1. /\ r = awaiting /\ awaiting # None
          /\ filed' = IF Succeeded(r) THEN ResultOf(r).ticket ELSE filed
      BY <1>1, <2>1, CollectFilesTheSuccess
    <3>2. ASSUME Succeeded(r) PROVE ResultOf(r).ticket.status = "closed"
      <4>1. /\ Command(r) \in AuthorizedCommand /\ Permitted(Command(r), filed)
            /\ ResultOf(r).ticket = Apply(Command(r), filed)
        BY <1>1, <3>1, <3>2 DEF FreshInv, ExactEffect
      <4>2. filed \in Ticket
        BY <1>1, WrapperAssumption DEF FreshInv, DeskInv, Resubmittable
      <4>. QED  BY <1>1, <4>1, <4>2, ClosedIsKept
    <3>. QED  BY <1>1, <3>1, <3>2
  <2>. QED  BY <1>1, <2>1 DEF DeskNext, Submit, Work, GiveUp, deskVars
<1>2. FreshInv /\ [DeskNext]_deskVars
        => [filed.status = "closed" => filed'.status = "closed"]_deskVars
  BY <1>1
<1>. QED  BY <1>2, FreshInvariant, PTL DEF DeskSpec, ClosedStaysClosed
-----------------------------------------------------------------------------
(* Runs that meet in execute(): nothing keeps a repeat out while the first   *)
(* call is in flight, and nothing else lets an order be paid twice.          *)
MeetingsAreKnown ==
    \A q, r \in Callers :
        (q # r /\ WrapperOf[q] = WrapperOf[r] /\ InFlight(q) /\ InFlight(r)) => {q, r} \in met

LEMMA NextMeetingsAreKnown ==
    ASSUME RunInv, MeetingsAreKnown, [DeskNext]_deskVars
    PROVE  MeetingsAreKnown'
<1>1. ASSUME NEW r \in Callers, Work(r) PROVE MeetingsAreKnown'
  <2>1. \A q \in Callers : q # r => (InFlight(q)' <=> InFlight(q))
    BY <1>1, OtherRunsAreKept DEF Work, RunInv, InFlight
  <2>2. met' = met \cup Meets(r)
    BY <1>1 DEF Work
  <2>3. \A q \in Callers :
          (q # r /\ WrapperOf[q] = WrapperOf[r] /\ InFlight(q) /\ InFlight(r)') => {q, r} \in met'
    BY <2>2 DEF Meets
  <2>4. \A q, s \in Callers : {q, s} = {s, q}
    OBVIOUS
  <2>. QED  BY <2>1, <2>2, <2>3, <2>4 DEF MeetingsAreKnown
<1>2. CASE ~\E r \in Callers : Work(r)
  BY <1>2 DEF DeskNext, Submit, Invoke, Collect, GiveUp, deskVars, vars, wrapperVars,
              MeetingsAreKnown, InFlight
<1>. QED  BY <1>1, <1>2

(* A run whose tool function ran was approved, and its outcome is on record  *)
(* unless it is about to write it.                                           *)
Paying(q) ==
    /\ Reached(q)
    /\ Command(q) \in AuthorizedCommand
    /\ state[q].authorization_result = Approved(Command(q))
    /\ KeyOfRun(q) \in Key

AppliedRuns ==
    /\ \A q \in applied :
          q \in Callers /\ Paying(q) /\ (store[KeyOfRun(q)] # None \/ pc[q] = "record")
    /\ \A q \in applied, r \in Callers :
          (q # r /\ pc[r] = "attempt" /\ KeyOfRun(q) = KeyOfRun(r)) => {q, r} \in met

DoubleInv ==
    DeskInv /\ RunInv /\ MeetingsAreKnown /\ AppliedRuns /\ DoublePaymentsOverlap

(* A run in execute() is such a run, under the key its call has.             *)
LEMMA CallsPay ==
    ASSUME RunInv, NEW r \in Callers, pc[r] # "idle"
    PROVE  Paying(r) /\ KeyOf(r) = KeyOfRun(r) /\ KeyOf(r) \in Key
<1>1. node[r] = "execute" /\ request[r].command = Command(r) /\ request[r].ticket = state[r].ticket
  BY DEF RunInv, GraphInv, CallsFollowApproval
<1>2. KeyOf(r) \in Key
  BY KeyType DEF RunInv, GraphInv, GraphTypeOK, TypeOK
<1>3. KeyOf(r) = KeyOfRun(r)
  BY <1>1 DEF KeyOf, KeyOfRun
<1>. QED  BY <1>1, <1>2, <1>3, CallInProgress DEF RunInv, Paying

(* ... and stays one.                                                        *)
LEMMA PayingIsKept ==
    ASSUME RunInv, [Next]_vars, NEW q \in Callers, Paying(q)
    PROVE  Paying(q)' /\ KeyOfRun(q)' = KeyOfRun(q)
<1>1. /\ Reached(q)' /\ state'[q].ticket = state[q].ticket
      /\ state'[q].authorization_result = state[q].authorization_result
  BY ApprovalIsKept DEF RunInv, Paying
<1>2. Command(q)' = Command(q) /\ KeyOfRun(q)' = KeyOfRun(q)
  BY <1>1 DEF Command, KeyOfRun
<1>. QED  BY <1>1, <1>2 DEF Paying

(* What a step of a run does to the runs whose tool function ran.            *)
LEMMA WorkDoubles ==
    ASSUME DoubleInv, NEW r \in Callers, Work(r),
           \A q \in Callers : Paying(q) => Paying(q)' /\ KeyOfRun(q)' = KeyOfRun(q)
    PROVE  AppliedRuns' /\ DoublePaymentsOverlap'
<1>. USE DEF DoubleInv
<1>1. /\ Step(r) /\ met \subseteq met'
      /\ pc \in [Callers -> {"idle", "lookup", "attempt", "record", "returned", "raised"}]
      /\ store \in [Key -> AppliedResult \cup {None}]
      /\ ran \in [Key -> Nat]
  BY DEF Work, RunInv, GraphInv, GraphTypeOK, TypeOK
<1>2. \A q \in Callers : q # r => pc'[q] = pc[q]
  BY <1>1, OtherRunsAreKept DEF RunInv
<1>3. \A q \in applied : q \in Callers /\ Paying(q)' /\ KeyOfRun(q)' = KeyOfRun(q)
  BY DEF AppliedRuns
<1>4. \A q \in Callers : pc[q] # "idle" => Paying(q) /\ KeyOf(q) = KeyOfRun(q) /\ KeyOfRun(q)' = KeyOfRun(q)
  BY CallsPay
<1>5. CASE execute_node_waits(r) /\ RunTool(r)
  <2>1. pc[r] = "attempt" /\ pc'[r] = "record" /\ store' = store
    BY <1>1, <1>5 DEF RunTool, HasAttempt
  <2>2. applied' = applied \/ applied' = applied \cup {r}
    BY DEF Work
  <2>3. Paying(r)' /\ KeyOfRun(r)' = KeyOfRun(r)
    BY <1>4, <2>1
  <2>4. \A q \in Callers : (q # r /\ pc[q] = "attempt" /\ KeyOfRun(q) = KeyOfRun(r)) => {r, q} \in met
    BY <2>1 DEF MeetingsAreKnown, InFlight, KeyOfRun
  <2>5. \A q \in applied : (q # r /\ KeyOfRun(q) = KeyOfRun(r)) => {q, r} \in met
    BY <2>1 DEF AppliedRuns
  <2>6. \A q \in applied' :
          q \in Callers /\ Paying(q)' /\ KeyOfRun(q)' = KeyOfRun(q)
            /\ (store'[KeyOfRun(q)] # None \/ pc'[q] = "record")
    BY <1>2, <1>3, <2>1, <2>2, <2>3 DEF AppliedRuns
  <2>7. ASSUME NEW q \in applied', NEW s \in Callers, q # s, pc'[s] = "attempt",
               KeyOfRun(q)' = KeyOfRun(s)'
        PROVE  {q, s} \in met'
    <3>1. s # r /\ pc[s] = "attempt" /\ KeyOfRun(q) = KeyOfRun(s)
      BY <1>2, <1>4, <2>1, <2>6, <2>7
    <3>2. CASE q \in applied
      BY <1>1, <2>7, <3>1, <3>2 DEF AppliedRuns
    <3>3. CASE q = r
      BY <1>1, <2>4, <3>1, <3>3
    <3>. QED  BY <2>2, <3>2, <3>3
  <2>8. ASSUME NEW q \in applied', NEW s \in applied', q # s, KeyOfRun(q)' = KeyOfRun(s)'
        PROVE  {q, s} \in met'
    <3>1. KeyOfRun(q) = KeyOfRun(s) /\ {q, s} = {s, q}
      BY <2>6, <2>8
    <3>2. CASE q \in applied /\ s \in applied
      BY <1>1, <2>8, <3>1, <3>2 DEF DoublePaymentsOverlap
    <3>3. CASE q = r /\ s \in applied
      BY <1>1, <2>5, <2>8, <3>1, <3>3
    <3>4. CASE s = r /\ q \in applied
      BY <1>1, <2>5, <2>8, <3>1, <3>4
    <3>. QED  BY <2>2, <2>8, <3>2, <3>3, <3>4
  <2>9. AppliedRuns'
    BY <2>6, <2>7 DEF AppliedRuns
  <2>10. DoublePaymentsOverlap'
    BY <2>8 DEF DoublePaymentsOverlap
  <2>. QED  BY <2>9, <2>10
<1>6. CASE ~(execute_node_waits(r) /\ RunTool(r))
  <2>1. ran' = ran
    BY <1>1, <1>6 DEF Step, propose_node, ProposeRaises, authorize_node, execute_node_calls, Call,
       execute_node_waits, Execute, LookupHit, LookupMiss, TransientFailure, ToolRaises, Record,
       Exhaust, execute_node_returns, execute_node_raises, TakeResult, mark_denied_node,
       mark_completed_node, mark_failed_node, Finish, wrapperVars
  <2>2. applied' = applied
    BY <2>1 DEF Work
  <2>3. DoublePaymentsOverlap'
    BY <1>1, <1>3, <2>2 DEF DoublePaymentsOverlap
  <2>4. /\ \A k \in Key : store[k] # None => store'[k] # None
        /\ pc[r] = "record" => pc'[r] = "record" \/ store'[KeyOf(r)] # None
        /\ pc'[r] = "attempt" => pc[r] = "attempt" \/ (pc[r] = "lookup" /\ store[KeyOf(r)] = None)
    <3>1. CASE execute_node_waits(r) /\ Record(r)
      <4>1. result[r] # None /\ KeyOf(r) \in Key
        BY <3>1, CallsPay, NoneIsNoResult
          DEF Record, RunInv, GraphInv, GraphTypeOK, TypeOK, ExecutionResult
      <4>. QED  BY <1>1, <3>1, <4>1 DEF Record
    <3>2. CASE execute_node_waits(r) /\ ~Record(r)
      BY <1>1, <1>6, <3>2 DEF execute_node_waits, Execute, LookupHit, LookupMiss, TransientFailure,
         ToolRaises, Exhaust, HasAttempt
    <3>3. CASE ~execute_node_waits(r)
      <4>1. CASE execute_node_calls(r)
        BY <1>1, <4>1 DEF execute_node_calls, Call
      <4>2. CASE execute_node_returns(r) \/ execute_node_raises(r)
        BY <1>1, <4>2 DEF execute_node_returns, execute_node_raises, TakeResult
      <4>3. CASE UNCHANGED wrapperVars
        BY <4>3 DEF wrapperVars
      <4>. QED
        BY <1>1, <3>3, <4>1, <4>2, <4>3 DEF Step, propose_node, ProposeRaises, authorize_node,
           mark_denied_node, mark_completed_node, mark_failed_node, Finish
    <3>. QED  BY <3>1, <3>2, <3>3
  <2>5. \A q \in applied : store'[KeyOfRun(q)] # None \/ pc'[q] = "record"
    BY <1>2, <1>4, <2>4 DEF AppliedRuns, Paying
  <2>6. ASSUME NEW q \in applied, NEW s \in Callers, q # s, pc'[s] = "attempt",
               KeyOfRun(q)' = KeyOfRun(s)'
        PROVE  {q, s} \in met'
    <3>1. pc[s] = "attempt" \/ (pc[s] = "lookup" /\ store[KeyOf(s)] = None)
      BY <1>2, <2>4, <2>6
    <3>2. KeyOfRun(q) = KeyOfRun(s) /\ KeyOf(s) = KeyOfRun(s)
      BY <1>3, <1>4, <2>6, <3>1
    <3>3. CASE pc[s] = "attempt"
      BY <1>1, <2>6, <3>2, <3>3 DEF AppliedRuns
    <3>4. CASE pc[s] = "lookup" /\ store[KeyOf(s)] = None
      <4>1. q \in Callers /\ pc[q] = "record" /\ WrapperOf[q] = WrapperOf[s]
        BY <3>2, <3>4 DEF AppliedRuns, KeyOfRun
      <4>. QED  BY <1>1, <2>6, <3>4, <4>1 DEF MeetingsAreKnown, InFlight
    <3>. QED  BY <3>1, <3>3, <3>4
  <2>7. AppliedRuns'
    BY <1>3, <2>2, <2>5, <2>6 DEF AppliedRuns
  <2>. QED  BY <2>3, <2>7
<1>. QED  BY <1>5, <1>6

LEMMA NextDouble == DoubleInv /\ [DeskNext]_deskVars => DoubleInv'
<1>. SUFFICES ASSUME DoubleInv, [DeskNext]_deskVars PROVE DoubleInv'
  OBVIOUS
<1>. USE DEF DoubleInv
<1>1. [Next]_vars
  BY DeskStepIsGraphStep DEF DeskInv, Resubmittable
<1>2. DeskInv' /\ RunInv' /\ MeetingsAreKnown'
  BY <1>1, NextResubmittable, NextRunInv, NextMeetingsAreKnown
<1>3. \A q \in Callers : Paying(q) => Paying(q)' /\ KeyOfRun(q)' = KeyOfRun(q)
  BY <1>1, PayingIsKept
<1>4. ASSUME NEW r \in Callers, Work(r) PROVE AppliedRuns' /\ DoublePaymentsOverlap'
  BY <1>3, <1>4, WorkDoubles
<1>5. ASSUME ~\E r \in Callers : Work(r) PROVE AppliedRuns' /\ DoublePaymentsOverlap'
  <2>1. UNCHANGED wrapperVars /\ applied' = applied /\ met' = met
    BY <1>5 DEF DeskNext, Submit, Invoke, Collect, GiveUp, deskVars, vars
  <2>2. pc' = pc /\ store' = store
    BY <2>1 DEF wrapperVars
  <2>3. \A r \in Callers : pc[r] = "attempt" => KeyOfRun(r)' = KeyOfRun(r)
    BY <1>3, CallsPay
  <2>4. \A q \in applied : q \in Callers /\ Paying(q)' /\ KeyOfRun(q)' = KeyOfRun(q)
    BY <1>3 DEF AppliedRuns
  <2>5. AppliedRuns'
    BY <2>1, <2>2, <2>3, <2>4 DEF AppliedRuns
  <2>6. DoublePaymentsOverlap'
    BY <2>1, <2>4 DEF DoublePaymentsOverlap
  <2>. QED  BY <2>5, <2>6
<1>. QED  BY <1>2, <1>4, <1>5

LEMMA DoubleInvariant == DeskInit /\ [][DeskNext]_deskVars => []DoubleInv
<1>1. ASSUME DeskInit PROVE DoubleInv
  <2>1. /\ Init /\ WrapperInit /\ applied = {} /\ filed = FirstTicket
    BY <1>1 DEF DeskInit, Init
  <2>2. RunInv
    BY <2>1, InitRunInv
  <2>3. DeskInv
    BY <2>1, <2>2, DeskAssumption
      DEF RunInv, DeskInv, Resubmittable, Init, WrapperInit, Executed, Reached
  <2>4. MeetingsAreKnown
    BY <2>1 DEF WrapperInit, MeetingsAreKnown, InFlight
  <2>. QED  BY <2>1, <2>2, <2>3, <2>4 DEF DoubleInv, AppliedRuns, DoublePaymentsOverlap
<1>. QED  BY <1>1, NextDouble, PTL

(* An order is paid twice on one wrapper only by runs that met in execute(), *)
(* whatever the desk submits, however often it gives up, with every proposal *)
(* source, every stub and any number of wrappers and callers.                *)
THEOREM DoublePaymentsMeet == DeskSpec => []DoublePaymentsOverlap
  BY DoubleInvariant, PTL DEF DeskSpec, DoubleInv

-----------------------------------------------------------------------------
(* The desk that repeats one order on one wrapper until it is answered.  It  *)
(* may give up waiting at any moment, so any number of runs can be under way,*)
(* on the ticket as it was or as the order leaves it.  What is said of it    *)
(* holds until two of its runs meet in execute().                            *)
RetryDesk(wrapper, order) ==
    /\ Stubbed = {}
    /\ \A r \in Callers : WrapperOf[r] = wrapper
    /\ \A p \in Proposals : HasSchema(p) => CommandOf(p) = order

OrderKey(wrapper, order) == <<wrapper, order, FirstTicket.id>>

Done(order) == Apply(order, FirstTicket)

(* Once the order is on record, and only then, its effect is on the tickets  *)
(* in use; it is paid for from the moment the tool ran.                      *)
OneOrder(wrapper, order) ==
    LET k == OrderKey(wrapper, order)
    IN  /\ filed \in {FirstTicket, Done(order)}
        /\ \A r \in Callers : Reached(r) => state[r].ticket \in {FirstTicket, Done(order)}
        /\ store[k] = None =>
              filed = FirstTicket /\ \A r \in Callers : Reached(r) => state[r].ticket = FirstTicket
        /\ store[k] # None => store[k].status = "success" /\ store[k].ticket = Done(order)
        /\ \A r \in Callers : pc[r] = "record" =>
              result[r].status = "success" /\ result[r].ticket = Done(order)
        /\ ran[k] = 0 => paid = 0
        /\ ran[k] # 0 => paid = AmountOf(order) /\ Permitted(order, FirstTicket)

RetryInv(wrapper, order) ==
    /\ DeskInv /\ RunInv /\ Inv /\ ReturnsAreRecorded /\ RunsAreRecorded
    /\ OneOrder(wrapper, order)

(* The order keeps the ticket's id, so every run of it has the one key.      *)
LEMMA OneKey ==
    ASSUME NEW wrapper \in Wrappers, NEW order \in Commands
    PROVE  /\ OrderKey(wrapper, order) \in Key
           /\ order \in AuthorizedCommand
           /\ FirstTicket \in Ticket /\ Done(order) \in Ticket /\ Done(order).id = FirstTicket.id
<1>1. order \in AuthorizedCommand /\ FirstTicket \in Ticket
  BY WrapperAssumption, DeskAssumption
<1>2. Done(order) \in Ticket /\ Done(order).id = FirstTicket.id
  BY <1>1, ApplyKeepsTheTicket DEF Done
<1>. QED  BY <1>1, <1>2 DEF OrderKey, Key, Ticket

LEMMA CallsAreOfTheOrder ==
    ASSUME NEW wrapper \in Wrappers, NEW order \in Commands, RetryDesk(wrapper, order),
           RetryInv(wrapper, order), NEW r \in Callers, pc[r] # "idle"
    PROVE  /\ node[r] = "execute" /\ Reached(r)
           /\ KeyOf(r) = OrderKey(wrapper, order)
           /\ Command(r) = order /\ request[r].command = order
           /\ Permitted(order, state[r].ticket)
<1>1. /\ node[r] = "execute" /\ request[r].command = Command(r) /\ request[r].ticket = state[r].ticket
  BY DEF RetryInv, RunInv, GraphInv, CallsFollowApproval
<1>2. Reached(r) /\ Command(r) = order /\ Permitted(order, state[r].ticket)
  BY <1>1, CallInProgress DEF RetryInv, RunInv, RetryDesk
<1>3. state[r].ticket.id = FirstTicket.id
  BY <1>2, OneKey DEF RetryInv, OneOrder
<1>. QED  BY <1>1, <1>2, <1>3 DEF KeyOf, OrderKey, RetryDesk

(* A step that records nothing, runs nothing and brings in no other ticket.  *)
LEMMA OneOrderIsKept ==
    ASSUME NEW wrapper \in Wrappers, NEW order \in Commands, OneOrder(wrapper, order),
           filed' = filed, store' = store, ran' = ran, paid' = paid,
           \A r \in Callers : Reached(r)' =>
              \/ Reached(r) /\ state'[r].ticket = state[r].ticket
              \/ state'[r].ticket = filed,
           \A r \in Callers : pc'[r] = "record" => pc[r] = "record" /\ result'[r] = result[r]
    PROVE  OneOrder(wrapper, order)'
BY DEF OneOrder

(* The runs' tickets under a working run: each keeps its own.                *)
LEMMA WorkKeepsTickets ==
    ASSUME RunInv, NEW r \in Callers, Work(r), NEW q \in Callers, Reached(q)'
    PROVE  Reached(q) /\ state'[q].ticket = state[q].ticket
<1>1. CASE q = r
  BY <1>1, TicketIsKept DEF Work
<1>2. CASE q # r
  BY <1>2, OtherRunsAreKept DEF Work, RunInv, Reached
<1>. QED  BY <1>1, <1>2

LEMMA OneOrderUnderWork ==
    ASSUME NEW wrapper \in Wrappers, NEW order \in Commands, RetryDesk(wrapper, order),
           RetryInv(wrapper, order), NEW r \in Callers, Work(r)
    PROVE  OneOrder(wrapper, order)'
<1>. DEFINE k == OrderKey(wrapper, order)
<1>. USE DEF RetryInv
<1>0. /\ k \in Key /\ order \in AuthorizedCommand
      /\ Step(r) /\ filed' = filed /\ ran[k] \in Nat
      /\ store \in [Key -> AppliedResult \cup {None}] /\ ran \in [Key -> Nat]
      /\ pc \in [Callers -> {"idle", "lookup", "attempt", "record", "returned", "raised"}]
      /\ result \in [Callers -> ExecutionResult \cup {None}]
  BY OneKey DEF Work, Inv, TypeOK
<1>1. \A q \in Callers : Reached(q)' => Reached(q) /\ state'[q].ticket = state[q].ticket
  BY WorkKeepsTickets
<1>2. CASE execute_node_waits(r) /\ RunTool(r)
  <2>1. /\ node[r] = "execute" /\ pc[r] = "attempt"
        /\ ran' # ran /\ ran' = [ran EXCEPT ![KeyOf(r)] = @ + 1]
        /\ result'[r].status = "success" /\ result'[r].ticket = Apply(Command(r), state[r].ticket)
    BY <1>2, ToolShowsTheEffect DEF RetryDesk
  <2>2. KeyOf(r) = k /\ Command(r) = order /\ request[r].command = order /\ Reached(r)
        /\ Permitted(order, state[r].ticket)
    BY <2>1, CallsAreOfTheOrder
  <2>3. ran[k] = 0
    BY <2>1, <2>2 DEF Inv, Serial, SerialExecution
  <2>4. store[k] = None
    BY <1>0, <2>3 DEF Inv, EffectsAccountedFor
  <2>5. paid = 0 /\ filed = FirstTicket /\ state[r].ticket = FirstTicket
    BY <2>2, <2>3, <2>4 DEF OneOrder
  <2>6. paid' = AmountOf(order)
    <3>1. AmountOf(order) \in Int
      BY <1>0 DEF AmountOf, AuthorizedCommand, UpdateTicketStatusCommand, IssueRefundCommand,
                  AddTicketNoteCommand, IssueRefundArgs
    <3>2. paid' = paid + AmountOf(order)
      BY <2>1, <2>2 DEF Work, Payment, AmountOf
    <3>. QED  BY <2>5, <3>1, <3>2
  <2>7. ran'[k] # 0 /\ store' = store
    BY <1>0, <1>2, <2>1, <2>2, <2>3 DEF RunTool
  <2>8. \A q \in Callers : pc'[q] = "record" =>
          result'[q].status = "success" /\ result'[q].ticket = Done(order)
    <3>1. \A q \in Callers : q # r => pc'[q] = pc[q] /\ result'[q] = result[q]
      BY <1>2, <1>0 DEF RunTool
    <3>. QED  BY <2>1, <2>2, <2>5, <3>1 DEF OneOrder, Done
  <2>. QED  BY <1>0, <1>1, <2>2, <2>4, <2>5, <2>6, <2>7, <2>8 DEF OneOrder
<1>3. CASE execute_node_waits(r) /\ Record(r)
  <2>1. pc[r] = "record" /\ result[r].status = "success" /\ result[r].ticket = Done(order)
    BY <1>3 DEF Record, OneOrder
  <2>2. KeyOf(r) = k
    BY <2>1, CallsAreOfTheOrder
  <2>3. store' = [store EXCEPT ![k] = result[r]] /\ ran' = ran /\ result' = result
    BY <1>3, <2>2 DEF Record
  <2>4. result[r] # None
    BY <2>1, NoneIsNoResult DEF Inv, TypeOK, ExecutionResult
  <2>5. paid' = paid
    BY <2>3 DEF Work
  <2>6. store'[k] = result[r] /\ \A q \in Callers : pc'[q] = "record" => pc[q] = "record"
    BY <1>0, <1>3, <2>3 DEF Record
  <2>. QED  BY <1>0, <1>1, <2>1, <2>3, <2>4, <2>5, <2>6 DEF OneOrder
<1>4. CASE ~(execute_node_waits(r) /\ (RunTool(r) \/ Record(r)))
  <2>1. /\ store' = store /\ ran' = ran
        /\ \A q \in Callers : pc'[q] = "record" => pc[q] = "record" /\ result'[q] = result[q]
    BY <1>0, <1>4 DEF Step, propose_node, ProposeRaises, authorize_node, execute_node_calls, Call,
       execute_node_waits, Execute, LookupHit, LookupMiss, TransientFailure, ToolRaises, Exhaust,
       execute_node_returns, execute_node_raises, TakeResult, mark_denied_node,
       mark_completed_node, mark_failed_node, Finish, wrapperVars, HasAttempt
  <2>2. paid' = paid
    BY <2>1 DEF Work
  <2>. QED  BY <1>0, <1>1, <2>1, <2>2, OneOrderIsKept
<1>. QED  BY <1>2, <1>3, <1>4
(* An order that is on record is the ticket that a completed run of it hands *)
(* back.                                                                     *)
LEMMA CompletedRunsAreTheOrder ==
    ASSUME NEW wrapper \in Wrappers, NEW order \in Commands, RetryDesk(wrapper, order),
           RetryInv(wrapper, order), NEW r \in Callers, VerifiedRun(r), Executed(r)
    PROVE  /\ store[OrderKey(wrapper, order)] # None
           /\ state[r].execution_result.ticket = Done(order)
<1>. DEFINE k == OrderKey(wrapper, order)
<1>. USE DEF RetryInv
<1>1. Reached(r) /\ state[r] \in AgentState
  BY DEF Executed, Reached, RunInv, GraphInv, GraphTypeOK, AgentTypeOK
<1>2. state[r].proposed_action \in Proposals
  <2>1. node[r] \notin {"start", "propose", "raised"}
    BY DEF VerifiedRun, Executed, Reached, RunInv, Evidence, RunEvidence, Traced, RunTrace
  <2>. QED  BY <2>1 DEF RunInv, Traced, RunTrace
<1>3. Command(r) = order
  BY <1>2 DEF VerifiedRun, Command, Approved, RetryDesk
<1>4. state[r].ticket.id = FirstTicket.id
  BY <1>1, OneKey DEF OneOrder
<1>5. KeyOfRun(r) = k
  BY <1>3, <1>4 DEF KeyOfRun, OrderKey, RetryDesk
<1>6. store[k] = state[r].execution_result /\ state[r].execution_result # None
  BY <1>5 DEF RunsAreRecorded, VerifiedRun, Executed
<1>. QED  BY <1>6 DEF OneOrder

LEMMA NextRetry ==
    ASSUME NEW wrapper \in Wrappers, NEW order \in Commands, RetryDesk(wrapper, order),
           RetryInv(wrapper, order), [DeskNext]_deskVars, Alone'
    PROVE  RetryInv(wrapper, order)'
<1>. DEFINE k == OrderKey(wrapper, order)
<1>1. [Next]_vars
  BY DeskStepIsGraphStep DEF RetryInv, DeskInv, Resubmittable
<1>2. [WrapperNext]_wrapperVars
  BY <1>1, GraphStepIsWrapperStep DEF RetryInv, RunInv
<1>3. DeskInv' /\ RunInv' /\ Inv' /\ ReturnsAreRecorded' /\ RunsAreRecorded'
  <2>1. DeskInv' /\ RunInv'
    BY <1>1, NextResubmittable, NextRunInv DEF RetryInv
  <2>2. Inv' /\ ReturnsAreRecorded'
    BY <1>2, NextType, NextAccounting, NextAlone, NextReturnsAreRecorded DEF RetryInv, Inv
  <2>3. RunsAreRecorded'
    BY <1>1, NextRunsAreRecorded DEF RetryInv, RunInv
  <2>. QED  BY <2>1, <2>2, <2>3
<1>4. OneOrder(wrapper, order)
  BY DEF RetryInv
<1>5. ASSUME NEW r \in Callers, Submit(r) PROVE OneOrder(wrapper, order)'
  <2>1. /\ node' = [node EXCEPT ![r] = "propose"] /\ state' = [state EXCEPT ![r] = InitialState(filed)]
        /\ UNCHANGED wrapperVars /\ filed' = filed /\ paid' = paid
    BY <1>5 DEF Submit, Invoke
  <2>2. \A q \in Callers : Reached(q)' =>
          \/ Reached(q) /\ state'[q].ticket = state[q].ticket
          \/ state'[q].ticket = filed
    BY <2>1 DEF RetryInv, RunInv, GraphInv, GraphTypeOK, AgentTypeOK, Reached, InitialState
  <2>. QED  BY <1>4, <2>1, <2>2, OneOrderIsKept DEF wrapperVars
<1>6. ASSUME NEW r \in Callers, Work(r) PROVE OneOrder(wrapper, order)'
  BY <1>6, OneOrderUnderWork
<1>7. ASSUME NEW r \in Callers, Collect(r) PROVE OneOrder(wrapper, order)'
  <2>1. UNCHANGED vars /\ paid' = paid
    BY <1>7 DEF Collect
  <2>2. CASE node[r] = "end" /\ state[r].run_status = "completed"
    <3>1. filed' = Done(order) /\ store[k] # None
      BY <1>7, <2>2, CompletedRun, CompletedRunsAreTheOrder DEF RetryInv, RunInv, Collect
    <3>. QED  BY <1>4, <2>1, <3>1 DEF OneOrder, Reached, vars, wrapperVars
  <2>3. CASE ~(node[r] = "end" /\ state[r].run_status = "completed")
    <3>1. filed' = filed
      BY <1>7, <2>3 DEF Collect
    <3>. QED  BY <1>4, <2>1, <3>1, OneOrderIsKept DEF vars, wrapperVars, Reached
  <2>. QED  BY <2>2, <2>3
<1>8. ASSUME (\E r \in Callers : GiveUp(r)) \/ UNCHANGED deskVars PROVE OneOrder(wrapper, order)'
  <2>1. UNCHANGED vars /\ filed' = filed /\ paid' = paid
    BY <1>8 DEF GiveUp, deskVars
  <2>. QED  BY <1>4, <2>1, OneOrderIsKept DEF vars, wrapperVars, Reached
<1>9. OneOrder(wrapper, order)'
  BY <1>5, <1>6, <1>7, <1>8 DEF DeskNext
<1>. QED  BY <1>3, <1>9 DEF RetryInv

MeetInv(wrapper, order) ==
    /\ DeskInv /\ RunInv /\ MeetingsAreKnown
    /\ met = {} => RetryInv(wrapper, order)

LEMMA RetryInvariant ==
    ASSUME NEW wrapper \in Wrappers, NEW order \in Commands, RetryDesk(wrapper, order)
    PROVE  DeskInit /\ [][DeskNext]_deskVars => []MeetInv(wrapper, order)
<1>1. ASSUME DeskInit PROVE MeetInv(wrapper, order)
  <2>1. Init /\ WrapperInit /\ filed = FirstTicket /\ paid = 0
    BY <1>1 DEF DeskInit, Init
  <2>2. RunInv /\ GraphInv
    BY <2>1, InitRunInv DEF RunInv
  <2>3. DeskInv
    BY <2>1, <2>2, DeskAssumption
      DEF RunInv, DeskInv, Resubmittable, Init, WrapperInit, Executed, Reached
  <2>4. Inv /\ ReturnsAreRecorded /\ RunsAreRecorded
    BY <2>1, InitType, InitAccounting, InitSerial
      DEF Inv, Init, WrapperInit, ReturnsAreRecorded, RunsAreRecorded, Executed, Reached
  <2>5. OneOrder(wrapper, order)
    <3>1. store[OrderKey(wrapper, order)] = None /\ ran[OrderKey(wrapper, order)] = 0
      BY <2>1, OneKey DEF WrapperInit
    <3>. QED  BY <2>1, <3>1 DEF OneOrder, Init, WrapperInit, Reached
  <2>6. MeetingsAreKnown
    BY <2>1 DEF WrapperInit, MeetingsAreKnown, InFlight
  <2>. QED  BY <2>2, <2>3, <2>4, <2>5, <2>6 DEF RetryInv, MeetInv
<1>2. ASSUME MeetInv(wrapper, order), [DeskNext]_deskVars PROVE MeetInv(wrapper, order)'
  <2>1. DeskInv' /\ RunInv' /\ MeetingsAreKnown'
    BY <1>2, DeskStepIsGraphStep, NextResubmittable, NextRunInv, NextMeetingsAreKnown
      DEF MeetInv, DeskInv, Resubmittable
  <2>2. ASSUME met' = {} PROVE RetryInv(wrapper, order)'
    <3>1. met = {}
      BY <1>2, <2>2 DEF DeskNext, Submit, Work, Collect, GiveUp, deskVars
    <3>2. Alone'
      BY <2>1, <2>2 DEF MeetingsAreKnown, Alone
    <3>. QED  BY <1>2, <3>1, <3>2, NextRetry DEF MeetInv
  <2>. QED  BY <2>1, <2>2 DEF MeetInv
<1>. QED  BY <1>1, <1>2, PTL

(* Repeating an order does not repeat its refund, as long as no two of its   *)
(* runs are in execute() at once: what is paid out is the order's amount,    *)
(* once, the ticket covered it, and once an answer is filed the balance on   *)
(* file is exact.  No lock is assumed: what a repeat that comes in while the *)
(* first call is in flight can do is what DoublePaymentsMeet says.           *)
THEOREM RepeatedOrdersAreExact ==
    ASSUME NEW wrapper \in Wrappers, NEW order \in Commands, RetryDesk(wrapper, order)
    PROVE  DeskSpec => []RepeatedOrderIsExact
<1>. DEFINE k == OrderKey(wrapper, order)
<1>1. ASSUME RetryInv(wrapper, order) PROVE PaidWithinEligibility
  <2>1. CASE ran[k] = 0
    BY <1>1, <2>1 DEF RetryInv, OneOrder, PaidWithinEligibility
  <2>2. CASE ran[k] # 0
    <3>1. paid = AmountOf(order) /\ Permitted(order, FirstTicket)
      BY <1>1, <2>2 DEF RetryInv, OneOrder
    <3>. QED  BY <3>1, OneKey, EffectIsExact, DeskAssumption DEF PaidWithinEligibility
  <2>. QED  BY <2>1, <2>2
<1>2. ASSUME RetryInv(wrapper, order), filed # FirstTicket
      PROVE  filed.refund_eligible_amount = FirstTicket.refund_eligible_amount - paid
  <2>1. filed = Done(order) /\ store[k] # None
    BY <1>2 DEF RetryInv, OneOrder
  <2>2. ran[k] # 0
    BY <1>2, <2>1, OneKey DEF RetryInv, Inv, EffectsAccountedFor
  <2>3. paid = AmountOf(order) /\ Permitted(order, FirstTicket)
    BY <1>2, <2>2 DEF RetryInv, OneOrder
  <2>4. Done(order).refund_eligible_amount = FirstTicket.refund_eligible_amount - AmountOf(order)
    BY <2>3, OneKey, EffectIsExact, DeskAssumption DEF Done
  <2>. QED  BY <2>1, <2>3, <2>4
<1>3. MeetInv(wrapper, order) => RepeatedOrderIsExact
  BY <1>1, <1>2 DEF MeetInv, RepeatedOrderIsExact
<1>. QED  BY <1>3, RetryInvariant, PTL DEF DeskSpec
=============================================================================
