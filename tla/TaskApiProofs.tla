---------------------------- MODULE TaskApiProofs ----------------------------
(* Theorems of TaskApi: tasks are runs of the agent graph, so what is proved *)
(* of runs holds of tasks; and what POST /tasks and GET /runs answer.        *)
EXTENDS TaskApi, AgentGraphProofs

ApiInv == GraphInv /\ Evidence /\ Traced /\ ApiTypeOK

(* A step in a run neither starts nor unstarts one.                          *)
LEMMA StepKeepsReached ==
    ASSUME GraphInv, NEW q \in Callers, Step(q), NEW r \in Callers
    PROVE  Reached(r)' <=> Reached(r)
BY DEF GraphInv, GraphTypeOK, AgentTypeOK, CallsFollowApproval, Step, Reached, propose_node,
       ProposeRaises, authorize_node, route_after_authorize, execute_node_calls,
       execute_node_waits, execute_node_returns, route_after_execute, execute_node_raises,
       mark_denied_node, mark_completed_node, mark_failed_node, Finish

(* Everything a task does is a step of its run, or nothing to the graph.     *)
LEMMA ServeIsStep ==
    ASSUME ApiTypeOK, NEW r \in Callers, Serve(r)
    PROVE  Step(r) \/ UNCHANGED vars
<1>1. CASE ProposeScripted(r)
  <2>1. task[r] \in Requests /\ task[r].proposed_action # None
    BY <1>1 DEF ProposeScripted, ApiTypeOK
  <2>2. task[r].proposed_action \in Proposals
    BY <2>1, ApiAssumption DEF TaskRequest
  <2>. QED  BY <1>1, <2>2 DEF ProposeScripted, Step
<1>2. CASE ProposeWithModel(r)
  BY <1>2, ApiAssumption DEF ProposeWithModel, Step
<1>3. CASE ModelFails(r) \/ AnswerRaises(r)
  BY <1>3 DEF ModelFails, AnswerRaises, Step
<1>4. CASE ContinueRun(r)
  BY <1>4 DEF ContinueRun, Step
<1>5. CASE Respond(r) \/ RespondError(r)
  BY <1>5 DEF Respond, RespondError
<1>. QED  BY <1>1, <1>2, <1>3, <1>4, <1>5 DEF Serve

LEMMA ApiStepIsGraphStep == ApiTypeOK /\ [ApiNext]_apiVars => [Next]_vars
<1>. SUFFICES ASSUME ApiTypeOK, [ApiNext]_apiVars PROVE [Next]_vars
  OBVIOUS
<1>1. ASSUME NEW r \in Callers, NEW body \in Requests, Refuse(r, body) \/ Accept(r, body)
      PROVE  [Next]_vars
  <2>1. body.ticket \in Tickets
    BY ApiAssumption DEF TaskRequest
  <2>. QED  BY <1>1, <2>1 DEF Refuse, Accept, Next
<1>2. ASSUME NEW r \in Callers, Serve(r) PROVE [Next]_vars
  BY <1>2, ServeIsStep DEF Next
<1>3. ASSUME NEW r \in Callers, get_run(r) PROVE [Next]_vars
  BY <1>3 DEF get_run
<1>4. CASE UNCHANGED apiVars
  BY <1>4 DEF apiVars, vars
<1>. QED  BY <1>1, <1>2, <1>3, <1>4 DEF ApiNext

-----------------------------------------------------------------------------
(* What a task knows of itself stays well formed.                            *)
LEMMA NextApiType == GraphInv /\ ApiTypeOK /\ [ApiNext]_apiVars => ApiTypeOK'
<1>. SUFFICES ASSUME GraphInv, ApiTypeOK, [ApiNext]_apiVars PROVE ApiTypeOK'
  OBVIOUS
<1>. USE DEF ApiTypeOK
<1>1. ASSUME NEW r \in Callers, NEW body \in Requests, Refuse(r, body) PROVE ApiTypeOK'
  BY <1>1, ApiAssumption DEF Refuse, Reached, vars
<1>2. ASSUME NEW r \in Callers, NEW body \in Requests, Accept(r, body) PROVE ApiTypeOK'
  <2>1. body # None
    BY ApiAssumption
  <2>2. node'[r] = "propose" /\ \A q \in Callers \ {r} : node'[q] = node[q]
    BY <1>2 DEF Accept, Invoke, GraphInv, GraphTypeOK, AgentTypeOK
  <2>. QED  BY <1>2, <2>1, <2>2 DEF Accept, Reached
<1>3. ASSUME NEW r \in Callers, Serve(r) PROVE ApiTypeOK'
  <2>1. \A q \in Callers : Reached(q)' <=> Reached(q)
    <3>1. CASE Step(r)
      BY <3>1, StepKeepsReached
    <3>2. CASE UNCHANGED vars
      BY <3>2 DEF vars, Reached
    <3>. QED  BY <1>3, <3>1, <3>2, ServeIsStep
  <2>2. /\ task' = task
        /\ response' \in [Callers -> TaskResponse \cup {BadRequest, ServerError, None}]
        /\ \A q \in Callers : response'[q] = response[q] \/ Reached(q)
    <3>1. CASE Respond(r)
      <4>1. Reached(r) /\ state[r] \in AgentState
        BY <3>1 DEF Respond, Reached, GraphInv, GraphTypeOK, AgentTypeOK
      <4>2. Answer(r) \in TaskResponse
        BY <4>1 DEF Answer, TaskResponse, AgentState
      <4>. QED  BY <3>1, <4>1, <4>2 DEF Respond
    <3>2. CASE RespondError(r)
      BY <3>2 DEF RespondError, Reached
    <3>3. CASE ~Respond(r) /\ ~RespondError(r)
      BY <1>3, <3>3 DEF Serve, ProposeScripted, ProposeWithModel, ModelFails, AnswerRaises, ContinueRun
    <3>. QED  BY <3>1, <3>2, <3>3
  <2>3. sdk' \subseteq Callers /\ answered' \subseteq Callers
    BY <1>3 DEF Serve, ProposeScripted, ProposeWithModel, ModelFails, AnswerRaises, ContinueRun,
       Respond, RespondError, BuildClient
  <2>. QED  BY <2>1, <2>2, <2>3
<1>4. ASSUME NEW r \in Callers, get_run(r) PROVE ApiTypeOK'
  BY <1>4 DEF get_run, vars, Reached
<1>5. CASE UNCHANGED apiVars
  BY <1>5 DEF apiVars, vars, Reached
<1>. QED  BY <1>1, <1>2, <1>3, <1>4, <1>5 DEF ApiNext

LEMMA ApiInitInv == ApiInit => ApiInv
<1>. SUFFICES ASSUME ApiInit PROVE ApiInv
  OBVIOUS
<1>1. GraphInv
  BY GraphInit DEF ApiInit
<1>2. Evidence /\ Traced
  BY DEF ApiInit, Init, WrapperInit, Evidence, RunEvidence, Traced, RunTrace
<1>3. ApiTypeOK
  BY DEF ApiInit, Init, ApiTypeOK, Reached
<1>. QED  BY <1>1, <1>2, <1>3 DEF ApiInv

LEMMA NextApiInv == ApiInv /\ [ApiNext]_apiVars => ApiInv'
<1>. SUFFICES ASSUME ApiInv, [ApiNext]_apiVars PROVE ApiInv'
  OBVIOUS
<1>1. [Next]_vars
  BY ApiStepIsGraphStep DEF ApiInv
<1>2. GraphInv' /\ Evidence' /\ Traced'
  BY <1>1, GraphNextType, NextFollowsApproval, NextEvidence, NextTraced DEF ApiInv, GraphInv
<1>. QED  BY <1>2, NextApiType DEF ApiInv

LEMMA ApiInvariant == ApiInit /\ [][ApiNext]_apiVars => []ApiInv
  BY ApiInitInv, NextApiInv, PTL

(* A task, its answer and what is kept about it are well formed, and a task  *)
(* without a run is one that was refused.                                    *)
THEOREM ApiTypeCorrect == ApiSpec => []ApiTypeOK
  BY ApiInvariant, PTL DEF ApiSpec, ApiInv

(* The steps of TaskApi are built from those of AgentGraph, so what is proved*)
(* of the graph's runs can be used of tasks.                                 *)
LEMMA TasksAreRuns == ApiSpec => Init /\ [][Next]_vars
<1>1. ApiInit => Init
  BY DEF ApiInit
<1>2. ApiInv /\ [ApiNext]_apiVars => [Next]_vars
  BY ApiStepIsGraphStep DEF ApiInv
<1>. QED  BY <1>1, <1>2, ApiInvariant, PTL DEF ApiSpec

(* The trust boundary holds of the API: a tool function only ever runs a     *)
(* command that some task's run proposed and the policy approved for it.     *)
THEOREM TasksRespectTheTrustBoundary == ApiSpec => []OnlyAuthorizedEffects
  BY TasksAreRuns, TrustInvariant, PTL

(* The graph is built for each task, with a wrapper of its own.              *)
LEMMA TasksOwnTheirWrappers == OwnWrappers
  BY ApiAssumption DEF OwnWrappers

(* So a task's effect happens at most once, however many tasks overlap.      *)
THEOREM TaskEffectsHappenAtMostOnce == ApiSpec => []AtMostOnce
<1>1. Init /\ [][Next]_vars => []Inv
  BY TasksOwnTheirWrappers, GraphSerial DEF OneCallPerWrapper
<1>2. Inv => AtMostOnce
  BY DEF Inv, Serial
<1>. QED  BY <1>1, <1>2, TasksAreRuns, PTL

(* A task that completes answers with a ticket that shows exactly what was   *)
(* approved: the whole amount off a balance that covered it, or a status that*)
(* the ticket was not in.                                                    *)
THEOREM CompletedTasksShowTheEffect == ApiSpec => []CompletedShowsTheEffect
<1>1. Init /\ [][Next]_vars => []OwnInv
  BY TasksOwnTheirWrappers, OwnInvariant
<1>. QED  BY <1>1, OwnRunsShowTheEffect, TasksAreRuns, PTL

-----------------------------------------------------------------------------
(* What an accepted task was posted with, and what a refused one left.       *)
Provided(r) ==
    /\ Reached(r) => HasProvider(task[r])
    /\ r \in sdk => Reached(r) /\ task[r].proposed_action = None /\ ~task[r].injected
    /\ response[r] = BadRequest => task[r] # None /\ ~Reached(r)

AllProvided == \A r \in Callers : Provided(r)

LEMMA NextProvided == ApiInv /\ AllProvided /\ [ApiNext]_apiVars => AllProvided'
<1>. SUFFICES ASSUME ApiInv, AllProvided, [ApiNext]_apiVars, NEW r \in Callers PROVE Provided(r)'
  BY DEF AllProvided
<1>. USE DEF ApiInv, ApiTypeOK
<1>0. Provided(r)
  BY DEF AllProvided
<1>1. ASSUME NEW q \in Callers, NEW body \in Requests, Refuse(q, body) PROVE Provided(r)'
  <2>1. body # None
    BY ApiAssumption
  <2>. QED  BY <1>0, <1>1, <2>1 DEF Refuse, Provided, Reached, vars, HasProvider
<1>2. ASSUME NEW q \in Callers, NEW body \in Requests, Accept(q, body) PROVE Provided(r)'
  <2>1. node' = [node EXCEPT ![q] = "propose"] /\ node \in [Callers -> Node]
    BY <1>2 DEF Accept, Invoke, GraphInv, GraphTypeOK, AgentTypeOK
  <2>2. task' = [task EXCEPT ![q] = body] /\ task[q] = None /\ HasProvider(body)
        /\ response' = response /\ sdk' = sdk
    BY <1>2 DEF Accept
  <2>3. CASE q = r
    BY <1>0, <2>1, <2>2, <2>3 DEF Provided, Reached
  <2>4. CASE q # r
    BY <1>0, <2>1, <2>2, <2>4 DEF Provided, Reached, HasProvider
  <2>. QED  BY <2>3, <2>4
<1>3. ASSUME NEW q \in Callers, Serve(q) PROVE Provided(r)'
  <2>1. Reached(r)' <=> Reached(r)
    <3>1. CASE Step(q)
      BY <3>1, StepKeepsReached
    <3>2. CASE UNCHANGED vars
      BY <3>2 DEF vars, Reached
    <3>. QED  BY <1>3, <3>1, <3>2, ServeIsStep
  <2>2. task' = task
    BY <1>3 DEF Serve, ProposeScripted, ProposeWithModel, ModelFails, AnswerRaises, ContinueRun,
       Respond, RespondError
  <2>3. r \in sdk' => r \in sdk
                      \/ (Reached(r) /\ task[r].proposed_action = None /\ ~task[r].injected)
    <3>1. CASE ProposeWithModel(q) \/ ModelFails(q) \/ AnswerRaises(q)
      <4>1. /\ task[q].proposed_action = None
            /\ sdk' = IF task[q].injected THEN sdk ELSE sdk \cup {q}
        BY <3>1 DEF ProposeWithModel, ModelFails, AnswerRaises, BuildClient
      <4>2. Reached(q)
        BY <3>1 DEF ProposeWithModel, ModelFails, AnswerRaises, propose_node, ProposeRaises, Reached
      <4>. QED  BY <4>1, <4>2
    <3>2. CASE ~(ProposeWithModel(q) \/ ModelFails(q) \/ AnswerRaises(q))
      BY <1>3, <3>2 DEF Serve, ProposeScripted, ContinueRun, Respond, RespondError
    <3>. QED  BY <3>1, <3>2
  <2>4. response'[r] = BadRequest => response[r] = BadRequest
    <3>1. Answer(q) # BadRequest /\ ServerError # BadRequest
      BY DEF Answer, BadRequest, ServerError
    <3>. QED  BY <1>3, <3>1 DEF Serve, ProposeScripted, ProposeWithModel, ModelFails, AnswerRaises,
              ContinueRun, Respond, RespondError
  <2>. QED  BY <1>0, <2>1, <2>2, <2>3, <2>4 DEF Provided, HasProvider
<1>4. ASSUME NEW q \in Callers, get_run(q) PROVE Provided(r)'
  BY <1>0, <1>4 DEF get_run, vars, Provided, Reached, HasProvider
<1>5. CASE UNCHANGED apiVars
  BY <1>0, <1>5 DEF apiVars, vars, Provided, Reached, HasProvider
<1>. QED  BY <1>1, <1>2, <1>3, <1>4, <1>5 DEF ApiNext

(* A client of the paid API is only built for a task that carries no         *)
(* proposal, when a key is set and no other client was given; and a task     *)
(* that was refused has no run, no trace and no client.                      *)
THEOREM PaidCallsAreAsked == ApiSpec => []PaidCallsAreWanted
<1>1. ApiInit => AllProvided
  BY ApiAssumption DEF ApiInit, Init, AllProvided, Provided, Reached
<1>2. ApiInv /\ AllProvided => PaidCallsAreWanted
  BY DEF ApiInv, ApiTypeOK, AllProvided, Provided, HasProvider, PaidCallsAreWanted, Traced, RunTrace,
     Reached
<1>. QED  BY <1>1, <1>2, ApiInvariant, NextProvided, PTL DEF ApiSpec

-----------------------------------------------------------------------------
(* A run that is over stays as it is.                                        *)
LEMMA OverIsOver ==
    ASSUME GraphInv, [Next]_vars, NEW r \in Callers, node[r] = "end"
    PROVE  node'[r] = "end" /\ state'[r] = state[r] /\ events'[r] = events[r]
<1>1. ~Step(r) /\ \A ticket \in Tickets : ~Invoke(r, ticket)
  <2>1. pc[r] = "idle"
    BY DEF GraphInv, CallsFollowApproval
  <2>2. ~execute_node_waits(r)
    BY <2>1 DEF execute_node_waits, Execute, LookupHit, LookupMiss, TransientFailure, ToolRaises,
       RunTool, Record, Exhaust, HasAttempt
  <2>. QED  BY <2>1, <2>2 DEF Step, Invoke, propose_node, ProposeRaises, authorize_node,
            execute_node_calls, execute_node_returns, execute_node_raises, mark_denied_node,
            mark_completed_node, mark_failed_node
<1>2. CASE UNCHANGED vars
  BY <1>2 DEF vars
<1>3. CASE Next
  <2>1. PICK q \in Callers : (\E ticket \in Tickets : Invoke(q, ticket)) \/ Step(q)
    BY <1>3 DEF Next
  <2>. QED  BY <1>1, <2>1, OtherRunsAreKept
<1>. QED  BY <1>2, <1>3

(* A result is only answered for a run that is over, and it is its final     *)
(* state.                                                                    *)
Answered == \A r \in Callers :
    (response[r] # None /\ response[r].code = 200) => node[r] = "end" /\ response[r] = Answer(r)

LEMMA NextAnswered == ApiInv /\ Answered /\ [ApiNext]_apiVars => Answered'
<1>. SUFFICES ASSUME ApiInv, Answered, [ApiNext]_apiVars, NEW r \in Callers,
                     response'[r] # None, response'[r].code = 200
              PROVE  node'[r] = "end" /\ response'[r] = Answer(r)'
  BY DEF Answered
<1>. USE DEF ApiInv, ApiTypeOK
<1>1. CASE response'[r] = response[r]
  <2>1. node[r] = "end" /\ response[r] = Answer(r)
    BY <1>1 DEF Answered
  <2>. QED  BY <1>1, <2>1, OverIsOver, ApiStepIsGraphStep DEF Answer
<1>2. CASE Respond(r)
  BY <1>2 DEF Respond, vars, Answer
<1>3. CASE response'[r] # response[r] /\ ~Respond(r)
  <2>1. response'[r] \in {BadRequest, ServerError}
    BY <1>3 DEF ApiNext, apiVars, Refuse, Accept, get_run, Serve, ProposeScripted, ProposeWithModel,
       ModelFails, AnswerRaises, ContinueRun, Respond, RespondError
  <2>. QED  BY <2>1 DEF BadRequest, ServerError
<1>. QED  BY <1>1, <1>2, <1>3

(* What POST /tasks answers with 200 is what GET /runs tells of that run:    *)
(* the decision, the execution and the final status.                         *)
THEOREM AnswersAgreeWithTraces == ApiSpec => []AnswersMatchTheTrace
<1>1. ApiInit => Answered
  BY DEF ApiInit, Answered
<1>2. ASSUME ApiInv, Answered PROVE AnswersMatchTheTrace
  <2>. SUFFICES ASSUME NEW r \in Callers, response[r] # None, response[r].code = 200
       PROVE  LET answer == response[r]
                  trace == events[r]
              IN  /\ Len(trace) = IF answer.execution_result = None THEN 3 ELSE 4
                  /\ trace[2].payload = answer.authorization_result
                  /\ answer.execution_result # None => trace[3].payload = answer.execution_result
                  /\ trace[Len(trace)].event_type = "run_finished"
                  /\ trace[Len(trace)].payload = answer.run_status
    BY DEF AnswersMatchTheTrace
  <2>1. node[r] = "end" /\ response[r] = Answer(r) /\ RunTrace(r)
    BY <1>2 DEF Answered, ApiInv, Traced
  <2>2. CASE state[r].execution_result = None
    <3>1. events[r] = <<Proposed(r), Authorized(r), Finished(r, 2)>>
      BY <2>1, <2>2 DEF RunTrace
    <3>2. Len(events[r]) = 3 /\ events[r][2] = Authorized(r) /\ events[r][3] = Finished(r, 2)
      BY <3>1
    <3>3. response[r].execution_result = None
      BY <2>1, <2>2 DEF Answer
    <3>. QED  BY <2>1, <3>2, <3>3 DEF Answer, Authorized, Finished, TraceEvent
  <2>3. CASE state[r].execution_result # None
    <3>1. events[r] = <<Proposed(r), Authorized(r), Execution(r), Finished(r, 3)>>
      BY <2>1, <2>3 DEF RunTrace
    <3>2. /\ Len(events[r]) = 4
          /\ events[r][2] = Authorized(r) /\ events[r][3] = Execution(r)
          /\ events[r][4] = Finished(r, 3)
      BY <3>1
    <3>3. response[r].execution_result # None
      BY <2>1, <2>3 DEF Answer
    <3>. QED  BY <2>1, <3>2, <3>3 DEF Answer, Authorized, Execution, Finished, TraceEvent
  <2>. QED  BY <2>2, <2>3
<1>. QED  BY <1>1, <1>2, ApiInvariant, NextAnswered, PTL DEF ApiSpec

-----------------------------------------------------------------------------
(* What was read is the beginning of the trace; all of it, if it is closed.  *)
ReadOf(r) ==
    /\ IsPrefixOf(seen[r], events[r])
    /\ (\E i \in DOMAIN seen[r] : seen[r][i].event_type = "run_finished") => seen[r] = events[r]

AllRead == seen \in [Callers -> Seq(Event)] /\ \A r \in Callers : ReadOf(r)

(* A step of the graph leaves a trace alone or adds one event at its end.    *)
LEMMA TraceGrows ==
    ASSUME GraphInv, GraphInv', [Next]_vars, NEW r \in Callers
    PROVE  IsPrefixOf(events[r], events'[r])
<1>0. events[r] \in Seq(Event) /\ events'[r] \in Seq(Event)
  BY DEF GraphInv, GraphTypeOK, AgentTypeOK
<1>1. CASE events'[r] = events[r]
  BY <1>0, <1>1 DEF IsPrefixOf
<1>2. ASSUME NEW event_type, NEW payload, events' = _record(events, r, event_type, payload)
      PROVE  IsPrefixOf(events[r], events'[r])
  <2>. DEFINE e == TraceEvent(event_type, Len(events[r]), payload)
  <2>1. events'[r] = Append(events[r], e)
    BY <1>2, RecordGrows
  <2>. HIDE DEF e
  <2>. QED  BY <1>0, <2>1 DEF IsPrefixOf
<1>3. ASSUME NEW q \in Callers, q # r, (\E ticket \in Tickets : Invoke(q, ticket)) \/ Step(q)
      PROVE  events'[r] = events[r]
  BY <1>3, OtherRunsAreKept
<1>4. CASE Step(r)
  BY <1>1, <1>2, <1>4 DEF Step, propose_node, ProposeRaises, authorize_node, execute_node_calls,
     execute_node_waits, execute_node_returns, execute_node_raises, mark_denied_node,
     mark_completed_node, mark_failed_node, Finish, record_proposal, record_authorization,
     record_execution, record_run_finished
<1>5. CASE UNCHANGED vars \/ \E ticket \in Tickets : Invoke(r, ticket)
  BY <1>1, <1>5 DEF vars, Invoke
<1>. QED  BY <1>1, <1>3, <1>4, <1>5 DEF Next

(* Only the trace of a run that is over is closed.                           *)
LEMMA ClosedIsOver ==
    ASSUME NEW r \in Callers, RunTrace(r), node[r] \in Node,
           NEW i \in DOMAIN events[r], events[r][i].event_type = "run_finished"
    PROVE  node[r] = "end"
<1>. SUFFICES ASSUME node[r] # "end" PROVE FALSE
  OBVIOUS
<1>1. \/ events[r] = <<>>
      \/ events[r] = <<Proposed(r)>>
      \/ events[r] = <<Proposed(r), Authorized(r)>>
      \/ events[r] = <<Proposed(r), Authorized(r), Execution(r)>>
  BY DEF RunTrace, Node
<1>2. /\ Proposed(r).event_type # "run_finished"
      /\ Authorized(r).event_type # "run_finished"
      /\ Execution(r).event_type # "run_finished"
  BY DEF Proposed, Authorized, Execution, TraceEvent
<1>. HIDE DEF Proposed, Authorized, Execution
<1>. QED  BY <1>1, <1>2

LEMMA NextRead == ApiInv /\ ApiInv' /\ AllRead /\ [ApiNext]_apiVars => AllRead'
<1>. SUFFICES ASSUME ApiInv, ApiInv', AllRead, [ApiNext]_apiVars PROVE AllRead'
  OBVIOUS
<1>a. seen' \in [Callers -> Seq(Event)]
  BY DEF AllRead, ApiInv, GraphInv, GraphTypeOK, AgentTypeOK, ApiNext, apiVars, Refuse, Accept,
     get_run, Serve, ProposeScripted, ProposeWithModel, ModelFails, AnswerRaises, ContinueRun,
     Respond, RespondError
<1>. SUFFICES ASSUME NEW r \in Callers PROVE ReadOf(r)'
  BY <1>a DEF AllRead
<1>0. /\ ReadOf(r) /\ [Next]_vars /\ seen[r] \in Seq(Event)
      /\ events[r] \in Seq(Event) /\ events'[r] \in Seq(Event)
  BY ApiStepIsGraphStep DEF AllRead, ReadOf, ApiInv, GraphInv, GraphTypeOK, AgentTypeOK
<1>1. CASE get_run(r) /\ seen'[r] = events[r]
  <2>1. events' = events
    BY <1>1 DEF get_run, vars
  <2>. QED  BY <1>0, <1>1, <2>1 DEF ReadOf, IsPrefixOf
<1>2. CASE seen'[r] = seen[r]
  <2>1. IsPrefixOf(events[r], events'[r])
    BY <1>0, TraceGrows DEF ApiInv
  <2>2. IsPrefixOf(seen[r], events'[r])
    BY <1>0, <2>1 DEF ReadOf, IsPrefixOf
  <2>3. ASSUME NEW i \in DOMAIN seen[r], seen[r][i].event_type = "run_finished"
        PROVE  seen[r] = events'[r]
    <3>1. seen[r] = events[r]
      BY <1>0, <2>3 DEF ReadOf
    <3>2. RunTrace(r) /\ node[r] \in Node
      BY DEF ApiInv, Traced, GraphInv, GraphTypeOK, AgentTypeOK
    <3>3. node[r] = "end"
      BY <2>3, <3>1, <3>2, ClosedIsOver
    <3>. QED  BY <1>0, <3>1, <3>3, OverIsOver DEF ApiInv
  <2>. QED  BY <1>0, <1>2, <2>2, <2>3 DEF ReadOf
<1>3. CASE \E q \in Callers : get_run(q)
  <2>1. PICK q \in Callers : get_run(q)
    BY <1>3
  <2>2. seen' = [seen EXCEPT ![q] = events[q]]
    BY <2>1 DEF get_run
  <2>. QED  BY <1>1, <1>2, <2>1, <2>2 DEF AllRead
<1>4. CASE ~\E q \in Callers : get_run(q)
  <2>1. seen' = seen
    BY <1>4 DEF ApiNext, apiVars, Refuse, Accept, Serve, ProposeScripted, ProposeWithModel,
       ModelFails, AnswerRaises, ContinueRun, Respond, RespondError
  <2>. QED  BY <1>2, <2>1
<1>. QED  BY <1>3, <1>4

(* Whoever read the trace of a run read the beginning of what it is now, and *)
(* the whole of it once it says that the run is finished.                    *)
THEOREM ReadsDoStayTrue == ApiSpec => []ReadsStayTrue
<1>1. ApiInit => AllRead
  BY DEF ApiInit, Init, AllRead, ReadOf, IsPrefixOf
<1>2. AllRead => ReadsStayTrue
  BY DEF AllRead, ReadOf, ReadsStayTrue
<1>. QED  BY <1>1, <1>2, ApiInvariant, NextRead, PTL DEF ApiSpec

-----------------------------------------------------------------------------
(* The first of some positions in a sequence.                                *)
LEMMA FirstOfSome ==
    ASSUME NEW S \in SUBSET Nat, S # {}
    PROVE  \E i \in S : \A j \in S : i <= j
<1>. DEFINE Below(n) == 0..n
            T == {Below(n) : n \in S}
<1>1. T \subseteq FiniteSubsetsOf(Nat) /\ T # {}
  <2>1. \A n \in Nat : IsFiniteSet(Below(n)) /\ Below(n) \subseteq Nat
    BY FS_Interval
  <2>. QED  BY <2>1 DEF FiniteSubsetsOf
<1>2. PICK x \in T : \A y \in T : <<y, x>> \notin StrictSubsetOrdering(Nat)
  <2>. HIDE DEF T
  <2>. QED  BY <1>1, FS_StrictSubsetOrderingWellFounded, WFMin
<1>3. PICK i \in S : x = Below(i)
  OBVIOUS
<1>4. ASSUME NEW j \in S, j < i PROVE FALSE
  <2>1. Below(j) \subseteq Below(i) /\ i \in Below(i) /\ i \notin Below(j)
    BY <1>4
  <2>2. Below(j) \in SUBSET Nat /\ Below(i) \in SUBSET Nat /\ Below(j) \in T
    OBVIOUS
  <2>. HIDE DEF Below, T
  <2>3. <<Below(j), Below(i)>> \in StrictSubsetOrdering(Nat)
    BY <2>1, <2>2 DEF StrictSubsetOrdering
  <2>. QED  BY <1>2, <1>3, <2>2, <2>3
<1>. QED  BY <1>4

(* A proposal that names a tool was parsed out of the first tool use of the  *)
(* model's answer.                                                           *)
LEMMA ParsedIsFirstUse ==
    ASSUME NEW content \in Contents \ {NotIterable},
           _parse_tool_use_response(content).tool_name \in ToolName
    PROVE  \E i \in DOMAIN Blocks(content) :
              /\ ToolUse(content[i])
              /\ CommandOf(_parse_tool_use_response(content))
                    = [tool_name |-> content[i].name, args |-> content[i].input]
              /\ \A j \in 1..(i - 1) : ~ToolUse(content[j])
<1>. DEFINE blocks == Blocks(content)
            uses == {i \in DOMAIN blocks : ToolUse(blocks[i])}
            first == CHOOSE i \in uses : \A j \in uses : i <= j
<1>1. Len(blocks) \in Nat /\ DOMAIN blocks = 1..Len(blocks)
  BY ApiAssumption
<1>2. uses # {}
  BY DEF _parse_tool_use_response, ToolName
<1>3. uses \in SUBSET Nat
  BY <1>1
<1>4. first \in uses /\ \A j \in uses : first <= j
  <2>1. \E i \in uses : \A j \in uses : i <= j
    BY <1>2, <1>3, FirstOfSome
  <2>. HIDE DEF uses
  <2>. QED  BY <2>1
<1>5. blocks = content
  BY <1>2 DEF Blocks
<1>6. _parse_tool_use_response(content)
        = [tool_name |-> blocks[first].name, arguments |-> blocks[first].input]
  BY <1>2 DEF _parse_tool_use_response
<1>7. \A j \in 1..(first - 1) : ~ToolUse(blocks[j])
  <2>. SUFFICES ASSUME NEW j \in 1..(first - 1), ToolUse(blocks[j]) PROVE FALSE
    OBVIOUS
  <2>1. first \in 1..Len(blocks)
    BY <1>1, <1>4
  <2>2. j \in DOMAIN blocks
    <3>. HIDE DEF first, blocks
    <3>. QED  BY <1>1, <2>1
  <2>3. first <= j
    BY <1>4, <2>2
  <2>. HIDE DEF first
  <2>. QED  BY <1>1, <2>1, <2>3
<1>. HIDE DEF first
<1>. QED  BY <1>4, <1>5, <1>6, <1>7 DEF CommandOf

(* What a run was given, and what it proposes, is what its task asked for.   *)
Asked(r) ==
    /\ Reached(r) => task[r] \in Requests /\ state[r].ticket = task[r].ticket
    /\ Reached(r) /\ state[r].proposed_action # None =>
          IF task[r].proposed_action # None
          THEN state[r].proposed_action = task[r].proposed_action
          ELSE \E content \in Contents \ {NotIterable} :
                  state[r].proposed_action = _parse_tool_use_response(content)

AllAsked == \A r \in Callers : Asked(r)

(* The ticket and the proposal of a run are written by its own Accept and    *)
(* propose steps only.                                                       *)
LEMMA ContinuedRunIsKept ==
    ASSUME GraphInv, NEW r \in Callers,
           ContinueRun(r) \/ ModelFails(r) \/ AnswerRaises(r)
    PROVE  /\ Reached(r)' /\ Reached(r)
           /\ state'[r].ticket = state[r].ticket
           /\ state'[r].proposed_action = state[r].proposed_action
<1>. USE DEF GraphInv, GraphTypeOK, AgentTypeOK
<1>1. Reached(r) /\ state[r] \in AgentState
  BY DEF ContinueRun, ModelFails, AnswerRaises, ProposeRaises, authorize_node, execute_node_calls,
         execute_node_waits, execute_node_returns, execute_node_raises, mark_denied_node,
         mark_completed_node, mark_failed_node, Reached, CallsFollowApproval, Execute, LookupHit,
         LookupMiss, TransientFailure, RunTool, ToolRaises, Record, Exhaust, HasAttempt
<1>2. Reached(r)'
  BY <1>1, StepKeepsReached DEF ContinueRun, ModelFails, AnswerRaises, Step
<1>3. /\ state'[r].ticket = state[r].ticket
      /\ state'[r].proposed_action = state[r].proposed_action
  BY <1>1 DEF ContinueRun, ModelFails, AnswerRaises, ProposeRaises, authorize_node,
     execute_node_calls, execute_node_waits, execute_node_returns, execute_node_raises,
     mark_denied_node, mark_completed_node, mark_failed_node, Finish, AgentState
<1>. QED  BY <1>1, <1>2, <1>3

LEMMA NextAsked == ApiInv /\ AllAsked /\ [ApiNext]_apiVars => AllAsked'
<1>. SUFFICES ASSUME ApiInv, AllAsked, [ApiNext]_apiVars, NEW r \in Callers PROVE Asked(r)'
  BY DEF AllAsked
<1>0. Asked(r)
  BY DEF AllAsked
<1>. USE DEF ApiInv, ApiTypeOK
<1>1. ASSUME node'[r] = node[r], state'[r] = state[r], task'[r] = task[r] PROVE Asked(r)'
  BY <1>0, <1>1 DEF Asked, Reached
<1>2. ASSUME NEW body \in Requests, Accept(r, body) PROVE Asked(r)'
  <2>1. task'[r] = body /\ state'[r] = InitialState(body.ticket)
    BY <1>2 DEF Accept, Invoke, GraphInv, GraphTypeOK, AgentTypeOK
  <2>. QED  BY <2>1 DEF Asked, InitialState
<1>3. CASE ContinueRun(r) \/ ModelFails(r) \/ AnswerRaises(r)
  <2>1. task' = task
    BY <1>3 DEF ContinueRun, ModelFails, AnswerRaises
  <2>. QED  BY <1>0, <1>3, <2>1, ContinuedRunIsKept DEF Asked
<1>4. CASE ProposeScripted(r) \/ ProposeWithModel(r)
  <2>1. PICK p : /\ propose_node(r, p)
                 /\ IF task[r].proposed_action # None
                    THEN p = task[r].proposed_action
                    ELSE \E content \in Contents \ {NotIterable} :
                            p = _parse_tool_use_response(content)
    BY <1>4 DEF ProposeScripted, ProposeWithModel
  <2>2. Reached(r) /\ state[r] \in AgentState /\ task' = task
    BY <1>4, <2>1 DEF ProposeScripted, ProposeWithModel, propose_node, Reached, GraphInv, GraphTypeOK,
       AgentTypeOK
  <2>3. state'[r] = [state[r] EXCEPT !.proposed_action = p, !.run_status = "authorizing"]
    BY <2>1 DEF propose_node, GraphInv, GraphTypeOK, AgentTypeOK
  <2>4. state'[r].proposed_action = p /\ state'[r].ticket = state[r].ticket
    BY <2>2, <2>3 DEF AgentState
  <2>. QED  BY <1>0, <2>1, <2>2, <2>4 DEF Asked
<1>5. CASE Respond(r) \/ RespondError(r) \/ (\E body \in Requests : Refuse(r, body)) \/ get_run(r)
  <2>1. (\E body \in Requests : Refuse(r, body)) => ~Reached(r)
    BY DEF Refuse
  <2>2. CASE \E body \in Requests : Refuse(r, body)
    BY <2>1, <2>2 DEF Refuse, vars, Asked, Reached
  <2>. QED  BY <1>1, <1>5, <2>2 DEF Respond, RespondError, get_run, vars
<1>6. ASSUME NEW q \in Callers, q # r,
             (\E body \in Requests : Refuse(q, body) \/ Accept(q, body)) \/ Serve(q) \/ get_run(q)
      PROVE  Asked(r)'
  <2>1. task'[r] = task[r]
    BY <1>6 DEF Refuse, Accept, Serve, ProposeScripted, ProposeWithModel, ModelFails, AnswerRaises,
       ContinueRun, Respond, RespondError, get_run
  <2>2. (\E ticket \in Tickets : Invoke(q, ticket)) \/ Step(q) \/ UNCHANGED vars
    <3>1. \A body \in Requests : body.ticket \in Tickets
      BY ApiAssumption DEF TaskRequest
    <3>. QED  BY <1>6, <3>1, ServeIsStep DEF Refuse, Accept, get_run
  <2>3. node'[r] = node[r] /\ state'[r] = state[r]
    <3>1. CASE UNCHANGED vars
      BY <3>1 DEF vars
    <3>. QED  BY <1>6, <2>2, <3>1, OtherRunsAreKept
  <2>. QED  BY <1>1, <2>1, <2>3
<1>7. CASE UNCHANGED apiVars
  BY <1>1, <1>7 DEF apiVars, vars
<1>. QED  BY <1>2, <1>3, <1>4, <1>5, <1>6, <1>7 DEF ApiNext, Serve

(* A task applies one command at most, once, to the ticket it was posted     *)
(* with: the command of its request or, if it carries none, of the first tool*)
(* use in an answer of the model.                                            *)
THEOREM TasksAreServedAsAsked == ApiSpec => []ServedAsAsked
<1>1. ApiInit => AllAsked
  BY DEF ApiInit, Init, AllAsked, Asked, Reached
<1>2. OneCallPerWrapper
  BY ApiAssumption DEF OneCallPerWrapper, OwnWrappers
<1>3. ApiInit => Inv
  BY InitType, InitAccounting, InitSerial DEF ApiInit, Init, Inv
<1>4. ApiInv /\ Inv /\ [ApiNext]_apiVars => Inv'
  BY <1>2, ApiStepIsGraphStep, GraphStepIsWrapperStep, NextType, NextAccounting, NextSerial
     DEF ApiInv, Inv
<1>5. ASSUME ApiInv, Inv, AllAsked, OnlyAuthorizedEffects PROVE ServedAsAsked
  <2>1. ASSUME NEW k \in Key, ran[k] > 0
        PROVE  \E r \in Callers :
                  /\ WrapperOf[r] = k[1]
                  /\ k = KeyOfRun(r)
                  /\ ran[k] = 1
                  /\ task[r] # None
                  /\ task[r].ticket.id = k[3]
                  /\ IF task[r].proposed_action # None
                     THEN CommandOf(task[r].proposed_action) = k[2]
                     ELSE \E content \in Contents \ {NotIterable} :
                             \E i \in DOMAIN Blocks(content) :
                                /\ ToolUse(content[i])
                                /\ k[2] = [tool_name |-> content[i].name, args |-> content[i].input]
                                /\ \A j \in 1..(i - 1) : ~ToolUse(content[j])
    <3>1. PICK r \in Callers :
             /\ WrapperOf[r] = k[1] /\ Reached(r)
             /\ state[r].authorization_result = Approved(k[2])
             /\ CommandOf(state[r].proposed_action) = k[2]
             /\ state[r].ticket.id = k[3]
      BY <1>5, <2>1 DEF OnlyAuthorizedEffects
    <3>2. k = <<k[1], k[2], k[3]>> /\ k[2] \in AuthorizedCommand
      BY WrapperAssumption DEF Key
    <3>3. k = KeyOfRun(r)
      BY <3>1, <3>2 DEF KeyOfRun, Command, Approved
    <3>4. ran[k] = 1
      BY <1>5, <2>1 DEF Inv, Serial, AtMostOnce, TypeOK
    <3>5. task[r] # None /\ task[r].ticket.id = k[3]
      BY <1>5, <3>1, ApiAssumption DEF AllAsked, Asked
    <3>6. state[r].proposed_action # None /\ state[r].proposed_action \in Proposals
      <4>1. Approved(k[2]) # None /\ Approved(k[2]).decision = "approved"
        BY <3>2, GraphAssumption DEF Approved, AuthorizationResult
      <4>2. node[r] \notin {"start", "propose", "authorize"} /\ node[r] \in Node
        BY <1>5, <3>1, <4>1 DEF ApiInv, GraphInv, CallsFollowApproval, GraphTypeOK, AgentTypeOK, Reached
      <4>. QED  BY <1>5, <3>1, <4>1, <4>2, GraphAssumption DEF ApiInv, Traced, RunTrace, Node
    <3>7. CASE task[r].proposed_action # None
      <4>1. CommandOf(task[r].proposed_action) = k[2]
        BY <1>5, <3>1, <3>6, <3>7 DEF AllAsked, Asked
      <4>. QED  BY <3>1, <3>3, <3>4, <3>5, <3>7, <4>1
    <3>8. CASE task[r].proposed_action = None
      <4>1. PICK content \in Contents \ {NotIterable} :
               state[r].proposed_action = _parse_tool_use_response(content)
        BY <1>5, <3>1, <3>6, <3>8 DEF AllAsked, Asked
      <4>2. k[2].tool_name = _parse_tool_use_response(content).tool_name
        BY <3>1, <4>1 DEF CommandOf
      <4>3. k[2].tool_name \in ToolName
        BY <3>2 DEF AuthorizedCommand, UpdateTicketStatusCommand, IssueRefundCommand,
           AddTicketNoteCommand, ToolName
      <4>4. \E i \in DOMAIN Blocks(content) :
               /\ ToolUse(content[i])
               /\ k[2] = [tool_name |-> content[i].name, args |-> content[i].input]
               /\ \A j \in 1..(i - 1) : ~ToolUse(content[j])
        BY <3>1, <4>1, <4>2, <4>3, ParsedIsFirstUse
      <4>. QED  BY <3>1, <3>3, <3>4, <3>5, <3>8, <4>4
    <3>. QED  BY <3>7, <3>8
  <2>2. ASSUME NEW j \in Key, NEW k \in Key, ran[j] > 0, ran[k] > 0, j[1] = k[1] PROVE j = k
    <3>1. PICK q \in Callers : WrapperOf[q] = j[1] /\ j = KeyOfRun(q)
      BY <2>1, <2>2
    <3>2. PICK r \in Callers : WrapperOf[r] = k[1] /\ k = KeyOfRun(r)
      BY <2>1, <2>2
    <3>3. q = r
      BY <2>2, <3>1, <3>2, ApiAssumption
    <3>. QED  BY <3>1, <3>2, <3>3
  <2>. QED  BY <2>1, <2>2 DEF ServedAsAsked
<1>. QED
  BY <1>1, <1>3, <1>4, <1>5, ApiInvariant, NextAsked, TasksRespectTheTrustBoundary, PTL DEF ApiSpec
=============================================================================
