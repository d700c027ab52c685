-------------------------------- MODULE TaskApi --------------------------------
(* src/api/app.py: POST /tasks runs one agent task on a thread of the pool   *)
(* and answers with its final state; GET /runs/{run_id} reads its trace.     *)
(* A task is the run of AgentGraph with the same name: its run_id is fresh,  *)
(* its graph and wrapper are built for it, and the tracer is shared by all.  *)
(* GET /health answers a constant.                                           *)
EXTENDS AgentGraph, AnthropicProvider

CONSTANTS
    Contents,       \* contents of the model's answers
    Requests        \* bodies of POST /tasks

(* The body of a request, and what it meets: has a client been injected (as  *)
(* tests do), and is ANTHROPIC_API_KEY set?                                  *)
TaskRequest ==
    [ticket : Tickets, proposed_action : Proposals \cup {None},
     injected : BOOLEAN, api_key : BOOLEAN]

TaskResponse ==
    [code : {200}, run_status : RunStatus,
     authorization_result : AuthorizationResult \cup {None},
     execution_result : ExecutionResult \cup {None}]

BadRequest == [code |-> 400]

ServerError == [code |-> 500]

ASSUME ApiAssumption ==
    /\ \A q, r \in Callers : WrapperOf[q] = WrapperOf[r] => q = r
    /\ ProposeMayRaise
    /\ Requests \subseteq TaskRequest
    /\ \A content \in Contents \ {NotIterable} :
          /\ Len(Blocks(content)) \in Nat
          /\ DOMAIN Blocks(content) = 1..Len(Blocks(content))
          /\ _parse_tool_use_response(content) \in Proposals
    /\ None \notin TaskRequest
    /\ None \notin TaskResponse \cup {BadRequest, ServerError}

VARIABLES
    task,       \* the request each run was made for, None before
    response,   \* what POST /tasks answered, None while it has not
    seen,       \* what GET /runs/{run_id} last answered, <<>> for 404
    sdk,        \* the tasks that built a client of the real API
    answered    \* the tasks that got an answer of the model

apiVars == <<vars, task, response, seen, sdk, answered>>

ApiTypeOK ==
    /\ task \in [Callers -> Requests \cup {None}]
    /\ response \in [Callers -> TaskResponse \cup {BadRequest, ServerError, None}]
    /\ sdk \subseteq Callers /\ answered \subseteq Callers
    /\ \A r \in Callers :
          /\ Reached(r) => task[r] # None
          /\ task[r] # None /\ ~Reached(r) => response[r] = BadRequest

ApiInit ==
    /\ Init
    /\ task = [r \in Callers |-> None]
    /\ response = [r \in Callers |-> None]
    /\ seen = [r \in Callers |-> <<>>]
    /\ sdk = {}
    /\ answered = {}

(* Mutant: the key is only looked for when the SDK needs it.                 *)
HasProviderUnchecked(body) == body \in Requests

HasProvider(body) ==
    body.proposed_action # None \/ body.injected \/ body.api_key

(* Mutant: the exception is built and not raised.                            *)
RefuseUnanswered(r, body) ==
    /\ task[r] = None
    /\ ~HasProvider(body)
    /\ task' = [task EXCEPT ![r] = body]
    /\ UNCHANGED <<vars, response, seen, sdk, answered>>

(* create_task() up to graph.invoke(): 400 before anything is built, or a    *)
(* run of the graph.                                                         *)
Refuse(r, body) ==
    /\ task[r] = None
    /\ ~HasProvider(body)
    /\ task' = [task EXCEPT ![r] = body]
    /\ response' = [response EXCEPT ![r] = BadRequest]
    /\ UNCHANGED <<vars, seen, sdk, answered>>

Accept(r, body) ==
    /\ task[r] = None
    /\ HasProvider(body)
    /\ Invoke(r, body.ticket)
    /\ task' = [task EXCEPT ![r] = body]
    /\ UNCHANGED <<response, seen, sdk, answered>>

(* The propose node with ScriptedProposeProvider([proposed_action]): the     *)
(* script has the one proposal the graph asks for.                           *)
ProposeScripted(r) ==
    /\ task[r] # None
    /\ task[r].proposed_action # None
    /\ propose_node(r, task[r].proposed_action)
    /\ UNCHANGED <<task, response, seen, sdk, answered>>

(* _get_client(): an injected client, or one built now.                      *)
BuildClient(r) == sdk' = IF task[r].injected THEN sdk ELSE sdk \cup {r}

ProposeWithModel(r) ==
    /\ task[r] # None
    /\ task[r].proposed_action = None
    /\ \E content \in Contents \ {NotIterable} :
         propose_node(r, _parse_tool_use_response(content))
    /\ BuildClient(r)
    /\ answered' = answered \cup {r}
    /\ UNCHANGED <<task, response, seen>>

(* The client cannot be built or the call fails; or the answer came and the  *)
(* parsing of it raises.                                                     *)
ModelFails(r) ==
    /\ task[r] # None
    /\ task[r].proposed_action = None
    /\ ProposeRaises(r)
    /\ BuildClient(r)
    /\ UNCHANGED <<task, response, seen, answered>>

AnswerRaises(r) ==
    /\ task[r] # None
    /\ task[r].proposed_action = None
    /\ \E content \in Contents : ParsingRaises(content)
    /\ ProposeRaises(r)
    /\ BuildClient(r)
    /\ answered' = answered \cup {r}
    /\ UNCHANGED <<task, response, seen>>

ContinueRun(r) ==
    /\ \/ authorize_node(r)
       \/ execute_node_calls(r) \/ execute_node_waits(r)
       \/ execute_node_returns(r) \/ execute_node_raises(r)
       \/ mark_denied_node(r) \/ mark_completed_node(r) \/ mark_failed_node(r)
    /\ UNCHANGED <<task, response, seen, sdk, answered>>

Answer(r) ==
    [code |-> 200, run_status |-> state[r].run_status,
     authorization_result |-> state[r].authorization_result,
     execution_result |-> state[r].execution_result]

(* Mutant: the response is built before the terminal node has run.           *)
RespondEarly(r) ==
    /\ node[r] \in {"end", "mark_denied", "mark_completed", "mark_failed"}
    /\ response[r] = None
    /\ response' = [response EXCEPT ![r] = Answer(r)]
    /\ UNCHANGED <<vars, task, seen, sdk, answered>>

Respond(r) ==
    /\ node[r] = "end"
    /\ response[r] = None
    /\ response' = [response EXCEPT ![r] = Answer(r)]
    /\ UNCHANGED <<vars, task, seen, sdk, answered>>

(* Mutant: only a run that proposed something is answered for.               *)
RespondErrorOnceProposed(r) ==
    /\ node[r] = "raised"
    /\ events[r] # <<>>
    /\ response[r] = None
    /\ response' = [response EXCEPT ![r] = ServerError]
    /\ UNCHANGED <<vars, task, seen, sdk, answered>>

(* An exception that leaves create_task() becomes a 500 without a run_id.    *)
RespondError(r) ==
    /\ node[r] = "raised"
    /\ response[r] = None
    /\ response' = [response EXCEPT ![r] = ServerError]
    /\ UNCHANGED <<vars, task, seen, sdk, answered>>

(* get_run(run_id), whether or not the caller was told the id: a copy of the *)
(* run's events, 404 when there are none.                                    *)
get_run(r) ==
    /\ seen[r] # events[r]
    /\ seen' = [seen EXCEPT ![r] = events[r]]
    /\ UNCHANGED <<vars, task, response, sdk, answered>>

Serve(r) ==
    \/ ProposeScripted(r) \/ ProposeWithModel(r) \/ ModelFails(r) \/ AnswerRaises(r)
    \/ ContinueRun(r)
    \/ Respond(r) \/ RespondError(r)

ApiNext ==
    \E r \in Callers :
        \/ \E body \in Requests : Refuse(r, body) \/ Accept(r, body)
        \/ Serve(r)
        \/ get_run(r)

(* The thread that serves a task keeps running.                              *)
ApiFairness == \A r \in Callers : WF_apiVars(Serve(r))

ApiSpec == ApiInit /\ [][ApiNext]_apiVars /\ ApiFairness

-----------------------------------------------------------------------------
(* Properties.                                                               *)

IsPrefixOf(s, t) == Len(s) <= Len(t) /\ \A i \in DOMAIN s : s[i] = t[i]

(* A client that is answered 200 can look the run up, and what it reads there*)
(* agrees with the answer: the decision, the execution and the final status, *)
(* in a trace that is closed.                                                *)
AnswersMatchTheTrace ==
    \A r \in Callers : (response[r] # None /\ response[r].code = 200) =>
        LET answer == response[r]
            trace == events[r]
        IN  /\ Len(trace) = IF answer.execution_result = None THEN 3 ELSE 4
            /\ trace[2].payload = answer.authorization_result
            /\ answer.execution_result # None => trace[3].payload = answer.execution_result
            /\ trace[Len(trace)].event_type = "run_finished"
            /\ trace[Len(trace)].payload = answer.run_status

(* Whoever read a trace, at whatever moment, read the beginning of what the  *)
(* run's trace is now; and all of it, if a run_finished was in it.           *)
ReadsStayTrue ==
    \A r \in Callers :
        /\ IsPrefixOf(seen[r], events[r])
        /\ (\E i \in DOMAIN seen[r] : seen[r][i].event_type = "run_finished") =>
              seen[r] = events[r]

(* A task has one effect at most, on the ticket it was posted with, by the   *)
(* command its request proposes or, if it proposes none, by one the model    *)
(* answered with, however many tool uses that answer holds.                  *)
ServedAsAsked ==
    /\ \A k \in Key : ran[k] > 0 =>
          \E r \in Callers :
             /\ WrapperOf[r] = k[1]
             /\ ran[k] = 1
             /\ task[r] # None
             /\ task[r].ticket.id = k[3]
             /\ IF task[r].proposed_action # None
                THEN CommandOf(task[r].proposed_action) = k[2]
                ELSE \E content \in Contents \ {NotIterable} :
                        \E i \in DOMAIN Blocks(content) :
                           /\ ToolUse(content[i])
                           /\ k[2] = [tool_name |-> content[i].name, args |-> content[i].input]
                           /\ \A j \in 1..(i - 1) : ~ToolUse(content[j])
    /\ \A j, k \in Key : (ran[j] > 0 /\ ran[k] > 0 /\ j[1] = k[1]) => j = k

(* The paid API is only prepared for tasks that asked for it, with a key and *)
(* no other client; a refused task leaves no trace, run or client.           *)
PaidCallsAreWanted ==
    /\ \A r \in sdk : task[r].proposed_action = None /\ ~task[r].injected /\ task[r].api_key
    /\ \A r \in Callers : response[r] = BadRequest =>
          ~Reached(r) /\ events[r] = <<>> /\ r \notin sdk

(* Every POST /tasks is answered, with a result, a 400 or a 500.             *)
TasksAnswered == \A r \in Callers : task[r] # None ~> response[r] # None

-----------------------------------------------------------------------------
(* Claims of the repository's texts that the code does not keep.             *)

(* app.py:119-121: "every run driven through POST /tasks always produces at  *)
(* least a PROPOSED event".                                                  *)
EveryTaskLeavesAnEvent ==
    \A r \in Callers : (Reached(r) /\ response[r] # None) => events[r] # <<>>

(* anthropic_provider.py:83-90: the parser "Never raises", whatever the      *)
(* message; so a model's answer always becomes a proposal.                   *)
AnswersBecomeProposals ==
    \A r \in answered : node[r] # "propose" => events[r] # <<>>
=============================================================================
