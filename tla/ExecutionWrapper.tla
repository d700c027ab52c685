--------------------------- MODULE ExecutionWrapper ---------------------------
(* ExecutionWrapper.execute() of src/execution/executor.py: retry on         *)
(* simulated transient failure, one run of the tool function per idempotency *)
(* key, verification, and a record of the outcome that later calls replay.   *)
(*                                                                           *)
(* A caller is a thread inside execute() on the wrapper WrapperOf[caller].   *)
(* The only state callers share is the store of a wrapper: it is read once   *)
(* (Lookup) and written once (Record), and nothing locks it in between, so   *)
(* these are steps of their own; the rest of a call is local to its thread.  *)
EXTENDS TicketTools, FiniteSets

CONSTANTS
    Callers,        \* threads that call execute()
    Wrappers,       \* ExecutionWrapper instances
    WrapperOf,      \* the instance each caller uses
    Commands,       \* commands callers pass
    Tickets,        \* tickets callers pass
    MaxAttempts,    \* values of the max_attempts argument
    ShouldFail,     \* {FALSE}: no should_fail predicate is ever given
    Stubbed,        \* tools whose _TOOL_FUNCTIONS entry is replaced by a stub
    StubReturns,    \* tickets a stub may return
    Overlap         \* may callers of one wrapper call it at the same time?

Key == Wrappers \X Commands \X TicketIds

(* The two results of a tool function that ran, and that of one that did not.*)
AppliedResult ==
    [status : {"success"}, ticket : Ticket, verified : {TRUE}, attempt : Int]
    \cup [status : {"verification_failed"}, ticket : Ticket, verified : {FALSE}, attempt : Int]

FailureResult == [status : {"failure"}, ticket : {None}, verified : {FALSE}, attempt : Int]

ExecutionResult == AppliedResult \cup FailureResult

Request ==
    [command : Commands, ticket : Tickets, max_attempts : MaxAttempts, should_fail : ShouldFail]

ASSUME NoneIsNoResult == None \notin ExecutionResult

ASSUME NoneIsNoKey == None \notin Key

ASSUME WrapperAssumption ==
    /\ WrapperOf \in [Callers -> Wrappers]
    /\ Commands \subseteq AuthorizedCommand
    /\ Tickets \subseteq Ticket
    /\ MaxAttempts \subseteq Int
    /\ ShouldFail \subseteq BOOLEAN
    /\ Stubbed \subseteq ToolName
    /\ StubReturns \subseteq Ticket
    /\ Overlap \in BOOLEAN

VARIABLES
    pc,         \* where each caller is inside execute()
    request,    \* the arguments of its call
    attempt,    \* the loop variable
    result,     \* the ExecutionResult it built or found
    store,      \* _idempotency_store of every wrapper, None where no entry
    ran,        \* history: how often a tool function ran and returned a ticket
    unrecorded  \* history: the keys for which it ran and the call then raised

wrapperVars == <<pc, request, attempt, result, store, ran, unrecorded>>

(* _compute_idempotency_key: tool name and arguments (the command) and the   *)
(* id of the ticket, in the store of one wrapper.                            *)
KeyOf(c) == <<WrapperOf[c], request[c].command, request[c].ticket.id>>

InFlight(c) == pc[c] \notin {"idle", "returned", "raised"}

TypeOK ==
    /\ pc \in [Callers -> {"idle", "lookup", "attempt", "record", "returned", "raised"}]
    /\ request \in [Callers -> Request \cup {None}]
    /\ attempt \in [Callers -> Int]
    /\ result \in [Callers -> ExecutionResult \cup {None}]
    /\ store \in [Key -> AppliedResult \cup {None}]
    /\ ran \in [Key -> Nat]
    /\ unrecorded \subseteq Key
    /\ \A c \in Callers :
          /\ pc[c] # "idle" => request[c] \in Request
          /\ pc[c] = "record" => result[c] \in AppliedResult
          /\ pc[c] = "returned" => result[c] \in ExecutionResult

WrapperInit ==
    /\ pc = [c \in Callers |-> "idle"]
    /\ request = [c \in Callers |-> None]
    /\ attempt = [c \in Callers |-> 0]
    /\ result = [c \in Callers |-> None]
    /\ store = [k \in Key |-> None]
    /\ ran = [k \in Key |-> 0]
    /\ unrecorded = {}

-----------------------------------------------------------------------------
(* execute() is entered: max_attempts < 1 raises before anything is read.    *)
(* The code has no lock and no queue, so in general a caller comes in at any *)
(* time.  Overlap = FALSE is an assumption about the callers (one thread, or *)
(* threads that take turns), made where a property needs it and says so.     *)
Call(c, r) ==
    /\ pc[c] = "idle"
    /\ Overlap \/ \A d \in Callers : WrapperOf[d] = WrapperOf[c] => ~InFlight(d)
    /\ pc' = [pc EXCEPT ![c] = IF r.max_attempts < 1 THEN "raised" ELSE "lookup"]
    /\ request' = [request EXCEPT ![c] = r]
    /\ attempt' = [attempt EXCEPT ![c] = 1]
    /\ result' = [result EXCEPT ![c] = None]
    /\ UNCHANGED <<store, ran, unrecorded>>

LookupHit(c) ==
    /\ pc[c] = "lookup"
    /\ store[KeyOf(c)] # None
    /\ pc' = [pc EXCEPT ![c] = "returned"]
    /\ result' = [result EXCEPT ![c] = store[KeyOf(c)]]
    /\ UNCHANGED <<request, attempt, store, ran, unrecorded>>

(* Mutants: the store is not looked at; only a recorded success is replayed. *)
LookupSkipped(c) ==
    /\ pc[c] = "lookup"
    /\ pc' = [pc EXCEPT ![c] = "attempt"]
    /\ UNCHANGED <<request, attempt, result, store, ran, unrecorded>>

LookupMissUnlessSuccess(c) ==
    /\ pc[c] = "lookup"
    /\ store[KeyOf(c)] # None => store[KeyOf(c)].status # "success"
    /\ pc' = [pc EXCEPT ![c] = "attempt"]
    /\ UNCHANGED <<request, attempt, result, store, ran, unrecorded>>

LookupMiss(c) ==
    /\ pc[c] = "lookup"
    /\ store[KeyOf(c)] = None
    /\ pc' = [pc EXCEPT ![c] = "attempt"]
    /\ UNCHANGED <<request, attempt, result, store, ran, unrecorded>>

HasAttempt(c) == pc[c] = "attempt" /\ attempt[c] <= request[c].max_attempts

(* should_fail(attempt) answered True: the tool is not called.               *)
TransientFailure(c) ==
    /\ HasAttempt(c)
    /\ request[c].should_fail
    /\ attempt' = [attempt EXCEPT ![c] = @ + 1]
    /\ UNCHANGED <<pc, request, result, store, ran, unrecorded>>

(* What the dispatched function may return: the real one, the effect on the  *)
(* ticket it targets; a stub, anything it was written to return.             *)
ToolReturns(command, ticket) ==
    IF command.tool_name \in Stubbed THEN StubReturns
    ELSE IF TargetsTicket(command, ticket) THEN {Apply(command, ticket)}
    ELSE {}

ToolMayRaise(command, ticket) ==
    command.tool_name \in Stubbed \/ ~TargetsTicket(command, ticket)

(* Mutant: whatever the tool returned is a success.                          *)
OutcomeUnchecked(r, after, n) ==
    [status |-> "success", ticket |-> after, verified |-> TRUE, attempt |-> n]

Outcome(r, after, n) ==
    LET verified == verify(r.command, r.ticket, after)
    IN  [status |-> IF verified THEN "success" ELSE "verification_failed",
         ticket |-> after, verified |-> verified, attempt |-> n]

(* Mutant: an unverified result is retried like a transient failure.         *)
RunToolRetries(c) ==
    /\ HasAttempt(c)
    /\ \E after \in ToolReturns(request[c].command, request[c].ticket) :
         LET outcome == Outcome(request[c], after, attempt[c])
         IN  IF outcome.verified
             THEN /\ result' = [result EXCEPT ![c] = outcome]
                  /\ pc' = [pc EXCEPT ![c] = "record"]
                  /\ UNCHANGED attempt
             ELSE /\ attempt' = [attempt EXCEPT ![c] = @ + 1]
                  /\ UNCHANGED <<pc, result>>
    /\ ran' = [ran EXCEPT ![KeyOf(c)] = @ + 1]
    /\ UNCHANGED <<request, store, unrecorded>>

(* The tool ran: its result is verified and is final for this call.          *)
RunTool(c) ==
    /\ HasAttempt(c)
    /\ \E after \in ToolReturns(request[c].command, request[c].ticket) :
         result' = [result EXCEPT ![c] = Outcome(request[c], after, attempt[c])]
    /\ pc' = [pc EXCEPT ![c] = "record"]
    /\ ran' = [ran EXCEPT ![KeyOf(c)] = @ + 1]
    /\ UNCHANGED <<request, attempt, store, unrecorded>>

(* An exception propagates: not retried, not recorded.  The tool function    *)
(* raised before it did anything; or a stub had done its work, and raised    *)
(* late or returned what model_validate does not accept as a Ticket.         *)
ToolRaises(c) ==
    /\ HasAttempt(c)
    /\ ToolMayRaise(request[c].command, request[c].ticket)
    /\ \/ UNCHANGED unrecorded
       \/ request[c].command.tool_name \in Stubbed /\ unrecorded' = unrecorded \cup {KeyOf(c)}
    /\ pc' = [pc EXCEPT ![c] = "raised"]
    /\ UNCHANGED <<request, attempt, result, store, ran>>

(* Mutants: only a success is recorded; nothing is.                          *)
RecordOnlySuccess(c) ==
    /\ pc[c] = "record"
    /\ store' = [store EXCEPT ![KeyOf(c)] = IF result[c].verified THEN result[c] ELSE @]
    /\ pc' = [pc EXCEPT ![c] = "returned"]
    /\ UNCHANGED <<request, attempt, result, ran, unrecorded>>

RecordNothing(c) ==
    /\ pc[c] = "record"
    /\ pc' = [pc EXCEPT ![c] = "returned"]
    /\ UNCHANGED <<request, attempt, result, store, ran, unrecorded>>

Record(c) ==
    /\ pc[c] = "record"
    /\ store' = [store EXCEPT ![KeyOf(c)] = result[c]]
    /\ pc' = [pc EXCEPT ![c] = "returned"]
    /\ UNCHANGED <<request, attempt, result, ran, unrecorded>>

(* Mutants: the FAILURE result is recorded too; it is never built; the loop  *)
(* starts over instead.                                                      *)
ExhaustRecorded(c) ==
    /\ pc[c] = "attempt"
    /\ attempt[c] > request[c].max_attempts
    /\ result' = [result EXCEPT ![c] =
          [status |-> "failure", ticket |-> None, verified |-> FALSE,
           attempt |-> request[c].max_attempts]]
    /\ pc' = [pc EXCEPT ![c] = "returned"]
    /\ store' = [store EXCEPT ![KeyOf(c)] = result'[c]]
    /\ UNCHANGED <<request, attempt, ran, unrecorded>>

ExhaustWithoutResult(c) ==
    /\ pc[c] = "attempt"
    /\ attempt[c] > request[c].max_attempts
    /\ pc' = [pc EXCEPT ![c] = "returned"]
    /\ UNCHANGED <<request, attempt, result, store, ran, unrecorded>>

ExhaustStartsOver(c) ==
    /\ pc[c] = "attempt"
    /\ attempt[c] > request[c].max_attempts
    /\ attempt' = [attempt EXCEPT ![c] = 1]
    /\ UNCHANGED <<pc, request, result, store, ran, unrecorded>>

(* Every attempt failed: a FAILURE result, which is not recorded.            *)
Exhaust(c) ==
    /\ pc[c] = "attempt"
    /\ attempt[c] > request[c].max_attempts
    /\ result' = [result EXCEPT ![c] =
          [status |-> "failure", ticket |-> None, verified |-> FALSE,
           attempt |-> request[c].max_attempts]]
    /\ pc' = [pc EXCEPT ![c] = "returned"]
    /\ UNCHANGED <<request, attempt, store, ran, unrecorded>>

(* The caller takes the result, or the exception; the locals of the call are *)
(* gone and it may call again.                                               *)
TakeResult(c) ==
    /\ pc[c] \in {"returned", "raised"}
    /\ pc' = [pc EXCEPT ![c] = "idle"]
    /\ request' = [request EXCEPT ![c] = None]
    /\ attempt' = [attempt EXCEPT ![c] = 0]
    /\ result' = [result EXCEPT ![c] = None]
    /\ UNCHANGED <<store, ran, unrecorded>>

Execute(c) ==
    \/ LookupHit(c) \/ LookupMiss(c)
    \/ TransientFailure(c) \/ RunTool(c) \/ ToolRaises(c)
    \/ Record(c) \/ Exhaust(c)

WrapperNext ==
    \E c \in Callers :
        \/ \E r \in Request : Call(c, r)
        \/ Execute(c)
        \/ TakeResult(c)

(* A thread inside execute() keeps running; nobody is obliged to call it.    *)
WrapperFairness == \A c \in Callers : WF_wrapperVars(Execute(c))

WrapperSpec == WrapperInit /\ [][WrapperNext]_wrapperVars /\ WrapperFairness

-----------------------------------------------------------------------------
(* Properties.                                                               *)

(* The effect of a command is applied at most once per key: a call repeated  *)
(* after success, after a verification failure, or after retries, never runs *)
(* the tool function again.  Only a run that ended in an exception is not    *)
(* remembered: RunsAreRemembered below.                                      *)
AtMostOnce == \A k \in Key : ran[k] <= 1

(* Calls that overlap may each miss the store before any of them records, so *)
(* the effect may be repeated, but at most once for each of them: after the  *)
(* first record no call, however often retried, adds another.                *)
RepeatsOnlyOverlap == \A k \in Key : ran[k] <= Cardinality(Callers)

(* Why: with one call at a time on a wrapper, nothing can run between the    *)
(* lookup that missed and the record.  So a caller in the loop knows that its*)
(* command was never applied, and one about to record that only it did.      *)
SerialExecution ==
    /\ \A c, d \in Callers :
          InFlight(c) /\ InFlight(d) /\ WrapperOf[c] = WrapperOf[d] => c = d
    /\ \A c \in Callers : pc[c] = "attempt" => ran[KeyOf(c)] = 0
    /\ \A c \in Callers : pc[c] = "record" =>
          ran[KeyOf(c)] = 1 /\ store[KeyOf(c)] = None

(* Every run of a tool that returned a ticket is accounted for: it has an    *)
(* entry in the store or a caller that is about to write it, so no path out  *)
(* of the loop loses such an effect, and none records one that did not take  *)
(* place.  An effect is lost only to an exception of a stub.                 *)
Recording(c, k) == pc[c] = "record" /\ KeyOf(c) = k

EffectsAccountedFor ==
    \A k \in Key :
        /\ (ran[k] > 0) <=> (store[k] # None \/ \E c \in Callers : Recording(c, k))
        /\ k \in unrecorded => k[2].tool_name \in Stubbed

(* An outcome, once recorded, is never replaced or forgotten.                *)
RecordedIsFinal ==
    [][\A k \in Key : store[k] # None => store'[k] = store[k]]_wrapperVars

(* A call that answers FAILURE leaves nothing behind: no run of the tool has *)
(* returned and no entry is written, so the caller may safely try again.     *)
FailureAppliedNothing ==
    [][\A c \in Callers :
        (InFlight(c) /\ pc'[c] = "returned" /\ result'[c].status = "failure")
            => ran'[KeyOf(c)] = 0 /\ store'[KeyOf(c)] = None]_wrapperVars

(* Every call that enters the loop comes back, with a result or an exception,*)
(* whatever should_fail answers and whoever else uses the store.             *)
CallsReturn ==
    \A c \in Callers : InFlight(c) ~> pc[c] \in {"returned", "raised"}

(* What a command promises of the ticket after it, told without the helpers  *)
(* that the tool functions and their verification share.                     *)
Shows(command, before, after) ==
    /\ after.id = before.id
    /\ command.tool_name = "update_ticket_status" => after.status = command.args.new_status
    /\ command.tool_name = "issue_refund" =>
          \/ before.refund_eligible_amount = None /\ after.refund_eligible_amount = None
          \/ /\ before.refund_eligible_amount # None
             /\ before.refund_eligible_amount >= command.args.amount
             /\ after.refund_eligible_amount = before.refund_eligible_amount - command.args.amount
          \/ /\ before.refund_eligible_amount # None
             /\ before.refund_eligible_amount < command.args.amount
             /\ after.refund_eligible_amount = 0
    /\ command.tool_name = "add_ticket_note" =>
          \E i \in DOMAIN after.notes : after.notes[i] = command.args.note

(* A success was observed on a run of the tool for this very command: the    *)
(* ticket it carries is what the command makes of the ticket of this call if *)
(* the tool has just run, and of some ticket with that id if it is a replay, *)
(* whatever a stub returned and whatever the later caller's copy says.       *)
AnswersShowTheEffect ==
    \A c \in Callers :
        /\ (pc[c] = "record" /\ result[c].status = "success") =>
              Shows(request[c].command, request[c].ticket, result[c].ticket)
        /\ (pc[c] = "returned" /\ result[c].status = "success") =>
              \E before \in Tickets :
                 /\ before.id = request[c].ticket.id
                 /\ Shows(request[c].command, before, result[c].ticket)

-----------------------------------------------------------------------------
(* The abstract executor this one implements when the calls on a wrapper do  *)
(* not overlap.  An effect counts from the moment the tool ran, although it  *)
(* enters the store one step later.                                          *)
PendingOutcome(k) ==
    LET writers == {c \in Callers : Recording(c, k)}
    IN  IF writers = {} THEN None ELSE result[CHOOSE c \in writers : TRUE]

Executor == INSTANCE IdempotentExecutor WITH
    Keys <- Key,
    Outcomes <- AppliedResult,
    Failures <- FailureResult,
    asking <- [c \in Callers |-> IF InFlight(c) THEN KeyOf(c) ELSE None],
    outcome <- [k \in Key |-> IF store[k] # None THEN store[k] ELSE PendingOutcome(k)],
    answer <- [c \in Callers |-> IF pc[c] = "returned" THEN result[c] ELSE None]

(* The wrapper behaves as the abstract executor: one outcome per key, every  *)
(* answer is that outcome, and a failure or an exception only while there is *)
(* none.                                                                     *)
ImplementsExecutor == Executor!Spec

-----------------------------------------------------------------------------
(* Claims of the repository's texts that the code does not keep.             *)

(* executor.py:81-83: the store records the commands "the underlying tool    *)
(* function has already run for".                                            *)
RunsAreRemembered ==
    \A k \in Key : ran[k] > 0 \/ k \in unrecorded =>
        store[k] # None \/ \E c \in Callers : Recording(c, k)

(* executor.py:63-65: a Decimal amount "participates in the hash by value".  *)
(* Then two commands that differ only in how the amount is written would be  *)
(* one command, applied once.                                                *)
SameByValue(c, d) ==
    /\ c.tool_name = d.tool_name
    /\ c.tool_name = "issue_refund" => [c.args EXCEPT !.digits = d.args.digits] = d.args
    /\ c.tool_name # "issue_refund" => c.args = d.args

EqualAmountsHashAlike ==
    \A j, k \in Key :
        (j[1] = k[1] /\ j[3] = k[3] /\ SameByValue(j[2], k[2]) /\ ran[j] > 0 /\ ran[k] > 0) => j = k
=============================================================================
