------------------------------ MODULE TicketDesk ------------------------------
(* Tickets live with the client: a task carries a copy of the ticket and its *)
(* execution result carries the ticket as it is afterwards.  The desk keeps  *)
(* one ticket, submits it with one task after the other and files the ticket *)
(* that a completed task returns.  It may also give up waiting for a task (a *)
(* timeout, a lost response, a second clerk) and submit the copy it has; the *)
(* task it no longer waits for goes on.  The desk is outside the repository: *)
(* it uses runs of AgentGraph as their fields intend.                        *)
EXTENDS AgentGraph

CONSTANTS
    Timeouts,       \* may the desk give up waiting?
    FirstTicket     \* the ticket the desk starts with

ASSUME DeskAssumption ==
    /\ Timeouts \in BOOLEAN
    /\ FirstTicket \in Tickets
    /\ FirstTicket.refund_eligible_amount \in Int
    /\ None \notin Callers

(* The desk can submit whatever ticket a tool made of one it submitted.      *)
ASSUME TicketsClosed ==
    /\ StubReturns \subseteq Tickets
    /\ \A command \in Commands, ticket \in Tickets :
          TargetsTicket(command, ticket) => Apply(command, ticket) \in Tickets

VARIABLES
    filed,      \* the ticket as the desk has it
    awaiting,   \* the run whose answer the desk waits for, or None
    paid,       \* history: the refunds that the tool function has paid out
    applied,    \* history: the runs whose tool function ran
    met         \* history: the pairs of runs that were inside execute() on one
                \* wrapper at the same time

deskVars == <<vars, filed, awaiting, paid, applied, met>>

DeskInit ==
    /\ Init
    /\ filed = FirstTicket
    /\ awaiting = None
    /\ paid = 0
    /\ applied = {}
    /\ met = {}

Submit(r) ==
    /\ awaiting = None
    /\ Invoke(r, filed)
    /\ awaiting' = r
    /\ UNCHANGED <<filed, paid, applied, met>>

(* What a run pays out when the tool function is applied for it.             *)
Payment(r) ==
    IF request[r].command.tool_name = "issue_refund" THEN request[r].command.args.amount ELSE 0

Meets(r) ==
    {{q, r} : q \in {q \in Callers \ {r} :
                        WrapperOf[q] = WrapperOf[r] /\ InFlight(q) /\ InFlight(r)'}}

Work(r) ==
    /\ Step(r)
    /\ paid' = IF ran' # ran THEN paid + Payment(r) ELSE paid
    /\ applied' = IF ran' # ran THEN applied \cup {r} ELSE applied
    /\ met' = met \cup Meets(r)
    /\ UNCHANGED <<filed, awaiting>>

Collect(r) ==
    /\ awaiting = r
    /\ node[r] \in {"end", "raised"}
    /\ filed' = IF node[r] = "end" /\ state[r].run_status = "completed"
                THEN state[r].execution_result.ticket ELSE filed
    /\ awaiting' = None
    /\ UNCHANGED <<vars, paid, applied, met>>

GiveUp(r) ==
    /\ Timeouts
    /\ awaiting = r
    /\ awaiting' = None
    /\ UNCHANGED <<vars, filed, paid, applied, met>>

DeskNext == \E r \in Callers : Submit(r) \/ Work(r) \/ Collect(r) \/ GiveUp(r)

(* A run that was started goes on, and the desk takes the answer it gets.    *)
DeskFairness == \A r \in Callers : WF_deskVars(Work(r)) /\ WF_deskVars(Collect(r))

DeskSpec == DeskInit /\ [][DeskNext]_deskVars /\ DeskFairness

-----------------------------------------------------------------------------
(* Properties.                                                               *)

(* The refunds paid out on a ticket, by however many runs, never exceed the  *)
(* amount it was eligible for when the desk got it, nor does the balance on  *)
(* file forget one.                                                          *)
PaidWithinEligibility == paid = 0 \/ paid <= FirstTicket.refund_eligible_amount

FiledBalanceIsExact ==
    awaiting = None =>
        filed.refund_eligible_amount = FirstTicket.refund_eligible_amount - paid

(* One order is paid twice on one wrapper only by runs that were inside      *)
(* execute() at the same time: executor.py has no lock between the lookup and*)
(* the record, so a repeat that follows a timeout can pay again while the    *)
(* first call is still in flight; one that comes in later never does,        *)
(* whatever became of the first.                                             *)
DoublePaymentsOverlap ==
    \A q, r \in applied :
        (q # r /\ KeyOfRun(q) = KeyOfRun(r)) => {q, r} \in met

(* A desk that repeats one order on one wrapper until it is answered pays it *)
(* within the eligible amount, and once an answer is filed the balance on    *)
(* file is exact, as long as no two of its runs met in execute().            *)
RepeatedOrderIsExact ==
    met = {} =>
        /\ PaidWithinEligibility
        /\ filed # FirstTicket =>
              filed.refund_eligible_amount = FirstTicket.refund_eligible_amount - paid

(* A ticket the desk has seen closed is never seen in another status again.  *)
ClosedStaysClosed ==
    [][filed.status = "closed" => filed'.status = "closed"]_deskVars

(* The desk never waits for ever.                                            *)
DeskIsAnswered == \A r \in Callers : awaiting = r ~> awaiting # r

(* The execution result of the run in progress, and the balance that is left *)
(* once its tool has paid: that of the ticket the desk will file.            *)
ResultOf(r) == IF result[r] # None THEN result[r] ELSE state[r].execution_result

LeftOver ==
    IF awaiting # None /\ ResultOf(awaiting) # None /\ ResultOf(awaiting).status = "success"
    THEN ResultOf(awaiting).ticket.refund_eligible_amount
    ELSE filed.refund_eligible_amount

Account == INSTANCE RefundAccount WITH refund_eligible_amount <- LeftOver

(* Runs with a wrapper each, one at a time, are refunds from one account.    *)
ImplementsRefundAccount == Account!RefundsAreCovered
=============================================================================
