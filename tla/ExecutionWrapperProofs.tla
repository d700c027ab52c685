------------------------ MODULE ExecutionWrapperProofs ------------------------
(* Proofs about ExecutionWrapper, for every set of callers, wrappers,        *)
(* commands and tickets and every number of attempts.                        *)
EXTENDS ExecutionWrapper, FiniteSetTheorems, TLAPS

(* A tool function applied to the ticket its command names returns a ticket, *)
(* and the same one.                                                         *)
LEMMA ApplyKeepsTheTicket ==
    ASSUME NEW command \in AuthorizedCommand, NEW ticket \in Ticket
    PROVE  Apply(command, ticket) \in Ticket /\ Apply(command, ticket).id = ticket.id
<1>1. CASE command \in UpdateTicketStatusCommand
  BY <1>1 DEF Apply, update_ticket_status, UpdateTicketStatusCommand, UpdateTicketStatusArgs, Ticket
<1>2. CASE command \in IssueRefundCommand
  <2>1. RemainingEligible(command, ticket) \in Int \cup {None}
    BY <1>2 DEF RemainingEligible, FloorAtZero, IssueRefundCommand, IssueRefundArgs, Ticket
  <2>2. Apply(command, ticket) = issue_refund(command, ticket)
    BY <1>2 DEF Apply, IssueRefundCommand
  <2>. QED  BY <2>1, <2>2 DEF issue_refund, Ticket
<1>3. CASE command \in AddTicketNoteCommand
  <2>1. Append(ticket.notes, command.args.note) \in Seq(NoteTexts)
    BY <1>3 DEF AddTicketNoteCommand, AddTicketNoteArgs, Ticket
  <2>2. Apply(command, ticket) = add_ticket_note(command, ticket)
    BY <1>3 DEF Apply, AddTicketNoteCommand
  <2>. QED  BY <2>1, <2>2 DEF add_ticket_note, Ticket
<1>. QED  BY <1>1, <1>2, <1>3 DEF AuthorizedCommand

(* Whatever the dispatched function returns, the outcome built from it is    *)
(* that of a tool that ran, never a FAILURE.                                 *)
LEMMA OutcomeType ==
    ASSUME NEW r \in Request, NEW after \in ToolReturns(r.command, r.ticket), NEW n \in Int
    PROVE  Outcome(r, after, n) \in AppliedResult
<1>1. after \in Ticket
  <2>1. r.command \in AuthorizedCommand /\ r.ticket \in Ticket /\ StubReturns \subseteq Ticket
    BY WrapperAssumption DEF Request
  <2>2. Apply(r.command, r.ticket) \in Ticket
    BY <2>1, ApplyKeepsTheTicket
  <2>. QED  BY <2>1, <2>2 DEF ToolReturns
<1>. DEFINE v == verify(r.command, r.ticket, after)
<1>0. v \in BOOLEAN
  BY DEF verify
<1>. HIDE DEF v
<1>2. CASE v = TRUE
  <2>1. Outcome(r, after, n) =
          [status |-> "success", ticket |-> after, verified |-> TRUE, attempt |-> n]
    BY <1>2 DEF Outcome, v
  <2>. QED  BY <1>1, <2>1 DEF AppliedResult
<1>3. CASE v = FALSE
  <2>1. Outcome(r, after, n) =
          [status |-> "verification_failed", ticket |-> after, verified |-> FALSE, attempt |-> n]
    BY <1>3 DEF Outcome, v
  <2>. QED  BY <1>1, <2>1 DEF AppliedResult
<1>. QED  BY <1>0, <1>2, <1>3

(* A caller inside execute() works on a key of the store.                    *)
LEMMA KeyType ==
    ASSUME NEW c \in Callers, request[c] \in Request
    PROVE  KeyOf(c) \in Key
<1>1. request[c].command \in Commands /\ request[c].ticket.id \in TicketIds
  BY WrapperAssumption DEF Request, Ticket
<1>2. WrapperOf[c] \in Wrappers
  BY WrapperAssumption
<1>. QED  BY <1>1, <1>2 DEF Key, KeyOf

-----------------------------------------------------------------------------
(* Every variable keeps its type: results come from the loop only, and no    *)
(* call is in progress without its arguments.                                *)
LEMMA InitType == WrapperInit => TypeOK
  BY NoneIsNoResult DEF WrapperInit, TypeOK

(* Every step of execute() keeps the types.                                  *)
LEMMA NextType == TypeOK /\ [WrapperNext]_wrapperVars => TypeOK'
<1>. SUFFICES ASSUME TypeOK, [WrapperNext]_wrapperVars PROVE TypeOK'
  OBVIOUS
<1>1. ASSUME NEW c \in Callers, NEW r \in Request, Call(c, r) PROVE TypeOK'
  BY <1>1 DEF TypeOK, Call
<1>2. ASSUME NEW c \in Callers, LookupHit(c) PROVE TypeOK'
  <2>1. KeyOf(c) \in Key
    BY <1>2, KeyType DEF TypeOK, LookupHit
  <2>2. store[KeyOf(c)] \in AppliedResult
    BY <1>2, <2>1 DEF TypeOK, LookupHit
  <2>. QED  BY <1>2, <2>2 DEF TypeOK, LookupHit, ExecutionResult
<1>3. ASSUME NEW c \in Callers, LookupMiss(c) PROVE TypeOK'
  BY <1>3 DEF TypeOK, LookupMiss
<1>4. ASSUME NEW c \in Callers, TransientFailure(c) PROVE TypeOK'
  BY <1>4 DEF TypeOK, TransientFailure, HasAttempt
<1>5. ASSUME NEW c \in Callers, RunTool(c) PROVE TypeOK'
  <2>1. request[c] \in Request /\ KeyOf(c) \in Key
    BY <1>5, KeyType DEF TypeOK, RunTool, HasAttempt
  <2>2. PICK after \in ToolReturns(request[c].command, request[c].ticket) :
          result' = [result EXCEPT ![c] = Outcome(request[c], after, attempt[c])]
    BY <1>5 DEF RunTool
  <2>3. Outcome(request[c], after, attempt[c]) \in AppliedResult
    BY <2>1, OutcomeType DEF TypeOK
  <2>4. /\ result' \in [Callers -> ExecutionResult \cup {None}]
        /\ result'[c] \in AppliedResult
        /\ \A d \in Callers : d # c => result'[d] = result[d]
    BY <2>2, <2>3 DEF TypeOK, ExecutionResult
  <2>5. ran' \in [Key -> Nat]
    BY <1>5, <2>1 DEF TypeOK, RunTool
  <2>. QED  BY <1>5, <2>4, <2>5 DEF TypeOK, RunTool, HasAttempt
<1>6. ASSUME NEW c \in Callers, ToolRaises(c) PROVE TypeOK'
  <2>1. KeyOf(c) \in Key
    BY <1>6, KeyType DEF TypeOK, ToolRaises, HasAttempt
  <2>2. unrecorded' \subseteq Key
    BY <1>6, <2>1 DEF TypeOK, ToolRaises
  <2>. QED  BY <1>6, <2>2 DEF TypeOK, ToolRaises, HasAttempt
<1>7. ASSUME NEW c \in Callers, Record(c) PROVE TypeOK'
  <2>1. store' \in [Key -> AppliedResult \cup {None}]
    BY <1>7 DEF TypeOK, Record
  <2>. QED  BY <1>7, <2>1 DEF TypeOK, Record, ExecutionResult
<1>8. ASSUME NEW c \in Callers, Exhaust(c) PROVE TypeOK'
  <2>1. request[c] \in Request
    BY <1>8 DEF TypeOK, Exhaust
  <2>2. request[c].max_attempts \in Int
    BY <2>1, WrapperAssumption DEF Request
  <2>3. [status |-> "failure", ticket |-> None, verified |-> FALSE,
         attempt |-> request[c].max_attempts] \in ExecutionResult
    BY <2>2 DEF ExecutionResult, FailureResult
  <2>. QED  BY <1>8, <2>3 DEF TypeOK, Exhaust
<1>9. ASSUME NEW c \in Callers, TakeResult(c) PROVE TypeOK'
  BY <1>9 DEF TypeOK, TakeResult
<1>10. CASE UNCHANGED wrapperVars
  BY <1>10 DEF TypeOK, wrapperVars
<1>. QED
  BY <1>1, <1>2, <1>3, <1>4, <1>5, <1>6, <1>7, <1>8, <1>9, <1>10 DEF WrapperNext, Execute

(* The store only ever holds outcomes of tools that ran, and a call that     *)
(* returns has a result.                                                     *)
THEOREM WrapperTypeCorrect == WrapperSpec => []TypeOK
  BY InitType, NextType, PTL DEF WrapperSpec

-----------------------------------------------------------------------------
(* Effects are accounted for, whether or not calls overlap.                  *)
LEMMA InitAccounting == WrapperInit => EffectsAccountedFor
  BY DEF WrapperInit, EffectsAccountedFor, Recording

(* A step that leaves the store, the history and the callers about to record *)
(* as they are keeps the accounts.                                           *)
LEMMA QuietStep ==
    ASSUME EffectsAccountedFor,
           store' = store, ran' = ran,
           \A k \in unrecorded' : k \in unrecorded \/ k[2].tool_name \in Stubbed,
           \A d \in Callers :
             /\ pc'[d] = "record" <=> pc[d] = "record"
             /\ pc[d] = "record" => request'[d] = request[d]
    PROVE  EffectsAccountedFor'
<1>1. \A d \in Callers, k \in Key : Recording(d, k)' <=> Recording(d, k)
  BY DEF Recording, KeyOf
<1>. QED  BY <1>1 DEF EffectsAccountedFor

(* A tool run opens an account that only its Record closes.                  *)
LEMMA NextAccounting ==
    TypeOK /\ EffectsAccountedFor /\ [WrapperNext]_wrapperVars => EffectsAccountedFor'
<1>. SUFFICES ASSUME TypeOK, EffectsAccountedFor, [WrapperNext]_wrapperVars PROVE EffectsAccountedFor'
  OBVIOUS
<1>1. ASSUME NEW c \in Callers, NEW r \in Request, Call(c, r) PROVE EffectsAccountedFor'
  BY <1>1, QuietStep DEF TypeOK, Call
<1>2. ASSUME NEW c \in Callers, LookupHit(c) PROVE EffectsAccountedFor'
  BY <1>2, QuietStep DEF TypeOK, LookupHit
<1>3. ASSUME NEW c \in Callers, LookupMiss(c) PROVE EffectsAccountedFor'
  BY <1>3, QuietStep DEF TypeOK, LookupMiss
<1>4. ASSUME NEW c \in Callers, TransientFailure(c) PROVE EffectsAccountedFor'
  BY <1>4, QuietStep DEF TypeOK, TransientFailure, HasAttempt
<1>5. ASSUME NEW c \in Callers, RunTool(c) PROVE EffectsAccountedFor'
  <2>1. request[c] \in Request /\ KeyOf(c) \in Key
    BY <1>5, KeyType DEF TypeOK, RunTool, HasAttempt
  <2>5. ASSUME NEW k \in Key, k # KeyOf(c)
        PROVE  /\ ran'[k] = ran[k]
               /\ \A d \in Callers : Recording(d, k)' <=> Recording(d, k)
    BY <1>5, <2>5 DEF TypeOK, RunTool, HasAttempt, Recording, KeyOf
  <2>6. ASSUME NEW k \in Key, k = KeyOf(c) PROVE ran'[k] > 0 /\ Recording(c, k)'
    BY <1>5, <2>6 DEF TypeOK, RunTool, HasAttempt, Recording, KeyOf
  <2>7. store' = store /\ unrecorded' = unrecorded
    BY <1>5 DEF RunTool
  <2>. QED  BY <2>5, <2>6, <2>7 DEF EffectsAccountedFor
<1>6. ASSUME NEW c \in Callers, ToolRaises(c) PROVE EffectsAccountedFor'
  <2>1. \A k \in unrecorded' : k \in unrecorded \/ k[2].tool_name \in Stubbed
    BY <1>6 DEF ToolRaises, KeyOf
  <2>. QED  BY <1>6, <2>1, QuietStep DEF TypeOK, ToolRaises, HasAttempt
<1>7. ASSUME NEW c \in Callers, Record(c) PROVE EffectsAccountedFor'
  <2>1. KeyOf(c) \in Key
    BY <1>7, KeyType DEF TypeOK, Record
  <2>2. result[c] # None
    BY <1>7, NoneIsNoResult DEF Record, TypeOK, ExecutionResult
  <2>4. ASSUME NEW k \in Key, k # KeyOf(c)
        PROVE  /\ store'[k] = store[k]
               /\ \A d \in Callers : Recording(d, k)' <=> Recording(d, k)
    BY <1>7, <2>4 DEF TypeOK, Record, Recording, KeyOf
  <2>5. ran[KeyOf(c)] > 0
    BY <1>7, <2>1 DEF EffectsAccountedFor, Recording, Record
  <2>6. store'[KeyOf(c)] # None /\ ran' = ran /\ unrecorded' = unrecorded
    BY <1>7, <2>1, <2>2 DEF TypeOK, Record
  <2>. QED  BY <2>4, <2>5, <2>6 DEF EffectsAccountedFor
<1>8. ASSUME NEW c \in Callers, Exhaust(c) PROVE EffectsAccountedFor'
  BY <1>8, QuietStep DEF TypeOK, Exhaust
<1>9. ASSUME NEW c \in Callers, TakeResult(c) PROVE EffectsAccountedFor'
  BY <1>9, QuietStep DEF TypeOK, TakeResult
<1>10. CASE UNCHANGED wrapperVars
  BY <1>10, QuietStep DEF wrapperVars
<1>. QED
  BY <1>1, <1>2, <1>3, <1>4, <1>5, <1>6, <1>7, <1>8, <1>9, <1>10 DEF WrapperNext, Execute

(* No effect is lost and none is invented: what ran is recorded or about to  *)
(* be, even when calls on a wrapper overlap.                                 *)
THEOREM EffectsAreAccountedFor == WrapperSpec => []EffectsAccountedFor
<1>1. TypeOK /\ EffectsAccountedFor /\ [WrapperNext]_wrapperVars => (TypeOK /\ EffectsAccountedFor)'
  BY NextType, NextAccounting
<1>. QED  BY InitType, InitAccounting, <1>1, PTL DEF WrapperSpec

-----------------------------------------------------------------------------
(* One run per key when the calls on a wrapper do not overlap: nobody starts *)
(* one while another is in progress, or every caller has a wrapper to itself.*)
OwnWrappers == \A c, d \in Callers : WrapperOf[c] = WrapperOf[d] => c = d

OneCallPerWrapper == ~Overlap \/ OwnWrappers

Serial == SerialExecution /\ AtMostOnce

(* Nothing has run, and nobody is inside execute().                          *)
LEMMA InitSerial == WrapperInit => Serial
  BY DEF WrapperInit, Serial, SerialExecution, AtMostOnce, InFlight

(* A step in which no caller enters execute() or moves ahead in it.          *)
LEMMA QuietSerialStep ==
    ASSUME Serial,
           store' = store, ran' = ran,
           \A d \in Callers :
             /\ InFlight(d)' => InFlight(d) /\ request'[d] = request[d]
             /\ pc'[d] = "attempt" => pc[d] = "attempt"
             /\ pc'[d] = "record" => pc[d] = "record"
    PROVE  Serial'
<1>1. \A d \in Callers : pc'[d] \in {"attempt", "record"} => KeyOf(d)' = KeyOf(d)
  BY DEF KeyOf, InFlight
<1>2. SerialExecution'
  BY <1>1 DEF Serial, SerialExecution
<1>. QED  BY <1>2 DEF Serial, AtMostOnce

(* No two calls are inside execute() on one wrapper.                         *)
Alone ==
    \A c, d \in Callers :
        InFlight(c) /\ InFlight(d) /\ WrapperOf[c] = WrapperOf[d] => c = d

(* A step after which no two calls are inside runs no command twice.         *)
LEMMA NextAlone ==
    TypeOK /\ EffectsAccountedFor /\ Serial /\ [WrapperNext]_wrapperVars /\ Alone' => Serial'
<1>. SUFFICES ASSUME TypeOK, EffectsAccountedFor, Serial, [WrapperNext]_wrapperVars, Alone'
              PROVE  Serial'
  OBVIOUS
<1>1. ASSUME NEW c \in Callers, NEW r \in Request, Call(c, r) PROVE Serial'
  <2>1. \A d \in Callers \ {c} : pc'[d] = pc[d] /\ request'[d] = request[d]
    BY <1>1 DEF TypeOK, Call
  <2>2. pc'[c] \in {"lookup", "raised"}
    BY <1>1 DEF TypeOK, Call
  <2>4. \A d, e \in Callers :
          InFlight(d)' /\ InFlight(e)' /\ WrapperOf[d] = WrapperOf[e] => d = e
    BY DEF Alone
  <2>5. store' = store /\ ran' = ran
    BY <1>1 DEF Call
  <2>6. \A d \in Callers : pc'[d] \in {"attempt", "record"} => pc[d] = pc'[d] /\ KeyOf(d)' = KeyOf(d)
    BY <2>1, <2>2 DEF KeyOf
  <2>. QED  BY <2>4, <2>5, <2>6 DEF Serial, SerialExecution, AtMostOnce
<1>2. ASSUME NEW c \in Callers, LookupHit(c) PROVE Serial'
  BY <1>2, QuietSerialStep DEF TypeOK, LookupHit, InFlight
<1>3. ASSUME NEW c \in Callers, LookupMiss(c) PROVE Serial'
  <2>1. KeyOf(c) \in Key
    BY <1>3, KeyType DEF TypeOK, LookupMiss
  <2>2. ASSUME NEW d \in Callers PROVE ~Recording(d, KeyOf(c))
    <3>1. SUFFICES ASSUME pc[d] = "record", KeyOf(d) = KeyOf(c) PROVE FALSE
      BY DEF Recording
    <3>2. WrapperOf[d] = WrapperOf[c] /\ InFlight(d) /\ InFlight(c)
      BY <1>3, <3>1 DEF KeyOf, InFlight, LookupMiss
    <3>3. d = c
      BY <3>2 DEF Serial, SerialExecution
    <3>. QED  BY <1>3, <3>1, <3>3 DEF LookupMiss
  <2>3. ran[KeyOf(c)] = 0
    BY <1>3, <2>1, <2>2 DEF LookupMiss, EffectsAccountedFor, TypeOK
  <2>4. \A d \in Callers : KeyOf(d)' = KeyOf(d) /\ (InFlight(d)' => InFlight(d))
    BY <1>3 DEF LookupMiss, KeyOf, InFlight, TypeOK
  <2>5. \A d \in Callers : d # c => pc'[d] = pc[d]
    BY <1>3 DEF TypeOK, LookupMiss
  <2>6. pc'[c] = "attempt" /\ store' = store /\ ran' = ran
    BY <1>3 DEF TypeOK, LookupMiss
  <2>. QED  BY <2>3, <2>4, <2>5, <2>6 DEF Serial, SerialExecution, AtMostOnce
<1>4. ASSUME NEW c \in Callers, TransientFailure(c) PROVE Serial'
  BY <1>4, QuietSerialStep DEF TypeOK, TransientFailure, HasAttempt, InFlight
<1>5. ASSUME NEW c \in Callers, RunTool(c) PROVE Serial'
  <2>1. KeyOf(c) \in Key
    BY <1>5, KeyType DEF TypeOK, RunTool, HasAttempt
  <2>2. pc[c] = "attempt" /\ ran[KeyOf(c)] = 0
    BY <1>5 DEF RunTool, HasAttempt, Serial, SerialExecution
  <2>3. store[KeyOf(c)] = None
    BY <2>1, <2>2 DEF EffectsAccountedFor
  <2>4. ran' = [ran EXCEPT ![KeyOf(c)] = 1] /\ store' = store /\ request' = request
    BY <1>5, <2>1, <2>2 DEF RunTool, TypeOK
  <2>5. pc' = [pc EXCEPT ![c] = "record"]
    BY <1>5 DEF RunTool
  <2>6. \A d \in Callers : KeyOf(d)' = KeyOf(d)
    BY <2>4 DEF KeyOf
  <2>7. \A d \in Callers : InFlight(d)' <=> InFlight(d)
    BY <2>2, <2>5 DEF InFlight, TypeOK
  <2>8. ASSUME NEW d \in Callers, d # c, pc[d] \in {"attempt", "record"}
        PROVE  pc'[d] = pc[d] /\ ran'[KeyOf(d)] = ran[KeyOf(d)]
    <3>1. WrapperOf[d] # WrapperOf[c]
      BY <2>2, <2>8 DEF Serial, SerialExecution, InFlight
    <3>2. KeyOf(d) # KeyOf(c)
      BY <3>1 DEF KeyOf
    <3>3. KeyOf(d) \in Key
      BY <2>8, KeyType DEF TypeOK
    <3>. QED  BY <2>4, <2>5, <2>8, <3>2, <3>3 DEF TypeOK
  <2>9. SerialExecution'
    <3>1. ran'[KeyOf(c)] = 1 /\ pc'[c] = "record"
      BY <2>1, <2>4, <2>5 DEF TypeOK
    <3>2. \A d \in Callers : d # c => pc'[d] = pc[d]
      BY <2>5 DEF TypeOK
    <3>. QED  BY <2>3, <2>4, <2>6, <2>7, <2>8, <3>1, <3>2 DEF Serial, SerialExecution
  <2>10. AtMostOnce'
    BY <2>4 DEF Serial, AtMostOnce, TypeOK
  <2>. QED  BY <2>9, <2>10 DEF Serial
<1>6. ASSUME NEW c \in Callers, ToolRaises(c) PROVE Serial'
  BY <1>6, QuietSerialStep DEF TypeOK, ToolRaises, HasAttempt, InFlight
<1>7. ASSUME NEW c \in Callers, Record(c) PROVE Serial'
  <2>1. KeyOf(c) \in Key
    BY <1>7, KeyType DEF TypeOK, Record
  <2>2. ran' = ran /\ request' = request /\ store' = [store EXCEPT ![KeyOf(c)] = result[c]]
    BY <1>7 DEF Record
  <2>3. pc' = [pc EXCEPT ![c] = "returned"]
    BY <1>7 DEF Record
  <2>4. \A d \in Callers : KeyOf(d)' = KeyOf(d) /\ (InFlight(d)' => InFlight(d) /\ d # c)
    BY <2>2, <2>3 DEF KeyOf, InFlight, TypeOK
  <2>5. ASSUME NEW d \in Callers, pc'[d] = "record"
        PROVE  ran'[KeyOf(d)] = 1 /\ store'[KeyOf(d)] = None
    <3>1. d # c /\ pc[d] = "record"
      BY <2>3, <2>5 DEF TypeOK
    <3>2. WrapperOf[d] # WrapperOf[c]
      BY <1>7, <3>1 DEF Serial, SerialExecution, InFlight, Record
    <3>3. KeyOf(d) # KeyOf(c) /\ KeyOf(d) \in Key
      BY <3>1, <3>2, KeyType DEF KeyOf, TypeOK
    <3>. QED  BY <2>2, <3>1, <3>3 DEF Serial, SerialExecution, TypeOK
  <2>6. \A d \in Callers : pc'[d] = "attempt" => pc[d] = "attempt"
    BY <2>3 DEF TypeOK
  <2>. QED  BY <2>2, <2>4, <2>5, <2>6 DEF Serial, SerialExecution, AtMostOnce
<1>8. ASSUME NEW c \in Callers, Exhaust(c) PROVE Serial'
  BY <1>8, QuietSerialStep DEF TypeOK, Exhaust, InFlight
<1>9. ASSUME NEW c \in Callers, TakeResult(c) PROVE Serial'
  BY <1>9, QuietSerialStep DEF TypeOK, TakeResult, InFlight
<1>10. CASE UNCHANGED wrapperVars
  BY <1>10, QuietSerialStep DEF wrapperVars, InFlight
<1>. QED
  BY <1>1, <1>2, <1>3, <1>4, <1>5, <1>6, <1>7, <1>8, <1>9, <1>10 DEF WrapperNext, Execute

(* Only a call that begins puts one more caller inside, and it does not begin*)
(* while another is there.                                                   *)
LEMMA StaysAlone ==
    ASSUME OneCallPerWrapper, TypeOK, Alone, [WrapperNext]_wrapperVars
    PROVE  Alone'
<1>1. ASSUME NEW c \in Callers, NEW r \in Request, Call(c, r) PROVE Alone'
  <2>1. \A d \in Callers \ {c} : pc'[d] = pc[d]
    BY <1>1 DEF TypeOK, Call
  <2>2. \A d \in Callers : WrapperOf[d] = WrapperOf[c] => ~InFlight(d)
    BY <1>1 DEF Call, OneCallPerWrapper, OwnWrappers, InFlight
  <2>. QED  BY <2>1, <2>2 DEF Alone, InFlight
<1>2. ASSUME NEW c \in Callers, Execute(c) \/ TakeResult(c) PROVE Alone'
  <2>1. \A d \in Callers : InFlight(d)' => InFlight(d)
    BY <1>2 DEF TypeOK, Execute, LookupHit, LookupMiss, TransientFailure, RunTool, ToolRaises,
       Record, Exhaust, TakeResult, HasAttempt, InFlight
  <2>. QED  BY <2>1 DEF Alone
<1>3. CASE UNCHANGED wrapperVars
  BY <1>3 DEF Alone, InFlight, wrapperVars
<1>. QED  BY <1>1, <1>2, <1>3 DEF WrapperNext

(* Without overlap no step lets a second caller in, or a second run happen.  *)
LEMMA NextSerial ==
    ASSUME OneCallPerWrapper
    PROVE  TypeOK /\ EffectsAccountedFor /\ Serial /\ [WrapperNext]_wrapperVars => Serial'
<1>1. Serial => Alone
  BY DEF Serial, SerialExecution, Alone
<1>. QED  BY <1>1, StaysAlone, NextAlone

(* The invariant the theorems on calls that do not overlap rest on.          *)
LEMMA InductiveSerial ==
    ASSUME OneCallPerWrapper
    PROVE  WrapperSpec => [](TypeOK /\ EffectsAccountedFor /\ Serial)
<1>1. TypeOK /\ EffectsAccountedFor /\ Serial /\ [WrapperNext]_wrapperVars
        => (TypeOK /\ EffectsAccountedFor /\ Serial)'
  BY NextType, NextAccounting, NextSerial
<1>. QED  BY InitType, InitAccounting, InitSerial, <1>1, PTL DEF WrapperSpec

(* The effect of a command is applied at most once per key, however often    *)
(* the command is executed, as long as calls on one wrapper do not overlap.  *)
THEOREM EffectsHappenAtMostOnce ==
    ASSUME OneCallPerWrapper
    PROVE  WrapperSpec => []AtMostOnce
  BY InductiveSerial, PTL DEF Serial

(* The store after a step without overlap: what was there is there.          *)
LEMMA StoreGrows ==
    ASSUME TypeOK, Serial, [WrapperNext]_wrapperVars, NEW k \in Key, store[k] # None
    PROVE  store'[k] = store[k]
<1>1. ASSUME NEW c \in Callers, Record(c) PROVE store'[k] = store[k]
  <2>1. store[KeyOf(c)] = None /\ store' = [store EXCEPT ![KeyOf(c)] = result[c]]
    BY <1>1 DEF Serial, SerialExecution, Record
  <2>. QED  BY <2>1 DEF TypeOK
<1>2. CASE store' = store
  BY <1>2
<1>. QED
  BY <1>1, <1>2 DEF WrapperNext, Execute, Call, LookupHit, LookupMiss, TransientFailure,
    RunTool, ToolRaises, Exhaust, TakeResult, wrapperVars

(* A recorded outcome stays what it is: only Record writes the store, and    *)
(* only where there was nothing.                                             *)
THEOREM RecordsAreFinal ==
    ASSUME OneCallPerWrapper
    PROVE  WrapperSpec => RecordedIsFinal
<1>1. TypeOK /\ Serial /\ [WrapperNext]_wrapperVars
        => [\A k \in Key : store[k] # None => store'[k] = store[k]]_wrapperVars
  BY StoreGrows
<1>. QED  BY InductiveSerial, <1>1, PTL DEF WrapperSpec, RecordedIsFinal

(* A FAILURE is answered only while the command has never been applied.      *)
THEOREM FailuresAppliedNothing ==
    ASSUME OneCallPerWrapper
    PROVE  WrapperSpec => FailureAppliedNothing
<1>. DEFINE Clean(c) == ran'[KeyOf(c)] = 0 /\ store'[KeyOf(c)] = None
            Fails(c) == InFlight(c) /\ pc'[c] = "returned" /\ result'[c].status = "failure"
<1>1. ASSUME TypeOK, EffectsAccountedFor, Serial, [WrapperNext]_wrapperVars,
             NEW c \in Callers, Fails(c)
      PROVE  Clean(c)
  <2>1. CASE Exhaust(c)
    <3>1. KeyOf(c) \in Key /\ pc[c] = "attempt"
      BY <1>1, <2>1, KeyType DEF TypeOK, Exhaust
    <3>2. ran[KeyOf(c)] = 0
      BY <1>1, <3>1 DEF Serial, SerialExecution
    <3>3. store[KeyOf(c)] = None
      BY <1>1, <3>1, <3>2 DEF EffectsAccountedFor
    <3>. QED  BY <2>1, <3>2, <3>3 DEF Exhaust
  <2>2. CASE LookupHit(c)
    <3>1. KeyOf(c) \in Key
      BY <1>1, <2>2, KeyType DEF TypeOK, LookupHit
    <3>2. result'[c] \in AppliedResult
      BY <1>1, <2>2, <3>1 DEF TypeOK, LookupHit
    <3>. QED  BY <1>1, <3>2 DEF AppliedResult
  <2>3. CASE Record(c)
    <3>1. result'[c] \in AppliedResult
      BY <1>1, <2>3 DEF TypeOK, Record
    <3>. QED  BY <1>1, <3>1 DEF AppliedResult
  <2>4. ASSUME ~Exhaust(c), ~LookupHit(c), ~Record(c) PROVE FALSE
    <3>1. pc[c] \notin {"idle", "returned", "raised"} /\ pc'[c] = "returned"
      BY <1>1 DEF InFlight
    <3>2. WrapperNext
      BY <1>1, <3>1 DEF wrapperVars
    <3>. QED
      BY <1>1, <2>4, <3>1, <3>2 DEF WrapperNext, Execute, Call, LookupHit, LookupMiss,
        TransientFailure, HasAttempt, RunTool, ToolRaises, Record, Exhaust, TakeResult, TypeOK
  <2>. QED  BY <2>1, <2>2, <2>3, <2>4
<1>2. TypeOK /\ EffectsAccountedFor /\ Serial /\ [WrapperNext]_wrapperVars
        => [\A c \in Callers :
              (InFlight(c) /\ pc'[c] = "returned" /\ result'[c].status = "failure")
                => ran'[KeyOf(c)] = 0 /\ store'[KeyOf(c)] = None]_wrapperVars
  BY <1>1
<1>. QED  BY InductiveSerial, <1>2, PTL DEF WrapperSpec, FailureAppliedNothing

(* Without overlap a caller is alone with a wrapper between its lookup and   *)
(* its record, which is why it may trust that lookup.                        *)
THEOREM CallersAreAlone ==
    ASSUME OneCallPerWrapper
    PROVE  WrapperSpec => []SerialExecution
  BY InductiveSerial, PTL DEF Serial

-----------------------------------------------------------------------------
(* Overlapping calls, counted.  While nothing is recorded for a key, each run*)
(* of its tool is that of a caller about to record; from the first record on,*)
(* only those already in the loop may still run it, once each.               *)
Recorders(k) == {c \in Callers : Recording(c, k)}

Attempters(k) == {c \in Callers : pc[c] = "attempt" /\ KeyOf(c) = k}

RunsCounted ==
    \A k \in Key :
        /\ store[k] = None => ran[k] = Cardinality(Recorders(k))
        /\ store[k] # None => ran[k] + Cardinality(Attempters(k)) <= Cardinality(Callers)

(* The counts are numbers, and a caller is in at most one of the two sets.   *)
LEMMA CallersAreCounted ==
    ASSUME IsFiniteSet(Callers), NEW k
    PROVE  /\ IsFiniteSet(Recorders(k)) /\ Cardinality(Recorders(k)) \in Nat
           /\ IsFiniteSet(Attempters(k)) /\ Cardinality(Attempters(k)) \in Nat
           /\ Cardinality(Callers) \in Nat
           /\ Cardinality(Recorders(k)) + Cardinality(Attempters(k)) <= Cardinality(Callers)
<1>1. Recorders(k) \in SUBSET Callers /\ Attempters(k) \in SUBSET Callers
  BY DEF Recorders, Attempters
<1>2. /\ IsFiniteSet(Recorders(k)) /\ IsFiniteSet(Attempters(k))
      /\ IsFiniteSet(Recorders(k) \cup Attempters(k))
      /\ Cardinality(Recorders(k) \cup Attempters(k)) <= Cardinality(Callers)
  BY <1>1, FS_Subset
<1>3. Recorders(k) \cap Attempters(k) = {}
  BY DEF Recorders, Attempters, Recording
<1>4. Cardinality(Recorders(k) \cup Attempters(k))
        = Cardinality(Recorders(k)) + Cardinality(Attempters(k)) - Cardinality({})
  BY <1>2, <1>3, FS_Union
<1>5. /\ Cardinality(Recorders(k)) \in Nat /\ Cardinality(Attempters(k)) \in Nat
      /\ Cardinality(Callers) \in Nat /\ Cardinality({}) = 0
  BY <1>2, FS_CardinalityType, FS_EmptySet
<1>. QED  BY <1>2, <1>4, <1>5

(* A step that runs no tool and records nothing, and lets nobody into the    *)
(* loop of a key that has its record.                                        *)
LEMMA QuietCount ==
    ASSUME IsFiniteSet(Callers), TypeOK, RunsCounted, NEW k \in Key,
           store'[k] = store[k], ran'[k] = ran[k],
           \A d \in Callers :
             /\ Recording(d, k)' <=> Recording(d, k)
             /\ store[k] # None /\ pc'[d] = "attempt" /\ KeyOf(d)' = k
                  => pc[d] = "attempt" /\ KeyOf(d) = k
    PROVE  /\ store'[k] = None => ran'[k] = Cardinality(Recorders(k)')
           /\ store'[k] # None => ran'[k] + Cardinality(Attempters(k)') <= Cardinality(Callers)
<1>1. CASE store[k] = None
  <2>1. Recorders(k)' = Recorders(k)
    BY DEF Recorders
  <2>. QED  BY <1>1, <2>1 DEF RunsCounted
<1>2. CASE store[k] # None
  <2>1. Attempters(k)' \in SUBSET Attempters(k)
    BY <1>2 DEF Attempters
  <2>2. IsFiniteSet(Attempters(k)) /\ Cardinality(Attempters(k)) \in Nat /\ Cardinality(Callers) \in Nat
    BY CallersAreCounted
  <2>3. /\ Cardinality(Attempters(k)') <= Cardinality(Attempters(k))
        /\ Cardinality(Attempters(k)') \in Nat
    BY <2>1, <2>2, FS_Subset, FS_CardinalityType
  <2>4. ran[k] \in Nat
    BY DEF TypeOK
  <2>5. ran[k] + Cardinality(Attempters(k)) <= Cardinality(Callers)
    BY <1>2 DEF RunsCounted
  <2>. HIDE DEF Attempters
  <2>. QED  BY <1>2, <2>2, <2>3, <2>4, <2>5
<1>. QED  BY <1>1, <1>2

(* A tool run turns a caller in the loop into one about to record; the first *)
(* record closes the loop to everybody who is not in it.                     *)
LEMMA NextCounted ==
    ASSUME IsFiniteSet(Callers)
    PROVE  TypeOK /\ RunsCounted /\ [WrapperNext]_wrapperVars => RunsCounted'
<1>. SUFFICES ASSUME TypeOK, RunsCounted, [WrapperNext]_wrapperVars, NEW k \in Key
              PROVE  /\ store'[k] = None => ran'[k] = Cardinality(Recorders(k)')
                     /\ store'[k] # None => ran'[k] + Cardinality(Attempters(k)') <= Cardinality(Callers)
  BY DEF RunsCounted, Recorders, Attempters, Recording, KeyOf
<1>. DEFINE Counted == /\ store'[k] = None => ran'[k] = Cardinality(Recorders(k)')
                       /\ store'[k] # None =>
                            ran'[k] + Cardinality(Attempters(k)') <= Cardinality(Callers)
<1>0. ran[k] \in Nat
  BY DEF TypeOK
<1>1. ASSUME NEW c \in Callers,
             \/ \E r \in Request : Call(c, r)
             \/ LookupHit(c) \/ LookupMiss(c) \/ TransientFailure(c) \/ ToolRaises(c)
             \/ Exhaust(c) \/ TakeResult(c)
      PROVE  Counted
  <2>1. store' = store /\ ran' = ran
    BY <1>1 DEF Call, LookupHit, LookupMiss, TransientFailure, ToolRaises, Exhaust, TakeResult
  <2>2. \A d \in Callers : Recording(d, k)' <=> Recording(d, k)
    BY <1>1 DEF Call, LookupHit, LookupMiss, TransientFailure, ToolRaises, Exhaust, TakeResult,
                HasAttempt, TypeOK, Recording, KeyOf
  <2>3. \A d \in Callers : store[k] # None /\ pc'[d] = "attempt" /\ KeyOf(d)' = k
             => pc[d] = "attempt" /\ KeyOf(d) = k
    BY <1>1 DEF Call, LookupHit, LookupMiss, TransientFailure, ToolRaises, Exhaust, TakeResult,
                HasAttempt, TypeOK, KeyOf
  <2>. QED  BY <2>1, <2>2, <2>3, QuietCount
<1>2. ASSUME NEW c \in Callers, RunTool(c) PROVE Counted
  <2>1. /\ store' = store /\ pc[c] = "attempt" /\ pc' = [pc EXCEPT ![c] = "record"]
        /\ request' = request /\ ran' = [ran EXCEPT ![KeyOf(c)] = ran[KeyOf(c)] + 1]
    BY <1>2 DEF RunTool, HasAttempt
  <2>2. CASE KeyOf(c) # k
    BY <2>1, <2>2, QuietCount DEF TypeOK, Recording, KeyOf
  <2>3. CASE KeyOf(c) = k
    <3>1. ran'[k] = ran[k] + 1
      BY <2>1, <2>3 DEF TypeOK
    <3>2. Recorders(k)' = Recorders(k) \cup {c} /\ c \notin Recorders(k)
      BY <2>1, <2>3 DEF Recorders, Recording, KeyOf, TypeOK
    <3>3. Attempters(k)' = Attempters(k) \ {c} /\ c \in Attempters(k)
      BY <2>1, <2>3 DEF Attempters, KeyOf, TypeOK
    <3>4. IsFiniteSet(Recorders(k)) /\ IsFiniteSet(Attempters(k))
      BY CallersAreCounted
    <3>5. Cardinality(Recorders(k)') = Cardinality(Recorders(k)) + 1
      BY <3>2, <3>4, FS_AddElement
    <3>6. Cardinality(Attempters(k)') = Cardinality(Attempters(k)) - 1
      BY <3>3, <3>4, FS_RemoveElement
    <3>7. /\ Cardinality(Recorders(k)) \in Nat /\ Cardinality(Attempters(k)) \in Nat
          /\ Cardinality(Callers) \in Nat
      BY CallersAreCounted
    <3>. QED  BY <1>0, <2>1, <3>1, <3>5, <3>6, <3>7 DEF RunsCounted
  <2>. QED  BY <2>2, <2>3
<1>3. ASSUME NEW c \in Callers, Record(c) PROVE Counted
  <2>1. /\ ran' = ran /\ pc[c] = "record" /\ pc' = [pc EXCEPT ![c] = "returned"]
        /\ request' = request /\ store' = [store EXCEPT ![KeyOf(c)] = result[c]]
    BY <1>3 DEF Record
  <2>2. CASE KeyOf(c) # k
    BY <2>1, <2>2, QuietCount DEF TypeOK, Recording, KeyOf
  <2>3. CASE KeyOf(c) = k
    <3>1. store'[k] # None
      BY <2>1, <2>3, NoneIsNoResult DEF TypeOK, ExecutionResult
    <3>2. Attempters(k)' = Attempters(k)
      BY <2>1 DEF Attempters, KeyOf, TypeOK
    <3>3. CASE store[k] = None
      BY <2>1, <3>1, <3>2, <3>3, CallersAreCounted DEF RunsCounted
    <3>4. CASE store[k] # None
      BY <2>1, <3>1, <3>2, <3>4 DEF RunsCounted
    <3>. QED  BY <3>3, <3>4
  <2>. QED  BY <2>2, <2>3
<1>4. CASE UNCHANGED wrapperVars
  BY <1>4, QuietCount DEF wrapperVars, Recording, KeyOf
<1>. QED  BY <1>1, <1>2, <1>3, <1>4 DEF WrapperNext, Execute

(* The count carries the bound with it: nobody adds an effect who was not in *)
(* the loop before the first record.                                         *)
LEMMA CountBounds == IsFiniteSet(Callers) /\ TypeOK /\ RunsCounted => RepeatsOnlyOverlap
<1>. SUFFICES ASSUME IsFiniteSet(Callers), TypeOK, RunsCounted, NEW k \in Key
              PROVE  ran[k] <= Cardinality(Callers)
  BY DEF RepeatsOnlyOverlap
<1>1. ran[k] \in Nat
  BY DEF TypeOK
<1>. QED  BY <1>1, CallersAreCounted DEF RunsCounted

(* Before the first call nothing has run and nobody is in the loop.          *)
LEMMA InitCounted == WrapperInit => RunsCounted
<1>. SUFFICES ASSUME WrapperInit, NEW k \in Key PROVE store[k] = None /\ ran[k] = Cardinality(Recorders(k))
  BY DEF RunsCounted
<1>1. Recorders(k) = {}
  BY DEF WrapperInit, Recorders, Recording
<1>. QED  BY <1>1, FS_EmptySet DEF WrapperInit

(* Calls that overlap may repeat an effect, but never more often than there  *)
(* are callers, however often each of them calls again.                      *)
THEOREM RepeatsAreBounded ==
    ASSUME IsFiniteSet(Callers)
    PROVE  WrapperSpec => []RepeatsOnlyOverlap
<1>1. TypeOK /\ RunsCounted => RepeatsOnlyOverlap
  BY CountBounds
<1>2. TypeOK /\ RunsCounted /\ [WrapperNext]_wrapperVars => RunsCounted'
  BY NextCounted
<1>. QED  BY InitType, InitCounted, NextType, <1>1, <1>2, PTL DEF WrapperSpec

-----------------------------------------------------------------------------
(* The work a call has left: how many steps of execute() it can still take.  *)
(* Each attempt is one, and so are the lookup, the last look at the loop's   *)
(* bound and the record.                                                     *)
StepsLeft(c) ==
    CASE pc[c] = "lookup" -> request[c].max_attempts + 3
      [] pc[c] = "attempt" -> request[c].max_attempts + 3 - attempt[c]
      [] pc[c] = "record" -> 1
      [] OTHER -> 0

AttemptsInRange ==
    \A c \in Callers :
        /\ pc[c] = "lookup" => attempt[c] = 1 /\ request[c].max_attempts >= 1
        /\ pc[c] = "attempt" => attempt[c] \in 1..(request[c].max_attempts + 1)

LEMMA NextInRange == TypeOK /\ AttemptsInRange /\ [WrapperNext]_wrapperVars => AttemptsInRange'
<1>. SUFFICES ASSUME TypeOK, AttemptsInRange, [WrapperNext]_wrapperVars PROVE AttemptsInRange'
  OBVIOUS
<1>. USE DEF TypeOK, AttemptsInRange
<1>1. ASSUME NEW c \in Callers, NEW r \in Request, Call(c, r) PROVE AttemptsInRange'
  <2>1. r.max_attempts \in Int
    BY WrapperAssumption DEF Request
  <2>. QED  BY <1>1, <2>1 DEF Call
<1>2. ASSUME NEW c \in Callers, LookupMiss(c) PROVE AttemptsInRange'
  <2>1. request[c].max_attempts \in Int
    BY <1>2, WrapperAssumption DEF LookupMiss, Request
  <2>. QED  BY <1>2, <2>1 DEF LookupMiss
<1>3. ASSUME NEW c \in Callers, TransientFailure(c) PROVE AttemptsInRange'
  <2>1. request[c].max_attempts \in Int
    BY <1>3, WrapperAssumption DEF TransientFailure, HasAttempt, Request
  <2>. QED  BY <1>3, <2>1 DEF TransientFailure, HasAttempt
<1>4. ASSUME NEW c \in Callers,
             LookupHit(c) \/ RunTool(c) \/ ToolRaises(c) \/ Record(c) \/ Exhaust(c) \/ TakeResult(c)
      PROVE  AttemptsInRange'
  BY <1>4 DEF LookupHit, RunTool, ToolRaises, Record, Exhaust, TakeResult, HasAttempt
<1>5. CASE UNCHANGED wrapperVars
  BY <1>5 DEF wrapperVars
<1>. QED  BY <1>1, <1>2, <1>3, <1>4, <1>5 DEF WrapperNext, Execute

(* Each step of a call uses some of its work up.                             *)
LEMMA ExecuteUsesSteps ==
    ASSUME TypeOK, AttemptsInRange, NEW c \in Callers, Execute(c)
    PROVE  StepsLeft(c) \in Nat /\ StepsLeft(c)' \in Nat /\ StepsLeft(c)' < StepsLeft(c)
<1>. USE DEF TypeOK, AttemptsInRange
<1>1. pc[c] # "idle" /\ request[c] \in Request /\ request'[c] = request[c]
  BY DEF Execute, LookupHit, LookupMiss, TransientFailure, RunTool, ToolRaises, Record, Exhaust, HasAttempt
<1>2. request[c].max_attempts \in Int /\ attempt[c] \in Int
  BY <1>1, WrapperAssumption DEF Request
<1>3. CASE LookupHit(c)
  BY <1>1, <1>2, <1>3 DEF LookupHit, StepsLeft
<1>4. CASE LookupMiss(c)
  BY <1>1, <1>2, <1>4 DEF LookupMiss, StepsLeft
<1>5. CASE TransientFailure(c)
  BY <1>1, <1>2, <1>5 DEF TransientFailure, HasAttempt, StepsLeft
<1>6. CASE RunTool(c)
  BY <1>1, <1>2, <1>6 DEF RunTool, HasAttempt, StepsLeft
<1>7. CASE ToolRaises(c)
  BY <1>1, <1>2, <1>7 DEF ToolRaises, HasAttempt, StepsLeft
<1>8. CASE Record(c)
  BY <1>8 DEF Record, StepsLeft
<1>9. CASE Exhaust(c)
  BY <1>1, <1>2, <1>9 DEF Exhaust, StepsLeft
<1>. QED  BY <1>3, <1>4, <1>5, <1>6, <1>7, <1>8, <1>9 DEF Execute

(* No step of another call does.                                             *)
LEMMA OtherCallsAreKept ==
    ASSUME TypeOK, NEW c \in Callers, InFlight(c), [WrapperNext]_wrapperVars, ~Execute(c)
    PROVE  pc'[c] = pc[c] /\ request'[c] = request[c] /\ attempt'[c] = attempt[c]
<1>. USE DEF TypeOK
<1>1. ASSUME NEW d \in Callers, Execute(d)
      PROVE  pc'[c] = pc[c] /\ request'[c] = request[c] /\ attempt'[c] = attempt[c]
  <2>1. d # c
    BY <1>1
  <2>. QED  BY <1>1, <2>1 DEF Execute, LookupHit, LookupMiss, TransientFailure, RunTool, ToolRaises,
                              Record, Exhaust, HasAttempt
<1>2. ASSUME NEW d \in Callers, (\E r \in Request : Call(d, r)) \/ TakeResult(d)
      PROVE  pc'[c] = pc[c] /\ request'[c] = request[c] /\ attempt'[c] = attempt[c]
  BY <1>2 DEF Call, TakeResult, InFlight
<1>3. CASE UNCHANGED wrapperVars
  BY <1>3 DEF wrapperVars
<1>. QED  BY <1>1, <1>2, <1>3 DEF WrapperNext

(* A call comes closer to its end with every step it takes, and nothing that *)
(* other callers do sets it back: no call loops, whatever should_fail answers*)
(* and however large max_attempts is.  What is left for its return is that   *)
(* its thread goes on.                                                       *)
CallAdvances(c) ==
    /\ Execute(c) => StepsLeft(c) \in Nat /\ StepsLeft(c)' \in Nat /\ StepsLeft(c)' < StepsLeft(c)
    /\ InFlight(c) /\ ~Execute(c) => StepsLeft(c)' = StepsLeft(c)

CallsAdvance == [][\A c \in Callers : CallAdvances(c)]_wrapperVars

LEMMA NextAdvances ==
    ASSUME TypeOK, AttemptsInRange, [WrapperNext]_wrapperVars, NEW c \in Callers
    PROVE  CallAdvances(c)
<1>1. InFlight(c) /\ ~Execute(c) => StepsLeft(c)' = StepsLeft(c)
  BY OtherCallsAreKept DEF StepsLeft
<1>. QED  BY <1>1, ExecuteUsesSteps DEF CallAdvances

LEMMA InitInRange == WrapperInit => AttemptsInRange
  BY DEF WrapperInit, AttemptsInRange

(* Every step of execute() is progress.                                      *)
THEOREM CallsDoAdvance == WrapperSpec => CallsAdvance
<1>1. TypeOK /\ AttemptsInRange /\ [WrapperNext]_wrapperVars
        => [\A c \in Callers : CallAdvances(c)]_wrapperVars
  BY NextAdvances
<1>. QED  BY InitInRange, <1>1, InitType, NextType, NextInRange, PTL DEF WrapperSpec, CallsAdvance

-----------------------------------------------------------------------------
(* What a success shows of the command and the ticket id it is recorded for: *)
(* its effect on some ticket with that id; and, before it is recorded, its   *)
(* effect on the ticket of the call.                                         *)
Observed(command, id, outcome) ==
    outcome.status = "success" =>
        \E before \in Tickets : before.id = id /\ Shows(command, before, outcome.ticket)

OutcomesShow ==
    /\ \A k \in Key : store[k] # None => Observed(k[2], k[3], store[k])
    /\ \A c \in Callers :
          /\ pc[c] \in {"record", "returned"} =>
                Observed(request[c].command, request[c].ticket.id, result[c])
          /\ (pc[c] = "record" /\ result[c].status = "success") =>
                Shows(request[c].command, request[c].ticket, result[c].ticket)

(* What verify() compares is enough: the floor at zero included.             *)
LEMMA VerifiedShows ==
    ASSUME NEW command \in AuthorizedCommand, NEW before \in Ticket, NEW after,
           verify(command, before, after)
    PROVE  Shows(command, before, after)
<1>1. after.id = before.id
  BY DEF verify
<1>2. CASE command \in UpdateTicketStatusCommand
  BY <1>1, <1>2 DEF verify, Shows, UpdateTicketStatusCommand
<1>3. CASE command \in IssueRefundCommand
  <2>1. command.args.amount \in Int /\ before.refund_eligible_amount \in Int \cup {None}
    BY <1>3 DEF IssueRefundCommand, IssueRefundArgs, Ticket
  <2>2. command.tool_name = "issue_refund"
    BY <1>3 DEF IssueRefundCommand
  <2>3. after.refund_eligible_amount = RemainingEligible(command, before)
    BY <2>2 DEF verify
  <2>4. CASE before.refund_eligible_amount = None
    BY <1>1, <2>2, <2>3, <2>4 DEF Shows, RemainingEligible
  <2>5. CASE before.refund_eligible_amount # None
    <3>1. before.refund_eligible_amount \in Int
      BY <2>1, <2>5
    <3>2. after.refund_eligible_amount
            = FloorAtZero(before.refund_eligible_amount - command.args.amount)
      BY <2>3, <2>5 DEF RemainingEligible
    <3>. QED  BY <1>1, <2>1, <2>2, <2>5, <3>1, <3>2 DEF Shows, FloorAtZero
  <2>. QED  BY <2>4, <2>5
<1>4. CASE command \in AddTicketNoteCommand
  BY <1>1, <1>4 DEF verify, Shows, AddTicketNoteCommand
<1>. QED  BY <1>2, <1>3, <1>4 DEF AuthorizedCommand

LEMMA OutcomeShows ==
    ASSUME NEW r \in Request, NEW after \in ToolReturns(r.command, r.ticket), NEW n \in Int,
           Outcome(r, after, n).status = "success"
    PROVE  Shows(r.command, r.ticket, Outcome(r, after, n).ticket)
<1>1. r.command \in AuthorizedCommand /\ r.ticket \in Ticket
  BY WrapperAssumption DEF Request
<1>2. verify(r.command, r.ticket, after) /\ Outcome(r, after, n).ticket = after
  BY DEF Outcome
<1>. QED  BY <1>1, <1>2, VerifiedShows

LEMMA NextOutcomesShow == TypeOK /\ OutcomesShow /\ [WrapperNext]_wrapperVars => OutcomesShow'
<1>. SUFFICES ASSUME TypeOK, OutcomesShow, [WrapperNext]_wrapperVars PROVE OutcomesShow'
  OBVIOUS
<1>. USE DEF TypeOK
<1>1. ASSUME store' = store,
             \A c \in Callers : pc'[c] \in {"record", "returned"} =>
                pc'[c] = pc[c] /\ request'[c] = request[c] /\ result'[c] = result[c]
      PROVE  OutcomesShow'
  BY <1>1 DEF OutcomesShow
<1>2. ASSUME NEW c \in Callers, NEW r \in Request, Call(c, r) PROVE OutcomesShow'
  BY <1>1, <1>2 DEF Call
<1>3. ASSUME NEW c \in Callers, LookupHit(c) PROVE OutcomesShow'
  <2>1. KeyOf(c) \in Key /\ store[KeyOf(c)] # None
    BY <1>3, KeyType DEF LookupHit
  <2>2. Observed(request[c].command, request[c].ticket.id, store[KeyOf(c)])
    BY <2>1 DEF OutcomesShow, KeyOf
  <2>3. /\ store' = store /\ request' = request
        /\ pc' = [pc EXCEPT ![c] = "returned"]
        /\ result' = [result EXCEPT ![c] = store[KeyOf(c)]]
    BY <1>3 DEF LookupHit
  <2>. QED  BY <2>2, <2>3 DEF OutcomesShow
<1>4. ASSUME NEW c \in Callers, LookupMiss(c) \/ TransientFailure(c) \/ ToolRaises(c) \/ TakeResult(c)
      PROVE  OutcomesShow'
  BY <1>1, <1>4 DEF LookupMiss, TransientFailure, ToolRaises, TakeResult, HasAttempt
<1>5. ASSUME NEW c \in Callers, RunTool(c) PROVE OutcomesShow'
  <2>1. request[c] \in Request /\ attempt[c] \in Int
    BY <1>5 DEF RunTool, HasAttempt
  <2>2. PICK after \in ToolReturns(request[c].command, request[c].ticket) :
          result' = [result EXCEPT ![c] = Outcome(request[c], after, attempt[c])]
    BY <1>5 DEF RunTool
  <2>3. Outcome(request[c], after, attempt[c]).status = "success" =>
          Shows(request[c].command, request[c].ticket, Outcome(request[c], after, attempt[c]).ticket)
    BY <2>1, OutcomeShows
  <2>4. /\ store' = store /\ request' = request /\ pc' = [pc EXCEPT ![c] = "record"]
        /\ request[c].ticket \in Tickets
    BY <1>5, <2>1 DEF RunTool, Request
  <2>5. Observed(request[c].command, request[c].ticket.id, Outcome(request[c], after, attempt[c]))
    BY <2>3, <2>4 DEF Observed
  <2>. QED  BY <2>2, <2>3, <2>4, <2>5 DEF OutcomesShow
<1>6. ASSUME NEW c \in Callers, Record(c) PROVE OutcomesShow'
  <2>1. KeyOf(c) \in Key /\ Observed(request[c].command, request[c].ticket.id, result[c])
    BY <1>6, KeyType DEF Record, OutcomesShow
  <2>2. Observed(KeyOf(c)[2], KeyOf(c)[3], result[c])
    BY <2>1 DEF KeyOf
  <2>3. /\ store' = [store EXCEPT ![KeyOf(c)] = result[c]]
        /\ request' = request /\ result' = result /\ pc' = [pc EXCEPT ![c] = "returned"]
        /\ pc[c] = "record"
    BY <1>6 DEF Record
  <2>4. \A k \in Key : store'[k] # None => Observed(k[2], k[3], store'[k])
    BY <2>1, <2>2, <2>3 DEF OutcomesShow
  <2>. QED  BY <2>3, <2>4 DEF OutcomesShow
<1>7. ASSUME NEW c \in Callers, Exhaust(c) PROVE OutcomesShow'
  <2>1. /\ store' = store /\ request' = request /\ pc' = [pc EXCEPT ![c] = "returned"]
        /\ \A d \in Callers : d # c => result'[d] = result[d]
        /\ result'[c].status = "failure"
    BY <1>7 DEF Exhaust
  <2>. QED  BY <2>1 DEF OutcomesShow, Observed
<1>8. CASE UNCHANGED wrapperVars
  BY <1>1, <1>8 DEF wrapperVars
<1>. QED  BY <1>2, <1>3, <1>4, <1>5, <1>6, <1>7, <1>8 DEF WrapperNext, Execute

(* A success that execute() answers was observed: the ticket in the answer is*)
(* what a refund, a status change or a note was to make of the ticket, also  *)
(* when the answer is a replay and however the calls overlap.                *)
THEOREM SuccessesAreObserved == WrapperSpec => []AnswersShowTheEffect
<1>1. WrapperInit => OutcomesShow
  BY DEF WrapperInit, OutcomesShow
<1>2. OutcomesShow => AnswersShowTheEffect
  BY DEF OutcomesShow, Observed, AnswersShowTheEffect
<1>. QED  BY <1>1, <1>2, InitType, NextType, NextOutcomesShow, PTL DEF WrapperSpec

-----------------------------------------------------------------------------
(* What a call returns, if it is not a FAILURE, is the recorded outcome of   *)
(* its key.                                                                  *)
ReturnsAreRecorded ==
    \A c \in Callers : (pc[c] = "returned" /\ result[c].status # "failure") =>
        store[KeyOf(c)] = result[c]

LEMMA NextReturnsAreRecorded ==
    TypeOK /\ Serial /\ ReturnsAreRecorded /\ [WrapperNext]_wrapperVars => ReturnsAreRecorded'
<1>. SUFFICES ASSUME TypeOK, Serial, ReturnsAreRecorded, [WrapperNext]_wrapperVars,
                     NEW c \in Callers, pc'[c] = "returned", result'[c].status # "failure"
              PROVE  store'[KeyOf(c)'] = result'[c]
  BY DEF ReturnsAreRecorded, KeyOf
<1>1. CASE pc[c] = "returned" /\ request'[c] = request[c] /\ result'[c] = result[c]
  <2>1. KeyOf(c) \in Key /\ result[c] \in ExecutionResult /\ store[KeyOf(c)] = result[c]
    BY <1>1, KeyType DEF TypeOK, ReturnsAreRecorded
  <2>2. store'[KeyOf(c)] = store[KeyOf(c)]
    BY <2>1, StoreGrows, NoneIsNoResult
  <2>. QED  BY <1>1, <2>1, <2>2 DEF KeyOf
<1>2. CASE LookupHit(c) \/ Record(c)
  <2>1. KeyOf(c) \in Key /\ request' = request
    BY <1>2, KeyType DEF TypeOK, LookupHit, Record
  <2>. QED  BY <1>2, <2>1 DEF TypeOK, LookupHit, Record, KeyOf
<1>3. CASE Exhaust(c)
  BY <1>3 DEF Exhaust, TypeOK
<1>4. ASSUME ~LookupHit(c), ~Record(c), ~Exhaust(c)
      PROVE  pc[c] = "returned" /\ request'[c] = request[c] /\ result'[c] = result[c]
  BY <1>4 DEF WrapperNext, Execute, Call, LookupHit, LookupMiss, TransientFailure, HasAttempt,
     RunTool, ToolRaises, Record, Exhaust, TakeResult, TypeOK, wrapperVars
<1>. QED  BY <1>1, <1>2, <1>3, <1>4

-----------------------------------------------------------------------------
(* ExecutionWrapper implements IdempotentExecutor, for every set of callers, *)
(* wrappers, commands and tickets, when the calls on a wrapper do not        *)
(* overlap.                                                                  *)

(* The mapping of the three abstract variables.                              *)
Asking == [c \in Callers |-> IF InFlight(c) THEN KeyOf(c) ELSE None]
Settled == [k \in Key |-> IF store[k] # None THEN store[k] ELSE PendingOutcome(k)]
Answering == [c \in Callers |-> IF pc[c] = "returned" THEN result[c] ELSE None]

Inv == TypeOK /\ EffectsAccountedFor /\ Serial

(* The outcome of a key is the one about to be recorded, if there is one.    *)
PendingIsTheResult ==
    /\ \A c \in Callers, k \in Key : Recording(c, k) => PendingOutcome(k) = result[c]
    /\ \A k \in Key : (\A c \in Callers : ~Recording(c, k)) => PendingOutcome(k) = None

(* At most one caller is about to record an outcome of a key.                *)
LEMMA PendingIsUnique == Serial => PendingIsTheResult
<1>. SUFFICES ASSUME Serial PROVE PendingIsTheResult
  OBVIOUS
<1>1. ASSUME NEW c \in Callers, NEW k \in Key, Recording(c, k) PROVE PendingOutcome(k) = result[c]
  <2>1. \A d \in Callers : Recording(d, k) => d = c
    BY <1>1 DEF Recording, KeyOf, InFlight, Serial, SerialExecution
  <2>2. {d \in Callers : Recording(d, k)} = {c}
    BY <1>1, <2>1
  <2>3. (CHOOSE d \in {c} : TRUE) = c
    OBVIOUS
  <2>4. {c} # {}
    OBVIOUS
  <2>. QED  BY <2>2, <2>3, <2>4 DEF PendingOutcome
<1>2. ASSUME NEW k \in Key, \A c \in Callers : ~Recording(c, k) PROVE PendingOutcome(k) = None
  <2>1. {d \in Callers : Recording(d, k)} = {}
    BY <1>2
  <2>. QED  BY <2>1 DEF PendingOutcome
<1>. QED  BY <1>1, <1>2 DEF PendingIsTheResult

(* What is settled at each stage of a call.                                  *)
LEMMA SettledAtStages ==
    ASSUME Inv, NEW c \in Callers, InFlight(c)
    PROVE  /\ KeyOf(c) \in Key
           /\ pc[c] = "lookup" /\ store[KeyOf(c)] # None => Settled[KeyOf(c)] = store[KeyOf(c)]
           /\ pc[c] = "attempt" => Settled[KeyOf(c)] = None
           /\ pc[c] = "record" => Settled[KeyOf(c)] = result[c]
<1>1. KeyOf(c) \in Key
  BY KeyType DEF Inv, TypeOK, InFlight
<1>2. PendingIsTheResult
  BY PendingIsUnique DEF Inv
<1>3. ASSUME pc[c] = "attempt" PROVE Settled[KeyOf(c)] = None
  <2>1. store[KeyOf(c)] = None /\ \A d \in Callers : ~Recording(d, KeyOf(c))
    BY <1>1, <1>3 DEF Inv, Serial, SerialExecution, EffectsAccountedFor
  <2>. QED  BY <1>1, <1>2, <2>1 DEF Settled, PendingIsTheResult
<1>4. ASSUME pc[c] = "record" PROVE Settled[KeyOf(c)] = result[c]
  <2>1. store[KeyOf(c)] = None /\ Recording(c, KeyOf(c))
    BY <1>4 DEF Inv, Serial, SerialExecution, Recording
  <2>. QED  BY <1>1, <1>2, <2>1 DEF Settled, PendingIsTheResult
<1>. QED  BY <1>1, <1>3, <1>4 DEF Settled

(* An outcome changes only with the store, or with who is about to write it. *)
LEMMA SettledKept ==
    ASSUME Inv, Inv', NEW k \in Key, store'[k] = store[k],
           \A d \in Callers : Recording(d, k)' <=> Recording(d, k),
           \A d \in Callers : Recording(d, k) => result'[d] = result[d]
    PROVE  Settled'[k] = Settled[k]
<1>1. PendingIsTheResult /\ PendingIsTheResult'
  BY PendingIsUnique, PTL DEF Inv
<1>2. PendingOutcome(k)' = PendingOutcome(k)
  <2>1. CASE \E d \in Callers : Recording(d, k)
    BY <1>1, <2>1 DEF PendingIsTheResult
  <2>2. CASE \A d \in Callers : ~Recording(d, k)
    BY <1>1, <2>2 DEF PendingIsTheResult
  <2>. QED  BY <2>1, <2>2
<1>. QED  BY <1>2 DEF Settled

-----------------------------------------------------------------------------
(* The abstract step that each step of the wrapper takes.                    *)

AbstractVars == <<Asking, Settled, Answering>>

(* A step that no caller can see: nobody enters or leaves, nothing settles.  *)
LEMMA Stutter ==
    ASSUME Inv, Inv', store' = store,
           \A d \in Callers :
             /\ InFlight(d)' <=> InFlight(d)
             /\ InFlight(d) => KeyOf(d)' = KeyOf(d)
             /\ pc'[d] = "record" <=> pc[d] = "record"
             /\ pc'[d] = "returned" <=> pc[d] = "returned"
             /\ result'[d] = result[d]
    PROVE  UNCHANGED AbstractVars
<1>1. Asking' = Asking /\ Answering' = Answering
  BY DEF Asking, Answering
<1>2. \A d \in Callers, k \in Key : Recording(d, k)' <=> Recording(d, k)
  BY DEF Recording, InFlight
<1>3. \A k \in Key : Settled'[k] = Settled[k]
  BY <1>2, SettledKept
<1>4. Settled' = Settled
  BY <1>3 DEF Settled
<1>. QED  BY <1>1, <1>4 DEF AbstractVars

(* Entering execute() is asking for a key, unless max_attempts is refused.   *)
LEMMA CallAsks ==
    ASSUME Inv, Inv', NEW c \in Callers, NEW r \in Request, Call(c, r)
    PROVE  Executor!Ask(c) \/ UNCHANGED AbstractVars
<1>0. \A d \in Callers : d # c => pc'[d] = pc[d] /\ request'[d] = request[d] /\ result'[d] = result[d]
  BY DEF Call, Inv, TypeOK
<1>1. pc[c] = "idle" /\ pc'[c] \in {"lookup", "raised"}
  BY DEF Call, Inv, TypeOK
<1>2. \A d \in Callers, k \in Key : Recording(d, k)' <=> Recording(d, k)
  BY <1>0, <1>1 DEF Recording, KeyOf
<1>3. \A d \in Callers, k \in Key : Recording(d, k) => result'[d] = result[d]
  BY <1>0, <1>1 DEF Recording
<1>4. Settled' = Settled
  <2>1. store' = store
    BY DEF Call
  <2>2. \A k \in Key : Settled'[k] = Settled[k]
    BY <1>2, <1>3, <2>1, SettledKept
  <2>. QED  BY <2>2 DEF Settled
<1>5. Answering' = Answering
  BY <1>0, <1>1 DEF Answering
<1>6. \A d \in Callers : d # c => (InFlight(d)' <=> InFlight(d)) /\ KeyOf(d)' = KeyOf(d)
  BY <1>0 DEF InFlight, KeyOf
<1>7. CASE pc'[c] = "raised"
  <2>1. ~InFlight(c) /\ ~InFlight(c)'
    BY <1>1, <1>7 DEF InFlight
  <2>2. Asking' = Asking
    BY <1>6, <2>1 DEF Asking
  <2>. QED  BY <1>4, <1>5, <2>2 DEF AbstractVars
<1>8. CASE pc'[c] = "lookup"
  <2>1. ~InFlight(c) /\ InFlight(c)'
    BY <1>1, <1>8 DEF InFlight
  <2>2. KeyOf(c)' \in Key
    <3>1. request' \in [Callers -> Request \cup {None}] /\ request'[c] \in Request
      BY <1>8 DEF Inv, TypeOK
    <3>2. request'[c].command \in Commands /\ request'[c].ticket.id \in TicketIds
      BY <3>1, WrapperAssumption DEF Request, Ticket
    <3>. QED  BY <3>2, WrapperAssumption DEF KeyOf, Key
  <2>3. Asking' = [Asking EXCEPT ![c] = KeyOf(c)'] /\ Asking[c] = None
    BY <1>6, <2>1 DEF Asking
  <2>4. Answering[c] = None
    BY <1>1 DEF Answering
  <2>. QED
    BY <1>4, <1>5, <2>2, <2>3, <2>4 DEF Executor!Ask, Asking, Settled, Answering
<1>. QED  BY <1>1, <1>7, <1>8

(* Leaving execute() with an answer: what is asked and answered changes for  *)
(* this caller only.                                                         *)
LEMMA Returning ==
    ASSUME Inv, Inv', NEW c \in Callers, InFlight(c), request' = request,
           pc' = [pc EXCEPT ![c] = "returned"],
           result' = [result EXCEPT ![c] = result'[c]]
    PROVE  /\ Asking[c] = KeyOf(c) /\ Asking[c] # None
           /\ Asking' = [Asking EXCEPT ![c] = None]
           /\ Answering' = [Answering EXCEPT ![c] = result'[c]]
           /\ \A d \in Callers : d # c => result'[d] = result[d]
           /\ \A d \in Callers, k \in Key :
                pc[c] # "record" \/ k # KeyOf(c) => (Recording(d, k)' <=> Recording(d, k))
<1>1. \A d \in Callers : d # c => pc'[d] = pc[d] /\ result'[d] = result[d]
  BY DEF Inv, TypeOK
<1>2. pc'[c] = "returned" /\ ~InFlight(c)'
  BY DEF Inv, TypeOK, InFlight
<1>3. \A d \in Callers : d # c => (InFlight(d)' <=> InFlight(d))
  BY <1>1 DEF InFlight
<1>4. \A d \in Callers : KeyOf(d)' = KeyOf(d)
  BY DEF KeyOf
<1>5. KeyOf(c) \in Key
  BY SettledAtStages
<1>6. Asking[c] = KeyOf(c) /\ Asking[c] # None
  BY <1>5, NoneIsNoKey DEF Asking
<1>7. Asking' = [Asking EXCEPT ![c] = None]
  BY <1>2, <1>3, <1>4 DEF Asking
<1>8. Answering' = [Answering EXCEPT ![c] = result'[c]]
  BY <1>1, <1>2 DEF Answering
<1>9. ASSUME NEW d \in Callers, NEW k \in Key, pc[c] # "record" \/ k # KeyOf(c)
      PROVE  Recording(d, k)' <=> Recording(d, k)
  BY <1>1, <1>2, <1>4, <1>9 DEF Recording
<1>. QED  BY <1>1, <1>6, <1>7, <1>8, <1>9

(* A replay answers with the settled outcome.                                *)
LEMMA LookupHitAnswers ==
    ASSUME Inv, Inv', NEW c \in Callers, LookupHit(c)
    PROVE  Executor!AnswerOutcome(c)
<1>1. pc[c] = "lookup" /\ InFlight(c)
  BY DEF LookupHit, InFlight
<1>2. KeyOf(c) \in Key /\ Settled[KeyOf(c)] = store[KeyOf(c)] /\ store[KeyOf(c)] # None
  BY <1>1, SettledAtStages DEF LookupHit
<1>3. result' = [result EXCEPT ![c] = result'[c]] /\ result'[c] = store[KeyOf(c)]
  BY DEF LookupHit, Inv, TypeOK
<1>4. store' = store /\ request' = request /\ pc' = [pc EXCEPT ![c] = "returned"]
  BY DEF LookupHit
<1>5. /\ Asking[c] = KeyOf(c) /\ Asking[c] # None
      /\ Asking' = [Asking EXCEPT ![c] = None]
      /\ Answering' = [Answering EXCEPT ![c] = result'[c]]
  BY <1>1, <1>3, <1>4, Returning
<1>6. /\ \A d \in Callers : d # c => result'[d] = result[d]
      /\ \A d \in Callers, k \in Key : Recording(d, k)' <=> Recording(d, k)
  BY <1>1, <1>3, <1>4, Returning
<1>7. \A d \in Callers, k \in Key : Recording(d, k) => result'[d] = result[d]
  BY <1>1, <1>6 DEF Recording
<1>8. \A k \in Key : Settled'[k] = Settled[k]
  BY <1>4, <1>6, <1>7, SettledKept
<1>9. Settled' = Settled
  BY <1>8 DEF Settled
<1>. QED
  BY <1>2, <1>3, <1>5, <1>9 DEF Executor!AnswerOutcome, Asking, Settled, Answering

(* Writing the outcome down settles nothing new: the call answers with it.   *)
LEMMA RecordAnswers ==
    ASSUME Inv, Inv', NEW c \in Callers, Record(c)
    PROVE  Executor!AnswerOutcome(c)
<1>1. pc[c] = "record" /\ InFlight(c)
  BY DEF Record, InFlight
<1>2. KeyOf(c) \in Key /\ Settled[KeyOf(c)] = result[c]
  BY <1>1, SettledAtStages
<1>3. result[c] # None
  BY <1>1, NoneIsNoResult DEF Inv, TypeOK, ExecutionResult
<1>4. result' = result /\ request' = request /\ pc' = [pc EXCEPT ![c] = "returned"]
  BY DEF Record
<1>5. result' = [result EXCEPT ![c] = result'[c]]
  BY <1>4 DEF Inv, TypeOK
<1>6. /\ Asking[c] = KeyOf(c) /\ Asking[c] # None
      /\ Asking' = [Asking EXCEPT ![c] = None]
      /\ Answering' = [Answering EXCEPT ![c] = result'[c]]
  BY <1>1, <1>4, <1>5, Returning
<1>7. ASSUME NEW k \in Key, k # KeyOf(c) PROVE Settled'[k] = Settled[k]
  <2>1. \A d \in Callers : Recording(d, k)' <=> Recording(d, k)
    BY <1>1, <1>4, <1>5, <1>7, Returning
  <2>2. store'[k] = store[k]
    BY <1>7 DEF Record, Inv, TypeOK
  <2>. QED  BY <1>4, <2>1, <2>2, SettledKept
<1>8. Settled'[KeyOf(c)] = result[c]
  <2>1. store'[KeyOf(c)] = result[c]
    BY <1>2 DEF Record, Inv, TypeOK
  <2>. QED  BY <1>2, <1>3, <2>1 DEF Settled
<1>9. Settled' = Settled
  BY <1>2, <1>7, <1>8 DEF Settled
<1>. QED
  BY <1>2, <1>3, <1>4, <1>6, <1>9 DEF Executor!AnswerOutcome, Asking, Settled, Answering

(* Exhausted attempts answer a failure while nothing is settled.             *)
LEMMA ExhaustFails ==
    ASSUME Inv, Inv', NEW c \in Callers, Exhaust(c)
    PROVE  Executor!AnswerFailure(c)
<1>1. pc[c] = "attempt" /\ InFlight(c)
  BY DEF Exhaust, InFlight
<1>2. KeyOf(c) \in Key /\ Settled[KeyOf(c)] = None
  BY <1>1, SettledAtStages
<1>3. store' = store /\ request' = request /\ pc' = [pc EXCEPT ![c] = "returned"]
  BY DEF Exhaust
<1>4. result' = [result EXCEPT ![c] = result'[c]]
  BY DEF Exhaust, Inv, TypeOK
<1>5. result'[c] \in FailureResult
  <2>1. request[c].max_attempts \in Int
    BY <1>1, WrapperAssumption DEF Inv, TypeOK, Request
  <2>. QED  BY <2>1 DEF Exhaust, Inv, TypeOK, FailureResult
<1>6. /\ Asking[c] = KeyOf(c) /\ Asking[c] # None
      /\ Asking' = [Asking EXCEPT ![c] = None]
      /\ Answering' = [Answering EXCEPT ![c] = result'[c]]
  BY <1>1, <1>3, <1>4, Returning
<1>7. /\ \A d \in Callers : d # c => result'[d] = result[d]
      /\ \A d \in Callers, k \in Key : Recording(d, k)' <=> Recording(d, k)
  BY <1>1, <1>3, <1>4, Returning
<1>8. \A d \in Callers, k \in Key : Recording(d, k) => result'[d] = result[d]
  BY <1>1, <1>7 DEF Recording
<1>9. \A k \in Key : Settled'[k] = Settled[k]
  BY <1>3, <1>7, <1>8, SettledKept
<1>10. Settled' = Settled
  BY <1>9 DEF Settled
<1>11. Answering'[c] = result'[c] /\ Answering' = [Answering EXCEPT ![c] = Answering'[c]]
  BY <1>6 DEF Answering
<1>. QED
  BY <1>2, <1>5, <1>6, <1>10, <1>11 DEF Executor!AnswerFailure, Asking, Settled, Answering

(* The tool function ran: the outcome of the key is settled from here on.    *)
LEMMA RunToolSettles ==
    ASSUME Inv, Inv', NEW c \in Callers, RunTool(c)
    PROVE  Executor!TakeEffect(c)
<1>1. pc[c] = "attempt" /\ InFlight(c)
  BY DEF RunTool, HasAttempt, InFlight
<1>2. KeyOf(c) \in Key /\ Settled[KeyOf(c)] = None
  BY <1>1, SettledAtStages
<1>3. store' = store /\ request' = request /\ pc' = [pc EXCEPT ![c] = "record"]
  BY DEF RunTool
<1>4. \A d \in Callers : KeyOf(d)' = KeyOf(d) /\ (InFlight(d)' <=> InFlight(d))
  BY <1>1, <1>3 DEF KeyOf, InFlight, Inv, TypeOK
<1>5. \A d \in Callers : d # c => pc'[d] = pc[d] /\ result'[d] = result[d]
  BY DEF RunTool, Inv, TypeOK
<1>6. pc'[c] = "record" /\ result'[c] \in AppliedResult
  BY <1>3 DEF Inv, TypeOK
<1>7. Asking' = Asking /\ Answering' = Answering
  BY <1>1, <1>4, <1>5, <1>6 DEF Asking, Answering
<1>8. ASSUME NEW k \in Key, k # KeyOf(c) PROVE Settled'[k] = Settled[k]
  <2>1. \A d \in Callers : Recording(d, k)' <=> Recording(d, k)
    BY <1>4, <1>5, <1>8 DEF Recording
  <2>2. \A d \in Callers : Recording(d, k) => result'[d] = result[d]
    BY <1>1, <1>5 DEF Recording
  <2>. QED  BY <1>3, <2>1, <2>2, SettledKept
<1>9. Settled'[KeyOf(c)] = result'[c]
  <2>1. Recording(c, KeyOf(c))'
    BY <1>4, <1>6 DEF Recording
  <2>2. PendingIsTheResult'
    BY PendingIsUnique, PTL DEF Inv
  <2>3. store'[KeyOf(c)] = None
    BY <1>4, <1>6 DEF Inv, Serial, SerialExecution
  <2>. QED  BY <1>2, <1>4, <2>1, <2>2, <2>3 DEF PendingIsTheResult, Settled
<1>10. Asking[c] = KeyOf(c) /\ Asking[c] # None
  BY <1>1, <1>2, NoneIsNoKey DEF Asking
<1>11. Settled' = [Settled EXCEPT ![KeyOf(c)] = Settled'[KeyOf(c)]]
  BY <1>8 DEF Settled
<1>. QED
  BY <1>2, <1>6, <1>7, <1>9, <1>10, <1>11 DEF Executor!TakeEffect, Asking, Settled, Answering

(* An exception of the tool leaves the key as it was: without an outcome.    *)
LEMMA ToolRaisesRaises ==
    ASSUME Inv, Inv', NEW c \in Callers, ToolRaises(c)
    PROVE  Executor!Raise(c)
<1>1. pc[c] = "attempt" /\ InFlight(c)
  BY DEF ToolRaises, HasAttempt, InFlight
<1>2. KeyOf(c) \in Key /\ Settled[KeyOf(c)] = None
  BY <1>1, SettledAtStages
<1>3. store' = store /\ result' = result /\ request' = request /\ pc' = [pc EXCEPT ![c] = "raised"]
  BY DEF ToolRaises
<1>4. \A d \in Callers : KeyOf(d)' = KeyOf(d)
  BY <1>3 DEF KeyOf
<1>5. \A d \in Callers : d # c => pc'[d] = pc[d] /\ (InFlight(d)' <=> InFlight(d))
  BY <1>3 DEF InFlight, Inv, TypeOK
<1>6. pc'[c] = "raised" /\ ~InFlight(c)'
  BY <1>3 DEF InFlight, Inv, TypeOK
<1>7. Asking[c] = KeyOf(c) /\ Asking[c] # None /\ Asking' = [Asking EXCEPT ![c] = None]
  BY <1>1, <1>2, <1>4, <1>5, <1>6, NoneIsNoKey DEF Asking
<1>8. Answering' = Answering
  BY <1>1, <1>3, <1>5, <1>6 DEF Answering
<1>9. \A d \in Callers, k \in Key : Recording(d, k)' <=> Recording(d, k)
  BY <1>1, <1>4, <1>5, <1>6 DEF Recording
<1>10. \A k \in Key : Settled'[k] = Settled[k]
  BY <1>3, <1>9, SettledKept
<1>11. Settled' = Settled
  BY <1>10 DEF Settled
<1>. QED
  BY <1>2, <1>7, <1>8, <1>11 DEF Executor!Raise, Asking, Settled, Answering

(* The caller takes its answer; an exception has none to take.               *)
LEMMA TakeResultTakes ==
    ASSUME Inv, Inv', NEW c \in Callers, TakeResult(c)
    PROVE  Executor!Take(c) \/ UNCHANGED AbstractVars
<1>1. pc[c] \in {"returned", "raised"} /\ pc'[c] = "idle"
  BY DEF TakeResult, Inv, TypeOK
<1>2. \A d \in Callers : d # c => pc'[d] = pc[d] /\ request'[d] = request[d] /\ result'[d] = result[d]
  BY DEF TakeResult, Inv, TypeOK
<1>3. \A d \in Callers : d # c => KeyOf(d)' = KeyOf(d) /\ (InFlight(d)' <=> InFlight(d))
  BY <1>2 DEF KeyOf, InFlight
<1>4. ~InFlight(c) /\ ~InFlight(c)'
  BY <1>1 DEF InFlight
<1>5. Asking' = Asking
  BY <1>3, <1>4 DEF Asking
<1>6. \A d \in Callers, k \in Key : Recording(d, k)' <=> Recording(d, k)
  BY <1>1, <1>2, <1>3 DEF Recording
<1>7. \A d \in Callers, k \in Key : Recording(d, k) => result'[d] = result[d]
  BY <1>1, <1>2 DEF Recording
<1>8. store' = store
  BY DEF TakeResult
<1>9. \A k \in Key : Settled'[k] = Settled[k]
  BY <1>6, <1>7, <1>8, SettledKept
<1>10. Settled' = Settled
  BY <1>9 DEF Settled
<1>11. CASE pc[c] = "raised"
  <2>1. Answering' = Answering
    BY <1>1, <1>2, <1>11 DEF Answering
  <2>. QED  BY <1>5, <1>10, <2>1 DEF AbstractVars
<1>12. CASE pc[c] = "returned"
  <2>1. Answering[c] # None
    BY <1>12, NoneIsNoResult DEF Inv, TypeOK, Answering
  <2>2. Answering' = [Answering EXCEPT ![c] = None]
    BY <1>1, <1>2 DEF Answering
  <2>. QED
    BY <1>5, <1>10, <2>1, <2>2 DEF Executor!Take, Asking, Settled, Answering
<1>. QED  BY <1>1, <1>11, <1>12

-----------------------------------------------------------------------------
(* Before the first call nothing is asked, settled or answered.              *)
LEMMA InitIsAbstract == WrapperInit => Executor!Init
<1>. SUFFICES ASSUME WrapperInit PROVE Executor!Init
  OBVIOUS
<1>1. PendingIsTheResult
  BY InitSerial, PendingIsUnique
<1>2. \A c \in Callers, k \in Key : ~Recording(c, k)
  BY DEF WrapperInit, Recording
<1>3. Settled = [k \in Key |-> None]
  BY <1>1, <1>2 DEF PendingIsTheResult, Settled, WrapperInit
<1>4. Asking = [c \in Callers |-> None] /\ Answering = [c \in Callers |-> None]
  BY DEF Asking, Answering, WrapperInit, InFlight
<1>. QED  BY <1>3, <1>4 DEF Executor!Init, Asking, Settled, Answering

(* Every step of execute() is one abstract step or none.                     *)
LEMMA NextIsAbstract ==
    Inv /\ Inv' /\ [WrapperNext]_wrapperVars => [Executor!Next]_(Executor!vars)
<1>. SUFFICES ASSUME Inv, Inv', [WrapperNext]_wrapperVars
              PROVE  Executor!Next \/ UNCHANGED AbstractVars
  BY DEF Executor!vars, AbstractVars, Asking, Settled, Answering
<1>1. ASSUME NEW c \in Callers, NEW r \in Request, Call(c, r)
      PROVE  Executor!Next \/ UNCHANGED AbstractVars
  BY <1>1, CallAsks DEF Executor!Next
<1>2. ASSUME NEW c \in Callers, LookupHit(c) PROVE Executor!Next
  BY <1>2, LookupHitAnswers DEF Executor!Next
<1>3. ASSUME NEW c \in Callers, LookupMiss(c) PROVE UNCHANGED AbstractVars
  BY <1>3, Stutter DEF LookupMiss, InFlight, KeyOf, Inv, TypeOK
<1>4. ASSUME NEW c \in Callers, TransientFailure(c) PROVE UNCHANGED AbstractVars
  BY <1>4, Stutter DEF TransientFailure, HasAttempt, InFlight, KeyOf, Inv, TypeOK
<1>5. ASSUME NEW c \in Callers, RunTool(c) PROVE Executor!Next
  BY <1>5, RunToolSettles DEF Executor!Next
<1>6. ASSUME NEW c \in Callers, ToolRaises(c) PROVE Executor!Next
  BY <1>6, ToolRaisesRaises DEF Executor!Next
<1>7. ASSUME NEW c \in Callers, Record(c) PROVE Executor!Next
  BY <1>7, RecordAnswers DEF Executor!Next
<1>8. ASSUME NEW c \in Callers, Exhaust(c) PROVE Executor!Next
  BY <1>8, ExhaustFails DEF Executor!Next
<1>9. ASSUME NEW c \in Callers, TakeResult(c)
      PROVE  Executor!Next \/ UNCHANGED AbstractVars
  BY <1>9, TakeResultTakes DEF Executor!Next
<1>10. CASE UNCHANGED wrapperVars
  BY <1>10, Stutter DEF wrapperVars, InFlight, KeyOf
<1>. QED
  BY <1>1, <1>2, <1>3, <1>4, <1>5, <1>6, <1>7, <1>8, <1>9, <1>10 DEF WrapperNext, Execute

(* execute() promises what the abstract executor does: one outcome per key,  *)
(* every answer is that outcome, and a failure or an exception only while    *)
(* there is none.                                                            *)
THEOREM WrapperImplementsExecutor ==
    ASSUME OneCallPerWrapper
    PROVE  WrapperSpec => ImplementsExecutor
<1>1. WrapperSpec => []Inv
  BY InductiveSerial DEF Inv
<1>. QED
  BY <1>1, InitIsAbstract, NextIsAbstract, PTL DEF WrapperSpec, ImplementsExecutor, Executor!Spec
=============================================================================
