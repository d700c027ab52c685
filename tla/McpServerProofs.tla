--------------------------- MODULE McpServerProofs ---------------------------
(* Proofs about McpServer, for every store, set of calls and number of       *)
(* sessions, on one event loop and on several.                               *)
EXTENDS McpServer, SequenceTheorems, TLAPS

(* A tool function returns the ticket it was given, with the one field it is *)
(* about changed.                                                            *)
LEMMA AppliedTicket ==
    ASSUME NEW command \in AuthorizedCommand, NEW ticket \in Ticket
    PROVE  LET after == Apply(command, ticket)
           IN  /\ after \in Ticket
               /\ after.id = ticket.id
               /\ after.refund_eligible_amount =
                     IF command.tool_name = "issue_refund"
                     THEN RemainingEligible(command, ticket) ELSE ticket.refund_eligible_amount
               /\ after.notes =
                     IF command.tool_name = "add_ticket_note"
                     THEN Append(ticket.notes, command.args.note) ELSE ticket.notes
<1>1. CASE command \in UpdateTicketStatusCommand
  BY <1>1 DEF Apply, update_ticket_status, UpdateTicketStatusCommand, UpdateTicketStatusArgs, Ticket
<1>2. CASE command \in IssueRefundCommand
  <2>1. RemainingEligible(command, ticket) \in Int \cup {None}
    BY <1>2 DEF RemainingEligible, FloorAtZero, IssueRefundCommand, IssueRefundArgs, Ticket
  <2>2. Apply(command, ticket) = issue_refund(command, ticket) /\ command.tool_name = "issue_refund"
    BY <1>2 DEF Apply, IssueRefundCommand
  <2>. QED  BY <2>1, <2>2 DEF issue_refund, Ticket
<1>3. CASE command \in AddTicketNoteCommand
  <2>1. Append(ticket.notes, command.args.note) \in Seq(NoteTexts)
    BY <1>3 DEF AddTicketNoteCommand, AddTicketNoteArgs, Ticket
  <2>2. Apply(command, ticket) = add_ticket_note(command, ticket) /\ command.tool_name = "add_ticket_note"
    BY <1>3 DEF Apply, AddTicketNoteCommand
  <2>. QED  BY <2>1, <2>2 DEF add_ticket_note, Ticket
<1>. QED  BY <1>1, <1>2, <1>3 DEF AuthorizedCommand

(* The arguments of a validated command.                                     *)
LEMMA CommandType ==
    /\ McpCommands \subseteq AuthorizedCommand
    /\ \A command \in AuthorizedCommand :
          /\ command.args.ticket_id \in TicketIds
          /\ command.tool_name = "issue_refund" =>
                command.args.amount \in Int /\ command.args.amount > 0
          /\ command.tool_name = "add_ticket_note" => command.args.note \in NoteTexts
<1>1. McpCommands \subseteq AuthorizedCommand
  BY DEF McpCommands, HasSchema, CommandOf, AuthorizedCommand, UpdateTicketStatusCommand,
         IssueRefundCommand, AddTicketNoteCommand
<1>2. ASSUME NEW command \in AuthorizedCommand
      PROVE  /\ command.args.ticket_id \in TicketIds
             /\ command.tool_name = "issue_refund" =>
                   command.args.amount \in Int /\ command.args.amount > 0
             /\ command.tool_name = "add_ticket_note" => command.args.note \in NoteTexts
  BY <1>2 DEF AuthorizedCommand, UpdateTicketStatusCommand, UpdateTicketStatusArgs,
              IssueRefundCommand, IssueRefundArgs, AddTicketNoteCommand, AddTicketNoteArgs
<1>. QED  BY <1>1, <1>2

LEMMA InitType == Init => TypeOK
BY McpAssumption DEF Init, TypeOK

-----------------------------------------------------------------------------
(* What each action does to the state, once its types are known.             *)
LEMMA LookupHolds ==
    ASSUME TypeOK, NEW s \in Sessions, NEW call \in Calls, Lookup(s, call)
    PROVE  LET command == CommandOf(call)
               id == command.args.ticket_id
           IN  /\ command \in McpCommands /\ id \in TicketIds
               /\ tickets[id] # None /\ tickets[id] \in Ticket
               /\ held' = [held EXCEPT ![s] = [command |-> command, ticket |-> tickets[id]]]
               /\ UNCHANGED <<tickets, answer, refunded, noted, served>>
               /\ TypeOK'
<1>. DEFINE command == CommandOf(call)
            id == command.args.ticket_id
<1>1. command \in McpCommands
  BY DEF Lookup, McpCommands
<1>2. id = call.arguments.ticket_id /\ id \in TicketIds
  BY <1>1, CommandType DEF CommandOf
<1>3. tickets[id] # None /\ tickets[id] \in Ticket
  BY <1>2 DEF Lookup, ticket_ids, TypeOK
<1>4. held' = [held EXCEPT ![s] = [command |-> command, ticket |-> tickets[id]]]
  BY <1>2 DEF Lookup, get
<1>5. UNCHANGED <<tickets, answer, refunded, noted, served>>
  BY DEF Lookup
<1>6. TypeOK'
  <2>. HIDE DEF command
  <2>. QED  BY <1>1, <1>3, <1>4, <1>5 DEF TypeOK
<1>. QED  BY <1>1, <1>2, <1>3, <1>4, <1>5, <1>6

LEMMA ServeApplies ==
    ASSUME TypeOK, NEW s \in Sessions, Serve(s)
    PROVE  LET command == held[s].command
               ticket == held[s].ticket
               id == command.args.ticket_id
           IN  /\ command \in McpCommands /\ command \in AuthorizedCommand /\ id \in TicketIds
               /\ ticket \in Ticket /\ TargetsTicket(command, ticket)
               /\ tickets' = [tickets EXCEPT ![id] = Apply(command, ticket)]
               /\ refunded' = [refunded EXCEPT ![id] = refunded[id] +
                     IF command.tool_name = "issue_refund" THEN command.args.amount ELSE 0]
               /\ noted' = [noted EXCEPT ![id] = IF command.tool_name = "add_ticket_note"
                     THEN Append(noted[id], command.args.note) ELSE noted[id]]
               /\ held' = [held EXCEPT ![s] = None]
               /\ TypeOK'
<1>. DEFINE command == held[s].command
            ticket == held[s].ticket
            id == command.args.ticket_id
            amount == IF command.tool_name = "issue_refund" THEN command.args.amount ELSE 0
<1>1. command \in McpCommands /\ ticket \in Ticket
  BY DEF Serve, TypeOK
<1>2. command \in AuthorizedCommand /\ id \in TicketIds
  BY <1>1, CommandType
<1>3. TargetsTicket(command, ticket) /\ Apply(command, ticket).id = id
  BY <1>1, <1>2, AppliedTicket DEF Serve, TargetsTicket
<1>4. tickets' = [tickets EXCEPT ![id] = Apply(command, ticket)]
  BY <1>3 DEF Serve, put
<1>5. refunded' = [refunded EXCEPT ![id] = refunded[id] + amount]
  BY <1>2 DEF Serve, Count, TypeOK
<1>6. noted' = [noted EXCEPT ![id] = IF command.tool_name = "add_ticket_note"
                     THEN Append(noted[id], command.args.note) ELSE noted[id]]
  BY <1>2 DEF Serve, Count, TypeOK
<1>7. held' = [held EXCEPT ![s] = None]
  BY DEF Serve
<1>8. TypeOK'
  <2>1. Apply(command, ticket) \in Ticket
    BY <1>1, <1>2, AppliedTicket
  <2>2. amount \in Nat /\ refunded[id] + amount \in Nat
    BY <1>2, CommandType DEF TypeOK
  <2>3. (IF command.tool_name = "add_ticket_note"
         THEN Append(noted[id], command.args.note) ELSE noted[id]) \in Seq(NoteTexts)
    BY <1>2, CommandType DEF TypeOK
  <2>4. tickets' \in [TicketIds -> Ticket \cup {None}]
    BY <1>2, <1>4, <2>1 DEF TypeOK
  <2>5. held' \in [Sessions -> [command : McpCommands, ticket : Ticket] \cup {None}]
    BY <1>7 DEF TypeOK
  <2>6. answer' \in [Sessions -> Ticket \cup {isError, None}]
    BY <2>1 DEF Serve, TypeOK
  <2>7. refunded' \in [TicketIds -> Nat]
    BY <1>5, <2>2 DEF TypeOK
  <2>8. noted' \in [TicketIds -> Seq(NoteTexts)]
    BY <1>6, <2>3 DEF TypeOK
  <2>9. served' \in Nat
    BY DEF Serve, Count, TypeOK
  <2>. QED  BY <2>4, <2>5, <2>6, <2>7, <2>8, <2>9 DEF TypeOK
<1>. QED  BY <1>1, <1>2, <1>3, <1>4, <1>5, <1>6, <1>7, <1>8

(* A call that raises changes nothing but what its session is told.          *)
LEMMA RaisingKeeps ==
    ASSUME TypeOK, NEW s \in Sessions,
           ToolRaises(s) \/ \E call \in Calls : Refuse(s, call)
    PROVE  /\ UNCHANGED <<tickets, refunded, noted, served>>
           /\ held' = held \/ held' = [held EXCEPT ![s] = None]
           /\ TypeOK'
BY DEF ToolRaises, Refuse, TypeOK

LEMMA NextType == TypeOK /\ [Next]_vars => TypeOK'
<1>1. ASSUME TypeOK, UNCHANGED vars PROVE TypeOK'
  BY <1>1 DEF vars, TypeOK
<1>2. ASSUME TypeOK, NEW s \in Sessions, NEW call \in Calls, Lookup(s, call) PROVE TypeOK'
  BY <1>2, LookupHolds
<1>3. ASSUME TypeOK, NEW s \in Sessions, Serve(s) PROVE TypeOK'
  BY <1>3, ServeApplies
<1>. QED  BY <1>1, <1>2, <1>3, RaisingKeeps DEF Next

(* The store holds tickets, and a handler works on a validated command.      *)
THEOREM ServerTypeCorrect == Spec => []TypeOK
BY InitType, NextType, PTL DEF Spec

-----------------------------------------------------------------------------
(* One event loop.  The ticket a handler holds stays the one in the store,   *)
(* because no other handler is at work.                                      *)
LoopInv == TypeOK /\ HandlersAlternate

LEMMA LoopNext ==
    ASSUME OneLoop PROVE LoopInv /\ [Next]_vars => LoopInv'
<1>. SUFFICES ASSUME LoopInv, [Next]_vars PROVE HandlersAlternate'
  BY NextType DEF LoopInv
<1>. USE DEF LoopInv
<1>1. CASE UNCHANGED vars
  BY <1>1 DEF vars, HandlersAlternate, get
<1>2. ASSUME NEW s \in Sessions, ToolRaises(s) \/ \E call \in Calls : Refuse(s, call)
      PROVE  HandlersAlternate'
  <2>1. tickets' = tickets /\ (held' = held \/ held' = [held EXCEPT ![s] = None])
    BY <1>2, RaisingKeeps
  <2>. QED  BY <2>1 DEF HandlersAlternate, get, TypeOK
<1>3. ASSUME NEW s \in Sessions, NEW call \in Calls, Lookup(s, call) PROVE HandlersAlternate'
  <2>. DEFINE command == CommandOf(call)
  <2>1. held' = [held EXCEPT ![s] =
            [command |-> command, ticket |-> tickets[command.args.ticket_id]]]
        /\ tickets' = tickets
    BY <1>3, LookupHolds
  <2>2. \A t \in Sessions : held[t] = None
    BY <1>3 DEF Lookup, MayRun
  <2>. HIDE DEF command
  <2>. QED  BY <2>1, <2>2 DEF HandlersAlternate, get, TypeOK
<1>4. ASSUME NEW s \in Sessions, Serve(s) PROVE HandlersAlternate'
  <2>1. held' = [held EXCEPT ![s] = None]
    BY <1>4 DEF Serve
  <2>2. \A t \in Sessions : held'[t] = None
    BY <1>4, <2>1 DEF Serve, HandlersAlternate, TypeOK
  <2>. QED  BY <2>2 DEF HandlersAlternate
<1>. QED  BY <1>1, <1>2, <1>3, <1>4 DEF Next

LEMMA LoopInvariant == ASSUME OneLoop PROVE Init /\ [][Next]_vars => []LoopInv
<1>1. Init => LoopInv
  BY InitType DEF LoopInv, Init, HandlersAlternate
<1>. QED  BY <1>1, LoopNext, PTL

(* On one event loop a handler is alone with the ticket it looked up.        *)
THEOREM HandlersDoAlternate == ASSUME OneLoop PROVE Spec => []HandlersAlternate
<1>1. LoopInv => HandlersAlternate
  BY DEF LoopInv
<1>. QED  BY <1>1, LoopInvariant, PTL DEF Spec

(* A refund on top of others: the floor at zero may be taken once, at the    *)
(* end.                                                                      *)
LEMMA RefundsAddUp ==
    ASSUME NEW first \in Int \cup {None}, NEW total \in Nat, NEW amount \in Int, amount > 0
    PROVE  LeftOf(first, total + amount) =
              IF LeftOf(first, total) = None THEN None
              ELSE FloorAtZero(LeftOf(first, total) - amount)
BY NoneIsNoNumber DEF LeftOf, FloorAtZero

(* A note at the end of the second of two lists is at the end of both.       *)
LEMMA AppendToConcat ==
    ASSUME NEW front \in Seq(NoteTexts), NEW back \in Seq(NoteTexts), NEW e \in NoteTexts
    PROVE  Append(front \o back, e) = front \o Append(back, e)
<1>1. <<e>> \in Seq(NoteTexts) /\ front \o back \in Seq(NoteTexts)
  BY ConcatProperties
<1>2. Append(front \o back, e) = (front \o back) \o <<e>>
  BY <1>1, AppendIsConcat
<1>3. Append(back, e) = back \o <<e>>
  BY AppendIsConcat
<1>4. (front \o back) \o <<e>> = front \o (back \o <<e>>)
  BY <1>1, ConcatAssociative
<1>. QED  BY <1>2, <1>3, <1>4

(* What one call leaves of a ticket, given what the calls before it left.    *)
LEMMA ApplyTells ==
    ASSUME NEW first \in Ticket, NEW ticket \in Ticket, NEW total \in Nat,
           NEW before \in Seq(NoteTexts), NEW command \in AuthorizedCommand,
           ticket.refund_eligible_amount = LeftOf(first.refund_eligible_amount, total),
           ticket.notes = first.notes \o before
    PROVE  LET amount == IF command.tool_name = "issue_refund" THEN command.args.amount ELSE 0
               after == IF command.tool_name = "add_ticket_note"
                        THEN Append(before, command.args.note) ELSE before
           IN  /\ Apply(command, ticket).refund_eligible_amount
                     = LeftOf(first.refund_eligible_amount, total + amount)
               /\ Apply(command, ticket).notes = first.notes \o after
<1>. DEFINE balance == first.refund_eligible_amount
<1>1. balance \in Int \cup {None} /\ first.notes \in Seq(NoteTexts)
  BY DEF Ticket
<1>2. CASE command.tool_name = "issue_refund"
  <2>1. Apply(command, ticket).refund_eligible_amount = RemainingEligible(command, ticket)
        /\ Apply(command, ticket).notes = ticket.notes
    BY <1>2, AppliedTicket
  <2>2. RemainingEligible(command, ticket) = LeftOf(balance, total + command.args.amount)
    BY <1>1, <1>2, CommandType, RefundsAddUp DEF RemainingEligible
  <2>. QED  BY <1>2, <2>1, <2>2
<1>3. CASE command.tool_name = "add_ticket_note"
  <2>1. Apply(command, ticket).refund_eligible_amount = ticket.refund_eligible_amount
        /\ Apply(command, ticket).notes = Append(ticket.notes, command.args.note)
    BY <1>3, AppliedTicket
  <2>2. command.args.note \in NoteTexts
    BY <1>3, CommandType
  <2>3. Append(first.notes \o before, command.args.note)
           = first.notes \o Append(before, command.args.note)
    BY <1>1, <2>2, AppendToConcat
  <2>. QED  BY <1>3, <2>1, <2>3
<1>4. CASE command.tool_name # "issue_refund" /\ command.tool_name # "add_ticket_note"
  BY <1>4, AppliedTicket
<1>. QED  BY <1>2, <1>3, <1>4

TellingInv == LoopInv /\ ticket_ids = {id \in TicketIds : Seed[id] # None} /\ StoreTellsTheCalls

LEMMA TellingNext ==
    ASSUME OneLoop PROVE TellingInv /\ [Next]_vars => TellingInv'
<1>. SUFFICES ASSUME TellingInv, [Next]_vars
     PROVE  ticket_ids' = ticket_ids /\ StoreTellsTheCalls'
  BY LoopNext DEF TellingInv
<1>. USE DEF TellingInv, LoopInv
<1>1. ASSUME UNCHANGED <<tickets, refunded, noted>>
      PROVE  ticket_ids' = ticket_ids /\ StoreTellsTheCalls'
  BY <1>1 DEF ticket_ids, StoreTellsTheCalls, get
<1>2. ASSUME NEW s \in Sessions, Serve(s)
      PROVE  ticket_ids' = ticket_ids /\ StoreTellsTheCalls'
  <2>. DEFINE command == held[s].command
              ticket == held[s].ticket
              id == command.args.ticket_id
              amount == IF command.tool_name = "issue_refund" THEN command.args.amount ELSE 0
              after == IF command.tool_name = "add_ticket_note"
                       THEN Append(noted[id], command.args.note) ELSE noted[id]
  <2>1. /\ command \in AuthorizedCommand /\ id \in TicketIds /\ ticket \in Ticket
        /\ tickets' = [tickets EXCEPT ![id] = Apply(command, ticket)]
        /\ refunded' = [refunded EXCEPT ![id] = refunded[id] + amount]
        /\ noted' = [noted EXCEPT ![id] = after]
    BY <1>2, ServeApplies
  <2>2. ticket = tickets[id]
    BY <1>2 DEF Serve, HandlersAlternate, get
  <2>3. None \notin Ticket
    BY McpAssumption
  <2>4. id \in ticket_ids /\ Seed[id] \in Ticket
    BY <2>1, <2>2, <2>3, McpAssumption DEF ticket_ids
  <2>5. Apply(command, ticket) \in Ticket
    BY <2>1, AppliedTicket
  <2>6. ticket_ids' = ticket_ids
    BY <2>1, <2>2, <2>3, <2>5 DEF ticket_ids, TypeOK
  <2>7. /\ ticket.refund_eligible_amount = LeftOf(Seed[id].refund_eligible_amount, refunded[id])
        /\ ticket.notes = Seed[id].notes \o noted[id]
    BY <2>2, <2>4 DEF StoreTellsTheCalls, get
  <2>8. refunded[id] \in Nat /\ noted[id] \in Seq(NoteTexts)
    BY <2>1 DEF TypeOK
  <2>9. /\ Apply(command, ticket).refund_eligible_amount
             = LeftOf(Seed[id].refund_eligible_amount, refunded[id] + amount)
        /\ Apply(command, ticket).notes = Seed[id].notes \o after
    BY <2>1, <2>4, <2>7, <2>8, ApplyTells
  <2>10. tickets'[id] = Apply(command, ticket) /\ refunded'[id] = refunded[id] + amount
         /\ noted'[id] = after
    BY <2>1 DEF TypeOK
  <2>11. \A i \in TicketIds \ {id} :
            tickets'[i] = tickets[i] /\ refunded'[i] = refunded[i] /\ noted'[i] = noted[i]
    BY <2>1 DEF TypeOK
  <2>. HIDE DEF id, command, ticket, after, amount
  <2>12. StoreTellsTheCalls'
    <3>. SUFFICES ASSUME NEW i \in ticket_ids
         PROVE  /\ tickets'[i].refund_eligible_amount
                      = LeftOf(Seed[i].refund_eligible_amount, refunded'[i])
                /\ tickets'[i].notes = Seed[i].notes \o noted'[i]
      BY <2>6 DEF StoreTellsTheCalls, get
    <3>1. CASE i = id
      BY <2>9, <2>10, <3>1
    <3>2. CASE i # id
      BY <2>11, <3>2 DEF StoreTellsTheCalls, get, ticket_ids
    <3>. QED  BY <3>1, <3>2
  <2>. QED  BY <2>6, <2>12
<1>3. ASSUME NEW s \in Sessions,
             ToolRaises(s) \/ (\E call \in Calls : Refuse(s, call) \/ Lookup(s, call))
      PROVE  UNCHANGED <<tickets, refunded, noted>>
  BY <1>3 DEF ToolRaises, Refuse, Lookup
<1>4. CASE UNCHANGED vars
  BY <1>1, <1>4 DEF vars
<1>. QED  BY <1>1, <1>2, <1>3, <1>4 DEF Next

(* On one event loop each ticket shows all the refunds and all the notes of  *)
(* the calls served on it and of no others, in order: no read-modify-write   *)
(* of a handler overtakes another.                                           *)
THEOREM StoreTellsAllCalls == ASSUME OneLoop PROVE Spec => []StoreTellsTheCalls
<1>1. Init => TellingInv
  <2>1. Init => LoopInv
    BY InitType DEF LoopInv, Init, HandlersAlternate
  <2>2. ASSUME Init PROVE ticket_ids = {id \in TicketIds : Seed[id] # None}
    BY <2>2 DEF Init, ticket_ids
  <2>3. ASSUME Init PROVE StoreTellsTheCalls
    <3>. SUFFICES ASSUME NEW id \in ticket_ids
         PROVE  /\ get(id).refund_eligible_amount
                      = LeftOf(Seed[id].refund_eligible_amount, refunded[id])
                /\ get(id).notes = Seed[id].notes \o noted[id]
      BY DEF StoreTellsTheCalls
    <3>1. Seed[id] \in Ticket /\ get(id) = Seed[id] /\ refunded[id] = 0 /\ noted[id] = <<>>
      BY <2>3, McpAssumption DEF Init, ticket_ids, get
    <3>2. Seed[id].notes \in Seq(NoteTexts)
      BY <3>1 DEF Ticket
    <3>. QED  BY <3>1, <3>2 DEF LeftOf
  <2>. QED  BY <2>1, <2>2, <2>3 DEF TellingInv
<1>2. TellingInv => StoreTellsTheCalls
  BY DEF TellingInv
<1>. QED  BY <1>1, <1>2, TellingNext, PTL DEF Spec

(* On one event loop a handler's lookup, tool and put implement the one step *)
(* of AtomicTickets.                                                         *)
THEOREM ServerImplementsAtomicTickets == ASSUME OneLoop PROVE Spec => ImplementsAtomicTickets
<1>1. Init => Atomic!Init
  BY DEF Init, Atomic!Init
<1>2. ASSUME LoopInv, [Next]_vars PROVE [Atomic!Next]_tickets
  <2>. USE <1>2 DEF LoopInv
  <2>1. CASE UNCHANGED vars
    BY <2>1 DEF vars
  <2>2. ASSUME NEW s \in Sessions,
               ToolRaises(s) \/ (\E call \in Calls : Refuse(s, call) \/ Lookup(s, call))
        PROVE  UNCHANGED tickets
    BY <2>2 DEF ToolRaises, Refuse, Lookup
  <2>3. ASSUME NEW s \in Sessions, Serve(s) PROVE Atomic!Next
    <3>. DEFINE command == held[s].command
                id == command.args.ticket_id
    <3>1. /\ command \in McpCommands /\ id \in TicketIds /\ held[s].ticket \in Ticket
          /\ TargetsTicket(command, held[s].ticket)
          /\ tickets' = [tickets EXCEPT ![id] = Apply(command, held[s].ticket)]
      BY <2>3, ServeApplies
    <3>2. held[s].ticket = tickets[id]
      BY <2>3 DEF Serve, HandlersAlternate, get
    <3>3. tickets[id] # None
      BY <3>1, <3>2, McpAssumption
    <3>4. Atomic!TargetsTicket(command, tickets[id])
          /\ Atomic!Apply(command, tickets[id]) = Apply(command, tickets[id])
      BY <3>1, <3>2 DEF Atomic!TargetsTicket, TargetsTicket, Atomic!Apply, Apply,
           Atomic!update_ticket_status, update_ticket_status, Atomic!issue_refund, issue_refund,
           Atomic!RemainingEligible, RemainingEligible, Atomic!FloorAtZero, FloorAtZero,
           Atomic!add_ticket_note, add_ticket_note
    <3>5. Atomic!Serve(command)
      BY <3>1, <3>2, <3>3, <3>4 DEF Atomic!Serve
    <3>. QED  BY <3>1, <3>5 DEF Atomic!Next
  <2>. QED  BY <2>1, <2>2, <2>3 DEF Next
<1>. QED  BY <1>1, <1>2, LoopInvariant, PTL DEF Spec, ImplementsAtomicTickets, Atomic!Spec

-----------------------------------------------------------------------------
(* Several event loops.  A handler may put back a ticket that has changed    *)
(* since it looked it up; what can be said of the ticket it holds is what can*)
(* be said of one in the store.                                              *)
BalanceFrom(first, total, balance) ==
    IF first = None THEN balance = None
    ELSE /\ balance \in Int
         /\ \/ balance = first
            \/ FloorAtZero(first - total) <= balance /\ balance <= FloorAtZero(first)

NotesFrom(first, sent, notes) ==
    \A i \in DOMAIN notes :
        notes[i] \in {first[j] : j \in DOMAIN first} \cup {sent[j] : j \in DOMAIN sent}

(* The ticket is Seed[id], changed by refunds of that total and those notes. *)
ComesFrom(id, total, sent, ticket) ==
    /\ ticket.id = Seed[id].id
    /\ BalanceFrom(Seed[id].refund_eligible_amount, total, ticket.refund_eligible_amount)
    /\ NotesFrom(Seed[id].notes, sent, ticket.notes)

StoreComesFromSeed ==
    \A id \in TicketIds :
        /\ tickets[id] = None <=> Seed[id] = None
        /\ tickets[id] # None => ComesFrom(id, refunded[id], noted[id], tickets[id])

HandlersComeFromSeed ==
    \A s \in Sessions : held[s] # None =>
        LET id == held[s].command.args.ticket_id
        IN  Seed[id] # None /\ ComesFrom(id, refunded[id], noted[id], held[s].ticket)

SharedInv == TypeOK /\ StoreComesFromSeed /\ HandlersComeFromSeed

(* More refunds and notes leave what was known of a ticket true.             *)
LEMMA MoreIsServed ==
    ASSUME NEW first \in Ticket, NEW ticket \in Ticket,
           NEW total \in Nat, NEW more \in Nat, total <= more,
           NEW sent \in Seq(NoteTexts), NEW longer \in Seq(NoteTexts),
           \A j \in DOMAIN sent : j \in DOMAIN longer /\ longer[j] = sent[j],
           BalanceFrom(first.refund_eligible_amount, total, ticket.refund_eligible_amount),
           NotesFrom(first.notes, sent, ticket.notes)
    PROVE  /\ BalanceFrom(first.refund_eligible_amount, more, ticket.refund_eligible_amount)
           /\ NotesFrom(first.notes, longer, ticket.notes)
<1>1. first.refund_eligible_amount \in Int \cup {None}
  BY DEF Ticket
<1>2. BalanceFrom(first.refund_eligible_amount, more, ticket.refund_eligible_amount)
  BY <1>1 DEF BalanceFrom, FloorAtZero
<1>3. NotesFrom(first.notes, longer, ticket.notes)
  BY DEF NotesFrom
<1>. QED  BY <1>2, <1>3

LEMMA RefundStaysWithin ==
    ASSUME NEW first \in Int \cup {None}, NEW ticket \in Ticket, NEW total \in Nat,
           NEW command, command.args.amount \in Int, command.args.amount > 0,
           BalanceFrom(first, total, ticket.refund_eligible_amount)
    PROVE  BalanceFrom(first, total + command.args.amount, RemainingEligible(command, ticket))
<1>. DEFINE amount == command.args.amount
            balance == ticket.refund_eligible_amount
<1>1. CASE first = None
  BY <1>1 DEF BalanceFrom, RemainingEligible
<1>2. CASE first # None
  <2>1. first \in Int /\ balance \in Int /\ balance # None /\ amount \in Int /\ amount > 0
    BY <1>2, NoneIsNoNumber DEF BalanceFrom
  <2>2. \/ balance = first
        \/ FloorAtZero(first - total) <= balance /\ balance <= FloorAtZero(first)
    BY <1>2 DEF BalanceFrom
  <2>3. RemainingEligible(command, ticket) = FloorAtZero(balance - amount)
    BY <2>1 DEF RemainingEligible
  <2>. HIDE DEF amount, balance
  <2>4. /\ FloorAtZero(balance - amount) \in Int
        /\ FloorAtZero(first - (total + amount)) <= FloorAtZero(balance - amount)
        /\ FloorAtZero(balance - amount) <= FloorAtZero(first)
    BY <2>1, <2>2 DEF FloorAtZero
  <2>. QED  BY <1>2, <2>3, <2>4 DEF BalanceFrom, amount
<1>. QED  BY <1>1, <1>2

(* A call that is served on a ticket changes it within those limits.         *)
LEMMA ServedTicketComesFrom ==
    ASSUME NEW first \in Ticket, NEW ticket \in Ticket, NEW total \in Nat,
           NEW sent \in Seq(NoteTexts), NEW command \in AuthorizedCommand,
           BalanceFrom(first.refund_eligible_amount, total, ticket.refund_eligible_amount),
           NotesFrom(first.notes, sent, ticket.notes)
    PROVE  LET amount == IF command.tool_name = "issue_refund" THEN command.args.amount ELSE 0
               after == IF command.tool_name = "add_ticket_note"
                        THEN Append(sent, command.args.note) ELSE sent
           IN  /\ BalanceFrom(first.refund_eligible_amount, total + amount,
                              Apply(command, ticket).refund_eligible_amount)
               /\ NotesFrom(first.notes, after, Apply(command, ticket).notes)
<1>1. first.refund_eligible_amount \in Int \cup {None} /\ ticket.notes \in Seq(NoteTexts)
  BY DEF Ticket
<1>2. CASE command.tool_name = "issue_refund"
  <2>1. Apply(command, ticket).refund_eligible_amount = RemainingEligible(command, ticket)
        /\ Apply(command, ticket).notes = ticket.notes
    BY <1>2, AppliedTicket
  <2>2. command.args.amount \in Int /\ command.args.amount > 0
    BY <1>2, CommandType
  <2>3. BalanceFrom(first.refund_eligible_amount, total + command.args.amount,
                    RemainingEligible(command, ticket))
    BY <1>1, <2>2, RefundStaysWithin
  <2>. QED  BY <1>2, <2>1, <2>3
<1>3. CASE command.tool_name = "add_ticket_note"
  <2>. DEFINE note == command.args.note
  <2>1. Apply(command, ticket).refund_eligible_amount = ticket.refund_eligible_amount
        /\ Apply(command, ticket).notes = Append(ticket.notes, note)
    BY <1>3, AppliedTicket
  <2>2. note \in NoteTexts
    BY <1>3, CommandType
  <2>. HIDE DEF note
  <2>3. NotesFrom(first.notes, Append(sent, note), Append(ticket.notes, note))
    <3>. SUFFICES ASSUME NEW i \in DOMAIN Append(ticket.notes, note)
         PROVE  Append(ticket.notes, note)[i] \in {first.notes[j] : j \in DOMAIN first.notes}
                   \cup {Append(sent, note)[j] : j \in DOMAIN Append(sent, note)}
      BY DEF NotesFrom
    <3>1. \A j \in DOMAIN sent :
             j \in DOMAIN Append(sent, note) /\ Append(sent, note)[j] = sent[j]
      BY <2>2
    <3>2. Len(sent) + 1 \in DOMAIN Append(sent, note) /\ Append(sent, note)[Len(sent) + 1] = note
      BY <2>2
    <3>3. CASE i \in DOMAIN ticket.notes
      <4>1. Append(ticket.notes, note)[i] = ticket.notes[i]
        BY <1>1, <2>2, <3>3
      <4>. QED  BY <3>1, <3>3, <4>1 DEF NotesFrom
    <3>4. CASE i \notin DOMAIN ticket.notes
      <4>1. Append(ticket.notes, note)[i] = note
        BY <1>1, <2>2, <3>4
      <4>. QED  BY <3>2, <4>1
    <3>. QED  BY <3>3, <3>4
  <2>4. BalanceFrom(first.refund_eligible_amount, total + 0, ticket.refund_eligible_amount)
    OBVIOUS
  <2>. QED  BY <1>3, <2>1, <2>3, <2>4 DEF note
<1>4. CASE command.tool_name # "issue_refund" /\ command.tool_name # "add_ticket_note"
  <2>1. Apply(command, ticket).refund_eligible_amount = ticket.refund_eligible_amount
        /\ Apply(command, ticket).notes = ticket.notes
    BY <1>4, AppliedTicket
  <2>. QED  BY <1>4, <2>1
<1>. QED  BY <1>2, <1>3, <1>4

LEMMA SharedServe ==
    ASSUME SharedInv, NEW s \in Sessions, Serve(s)
    PROVE  StoreComesFromSeed' /\ HandlersComeFromSeed'
<1>. USE DEF SharedInv
<1>. DEFINE command == held[s].command
            ticket == held[s].ticket
            id == command.args.ticket_id
            amount == IF command.tool_name = "issue_refund" THEN command.args.amount ELSE 0
            after == IF command.tool_name = "add_ticket_note"
                     THEN Append(noted[id], command.args.note) ELSE noted[id]
<1>1. /\ command \in AuthorizedCommand /\ id \in TicketIds /\ ticket \in Ticket
      /\ tickets' = [tickets EXCEPT ![id] = Apply(command, ticket)]
      /\ refunded' = [refunded EXCEPT ![id] = refunded[id] + amount]
      /\ noted' = [noted EXCEPT ![id] = after]
      /\ held' = [held EXCEPT ![s] = None]
      /\ TypeOK'
  BY ServeApplies
<1>2. Seed[id] \in Ticket /\ ComesFrom(id, refunded[id], noted[id], ticket)
  BY <1>1, McpAssumption DEF Serve, HandlersComeFromSeed
<1>3. refunded[id] \in Nat /\ noted[id] \in Seq(NoteTexts)
  BY <1>1 DEF TypeOK
<1>4. /\ refunded'[id] = refunded[id] + amount /\ refunded'[id] \in Nat /\ amount \in Nat
      /\ noted'[id] = after /\ after \in Seq(NoteTexts)
      /\ tickets'[id] = Apply(command, ticket)
  BY <1>1, CommandType DEF TypeOK
<1>5. \A j \in DOMAIN noted[id] : j \in DOMAIN after /\ after[j] = noted[id][j]
  BY <1>1, <1>3, CommandType
<1>6. Apply(command, ticket) \in Ticket /\ Apply(command, ticket).id = ticket.id
  BY <1>1, AppliedTicket
<1>7. ComesFrom(id, refunded'[id], noted'[id], tickets'[id])
  <2>1. /\ BalanceFrom(Seed[id].refund_eligible_amount, refunded[id] + amount,
                       Apply(command, ticket).refund_eligible_amount)
        /\ NotesFrom(Seed[id].notes, after, Apply(command, ticket).notes)
    <3>1. BalanceFrom(Seed[id].refund_eligible_amount, refunded[id], ticket.refund_eligible_amount)
          /\ NotesFrom(Seed[id].notes, noted[id], ticket.notes)
      BY <1>2 DEF ComesFrom
    <3>. HIDE DEF id, command, ticket
    <3>. QED  BY <1>1, <1>2, <1>3, <3>1, ServedTicketComesFrom
  <2>. HIDE DEF amount, after, command, ticket, id
  <2>. QED  BY <1>2, <1>4, <1>6, <2>1 DEF ComesFrom
<1>8. \A i \in TicketIds \ {id} :
         tickets'[i] = tickets[i] /\ refunded'[i] = refunded[i] /\ noted'[i] = noted[i]
  BY <1>1 DEF TypeOK
<1>9. \A t \in Ticket : ComesFrom(id, refunded[id], noted[id], t)
                            => ComesFrom(id, refunded'[id], noted'[id], t)
  <2>. HIDE DEF amount, after, id
  <2>. SUFFICES ASSUME NEW t \in Ticket, ComesFrom(id, refunded[id], noted[id], t)
       PROVE  /\ t.id = Seed[id].id
              /\ BalanceFrom(Seed[id].refund_eligible_amount, refunded'[id],
                             t.refund_eligible_amount)
              /\ NotesFrom(Seed[id].notes, noted'[id], t.notes)
    BY DEF ComesFrom
  <2>1. refunded[id] <= refunded'[id]
    BY <1>3, <1>4
  <2>. QED  BY <1>2, <1>3, <1>4, <1>5, <2>1, MoreIsServed DEF ComesFrom
<1>. HIDE DEF amount, after
<1>10. StoreComesFromSeed'
  <2>. SUFFICES ASSUME NEW i \in TicketIds
       PROVE  /\ tickets'[i] = None <=> Seed[i] = None
              /\ tickets'[i] # None => ComesFrom(i, refunded'[i], noted'[i], tickets'[i])
    BY DEF StoreComesFromSeed
  <2>1. CASE i = id
    BY <1>2, <1>4, <1>6, <1>7, <2>1, McpAssumption
  <2>2. CASE i # id
    BY <1>8, <2>2 DEF StoreComesFromSeed, ComesFrom
  <2>. QED  BY <2>1, <2>2
<1>11. HandlersComeFromSeed'
  <2>. SUFFICES ASSUME NEW t \in Sessions, held'[t] # None
       PROVE  LET i == held'[t].command.args.ticket_id
              IN  Seed[i] # None /\ ComesFrom(i, refunded'[i], noted'[i], held'[t].ticket)
    BY DEF HandlersComeFromSeed
  <2>1. t # s /\ held'[t] = held[t] /\ held[t] # None
    BY <1>1 DEF TypeOK
  <2>. DEFINE i == held[t].command.args.ticket_id
  <2>2. Seed[i] # None /\ ComesFrom(i, refunded[i], noted[i], held[t].ticket)
        /\ held[t].ticket \in Ticket /\ i \in TicketIds
    BY <2>1, CommandType DEF HandlersComeFromSeed, TypeOK
  <2>3. CASE i = id
    <3>1. ComesFrom(id, refunded'[id], noted'[id], held[t].ticket)
      BY <1>9, <2>2, <2>3
    <3>. QED  BY <2>1, <2>2, <2>3, <3>1
  <2>4. CASE i # id
    BY <1>8, <2>1, <2>2, <2>4 DEF ComesFrom
  <2>. QED  BY <2>3, <2>4
<1>. QED  BY <1>10, <1>11

LEMMA SharedNext == SharedInv /\ [Next]_vars => SharedInv'
<1>. SUFFICES ASSUME SharedInv, [Next]_vars
     PROVE  StoreComesFromSeed' /\ HandlersComeFromSeed'
  BY NextType DEF SharedInv
<1>. USE DEF SharedInv
<1>1. CASE UNCHANGED vars
  BY <1>1 DEF vars, StoreComesFromSeed, HandlersComeFromSeed, ComesFrom
<1>2. ASSUME NEW s \in Sessions, ToolRaises(s) \/ \E call \in Calls : Refuse(s, call)
      PROVE  StoreComesFromSeed' /\ HandlersComeFromSeed'
  <2>1. UNCHANGED <<tickets, refunded, noted>> /\ (held' = held \/ held' = [held EXCEPT ![s] = None])
    BY <1>2, RaisingKeeps
  <2>. QED  BY <2>1 DEF StoreComesFromSeed, HandlersComeFromSeed, ComesFrom, TypeOK
<1>3. ASSUME NEW s \in Sessions, NEW call \in Calls, Lookup(s, call)
      PROVE  StoreComesFromSeed' /\ HandlersComeFromSeed'
  <2>. DEFINE command == CommandOf(call)
              id == command.args.ticket_id
  <2>1. /\ id \in TicketIds /\ tickets[id] # None
        /\ held' = [held EXCEPT ![s] = [command |-> command, ticket |-> tickets[id]]]
        /\ UNCHANGED <<tickets, refunded, noted>>
    BY <1>3, LookupHolds
  <2>. HIDE DEF command
  <2>2. Seed[id] # None /\ ComesFrom(id, refunded[id], noted[id], tickets[id])
    BY <2>1 DEF StoreComesFromSeed
  <2>. QED  BY <2>1, <2>2 DEF StoreComesFromSeed, HandlersComeFromSeed, ComesFrom, TypeOK
<1>. QED  BY <1>1, <1>2, <1>3, SharedServe DEF Next

(* However the handlers of several loops overlap, and whatever they lose of  *)
(* each other's work, the store invents nothing: no ticket, no balance above *)
(* the first one (or zero) or below what all the refunds leave, no note that *)
(* nobody sent.                                                              *)
THEOREM SharedStoreIsGrounded == Spec => []SharedStoreInventsNothing
<1>1. ASSUME Init PROVE SharedInv
  <2>1. TypeOK
    BY <1>1, InitType
  <2>2. ASSUME NEW id \in TicketIds, Seed[id] # None PROVE ComesFrom(id, refunded[id], noted[id], Seed[id])
    <3>1. Seed[id] \in Ticket /\ refunded[id] = 0
      BY <1>1, <2>2, McpAssumption DEF Init
    <3>2. Seed[id].refund_eligible_amount \in Int \cup {None}
      BY <3>1 DEF Ticket
    <3>. QED  BY <3>1, <3>2 DEF ComesFrom, BalanceFrom, NotesFrom, FloorAtZero
  <2>3. StoreComesFromSeed
    BY <1>1, <2>2 DEF Init, StoreComesFromSeed
  <2>4. HandlersComeFromSeed
    BY <1>1 DEF Init, HandlersComeFromSeed
  <2>. QED  BY <2>1, <2>3, <2>4 DEF SharedInv
<1>2. ASSUME SharedInv PROVE SharedStoreInventsNothing
  <2>. USE <1>2 DEF SharedInv
  <2>1. ticket_ids = {id \in TicketIds : Seed[id] # None}
    BY DEF ticket_ids, StoreComesFromSeed
  <2>2. ASSUME NEW id \in ticket_ids
        PROVE  LET balance == get(id).refund_eligible_amount
                   first == Seed[id].refund_eligible_amount
               IN  /\ balance = None <=> first = None
                   /\ balance # None =>
                         /\ balance = first
                            \/ balance \in LeftOf(first, refunded[id])..FloorAtZero(first)
    <3>1. /\ ComesFrom(id, refunded[id], noted[id], get(id)) /\ get(id) \in Ticket /\ Seed[id] \in Ticket
          /\ refunded[id] \in Nat
      BY McpAssumption DEF ticket_ids, get, StoreComesFromSeed, TypeOK
    <3>2. Seed[id].refund_eligible_amount \in Int \cup {None}
      BY <3>1 DEF Ticket
    <3>. QED  BY <3>1, <3>2, NoneIsNoNumber DEF ComesFrom, BalanceFrom, LeftOf, FloorAtZero
  <2>3. ASSUME NEW id \in ticket_ids
        PROVE  /\ get(id).id = Seed[id].id
               /\ NotesFrom(Seed[id].notes, noted[id], get(id).notes)
    BY DEF ticket_ids, get, StoreComesFromSeed, ComesFrom
  <2>. QED  BY <2>1, <2>2, <2>3 DEF SharedStoreInventsNothing, NotesFrom
<1>. QED  BY <1>1, <1>2, SharedNext, PTL DEF Spec
=============================================================================
