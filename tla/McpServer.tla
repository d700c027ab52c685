------------------------------- MODULE McpServer -------------------------------
(* src/mcp/server.py and src/mcp/store.py: the tools behind an MCP server,   *)
(* on a store of tickets and without the policy.  A session calls a tool by  *)
(* name; the handler looks the ticket up, applies the tool function and puts *)
(* the ticket back.  There is no await between the get and the put, so the   *)
(* sessions of one event loop do not come between them; sessions that share  *)
(* a store from event loops of their own may.  list_tools() answers a        *)
(* constant.                                                                 *)
EXTENDS TicketTools

CONSTANTS
    Sessions,
    Calls,          \* tool names with arguments, as clients send them
    Seed,           \* the tickets the store is built with, None where none
    OneLoop,        \* do all sessions run on one event loop?
    MaxServed,      \* bound on the calls served
    isError         \* the answer to a call that raised

ASSUME McpAssumption ==
    /\ Seed \in [TicketIds -> Ticket \cup {None}]
    /\ None \notin Ticket
    /\ None \notin [command : AuthorizedCommand, ticket : Ticket]
    /\ OneLoop \in BOOLEAN

VARIABLES
    tickets,        \* TicketStore._tickets
    held,           \* the command and the ticket a handler works on, or None
    answer,         \* what each session was last answered: a ticket or isError
    refunded,       \* history: what the refunds served on a ticket add up to
    noted,          \* history: the notes served on it, in order
    served          \* history: how many calls were served

vars == <<tickets, held, answer, refunded, noted, served>>

McpCommands == {CommandOf(call) : call \in {c \in Calls : HasSchema(c)}}

TypeOK ==
    /\ tickets \in [TicketIds -> Ticket \cup {None}]
    /\ held \in [Sessions -> [command : McpCommands, ticket : Ticket] \cup {None}]
    /\ answer \in [Sessions -> Ticket \cup {isError, None}]
    /\ refunded \in [TicketIds -> Nat]
    /\ noted \in [TicketIds -> Seq(NoteTexts)]
    /\ served \in Nat

Init ==
    /\ tickets = Seed
    /\ held = [s \in Sessions |-> None]
    /\ answer = [s \in Sessions |-> None]
    /\ refunded = [id \in TicketIds |-> 0]
    /\ noted = [id \in TicketIds |-> <<>>]
    /\ served = 0

(* TicketStore.get and ticket_ids.                                           *)
get(id) == tickets[id]

ticket_ids == {id \in TicketIds : tickets[id] # None}

(* Mutant: a handler yields to the loop between its lookup and its put.      *)
MayRunAnytime(s) ==
    /\ held[s] = None
    /\ served < MaxServed

(* A handler starts when its loop is free of others.                         *)
MayRun(s) ==
    /\ held[s] = None
    /\ served < MaxServed
    /\ OneLoop => \A t \in Sessions : held[t] = None

(* An unknown tool, arguments that do not fit its schema, or no such ticket. *)
Refuse(s, call) ==
    /\ MayRun(s)
    /\ HasSchema(call) => call.arguments.ticket_id \notin ticket_ids
    /\ answer' = [answer EXCEPT ![s] = isError]
    /\ UNCHANGED <<tickets, held, refunded, noted, served>>

Lookup(s, call) ==
    /\ MayRun(s)
    /\ HasSchema(call)
    /\ call.arguments.ticket_id \in ticket_ids
    /\ held' = [held EXCEPT ![s] =
          [command |-> CommandOf(call), ticket |-> get(call.arguments.ticket_id)]]
    /\ UNCHANGED <<tickets, answer, refunded, noted, served>>

(* The store was built with the ticket under another id: the tool function   *)
(* raises.                                                                   *)
ToolRaises(s) ==
    /\ held[s] # None
    /\ ~TargetsTicket(held[s].command, held[s].ticket)
    /\ held' = [held EXCEPT ![s] = None]
    /\ answer' = [answer EXCEPT ![s] = isError]
    /\ UNCHANGED <<tickets, refunded, noted, served>>

(* TicketStore.put: under the id of the ticket itself.                       *)
put(ticket) == tickets' = [tickets EXCEPT ![ticket.id] = ticket]

(* What the two histories make of a call.                                    *)
Count(command) ==
    LET id == command.args.ticket_id
        tool == command.tool_name
    IN  /\ refunded' = [refunded EXCEPT ![id] =
              @ + IF tool = "issue_refund" THEN command.args.amount ELSE 0]
        /\ noted' = [noted EXCEPT ![id] =
              IF tool = "add_ticket_note" THEN Append(@, command.args.note) ELSE @]
        /\ served' = served + 1

(* Mutant: the tool function does not look which ticket it is applied to.    *)
ServeUntargeted(s) ==
    /\ held[s] # None
    /\ put(Apply(held[s].command, held[s].ticket))
    /\ Count(held[s].command)
    /\ held' = [held EXCEPT ![s] = None]
    /\ answer' = [answer EXCEPT ![s] = Apply(held[s].command, held[s].ticket)]

Serve(s) ==
    /\ held[s] # None
    /\ TargetsTicket(held[s].command, held[s].ticket)
    /\ put(Apply(held[s].command, held[s].ticket))
    /\ Count(held[s].command)
    /\ held' = [held EXCEPT ![s] = None]
    /\ answer' = [answer EXCEPT ![s] = Apply(held[s].command, held[s].ticket)]

Next ==
    \E s \in Sessions :
        \/ \E call \in Calls : Refuse(s, call) \/ Lookup(s, call)
        \/ ToolRaises(s)
        \/ Serve(s)

Spec == Init /\ [][Next]_vars

-----------------------------------------------------------------------------
(* Properties.                                                               *)

(* What is left of a balance after refunds of some total amount: the refunds *)
(* that the floor at zero cut short cannot be told from those it did not, a  *)
(* missing balance stays missing, and a negative one is lifted to zero by the*)
(* first refund.                                                             *)
LeftOf(balance, total) ==
    IF balance = None \/ total = 0 THEN balance ELSE FloorAtZero(balance - total)

(* On one event loop no call is lost, doubled or applied to the wrong        *)
(* ticket: each ticket shows the refunds and the notes of all the calls that *)
(* were served on it, whichever sessions they came from and however many     *)
(* others failed.                                                            *)
StoreTellsTheCalls ==
    \A id \in ticket_ids :
        /\ get(id).refund_eligible_amount
              = LeftOf(Seed[id].refund_eligible_amount, refunded[id])
        /\ get(id).notes = Seed[id].notes \o noted[id]

(* Why: the ticket a handler works on is the one in the store, and no other  *)
(* handler works on any.                                                     *)
HandlersAlternate ==
    /\ \A s, t \in Sessions : held[s] # None /\ held[t] # None => s = t
    /\ \A s \in Sessions : held[s] # None =>
          held[s].ticket = get(held[s].command.args.ticket_id)

(* However the handlers of several loops overlap, a store does not invent    *)
(* anything: it has the tickets it was built with under the same ids; a      *)
(* refundable amount is the one it started with, or lies between what all the*)
(* refunds leave and that, or zero; each note was there before or sent.      *)
SharedStoreInventsNothing ==
    /\ ticket_ids = {id \in TicketIds : Seed[id] # None}
    /\ \A id \in ticket_ids :
          LET balance == get(id).refund_eligible_amount
              first == Seed[id].refund_eligible_amount
          IN  /\ get(id).id = Seed[id].id
              /\ balance = None <=> first = None
              /\ balance # None =>
                    /\ balance = first
                       \/ balance \in LeftOf(first, refunded[id])..FloorAtZero(first)
              /\ \A i \in DOMAIN get(id).notes :
                    get(id).notes[i] \in {Seed[id].notes[j] : j \in DOMAIN Seed[id].notes}
                                         \cup {noted[id][j] : j \in DOMAIN noted[id]}

-----------------------------------------------------------------------------
Atomic == INSTANCE AtomicTickets WITH Commands <- McpCommands

(* On one event loop, lookup, tool and put are one step on the store.        *)
ImplementsAtomicTickets == Atomic!Spec
=============================================================================
