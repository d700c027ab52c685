-------------------------- MODULE IdempotentExecutor --------------------------
(* What ExecutionWrapper promises its callers, with no attempts, no store and*)
(* no record step: every key has at most one outcome, ever; whoever asks for *)
(* the key is answered with that outcome; and a failure, or an exception, is *)
(* the answer only while the key has none.                                   *)

CONSTANTS Callers, Keys, Outcomes, Failures, None

VARIABLES
    asking,     \* the key each caller waits for, or None
    outcome,    \* the outcome of each key, or None while nothing was applied
    answer      \* the answer a caller has not taken yet, or None

vars == <<asking, outcome, answer>>

Init ==
    /\ asking = [c \in Callers |-> None]
    /\ outcome = [k \in Keys |-> None]
    /\ answer = [c \in Callers |-> None]

Ask(c) ==
    /\ asking[c] = None
    /\ answer[c] = None
    /\ \E k \in Keys : asking' = [asking EXCEPT ![c] = k]
    /\ UNCHANGED <<outcome, answer>>

(* The effect takes place, with whatever outcome verification gives it.      *)
TakeEffect(c) ==
    /\ asking[c] # None
    /\ outcome[asking[c]] = None
    /\ outcome'[asking[c]] \in Outcomes
    /\ outcome' = [outcome EXCEPT ![asking[c]] = outcome'[asking[c]]]
    /\ UNCHANGED <<asking, answer>>

AnswerOutcome(c) ==
    /\ asking[c] # None
    /\ outcome[asking[c]] # None
    /\ answer' = [answer EXCEPT ![c] = outcome[asking[c]]]
    /\ asking' = [asking EXCEPT ![c] = None]
    /\ UNCHANGED outcome

AnswerFailure(c) ==
    /\ asking[c] # None
    /\ outcome[asking[c]] = None
    /\ answer'[c] \in Failures
    /\ answer' = [answer EXCEPT ![c] = answer'[c]]
    /\ asking' = [asking EXCEPT ![c] = None]
    /\ UNCHANGED outcome

Raise(c) ==
    /\ asking[c] # None
    /\ outcome[asking[c]] = None
    /\ asking' = [asking EXCEPT ![c] = None]
    /\ UNCHANGED <<outcome, answer>>

Take(c) ==
    /\ answer[c] # None
    /\ answer' = [answer EXCEPT ![c] = None]
    /\ UNCHANGED <<asking, outcome>>

Next ==
    \E c \in Callers :
        \/ Ask(c) \/ TakeEffect(c)
        \/ AnswerOutcome(c) \/ AnswerFailure(c) \/ Raise(c)
        \/ Take(c)

Spec == Init /\ [][Next]_vars
=============================================================================
