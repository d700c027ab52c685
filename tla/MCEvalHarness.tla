----------------------------- MODULE MCEvalHarness -----------------------------
(* Instances of EvalHarness for TLC.                                         *)
EXTENDS EvalHarness, TLC

CONSTANTS T1, T2, damaged, noteA

MCTicket(notes) ==
    [id |-> T1, status |-> "open", refund_eligible_amount |-> 2, notes |-> notes]

MCProposal(tool, arguments) == [tool_name |-> tool, arguments |-> arguments]

MCRefund(id, amount) ==
    MCProposal("issue_refund", [ticket_id |-> id, amount |-> amount, digits |-> "0", reason |-> damaged])

MCStatus(status) ==
    MCProposal("update_ticket_status", [ticket_id |-> T1, new_status |-> status, reason |-> damaged])

MCNote == MCProposal("add_ticket_note", [ticket_id |-> T1, note |-> noteA])

MCScenario(name, notes, proposals, run_status, rule_id, execution_status, overrides, should_fail) ==
    [name |-> name, ticket |-> MCTicket(notes), proposals |-> proposals,
     expected_run_status |-> run_status, expected_rule_id |-> rule_id,
     expected_execution_status |-> execution_status,
     tool_function_overrides |-> overrides, should_fail |-> should_fail]

MCNone == [tool \in {} |-> "idle"]

(* build_default_scenarios().                                                *)
MCHappy ==
    MCScenario("happy", <<>>, <<MCRefund(T1, 1)>>, "completed", None, "success", MCNone, {})

MCDenied ==
    MCScenario("denied", <<>>, <<MCRefund(T1, 3)>>, "denied", "refund-amount-limit", None, MCNone, {})

MCUnverified ==
    MCScenario("unverified", <<>>, <<MCStatus("in_progress")>>, "failed", None, "verification_failed",
               "update_ticket_status" :> "idle", {})

MCExhausted ==
    MCScenario("exhausted", <<>>, <<MCNote>>, "failed", None, "failure", MCNone, 1..3)

(* A move to the same status and a note that is there already, with idle     *)
(* stubs; a stub that raises; a refund on another ticket; a status change    *)
(* with a failed attempt; an empty script; one with two turns.               *)
MCStay ==
    MCScenario("stay", <<>>, <<MCStatus("open")>>, "denied", "status-transition", None,
               "update_ticket_status" :> "idle", {})

MCNoted ==
    MCScenario("noted", <<noteA>>, <<MCNote>>, "completed", None, None, "add_ticket_note" :> "idle", {})

MCRaises ==
    MCScenario("raises", <<>>, <<MCRefund(T1, 2)>>, "failed", None, None, "issue_refund" :> "raises", {})

MCOther ==
    MCScenario("other", <<>>, <<MCRefund(T2, 1)>>, "denied", None, None, MCNone, {})

MCMoves ==
    MCScenario("moves", <<>>, <<MCStatus("closed")>>, "completed", None, "success", MCNone, {1})

MCEmpty == MCScenario("empty", <<>>, <<>>, "denied", None, None, MCNone, {})

MCTwoTurns ==
    MCScenario("turns", <<>>, <<MCRefund(T1, 1), MCNote>>, "completed", None, None, MCNone, {})

MCLists ==
    {<<MCUnverified, MCHappy>>, <<MCMoves, MCRaises>>, <<MCStay, MCOther>>, <<MCNoted, MCExhausted>>,
     <<MCDenied, MCEmpty>>}

MCTurns == {<<MCHappy, MCTwoTurns>>}

MCPatched == {<<MCUnverified, MCMoves>>}

MCPlain == {<<MCHappy>>}

MCAnswers == {MCStatus("in_progress")}

MCProposals ==
    {MCRefund(T1, a) : a \in 1..3} \cup {MCRefund(T2, 1), MCNote}
    \cup {MCStatus(s) : s \in {"open", "in_progress", "closed"}}
=============================================================================
