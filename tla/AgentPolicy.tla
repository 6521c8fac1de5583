---------------------------- MODULE AgentPolicy ----------------------------
(***************************************************************************)
(* The decisions that let agents act or make them wait for an analyst:     *)
(* the autonomy policy (domain/policy/autonomy.py), triage                 *)
(* (agents/triage.py), the response agent (agents/response.py) and the     *)
(* supervisor (agents/supervisor.py), as operators on records.             *)
(*                                                                         *)
(* Confidences are percentages.  A text is reduced to which of the         *)
(* keywords it contains; a field that is missing is None.                  *)
(***************************************************************************)
EXTENDS Integers

CONSTANT None

ASSUME NoneIsNoValue == None \notin Int /\ None \notin STRING

AtLeastOf(a, b) == IF a >= b THEN a ELSE b
AtMostOf(a, b) == IF a <= b THEN a ELSE b
OrElse(v, default) == IF v = None THEN default ELSE v

----------------------------------------------------------------------------
\* evaluate_autonomy.  Levels l0_manual to l4_autonomous are 0 to 4.
Level == 0 .. 4
RiskClass == {"informational", "low", "elevated", "critical"}
ExecutionPolicy == {"allow", "require_approval", "deny"}

AutonomousRiskClasses(level) ==
    CASE level \in {0, 1} -> {}
      [] level = 2 -> {"informational"}
      [] level = 3 -> {"informational", "low"}
      [] level = 4 -> {"informational", "low", "elevated"}

LaneDuration(class) ==
    CASE class = "informational" -> 0
      [] class = "low" -> 60
      [] class = "elevated" -> 120
      [] class = "critical" -> 300

AutonomyState ==
    [policy : ExecutionPolicy, class : RiskClass, level : Level,
     confidence : Int \cup {None}, floor : Int]

\* Mutant: the confidence is not looked at.
EvaluateAutonomyTrusting(policy, class, level, confidence, floor) ==
    CASE policy # "allow" -> policy
      [] policy = "allow" /\ class \notin AutonomousRiskClasses(level) -> "require_approval"
      [] OTHER -> "allow"

EvaluateAutonomy(policy, class, level, confidence, floor) ==
    CASE policy # "allow" -> policy
      [] policy = "allow" /\ class \notin AutonomousRiskClasses(level) -> "require_approval"
      [] policy = "allow" /\ class \in AutonomousRiskClasses(level)
           /\ confidence # None /\ confidence < floor -> "require_approval"
      [] OTHER -> "allow"

\* decision_lane_timedelta of the lane: None where nothing ever times out,
\* which is so at the levels 0 and 1 and for a lane of 0 seconds.
Lane(policy, class, level, confidence, floor) ==
    IF \/ EvaluateAutonomy(policy, class, level, confidence, floor) # "require_approval"
       \/ (policy = "allow" /\ level \in {0, 1})
       \/ LaneDuration(class) = 0
      THEN None ELSE LaneDuration(class)

----------------------------------------------------------------------------
\* Triage.  signal is the worst severity the text of an alert suggests, and
\* textual the category; a duplicate is recognised before.
TriageState ==
    [severity : STRING \cup {None}, category : STRING \cup {None}, confidence : Int \cup {None},
     risk : Int \cup {None}, mitre : BOOLEAN, duplicate : BOOLEAN, entities : BOOLEAN,
     signal : STRING, textual : STRING]

SeverityBase(severity) ==
    CASE severity = "informational" -> 10 [] severity = "low" -> 25
      [] severity = "high" -> 75 [] severity = "critical" -> 95
      [] OTHER -> 50

SeverityOfScore(score) ==
    IF score >= 90 THEN "critical" ELSE IF score >= 70 THEN "high"
    ELSE IF score >= 40 THEN "medium" ELSE IF score >= 20 THEN "low" ELSE "informational"

\* classify_alert.
Severity(s) ==
    IF s.severity # None THEN s.severity
    ELSE IF s.risk # None THEN SeverityOfScore(s.risk) ELSE s.signal
Category(s) == OrElse(s.category, s.textual)
Confidence(s) == OrElse(s.confidence, 50)

\* prioritize_alert.
Priority(s) ==
    LET base == SeverityBase(Severity(s))
        scored == IF s.risk # None THEN AtLeastOf(base, s.risk) ELSE base
        adjusted == scored + (IF s.mitre THEN 5 ELSE 0) - (IF s.duplicate THEN 20 ELSE 0)
    IN  AtMostOf(AtLeastOf(adjusted, 0), 100)

Reviewed(s) ==
    \/ Confidence(s) < 55
    \/ Category(s) = "needs_review"
    \/ Severity(s) \in {"high", "critical"} /\ ~s.entities
    \/ Priority(s) >= 70 /\ ~s.mitre

Escalated(s) ==
    /\ ~s.duplicate
    /\ \/ Severity(s) = "critical" /\ Confidence(s) >= 70
       \/ Priority(s) >= 85 /\ Confidence(s) >= 55

\* choose_next_action after the other nodes of the graph.
TriageAction(s) ==
    IF s.duplicate THEN "attach_to_existing_case"
    ELSE IF Reviewed(s) /\ Confidence(s) < 55 THEN "analyst_review_required"
    ELSE IF Escalated(s) THEN "escalate_to_senior_analyst"
    ELSE IF Severity(s) \in {"high", "critical"} \/ Priority(s) >= 70 THEN "open_investigation"
    ELSE IF Severity(s) \in {"informational", "low"} /\ Priority(s) < 40 THEN "monitor"
    ELSE "queue_for_review"

\* How urgent what triage recommends is.
Urgency(action) ==
    CASE action = "monitor" -> 0 [] action = "queue_for_review" -> 1
      [] action = "open_investigation" -> 2 [] action = "escalate_to_senior_analyst" -> 3

----------------------------------------------------------------------------
\* The response agent; a target that is missing is None.
ResponseState ==
    [riskLevel : STRING, ip : STRING \cup {None}, actor : STRING \cup {None},
     assets : SUBSET STRING, target : STRING \cup {None}, approved : BOOLEAN, execute : BOOLEAN]

ActionOn(type, on, approval) == [type |-> type, on |-> on, approval |-> approval]

RecommendResponseActions(s) ==
    LET grave == s.riskLevel \in {"critical", "high"}
    IN  { a \in {ActionOn("block_ip", s.ip, grave), ActionOn("disable_account", s.actor, TRUE),
                 ActionOn("reset_password", s.actor, s.riskLevel # "low"),
                 ActionOn("notify_owner", s.target, FALSE)} : a.on # None }
        \cup { ActionOn("collect_forensics", h, FALSE) : h \in s.assets }
        \cup (IF grave THEN { ActionOn("isolate_host", h, TRUE) : h \in s.assets } ELSE {})

NeedsApproval(actions) == { a \in actions : a.approval }

\* Mutant: what waits for approval is executed with the rest.
ExecutedUnasked(s) == IF s.execute THEN RecommendResponseActions(s) ELSE {}

\* execute_response_actions: what it executes, and what it says comes next.
Executed(s) ==
    LET actions == RecommendResponseActions(s)
    IN  IF ~s.execute THEN {}
        ELSE IF s.approved THEN actions ELSE actions \ NeedsApproval(actions)

Blocked(s) ==
    IF s.approved THEN {} ELSE NeedsApproval(RecommendResponseActions(s))

ResponseAction(s) ==
    IF Blocked(s) # {} THEN "request_human_approval"
    ELSE IF s.execute THEN "verify_response_effectiveness" ELSE "present_recommendations"

\* An action the code lets no one take unasked.
Serious(a, riskLevel) ==
    \/ a.type \in {"disable_account", "isolate_host"}
    \/ a.type = "reset_password" /\ riskLevel # "low"
    \/ a.type = "block_ip" /\ riskLevel \in {"high", "critical"}

----------------------------------------------------------------------------
\* route_soc_work.  A state: [severity, confidence, hasAlert, hasIncident,
\* hasObservable, hasEvidence, requiresResponse, intents]; intents are the
\* keyword groups its objective mentions.
Intent == {"contain", "report", "risk", "investigate", "observable", "hunt"}

Context(s) == s.hasIncident \/ s.hasAlert \/ s.hasObservable \/ s.hasEvidence
Trust(s) == AtLeastOf(0, AtMostOf(OrElse(s.confidence, 75), 100))
SeverityPriority(severity) ==
    CASE severity \in {"critical", "high"} -> "high"
      [] severity \in {"informational", "low"} -> "low"
      [] OTHER -> "medium"

Routing(agent, priority, action, review) ==
    [agent |-> agent, priority |-> priority, action |-> action, review |-> review]

\* A wish to contain that nothing but a weak signal supports.
Unfounded(s) == Trust(s) < 50 /\ ~(s.hasIncident \/ s.hasEvidence)

RouteSocWork(s) ==
    LET priority == SeverityPriority(s.severity)
    IN  IF s.requiresResponse \/ "contain" \in s.intents
          THEN IF Unfounded(s)
                 THEN Routing("alert_triage", priority, "validate_alert_before_response", TRUE)
                 ELSE Routing("response", IF s.severity = "critical" THEN "critical" ELSE "high",
                              "request_approval_or_execute_response", TRUE)
        ELSE IF "report" \in s.intents /\ s.hasEvidence
          THEN Routing("report_generation", "low", "generate_report", FALSE)
        ELSE IF "risk" \in s.intents /\ Context(s)
          THEN Routing("risk_scoring", priority, "calculate_risk_score", FALSE)
        ELSE IF s.hasIncident \/ "investigate" \in s.intents
          THEN Routing("investigation", priority, "build_timeline_and_scope_assets", FALSE)
        ELSE IF s.hasObservable \/ "observable" \in s.intents
          THEN Routing("threat_intelligence", "medium", "enrich_observable", FALSE)
        ELSE IF "hunt" \in s.intents
          THEN Routing("threat_hunting", "medium", "search_for_similar_activity", FALSE)
        ELSE IF "risk" \in s.intents
          THEN Routing("risk_scoring", "medium", "collect_context_for_risk_score", FALSE)
        ELSE IF "report" \in s.intents
          THEN Routing("report_generation", "low", "collect_evidence_for_report", FALSE)
        ELSE Routing("alert_triage", priority, "triage_alert", FALSE)
=============================================================================
