---------------------------- MODULE AgentGraphs ----------------------------
(***************************************************************************)
(* The agents that score and investigate: agents/risk_scoring.py and       *)
(* agents/investigation.py.  Confidences and weights are percentages.      *)
(***************************************************************************)
EXTENDS AgentPolicy, Sequences, FiniteSets

ClampScore(n) == AtLeastOf(0, AtMostOf(n, 100))
Extra(condition, n) == IF condition THEN n ELSE 0

----------------------------------------------------------------------------
\* A state: [severity, confidence, exploited, exploit, exposed, duplicates,
\* criticality, sensitivity, assets, cvss]; cvss is in tenths.
LikelihoodBase(severity) ==
    CASE severity = "critical" -> 80 [] severity = "high" -> 65 [] severity = "low" -> 25
      [] severity = "informational" -> 10 [] OTHER -> 45

\* Mutant: only the fifth duplicate counts.
LikelihoodScoreOnce(s) ==
    ClampScore(LikelihoodBase(s.severity) + Extra(s.exploited, 15) + Extra(s.exploit, 10)
               + Extra(s.exposed, 10) + Extra(s.duplicates = 5, 5)
               + Extra(Confidence(s) >= 80, 5) - Extra(Confidence(s) < 40, 10))

LikelihoodScore(s) ==
    ClampScore(LikelihoodBase(s.severity) + Extra(s.exploited, 15) + Extra(s.exploit, 10)
               + Extra(s.exposed, 10) + Extra(s.duplicates >= 5, 5)
               + Extra(Confidence(s) >= 80, 5) - Extra(Confidence(s) < 40, 10))

CriticalityBase(criticality) ==
    CASE criticality = "critical" -> 85 [] criticality = "high" -> 70
      [] criticality = "low" -> 25 [] OTHER -> 50

ImpactScore(s) ==
    ClampScore(CriticalityBase(s.criticality)
               + Extra(s.sensitivity \in {"regulated", "restricted"}, 15)
               + Extra(s.sensitivity = "high", 10)
               + Extra(s.assets > 1, AtMostOf(3 * s.assets, 15))
               + (IF s.cvss >= 90 THEN 10 ELSE Extra(s.cvss >= 70, 5)))

\* The two roundings of a half: which one the floating point product meets is
\* left open.
RiskScores(s) ==
    LET weighted == 45 * LikelihoodScore(s) + 55 * ImpactScore(s)
    IN  { ClampScore((weighted + 50) \div 100), ClampScore((weighted + 49) \div 100) }

RiskAction(score) ==
    CASE SeverityOfScore(score) = "critical" -> "contain_immediately_and_notify_leadership"
      [] SeverityOfScore(score) = "high" -> "prioritize_response_and_open_incident"
      [] SeverityOfScore(score) = "medium" -> "investigate_during_current_queue"
      [] SeverityOfScore(score) = "low" -> "monitor_and_tune_detection"
      [] SeverityOfScore(score) = "informational" -> "record_for_context"

\* The states that are worse in one respect.
Aggravated(s) ==
    { [s EXCEPT !.exploited = TRUE], [s EXCEPT !.exploit = TRUE], [s EXCEPT !.exposed = TRUE],
      [s EXCEPT !.severity = "critical"], [s EXCEPT !.criticality = "critical"],
      [s EXCEPT !.sensitivity = "regulated"], [s EXCEPT !.confidence = 100],
      [s EXCEPT !.duplicates = @ + 1], [s EXCEPT !.assets = @ + 1], [s EXCEPT !.cvss = @ + 1] }

----------------------------------------------------------------------------
\* Events of an investigation: [time, actor, asset, access, lateral]; access
\* is the way in its text tells, or "unknown".  Sorting is stable.
Before(events, i, j) ==
    \/ events[i].time < events[j].time
    \/ events[i].time = events[j].time /\ i <= j

BuildTimeline(events) ==
    [n \in DOMAIN events |->
        events[CHOOSE i \in DOMAIN events :
                  Cardinality({j \in DOMAIN events : Before(events, j, i)}) = n]]

\* Mutant: the search for the way in ends with the first event.
InitialAccessOfFirst(timeline) ==
    IF timeline = <<>> THEN "unknown" ELSE timeline[1].access

InitialAccess(timeline) ==
    LET told == {i \in DOMAIN timeline : timeline[i].access # "unknown"}
    IN  IF told = {} THEN "unknown"
        ELSE timeline[CHOOSE i \in told : \A j \in told : i <= j].access

LateralMovement(timeline) == \E i \in DOMAIN timeline : timeline[i].lateral

EvidenceGaps(timeline) ==
    IF timeline = <<>> THEN {"no_timeline_events"}
    ELSE { g \in {"missing_actor_context", "missing_affected_assets",
                  "initial_access_not_identified"} :
             CASE g = "missing_actor_context" -> ~\E i \in DOMAIN timeline : timeline[i].actor
               [] g = "missing_affected_assets" -> ~\E i \in DOMAIN timeline : timeline[i].asset
               [] OTHER -> InitialAccess(timeline) = "unknown" }

InvestigationConfidence(timeline) ==
    AtMostOf(95, 35 + 10 * AtMostOf(Len(timeline), 5)
                 + Extra(InitialAccess(timeline) # "unknown", 10)
                 + Extra(LateralMovement(timeline), 10))

InvestigationAction(events) ==
    LET timeline == BuildTimeline(events)
    IN  IF LateralMovement(timeline) THEN "contain_and_expand_scope"
        ELSE IF timeline = <<>> THEN "collect_additional_logs"
        ELSE IF EvidenceGaps(timeline) # {} /\ InvestigationConfidence(timeline) < 65
          THEN "close_evidence_gaps"
        ELSE IF InitialAccess(timeline) # "unknown"
          THEN "collect_endpoint_and_identity_evidence"
        ELSE "collect_additional_logs"
=============================================================================
