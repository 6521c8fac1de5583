-------------------------- MODULE AgentRuns_proofs --------------------------
(***************************************************************************)
(* What holds of an agent run for any number of clients of any tenants,    *)
(* any of the states the agents take, and any order of their calls,        *)
(* flushes, commits and deaths.                                            *)
(***************************************************************************)
EXTENDS AgentRuns, TLAPS

----------------------------------------------------------------------------
(* What the decisions of AgentPolicy guarantee for every state they are    *)
(* asked about: the autonomy policy fails safe, triage never answers a     *)
(* higher risk with less urgency, and the response agent executes nothing  *)
(* serious that is not approved.                                           *)

LEMMA MaxMin ==
    ASSUME NEW a \in Int, NEW b \in Int
    PROVE  /\ AtLeastOf(a, b) \in Int /\ AtLeastOf(a, b) >= a /\ AtLeastOf(a, b) >= b
           /\ AtMostOf(a, b) \in Int /\ AtMostOf(a, b) <= a /\ AtMostOf(a, b) <= b
  BY DEF AtLeastOf, AtMostOf

----------------------------------------------------------------------------
\* Only "allow" lets the level of autonomy decide.
LEMMA AllowedOnly ==
    ASSUME NEW s \in AutonomyState, NEW level \in Level,
           EvaluateAutonomy(s.policy, s.class, level, s.confidence, s.floor) = "allow"
    PROVE  /\ s.policy = "allow" /\ s.class \in AutonomousRiskClasses(level)
           /\ s.confidence # None => s.confidence >= s.floor
  <1>1. /\ s.policy \in ExecutionPolicy /\ s.confidence \in Int \cup {None} /\ s.floor \in Int
    BY DEF AutonomyState
  <1>2. s.policy = "allow"
    BY <1>1 DEF EvaluateAutonomy, ExecutionPolicy
  <1>3. s.class \in AutonomousRiskClasses(level)
    BY <1>2 DEF EvaluateAutonomy
  <1>4. ~(s.confidence # None /\ s.confidence < s.floor)
    BY <1>2, <1>3 DEF EvaluateAutonomy
  <1> QED
    BY <1>1, <1>2, <1>3, <1>4

LEMMA AllowedWhen ==
    ASSUME NEW s \in AutonomyState, NEW level \in Level,
           s.policy = "allow", s.class \in AutonomousRiskClasses(level),
           s.confidence # None => s.confidence >= s.floor
    PROVE  EvaluateAutonomy(s.policy, s.class, level, s.confidence, s.floor) = "allow"
  <1>1. s.confidence \in Int \cup {None} /\ s.floor \in Int
    BY DEF AutonomyState
  <1>2. ~(s.confidence # None /\ s.confidence < s.floor)
    BY <1>1
  <1> QED
    BY <1>2 DEF EvaluateAutonomy

\* A higher level of autonomy allows what a lower one does.
LEMMA LevelsGrow ==
    ASSUME NEW low \in Level, NEW high \in Level, low <= high
    PROVE  AutonomousRiskClasses(low) \subseteq AutonomousRiskClasses(high)
  BY DEF AutonomousRiskClasses, Level

LEMMA ClassesAllowed ==
    ASSUME NEW level \in Level, NEW class \in AutonomousRiskClasses(level)
    PROVE  class # "critical" /\ level >= 2
  BY DEF AutonomousRiskClasses, Level

----------------------------------------------------------------------------
LEMMA ScoresRank ==
    ASSUME NEW a \in Int, NEW b \in Int, a <= b
    PROVE  /\ SeverityBase(SeverityOfScore(a)) <= SeverityBase(SeverityOfScore(b))
           /\ SeverityOfScore(a) = "critical" => SeverityOfScore(b) = "critical"
           /\ SeverityOfScore(a) \in {"high", "critical"} => SeverityOfScore(b) \in {"high", "critical"}
           /\ SeverityOfScore(b) \in {"informational", "low"} =>
                 SeverityOfScore(a) \in {"informational", "low"}
  BY DEF SeverityBase, SeverityOfScore

LEMMA BaseIsNat ==
    ASSUME NEW severity
    PROVE  SeverityBase(severity) \in Int
  BY DEF SeverityBase

LEMMA PriorityIsInt ==
    ASSUME NEW s \in TriageState
    PROVE  Priority(s) \in Int
  BY BaseIsNat DEF Priority, TriageState, AtLeastOf, AtMostOf

\* A higher risk score never makes an alert less severe or less pressing.
LEMMA RiskRaises ==
    ASSUME NEW s \in TriageState, s.risk # None, NEW higher \in Int, higher >= s.risk,
           NEW t, t = [s EXCEPT !.risk = higher]
    PROVE  /\ Severity(s) = "critical" => Severity(t) = "critical"
           /\ Severity(s) \in {"high", "critical"} => Severity(t) \in {"high", "critical"}
           /\ Severity(t) \in {"informational", "low"} => Severity(s) \in {"informational", "low"}
           /\ Priority(s) <= Priority(t)
  <1>1. /\ s.risk \in Int /\ t.risk = higher
        /\ t.severity = s.severity /\ t.signal = s.signal
        /\ t.mitre = s.mitre /\ t.duplicate = s.duplicate
    BY DEF TriageState
  <1>2. /\ SeverityBase(Severity(s)) <= SeverityBase(Severity(t))
        /\ Severity(s) = "critical" => Severity(t) = "critical"
        /\ Severity(s) \in {"high", "critical"} => Severity(t) \in {"high", "critical"}
        /\ Severity(t) \in {"informational", "low"} => Severity(s) \in {"informational", "low"}
    <2>1. CASE s.severity # None
      <3>1. Severity(t) = Severity(s)
        BY <1>1, <2>1 DEF Severity
      <3> QED
        BY <3>1, BaseIsNat
    <2>2. CASE s.severity = None
      <3>1. Severity(s) = SeverityOfScore(s.risk) /\ Severity(t) = SeverityOfScore(higher)
        BY <1>1, <2>2, NoneIsNoValue DEF Severity
      <3> QED
        BY <1>1, <3>1, ScoresRank
    <2> QED
      BY <2>1, <2>2
  <1>3. Priority(s) <= Priority(t)
    <2> DEFINE scored(u) == IF u.risk # None THEN AtLeastOf(SeverityBase(Severity(u)), u.risk)
                            ELSE SeverityBase(Severity(u))
    <2>1. scored(s) \in Int /\ scored(t) \in Int /\ scored(s) <= scored(t)
      BY <1>1, <1>2, BaseIsNat, NoneIsNoValue DEF AtLeastOf
    <2> HIDE DEF scored
    <2>2. \A u : Priority(u) = AtMostOf(AtLeastOf(scored(u) + (IF u.mitre THEN 5 ELSE 0)
                                                  - (IF u.duplicate THEN 20 ELSE 0), 0), 100)
      BY DEF Priority, scored
    <2> DEFINE bonus == (IF s.mitre THEN 5 ELSE 0)
               malus == (IF s.duplicate THEN 20 ELSE 0)
    <2>3. bonus \in Int /\ malus \in Int
      OBVIOUS
    <2>4. /\ Priority(s) = AtMostOf(AtLeastOf(scored(s) + bonus - malus, 0), 100)
          /\ Priority(t) = AtMostOf(AtLeastOf(scored(t) + bonus - malus, 0), 100)
      BY <1>1, <2>2
    <2> HIDE DEF bonus, malus
    <2> QED
      BY <2>1, <2>3, <2>4 DEF AtLeastOf, AtMostOf
  <1> QED
    BY <1>2, <1>3

\* What triage does with an alert that neither is a duplicate nor is doubted.
LEMMA SureAction ==
    ASSUME NEW s \in TriageState, ~s.duplicate, Confidence(s) >= 55
    PROVE  TriageAction(s) =
             IF Escalated(s) THEN "escalate_to_senior_analyst"
             ELSE IF Severity(s) \in {"high", "critical"} \/ Priority(s) >= 70
               THEN "open_investigation"
             ELSE IF Severity(s) \in {"informational", "low"} /\ Priority(s) < 40
               THEN "monitor" ELSE "queue_for_review"
  <1>1. Confidence(s) \in Int
    BY DEF Confidence, OrElse, TriageState
  <1>2. ~(Confidence(s) < 55)
    BY <1>1
  <1> QED
    BY <1>2 DEF TriageAction

\* A higher risk score never lowers the urgency of what triage recommends.
LEMMA RiskUrges ==
    ASSUME NEW s \in TriageState, ~s.duplicate, Confidence(s) >= 55, s.risk # None,
           NEW higher \in Int, higher >= s.risk
    PROVE  Urgency(TriageAction(s)) <= Urgency(TriageAction([s EXCEPT !.risk = higher]))
  <1> DEFINE t == [s EXCEPT !.risk = higher]
  <1>1. t \in TriageState /\ t.duplicate = s.duplicate /\ t.confidence = s.confidence
    BY DEF TriageState
  <1>2. Confidence(t) = Confidence(s) /\ Confidence(s) \in Int
    BY <1>1 DEF Confidence, OrElse, TriageState
  <1>3. Priority(s) \in Int /\ Priority(t) \in Int
    BY <1>1, PriorityIsInt
  <1>4. /\ Severity(s) = "critical" => Severity(t) = "critical"
        /\ Severity(s) \in {"high", "critical"} => Severity(t) \in {"high", "critical"}
        /\ Severity(t) \in {"informational", "low"} => Severity(s) \in {"informational", "low"}
        /\ Priority(s) <= Priority(t)
    BY RiskRaises
  <1>5. Escalated(s) => Escalated(t)
    BY <1>1, <1>2, <1>3, <1>4 DEF Escalated
  <1>6. /\ TriageAction(s) =
             IF Escalated(s) THEN "escalate_to_senior_analyst"
             ELSE IF Severity(s) \in {"high", "critical"} \/ Priority(s) >= 70
               THEN "open_investigation"
             ELSE IF Severity(s) \in {"informational", "low"} /\ Priority(s) < 40
               THEN "monitor" ELSE "queue_for_review"
        /\ TriageAction(t) =
             IF Escalated(t) THEN "escalate_to_senior_analyst"
             ELSE IF Severity(t) \in {"high", "critical"} \/ Priority(t) >= 70
               THEN "open_investigation"
             ELSE IF Severity(t) \in {"informational", "low"} /\ Priority(t) < 40
               THEN "monitor" ELSE "queue_for_review"
    BY <1>1, <1>2, SureAction
  <1> HIDE DEF t
  <1>7. CASE Escalated(s)
    BY <1>5, <1>6, <1>7 DEF Urgency, t
  <1>8. CASE ~Escalated(s) /\ (Severity(s) \in {"high", "critical"} \/ Priority(s) >= 70)
    <2>1. TriageAction(s) = "open_investigation"
      BY <1>6, <1>8
    <2>2. TriageAction(t) \in {"open_investigation", "escalate_to_senior_analyst"}
      BY <1>3, <1>4, <1>6, <1>8
    <2> QED
      BY <2>1, <2>2 DEF Urgency, t
  <1>9. CASE ~Escalated(s) /\ ~(Severity(s) \in {"high", "critical"} \/ Priority(s) >= 70)
    <2>1. TriageAction(s) \in {"monitor", "queue_for_review"}
      BY <1>6, <1>9
    <2>2. TriageAction(t) \in {"monitor", "queue_for_review", "open_investigation",
                              "escalate_to_senior_analyst"}
      BY <1>6
    <2>3. TriageAction(t) = "monitor" => TriageAction(s) = "monitor"
      BY <1>3, <1>4, <1>6, <1>9
    <2> QED
      BY <2>1, <2>2, <2>3 DEF Urgency, t
  <1> QED
    BY <1>7, <1>8, <1>9

----------------------------------------------------------------------------
\* Before the approval the response agent executes nothing that is marked for
\* it, and marks everything serious.
LEMMA ExecutesApproved ==
    ASSUME NEW s \in ResponseState, NEW a \in Executed(s), a.approval \/ Serious(a, s.riskLevel)
    PROVE  s.approved
  <1>1. ~s.approved => a \in RecommendResponseActions(s) /\ ~a.approval
    BY DEF Executed, NeedsApproval
  <1>2. a \in RecommendResponseActions(s) /\ Serious(a, s.riskLevel) => a.approval
    <2> SUFFICES ASSUME a \in RecommendResponseActions(s), Serious(a, s.riskLevel)
                 PROVE  a.approval
      OBVIOUS
    <2>1. \/ a \in {ActionOn("block_ip", s.ip, s.riskLevel \in {"critical", "high"}),
                    ActionOn("disable_account", s.actor, TRUE),
                    ActionOn("reset_password", s.actor, s.riskLevel # "low"),
                    ActionOn("notify_owner", s.target, FALSE)}
          \/ \E h \in s.assets : a = ActionOn("collect_forensics", h, FALSE)
          \/ \E h \in s.assets : a = ActionOn("isolate_host", h, TRUE)
      BY DEF RecommendResponseActions
    <2>2. CASE a = ActionOn("block_ip", s.ip, s.riskLevel \in {"critical", "high"})
      <3>1. a.type = "block_ip" /\ a.approval = (s.riskLevel \in {"critical", "high"})
        BY <2>2 DEF ActionOn
      <3>2. s.riskLevel \in {"critical", "high"}
        BY <3>1 DEF Serious
      <3> QED
        BY <3>1, <3>2
    <2>3. CASE a = ActionOn("disable_account", s.actor, TRUE)
      BY <2>3 DEF ActionOn
    <2>4. CASE a = ActionOn("reset_password", s.actor, s.riskLevel # "low")
      <3>1. a.type = "reset_password" /\ a.approval = (s.riskLevel # "low")
        BY <2>4 DEF ActionOn
      <3>2. s.riskLevel # "low"
        BY <3>1 DEF Serious
      <3> QED
        BY <3>1, <3>2
    <2>5. CASE a = ActionOn("notify_owner", s.target, FALSE)
      BY <2>5 DEF ActionOn, Serious
    <2>6. CASE \E h \in s.assets : a = ActionOn("collect_forensics", h, FALSE)
      BY <2>6 DEF ActionOn, Serious
    <2>7. CASE \E h \in s.assets : a = ActionOn("isolate_host", h, TRUE)
      BY <2>7 DEF ActionOn
    <2> QED
      BY <2>1, <2>2, <2>3, <2>4, <2>5, <2>6, <2>7
  <1> QED
    BY <1>1, <1>2

----------------------------------------------------------------------------
(* The case: what it is about does not change, but for an approval.        *)

Agents == {"alert_triage", "policy", "supervisor", "risk_scoring", "investigation", "response"}

CaseInv ==
    /\ DOMAIN case = {"agent", "facts", "clients"} /\ case.agent \in Agents
    /\ case.agent = "alert_triage" => case.facts \in TriageState
    /\ case.agent = "response" => case.facts \in ResponseState
    /\ case.agent = "policy" => case.facts \in AutonomyState

LEMMA CaseInit == Init => CaseInv
  BY CasesFit DEF Init, CaseInv, Agents

LEMMA CaseStep ==
    ASSUME CaseInv, [Next]_vars
    PROVE  /\ CaseInv' /\ case'.agent = case.agent
           /\ case' = case \/ Approve
  <1>1. CASE Approve
    <2>1. /\ case.facts \in ResponseState /\ DOMAIN case = {"agent", "facts", "clients"}
          /\ case' = [case EXCEPT !.facts.approved = TRUE]
      BY <1>1 DEF Approve, CaseInv
    <2>2. /\ case'.agent = case.agent /\ DOMAIN case' = DOMAIN case
          /\ case'.facts = [case.facts EXCEPT !.approved = TRUE]
      BY <2>1
    <2>3. case'.facts \in ResponseState
      BY <2>1, <2>2 DEF ResponseState
    <2> QED
      BY <1>1, <2>2, <2>3 DEF Approve, CaseInv
  <1>2. CASE ~Approve
    <2>1. case' = case
      BY <1>2 DEF Next, vars, CreateRun, GetOwnedRun, MarkRunning, CompleteRun, FailRun, Update,
                  ComputeNode, RecordStep, Commit, Die
    <2> QED
      BY <2>1 DEF CaseInv
  <1> QED
    BY <1>1, <1>2

\* The autonomy policy fails safe for every skill, level and confidence.
THEOREM PolicyFailsSafe == Spec => []AutonomyFailSafe
  <1>1. CaseInv => AutonomyFailSafe
    <2> SUFFICES ASSUME CaseInv, case.agent = "policy" PROVE AutonomyFailSafe
      BY DEF AutonomyFailSafe
    <2> DEFINE f == case.facts
               at(level) == EvaluateAutonomy(f.policy, f.class, level, f.confidence, f.floor)
    <2>1. f \in AutonomyState /\ f.level \in Level
      BY DEF CaseInv, AutonomyState
    <2>2. ASSUME at(f.level) = "allow"
          PROVE  /\ f.policy = "allow" /\ f.class # "critical" /\ f.level >= 2
                 /\ f.confidence # None => f.confidence >= f.floor
                 /\ \A level \in f.level .. 4 : at(level) = "allow"
      <3>1. /\ f.policy = "allow" /\ f.class \in AutonomousRiskClasses(f.level)
            /\ f.confidence # None => f.confidence >= f.floor
        BY <2>1, <2>2, AllowedOnly
      <3>2. ASSUME NEW level \in f.level .. 4
            PROVE  at(level) = "allow"
        <4>1. level \in Level /\ f.level <= level
          BY <2>1, <3>2 DEF Level
        <4>2. f.class \in AutonomousRiskClasses(level)
          BY <2>1, <3>1, <4>1, LevelsGrow
        <4> QED
          BY <2>1, <3>1, <4>1, <4>2, AllowedWhen
      <3> QED
        BY <2>1, <3>1, <3>2, ClassesAllowed
    <2> QED
      BY <2>2 DEF AutonomyFailSafe
  <1> QED
    BY <1>1, CaseInit, CaseStep, PTL DEF Spec

\* A higher risk score never lowers the urgency triage recommends, for any
\* alert and any two scores.
THEOREM UrgencyMonotone == Spec => []TriageMonotone
  <1>1. CaseInv => TriageMonotone
    <2> SUFFICES ASSUME CaseInv, case.agent = "alert_triage", ~case.facts.duplicate,
                        Confidence(case.facts) >= 55, case.facts.risk # None,
                        NEW higher \in case.facts.risk .. 100
                 PROVE  Urgency(TriageAction(case.facts))
                          <= Urgency(TriageAction([case.facts EXCEPT !.risk = higher]))
      BY DEF TriageMonotone
    <2>1. case.facts \in TriageState
      BY DEF CaseInv
    <2>2. higher \in Int /\ higher >= case.facts.risk
      BY <2>1 DEF TriageState
    <2> QED
      BY <2>1, <2>2, RiskUrges
  <1> QED
    BY <1>1, CaseInit, CaseStep, PTL DEF Spec

----------------------------------------------------------------------------
(* What is carried out was approved when it had to be: the actions a node  *)
(* carries out are those the response agent lets through then, and an      *)
(* approval is never withdrawn.                                            *)

ApprovedInv == CaseInv /\ NothingUnapproved /\ (case.agent # "response" => executed = {})

LEMMA ApprovedStep ==
    ASSUME ApprovedInv, [Next]_vars
    PROVE  ApprovedInv'
  <1>1. CaseInv' /\ case'.agent = case.agent
    BY CaseStep DEF ApprovedInv
  <1>2. CASE Approve
    <2>1. /\ case.facts \in ResponseState /\ DOMAIN case = {"agent", "facts", "clients"}
          /\ case' = [case EXCEPT !.facts.approved = TRUE] /\ executed' = executed
          /\ case.agent = "response"
      BY <1>2 DEF Approve, ApprovedInv, CaseInv
    <2>2. case'.facts.approved
      BY <2>1 DEF ResponseState
    <2> QED
      BY <1>1, <2>1, <2>2 DEF ApprovedInv, NothingUnapproved
  <1>3. CASE case' = case /\ executed' = executed
    BY <1>1, <1>3 DEF ApprovedInv, NothingUnapproved
  <1>4. ASSUME NEW c \in Client, ComputeNode(c)
        PROVE  ApprovedInv'
    <2>1. /\ case' = case
          /\ executed' = executed \/
               (case.agent = "response" /\ executed' = executed \cup Executed(case.facts))
      BY <1>4 DEF ComputeNode
    <2>2. case.agent = "response" =>
            \A a \in Executed(case.facts) :
               a.approval \/ Serious(a, case.facts.riskLevel) => case.facts.approved
      BY ExecutesApproved DEF ApprovedInv, CaseInv
    <2> QED
      BY <1>1, <2>1, <2>2 DEF ApprovedInv, NothingUnapproved
  <1> QED
    BY <1>2, <1>3, <1>4 DEF Next, vars, CreateRun, GetOwnedRun, MarkRunning, CompleteRun, FailRun,
                            Update, RecordStep, Commit, Die

\* However often the work is done again, by however many clients, and however
\* they die: no action that is marked for approval, or that the policy of the
\* response agent gates, is executed before an analyst approves.
THEOREM NothingBeforeApproval == Spec => []NothingUnapproved
  <1>1. Init => ApprovedInv
    BY CaseInit DEF Init, ApprovedInv, NothingUnapproved
  <1>2. ApprovedInv => NothingUnapproved
    BY DEF ApprovedInv
  <1> QED
    BY <1>1, <1>2, ApprovedStep, PTL DEF Spec

----------------------------------------------------------------------------
(* The invariant of the store.  A session computes from the row it has     *)
(* read: what it has changed since is what its columns say, and it writes  *)
(* a trace only with a final state or an error in it; so a trace that has  *)
(* one never has none again, and the session that writes only the status   *)
(* of an ended run finds one there.  Only one session at a time holds the  *)
(* row, and unless an UPDATE was computed from a row that had changed, it  *)
(* has read the row as it still is.                                        *)

Ended == {"completed", "failed"}
Marked(trace) == trace.final_state # None \/ trace.error

Open(c) == ~At(c, "start") /\ ~At(c, "end")

Sound(row) ==
    /\ row.status = "completed" => row.trace.final_state # None
    /\ row.status = "failed" => row.trace.error

Grows(old, new) ==
    /\ old.error => new.error
    /\ old.final_state # None => new.final_state # None

\* What the session holds, against what it has read and what is committed.
Held(c) ==
    /\ copy[c] # None
    /\ copy[c].status \in Ended => Marked(copy[c].trace)
    /\ IF read[c] = None THEN run = None
       ELSE /\ Grows(read[c].trace, copy[c].trace)
            /\ "trace" \in flushed[c].columns => Marked(copy[c].trace)
            /\ run # None /\ (Marked(read[c].trace) => Marked(run.trace))
    /\ "status" \notin flushed[c].columns => read[c] # None /\ copy[c].status = read[c].status
    /\ "trace" \notin flushed[c].columns => read[c] # None /\ copy[c].trace = read[c].trace
    /\ IF flushed[c].row = None THEN flushed[c].columns = {} ELSE flushed[c].row = copy[c]
    /\ overlapped = FALSE => Sound(copy[c])
    /\ overlapped = FALSE /\ flushed[c].row # None => read[c] = run

Session(c) ==
    /\ At(c, "start") => read[c] = None /\ flushed[c] = NothingFlushed /\ phase[c].node = 0
    /\ At(c, "end") => flushed[c] = NothingFlushed
    /\ At(c, "computed") => phase[c].node \in 1 .. Len(Nodes)
    /\ Open(c) => Held(c)

RowInv ==
    /\ run # None /\ run.status \in Ended => Marked(run.trace)
    /\ run # None /\ overlapped = FALSE => Sound(run)
    /\ steps # {} => run # None
    /\ \A c, d \in Client : c # d => flushed[c].row = None \/ flushed[d].row = None

RunInv == CaseInv /\ TypeOK /\ RowInv /\ \A c \in Client : Session(c)

LEMMA NodesAreMany ==
    ASSUME CaseInv
    PROVE  /\ Len(Nodes) \in Nat /\ Len(Nodes) >= 1 /\ DOMAIN Nodes = 1 .. Len(Nodes)
           /\ \A k \in 1 .. Len(Nodes) : Nodes[k] \in AllNodes
  <1>1. /\ Len(Nodes) \in Nat /\ Len(Nodes) >= 1
        /\ DOMAIN Nodes = 1 .. Len(Nodes)
    <2>1. CASE case.agent = "alert_triage"
      <3>1. Nodes = <<"deduplicate_alert", "classify_alert", "prioritize_alert",
                      "choose_next_action">>
        BY <2>1 DEF Nodes, NodesOf
      <3>2. DOMAIN Nodes = 1 .. 4 /\ Len(Nodes) = 4
        BY <3>1
      <3> QED
        BY <3>2
    <2>2. CASE case.agent = "response"
      <3>1. Nodes = <<"recommend_response_actions", "execute_response_actions">>
        BY <2>2 DEF Nodes, NodesOf
      <3>2. DOMAIN Nodes = 1 .. 2 /\ Len(Nodes) = 2
        BY <3>1
      <3> QED
        BY <3>2
    <2>3. CASE case.agent # "alert_triage" /\ case.agent # "response"
      <3>1. Nodes = <<case.agent>>
        BY <2>3 DEF Nodes, NodesOf
      <3>2. DOMAIN Nodes = 1 .. 1 /\ Len(Nodes) = 1
        BY <3>1
      <3> QED
        BY <3>2
    <2> QED
      BY <2>1, <2>2, <2>3
  <1> QED
    BY <1>1 DEF AllNodes

\* What a step leaves of the committed row: it is not taken away, and a trace
\* that had a final state or an error still has one.
RunStays == run # None => run' # None /\ (Marked(run.trace) => Marked(run'.trace))

\* A session is not disturbed by what the others do to the row while it does
\* not hold it.
LEMMA OthersKeep ==
    ASSUME RunInv, NEW d \in Client, RunStays,
           phase'[d] = phase[d], copy'[d] = copy[d], read'[d] = read[d], flushed'[d] = flushed[d],
           Nodes' = Nodes, overlapped' = FALSE => overlapped = FALSE,
           run' = run \/ flushed[d].row = None
    PROVE  Session(d)'
  <1>1. \A where : At(d, where)' <=> At(d, where)
    BY DEF At
  <1>2. Open(d)' <=> Open(d)
    BY <1>1 DEF Open
  <1>3. ASSUME Held(d) PROVE Held(d)'
    <2>1. CASE flushed[d].row = None
      <3>1. flushed[d].columns = {} /\ read[d] # None
        BY <1>3, <2>1 DEF Held
      <3>2. run # None /\ (Marked(read[d].trace) => Marked(run.trace))
        BY <1>3, <3>1 DEF Held
      <3>3. run' # None /\ (Marked(read[d].trace) => Marked(run'.trace))
        BY <3>2 DEF RunStays
      <3> QED
        BY <1>3, <2>1, <3>1, <3>3 DEF Held, Marked
    <2>2. CASE run' = run
      BY <1>3, <2>2 DEF Held
    <2> QED
      BY <2>1, <2>2
  <1> QED
    BY <1>1, <1>2, <1>3 DEF RunInv, Session, NothingFlushed

\* A step of c by the parts of the invariant it can disturb.
LEMMA StepOf ==
    ASSUME RunInv, NEW c \in Client, case' = case, RunStays,
           overlapped' = FALSE => overlapped = FALSE,
           \A d \in Client \ {c} : /\ phase'[d] = phase[d] /\ copy'[d] = copy[d]
                                   /\ read'[d] = read[d] /\ flushed'[d] = flushed[d]
                                   /\ run' = run \/ flushed[d].row = None,
           TypeOK', RowInv', Session(c)'
    PROVE  RunInv'
  <1>1. Nodes' = Nodes
    BY DEF Nodes
  <1>2. \A d \in Client \ {c} : Session(d)'
    BY <1>1, OthersKeep
  <1> QED
    BY <1>2 DEF RunInv, CaseInv

LEMMA Typed ==
    ASSUME RunInv, NEW c \in Client
    PROVE  /\ run \in Row \cup {None} /\ read[c] \in Row \cup {None} /\ copy[c] \in Row \cup {None}
           /\ flushed[c] \in [row : Row \cup {None}, columns : SUBSET {"status", "trace"},
                              steps : SUBSET AllNodes]
           /\ phase[c] \in Phase /\ phase[c].node \in Nat /\ phase[c].node <= Len(Nodes)
           /\ c \in Foreign => copy[c] = None
           /\ overlapped \in BOOLEAN /\ Session(c)
  BY DEF RunInv, TypeOK, Phase

\* A client that is at work.
LEMMA AtWork ==
    ASSUME RunInv, NEW c \in Client, At(c, "active") \/ At(c, "computed")
    PROVE  /\ Open(c) /\ Held(c) /\ copy[c] \in Row /\ c \notin Foreign
           /\ phase[c].node \in Nat /\ Len(Nodes) \in Nat /\ phase[c].node <= Len(Nodes)
  BY Typed, NodesAreMany DEF Session, Open, At, Held, RunInv

LEMMA CreateKeeps ==
    ASSUME RunInv, NEW c \in Client, CreateRun(c)
    PROVE  RunInv'
  <1> DEFINE row == [status |-> "queued",
                     trace |-> [initial_state |-> TRUE, error |-> FALSE, final_state |-> None]]
  <1>1. row \in Row /\ row # None /\ row.status = "queued"
    <2>1. row \in Row /\ row.status = "queued"
      BY DEF Row, Trace
    <2> QED
      BY <2>1, NoneIsNoRow
  <1> HIDE DEF row
  <1>2. /\ At(c, "start") /\ c \notin Foreign /\ run = None
        /\ \A d \in Client : flushed[d].row = None
        /\ copy' = [copy EXCEPT ![c] = row]
        /\ flushed' = [flushed EXCEPT ![c] =
                         [row |-> row, columns |-> {"status", "trace"}, steps |-> {}]]
        /\ phase' = [phase EXCEPT ![c].at = "active"]
        /\ UNCHANGED <<case, run, steps, read, overlapped, executed>>
    BY DEF CreateRun, GoTo, row
  <1>3. read[c] = None /\ flushed[c] = NothingFlushed /\ phase[c].node = 0
    BY <1>2, Typed DEF Session
  <1>4. /\ copy'[c] = row /\ read'[c] = None
        /\ flushed'[c] = [row |-> row, columns |-> {"status", "trace"}, steps |-> {}]
        /\ phase'[c] = [at |-> "active", node |-> 0]
        /\ \A d \in Client \ {c} : /\ phase'[d] = phase[d] /\ copy'[d] = copy[d]
                                   /\ read'[d] = read[d] /\ flushed'[d] = flushed[d]
    <2>1. /\ copy \in [Client -> Row \cup {None}] /\ phase \in [Client -> Phase]
          /\ DOMAIN flushed = Client
      BY DEF RunInv, TypeOK
    <2>2. copy'[c] = row /\ read'[c] = None
      BY <1>2, <1>3, <2>1
    <2>3. flushed'[c] = [row |-> row, columns |-> {"status", "trace"}, steps |-> {}]
      BY <1>2, <1>3, <2>1 DEF NothingFlushed
    <2>4. phase'[c] = [at |-> "active", node |-> 0]
      BY <1>2, <1>3, <2>1 DEF Phase
    <2> QED
      BY <1>2, <2>1, <2>2, <2>3, <2>4
  <1>5. TypeOK'
    BY <1>1, <1>2, <1>3, <1>4, NodesAreMany DEF RunInv, TypeOK, Phase, AllNodes, Nodes
  <1>6. RowInv' /\ RunStays
    BY <1>2, <1>4 DEF RunInv, RowInv, RunStays
  <1>7. Session(c)'
    <2>1. Held(c)'
      BY <1>1, <1>2, <1>4 DEF Held, Sound, Ended
    <2> QED
      BY <1>1, <1>4, <2>1 DEF Session, At, Open
  <1> QED
    BY <1>2, <1>4, <1>5, <1>6, <1>7, StepOf

LEMMA GetKeeps ==
    ASSUME RunInv, NEW c \in Client, GetOwnedRun(c)
    PROVE  RunInv'
  <1>1. /\ At(c, "start") /\ run # None
        /\ \/ /\ c \notin Foreign /\ phase' = [phase EXCEPT ![c].at = "active"]
              /\ read' = [read EXCEPT ![c] = run] /\ copy' = [copy EXCEPT ![c] = run]
           \/ phase' = [phase EXCEPT ![c].at = "end"] /\ UNCHANGED <<read, copy>>
        /\ UNCHANGED <<case, run, steps, flushed, overlapped, executed>>
    BY DEF GetOwnedRun, Owns, GoTo
  <1>2. flushed[c] = NothingFlushed /\ phase[c].node = 0
    BY <1>1, Typed DEF Session
  <1>3. /\ \/ c \notin Foreign /\ phase'[c] = [at |-> "active", node |-> 0]
                /\ read'[c] = run /\ copy'[c] = run
           \/ phase'[c] = [at |-> "end", node |-> 0] /\ read'[c] = read[c] /\ copy'[c] = copy[c]
        /\ \A d \in Client \ {c} : /\ phase'[d] = phase[d] /\ copy'[d] = copy[d]
                                   /\ read'[d] = read[d] /\ flushed'[d] = flushed[d]
        /\ flushed'[c] = NothingFlushed
    BY <1>1, <1>2 DEF RunInv, TypeOK, Phase
  <1>4. TypeOK'
    <2>1. /\ read' \in [Client -> Row \cup {None}] /\ copy' \in [Client -> Row \cup {None}]
          /\ phase' \in [Client -> Phase]
      <3>1. run \in Row \cup {None} /\ read \in [Client -> Row \cup {None}]
            /\ copy \in [Client -> Row \cup {None}] /\ phase \in [Client -> Phase]
        BY DEF RunInv, TypeOK
      <3>2. read' \in [Client -> Row \cup {None}] /\ copy' \in [Client -> Row \cup {None}]
        BY <1>1, <3>1
      <3>3. phase' \in [Client -> Phase]
        BY <1>1, <3>1 DEF Phase
      <3> QED
        BY <3>2, <3>3
    <2>2. \A d \in Client : phase'[d].node <= Len(Nodes)' /\ (d \in Foreign => copy'[d] = None)
      BY <1>1, <1>2, <1>3, NodesAreMany DEF RunInv, TypeOK, Nodes
    <2> QED
      BY <1>1, <2>1, <2>2 DEF RunInv, TypeOK, AllNodes, Nodes
  <1>5. RowInv' /\ RunStays
    BY <1>1 DEF RunInv, RowInv, RunStays
  <1>6. Session(c)'
    <2>1. CASE phase'[c] = [at |-> "end", node |-> 0]
      BY <1>3, <2>1 DEF Session, At, Open
    <2>2. CASE phase'[c] = [at |-> "active", node |-> 0] /\ read'[c] = run /\ copy'[c] = run
      <3>1. /\ run.status \in Ended => Marked(run.trace)
            /\ overlapped = FALSE => Sound(run)
        BY <1>1 DEF RunInv, RowInv
      <3>2. Held(c)'
        BY <1>1, <1>3, <2>2, <3>1 DEF Held, Grows, NothingFlushed
      <3> QED
        BY <1>3, <2>2, <3>2 DEF Session, At, Open
    <2> QED
      BY <1>3, <2>1, <2>2
  <1> QED
    BY <1>1, <1>3, <1>4, <1>5, <1>6, StepOf

LEMMA Either ==
    ASSUME NEW x, NEW a \in BOOLEAN, NEW b, x = (a \/ b)
    PROVE  x \in BOOLEAN /\ (x = FALSE => a = FALSE /\ ~b)
  <1>1. x \in BOOLEAN
    BY Zenon
  <1>2. ASSUME x = FALSE PROVE a = FALSE /\ ~b
    BY <1>2
  <1> QED
    BY <1>1, <1>2

\* What an UPDATE must respect: it adds to the trace, and neither writes a trace
\* nor ends a run without a final state or an error in it.
LEMMA UpdateKeeps ==
    ASSUME RunInv, NEW c \in Client, NEW row \in Row, NEW node \in Nat,
           At(c, "active") \/ At(c, "computed"), Update(c, row, node), node <= Len(Nodes),
           Grows(copy[c].trace, row.trace), overlapped = FALSE => Sound(row),
           row.status \in Ended \/ row.trace # copy[c].trace => Marked(row.trace)
    PROVE  RunInv'
  <1> DEFINE columns == flushed[c].columns
                          \cup { f \in {"status", "trace"} : row[f] # copy[c][f] }
             f == IF columns = {} THEN flushed[c]
                  ELSE [row |-> row, columns |-> columns, steps |-> flushed[c].steps]
  <1>1. /\ copy' = [copy EXCEPT ![c] = row]
        /\ phase' = [phase EXCEPT ![c] = [at |-> "active", node |-> node]]
        /\ UNCHANGED <<case, run, steps, read, executed>>
        /\ \/ columns = {} /\ UNCHANGED <<flushed, overlapped>>
           \/ /\ columns # {} /\ ~Locked(c)
              /\ flushed' = [flushed EXCEPT ![c] =
                               [row |-> row, columns |-> columns, steps |-> @.steps]]
              /\ overlapped' = (overlapped \/ (flushed[c].row = None /\ read[c] # run))
    BY DEF Update, Stale
  <1>2. /\ columns \subseteq {"status", "trace"} /\ flushed[c].columns \subseteq columns
        /\ "status" \notin columns => row.status = copy[c].status
        /\ "trace" \notin columns => row.trace = copy[c].trace
        /\ "trace" \in columns => "trace" \in flushed[c].columns \/ row.trace # copy[c].trace
    BY Typed
  <1> HIDE DEF columns
  <1>3. /\ Held(c) /\ c \notin Foreign /\ row # None /\ overlapped \in BOOLEAN
        /\ copy \in [Client -> Row \cup {None}] /\ phase \in [Client -> Phase]
        /\ flushed \in [Client -> [row : Row \cup {None}, columns : SUBSET {"status", "trace"},
                                   steps : SUBSET AllNodes]]
    BY AtWork, NoneIsNoRow DEF RunInv, TypeOK
  <1>4. /\ f \in [row : Row \cup {None}, columns : SUBSET {"status", "trace"},
                  steps : SUBSET AllNodes]
        /\ f.columns = columns /\ f.steps = flushed[c].steps
        /\ columns = {} => f.row = None
        /\ columns # {} => f.row = row
    BY <1>2, <1>3 DEF Held
  <1>5. flushed' = [flushed EXCEPT ![c] = f]
    <2>1. CASE columns = {}
      <3>1. flushed = [flushed EXCEPT ![c] = flushed[c]]
        BY <1>3
      <3> QED
        BY <1>1, <2>1, <3>1
    <2>2. CASE columns # {}
      BY <1>1, <1>3, <2>2
    <2> QED
      BY <2>1, <2>2
  <1> HIDE DEF f
  <1>6. /\ overlapped' \in BOOLEAN
        /\ overlapped' = FALSE => overlapped = FALSE
        /\ overlapped' = FALSE /\ f.row # None => read[c] = run
    <2>1. CASE columns = {}
      BY <1>1, <1>3, <1>4, <2>1
    <2>2. CASE overlapped' = (overlapped \/ (flushed[c].row = None /\ read[c] # run))
      <3>1. /\ overlapped' \in BOOLEAN
            /\ overlapped' = FALSE =>
                 overlapped = FALSE /\ ~(flushed[c].row = None /\ read[c] # run)
        BY <1>3, <2>2, Either
      <3> QED
        BY <1>3, <3>1 DEF Held
    <2> QED
      BY <1>1, <2>1, <2>2
  <1>7. /\ copy'[c] = row /\ read'[c] = read[c] /\ flushed'[c] = f
        /\ phase'[c] = [at |-> "active", node |-> node]
        /\ \A d \in Client \ {c} : /\ phase'[d] = phase[d] /\ copy'[d] = copy[d]
                                   /\ read'[d] = read[d] /\ flushed'[d] = flushed[d]
    BY <1>1, <1>3, <1>5
  <1>8. TypeOK'
    <2>1. /\ copy' \in [Client -> Row \cup {None}]
          /\ flushed' \in [Client -> [row : Row \cup {None}, columns : SUBSET {"status", "trace"},
                                      steps : SUBSET AllNodes]]
      BY <1>1, <1>3, <1>4, <1>5
    <2>2. phase' \in [Client -> Phase]
      BY <1>1, <1>3 DEF Phase
    <2>3. \A d \in Client : phase'[d].node <= Len(Nodes) /\ (d \in Foreign => copy'[d] = None)
      BY <1>3, <1>7 DEF RunInv, TypeOK
    <2> QED
      BY <1>1, <1>6, <2>1, <2>2, <2>3 DEF RunInv, TypeOK, AllNodes, Nodes
  <1>9. RowInv' /\ RunStays
    <2>1. \A d, e \in Client : d # e => flushed'[d].row = None \/ flushed'[e].row = None
      <3>1. CASE columns = {}
        BY <1>1, <3>1 DEF RunInv, RowInv
      <3>2. CASE ~Locked(c)
        BY <1>7, <3>2 DEF Locked
      <3> QED
        BY <1>1, <3>1, <3>2
    <2> QED
      BY <1>1, <1>6, <2>1 DEF RunInv, RowInv, RunStays
  <1>10. Session(c)'
    <2>1. read[c] # None =>
            /\ Grows(read[c].trace, row.trace)
            /\ "trace" \in columns => Marked(row.trace)
      <3>1. ASSUME read[c] # None
            PROVE  /\ Grows(read[c].trace, copy[c].trace)
                   /\ "trace" \in flushed[c].columns => Marked(copy[c].trace)
        BY <1>3, <3>1 DEF Held
      <3> QED
        BY <1>2, <3>1 DEF Grows, Marked
    <2>2. /\ "status" \notin columns => read[c] # None /\ row.status = read[c].status
          /\ "trace" \notin columns => read[c] # None /\ row.trace = read[c].trace
      BY <1>2, <1>3 DEF Held
    <2>3. Held(c)'
      <3>1. /\ IF read[c] = None THEN run = None
               ELSE run # None /\ (Marked(read[c].trace) => Marked(run.trace))
        BY <1>3 DEF Held
      <3>2. overlapped' = FALSE => Sound(row)
        BY <1>6
      <3> QED
        BY <1>1, <1>3, <1>4, <1>6, <1>7, <2>1, <2>2, <3>1, <3>2 DEF Held
    <2> QED
      BY <1>7, <2>3 DEF Session, At, Open
  <1> QED
    BY <1>1, <1>6, <1>7, <1>8, <1>9, <1>10, StepOf

LEMMA MarkKeeps ==
    ASSUME RunInv, NEW c \in Client, MarkRunning(c)
    PROVE  RunInv'
  <1> DEFINE row == [copy[c] EXCEPT !.status = "running"]
  <1>1. /\ At(c, "active") /\ Update(c, row, phase[c].node) /\ copy[c] \in Row
        /\ phase[c].node \in Nat /\ phase[c].node <= Len(Nodes)
    BY AtWork DEF MarkRunning
  <1>2. row \in Row /\ row.status = "running" /\ row.trace = copy[c].trace
    BY <1>1 DEF Row
  <1> HIDE DEF row
  <1>3. /\ Grows(copy[c].trace, row.trace) /\ Sound(row)
        /\ row.status \notin Ended
    BY <1>2 DEF Grows, Sound, Ended
  <1> QED
    BY <1>1, <1>2, <1>3, UpdateKeeps

LEMMA FailKeeps ==
    ASSUME RunInv, NEW c \in Client, FailRun(c)
    PROVE  RunInv'
  <1> DEFINE row == [copy[c] EXCEPT !.status = "failed", !.trace.error = TRUE]
  <1>1. /\ At(c, "active") \/ At(c, "computed")
        /\ Update(c, row, 0) /\ copy[c] \in Row /\ Len(Nodes) \in Nat
    BY AtWork DEF FailRun
  <1>2. /\ row \in Row /\ row.status = "failed" /\ row.trace.error
        /\ row.trace.final_state = copy[c].trace.final_state
    BY <1>1 DEF Row, Trace
  <1> HIDE DEF row
  <1>3. Grows(copy[c].trace, row.trace) /\ Sound(row) /\ Marked(row.trace)
    BY <1>2 DEF Grows, Sound, Marked
  <1>4. 0 \in Nat /\ 0 <= Len(Nodes)
    BY <1>1
  <1> QED
    BY <1>1, <1>2, <1>3, <1>4, UpdateKeeps

\* What a graph ends with is never nothing.
LEMMA FinalIsSome ==
    ASSUME CaseInv, NEW final \in FinalStates(case.agent, case.facts)
    PROVE  final \in Final
  <1>1. CASE case.agent = "alert_triage"
    BY <1>1 DEF FinalStates, TriageAction, Final
  <1>2. CASE case.agent = "response"
    BY <1>2 DEF FinalStates, ResponseAction, Final
  <1>3. CASE case.agent = "supervisor"
    <2>1. final = RouteSocWork(case.facts).action
      BY <1>3 DEF FinalStates
    <2> QED
      BY <2>1 DEF RouteSocWork, Routing, Final
  <1>4. CASE case.agent = "risk_scoring"
    <2>1. \A n : RiskAction(n) \in Final
      BY DEF RiskAction, SeverityOfScore, Final
    <2> QED
      BY <1>4, <2>1 DEF FinalStates
  <1>5. CASE case.agent = "investigation"
    BY <1>5 DEF FinalStates, InvestigationAction, Final
  <1>7. CASE case.agent = "policy"
    <2>1. case.facts.policy \in ExecutionPolicy
      BY <1>7 DEF CaseInv, AutonomyState
    <2>2. final = EvaluateAutonomy(case.facts.policy, case.facts.class, case.facts.level,
                                   case.facts.confidence, case.facts.floor)
      BY <1>7 DEF FinalStates
    <2> QED
      BY <2>1, <2>2 DEF EvaluateAutonomy, ExecutionPolicy, Final
  <1> QED
    BY <1>1, <1>2, <1>3, <1>4, <1>5, <1>7 DEF CaseInv, Agents

LEMMA CompleteKeeps ==
    ASSUME RunInv, NEW c \in Client, CompleteRun(c)
    PROVE  RunInv'
  <1>1. PICK final \in FinalStates(case.agent, case.facts) :
          Update(c, [copy[c] EXCEPT !.status = "completed", !.trace.final_state = final],
                 phase[c].node)
    BY DEF CompleteRun
  <1> DEFINE row == [copy[c] EXCEPT !.status = "completed", !.trace.final_state = final]
  <1>2. At(c, "active") \/ At(c, "computed")
    BY DEF CompleteRun
  <1>3. copy[c] \in Row /\ phase[c].node \in Nat /\ phase[c].node <= Len(Nodes)
    BY <1>2, AtWork
  <1>4. final \in Final /\ final # None
    BY FinalIsSome, NoneIsNoRow DEF RunInv
  <1>5. /\ row \in Row /\ row.status = "completed" /\ row.trace.final_state = final
        /\ row.trace.error = copy[c].trace.error
    BY <1>3, <1>4 DEF Row, Trace
  <1>6. Update(c, row, phase[c].node)
    BY <1>1
  <1> HIDE DEF row
  <1>7. Grows(copy[c].trace, row.trace) /\ Sound(row) /\ Marked(row.trace)
    BY <1>4, <1>5 DEF Grows, Sound, Marked
  <1> QED
    BY <1>2, <1>3, <1>5, <1>6, <1>7, UpdateKeeps

\* What the step of a client leaves of the types.
LEMMA TypesOf ==
    ASSUME RunInv, NEW c \in Client, NEW f, NEW p \in Phase, case' = case,
           run' \in Row \cup {None}, steps' \subseteq AllNodes, overlapped' \in BOOLEAN,
           read' \in [Client -> Row \cup {None}], copy' = copy, p.node <= Len(Nodes),
           f \in [row : Row \cup {None}, columns : SUBSET {"status", "trace"},
                  steps : SUBSET AllNodes],
           flushed' = [flushed EXCEPT ![c] = f], phase' = [phase EXCEPT ![c] = p]
    PROVE  /\ TypeOK' /\ flushed'[c] = f /\ phase'[c] = p
           /\ \A d \in Client \ {c} : phase'[d] = phase[d] /\ flushed'[d] = flushed[d]
  <1>1. /\ flushed \in [Client -> [row : Row \cup {None}, columns : SUBSET {"status", "trace"},
                                   steps : SUBSET AllNodes]]
        /\ phase \in [Client -> Phase]
    BY DEF RunInv, TypeOK
  <1>2. /\ flushed' \in [Client -> [row : Row \cup {None}, columns : SUBSET {"status", "trace"},
                                    steps : SUBSET AllNodes]]
        /\ phase' \in [Client -> Phase]
        /\ flushed'[c] = f /\ phase'[c] = p
        /\ \A d \in Client \ {c} : phase'[d] = phase[d] /\ flushed'[d] = flushed[d]
    BY <1>1
  <1>3. \A d \in Client : phase'[d].node <= Len(Nodes) /\ (d \in Foreign => copy[d] = None)
    BY <1>2 DEF RunInv, TypeOK
  <1> QED
    BY <1>2, <1>3 DEF RunInv, TypeOK, AllNodes, Nodes

\* EXCEPT on a part of a record is EXCEPT on the record.
LEMMA Parts ==
    ASSUME RunInv, NEW c \in Client, NEW where, NEW more
    PROVE  /\ [phase EXCEPT ![c].at = where] =
                [phase EXCEPT ![c] = [at |-> where, node |-> phase[c].node]]
           /\ [flushed EXCEPT ![c].steps = more] =
                [flushed EXCEPT ![c] = [row |-> flushed[c].row, columns |-> flushed[c].columns,
                                        steps |-> more]]
           /\ flushed = [flushed EXCEPT ![c] = flushed[c]]
           /\ phase = [phase EXCEPT ![c] = phase[c]]
  <1>1. /\ flushed \in [Client -> [row : Row \cup {None}, columns : SUBSET {"status", "trace"},
                                   steps : SUBSET AllNodes]]
        /\ phase \in [Client -> [at : {"start", "active", "computed", "end"}, node : Nat]]
    BY DEF RunInv, TypeOK, Phase
  <1>2. [phase[c] EXCEPT !.at = where] = [at |-> where, node |-> phase[c].node]
    BY <1>1
  <1>3. [flushed[c] EXCEPT !.steps = more] =
          [row |-> flushed[c].row, columns |-> flushed[c].columns, steps |-> more]
    BY <1>1
  <1>4. flushed = [flushed EXCEPT ![c] = flushed[c]] /\ phase = [phase EXCEPT ![c] = phase[c]]
    BY <1>1
  <1> QED
    BY <1>2, <1>3, <1>4

\* A session that leaves the rows alone.
LEMMA HeldStays ==
    ASSUME NEW c, Held(c), UNCHANGED <<run, read, copy, overlapped>>,
           flushed'[c].row = flushed[c].row, flushed'[c].columns = flushed[c].columns
    PROVE  Held(c)'
  BY DEF Held

LEMMA ComputeKeeps ==
    ASSUME RunInv, NEW c \in Client, ComputeNode(c)
    PROVE  RunInv'
  <1> DEFINE p == [at |-> "computed", node |-> phase[c].node + 1]
  <1>1. /\ At(c, "active") /\ phase[c].node < Len(Nodes)
        /\ phase' = [phase EXCEPT ![c] = p]
        /\ UNCHANGED <<case, run, steps, read, copy, flushed, overlapped>>
    BY DEF ComputeNode
  <1>2. Held(c) /\ phase[c].node \in Nat /\ Len(Nodes) \in Nat
    BY <1>1, AtWork
  <1>3. /\ p \in Phase /\ p.node <= Len(Nodes) /\ p.node \in 1 .. Len(Nodes)
        /\ p.at = "computed"
    BY <1>1, <1>2 DEF Phase
  <1> HIDE DEF p
  <1>4. flushed' = [flushed EXCEPT ![c] = flushed[c]]
    BY <1>1, Parts
  <1>5. /\ TypeOK' /\ flushed'[c] = flushed[c] /\ phase'[c] = p
        /\ \A d \in Client \ {c} : phase'[d] = phase[d] /\ flushed'[d] = flushed[d]
    BY <1>1, <1>3, <1>4, Typed, TypesOf DEF RunInv, TypeOK
  <1>6. RowInv' /\ RunStays
    BY <1>1 DEF RunInv, RowInv, RunStays
  <1>7. Held(c)'
    BY <1>1, <1>2, <1>5, HeldStays
  <1>8. Session(c)'
    BY <1>1, <1>3, <1>5, <1>7 DEF Session, At, Open, Nodes
  <1> QED
    BY <1>1, <1>5, <1>6, <1>8, StepOf

LEMMA RecordKeeps ==
    ASSUME RunInv, NEW c \in Client, RecordStep(c)
    PROVE  RunInv'
  <1> DEFINE p == [at |-> "active", node |-> phase[c].node]
             more == flushed[c].steps \cup {Nodes[phase[c].node]}
             f == [row |-> flushed[c].row, columns |-> flushed[c].columns, steps |-> more]
  <1>1. /\ At(c, "computed")
        /\ phase' = [phase EXCEPT ![c] = p] /\ flushed' = [flushed EXCEPT ![c] = f]
        /\ UNCHANGED <<case, run, steps, read, copy, overlapped, executed>>
    BY Parts DEF RecordStep, GoTo
  <1>2. Held(c) /\ phase[c].node \in 1 .. Len(Nodes) /\ Len(Nodes) \in Nat
    BY <1>1, AtWork, Typed DEF Session
  <1>3. /\ p \in Phase /\ p.node <= Len(Nodes) /\ p.at = "active"
        /\ f \in [row : Row \cup {None}, columns : SUBSET {"status", "trace"},
                  steps : SUBSET AllNodes]
        /\ f.row = flushed[c].row /\ f.columns = flushed[c].columns
    BY <1>2, Typed, NodesAreMany DEF Phase, RunInv
  <1> HIDE DEF p, f
  <1>4. /\ TypeOK' /\ flushed'[c] = f /\ phase'[c] = p
        /\ \A d \in Client \ {c} : phase'[d] = phase[d] /\ flushed'[d] = flushed[d]
    BY <1>1, <1>3, Typed, TypesOf DEF RunInv, TypeOK
  <1>5. RowInv' /\ RunStays
    BY <1>1, <1>3, <1>4 DEF RunInv, RowInv, RunStays
  <1>6. Held(c)'
    BY <1>1, <1>2, <1>3, <1>4, HeldStays
  <1>7. Session(c)'
    BY <1>1, <1>3, <1>4, <1>6 DEF Session, At, Open
  <1> QED
    BY <1>1, <1>4, <1>5, <1>7, StepOf

\* The row a commit leaves: what ends it, it has a final state or an error for;
\* and unless an UPDATE was computed from a row that had changed, it is the
\* session's own.
LEMMA CommitWrites ==
    ASSUME RunInv, NEW c \in Client, Commit(c), flushed[c].row # None
    PROVE  /\ run' \in Row /\ run' # None /\ RunStays
           /\ run'.status \in Ended => Marked(run'.trace)
           /\ overlapped = FALSE =>
                /\ run'.status = copy[c].status /\ run'.trace = copy[c].trace
                /\ run # None => Grows(run.trace, run'.trace)
  <1>1. /\ At(c, "active") /\ run' = Written(c) /\ flushed[c].row \in Row
    BY Typed DEF Commit
  <1>2. Held(c) /\ run \in Row \cup {None} /\ flushed[c].row = copy[c]
    BY <1>1, AtWork, Typed DEF Held
  <1>3. CASE run = None
    BY <1>1, <1>2, <1>3, NoneIsNoRow DEF Written, RunStays, Held
  <1>4. CASE run # None
    <2>1. run' = [ status |-> IF "status" \in flushed[c].columns THEN copy[c].status
                              ELSE run.status,
                   trace |-> IF "trace" \in flushed[c].columns THEN copy[c].trace
                             ELSE run.trace ]
      BY <1>1, <1>2, <1>4 DEF Written
    <2>2. run' \in Row /\ run' # None
      <3>1. run' \in Row
        BY <1>1, <1>2, <1>4, <2>1 DEF Row
      <3> QED
        BY <3>1, NoneIsNoRow
    <2>3. /\ read[c] # None /\ (Marked(read[c].trace) => Marked(run.trace))
          /\ "trace" \in flushed[c].columns => Marked(copy[c].trace)
      BY <1>2, <1>4 DEF Held
    <2>4. Marked(run.trace) => Marked(run'.trace)
      BY <2>1, <2>3
    <2>5. ASSUME run'.status \in Ended PROVE Marked(run'.trace)
      <3>1. CASE "trace" \in flushed[c].columns
        BY <2>1, <2>3, <3>1
      <3>2. CASE "trace" \notin flushed[c].columns
        <4>1. run'.trace = run.trace /\ copy[c].trace = read[c].trace
          BY <1>2, <2>1, <3>2 DEF Held
        <4>2. CASE "status" \in flushed[c].columns
          BY <1>2, <2>1, <2>3, <2>5, <4>1, <4>2 DEF Held
        <4>3. CASE "status" \notin flushed[c].columns
          BY <1>4, <2>1, <2>5, <4>1, <4>3 DEF RunInv, RowInv
        <4> QED
          BY <4>2, <4>3
      <3> QED
        BY <3>1, <3>2
    <2>6. ASSUME overlapped = FALSE
          PROVE  /\ run'.status = copy[c].status /\ run'.trace = copy[c].trace
                 /\ Grows(run.trace, run'.trace)
      <3>1. read[c] = run
        BY <1>2, <2>6 DEF Held
      <3>2. run'.status = copy[c].status /\ run'.trace = copy[c].trace
        BY <1>2, <2>1, <3>1 DEF Held
      <3> QED
        BY <1>2, <1>4, <3>1, <3>2 DEF Held
    <2> QED
      BY <2>2, <2>4, <2>5, <2>6 DEF RunStays
  <1> QED
    BY <1>3, <1>4

LEMMA CommitKeeps ==
    ASSUME RunInv, NEW c \in Client, Commit(c)
    PROVE  RunInv'
  <1>1. /\ At(c, "active") /\ phase' = [phase EXCEPT ![c] = phase[c]]
        /\ run' = IF flushed[c].row = None THEN run ELSE Written(c)
        /\ steps' = steps \cup flushed[c].steps /\ read' = [read EXCEPT ![c] = copy[c]]
        /\ flushed' = [flushed EXCEPT ![c] = NothingFlushed]
        /\ UNCHANGED <<case, copy, overlapped, executed>>
    BY Parts DEF Commit
  <1>2. Held(c) /\ phase[c] \in Phase /\ phase[c].node <= Len(Nodes) /\ copy[c] # None
    BY <1>1, AtWork, Typed DEF Held
  <1>3. /\ run' \in Row \cup {None} /\ run' # None /\ RunStays
        /\ run'.status \in Ended => Marked(run'.trace)
        /\ overlapped = FALSE => Sound(run')
        /\ Marked(copy[c].trace) => Marked(run'.trace)
    <2>1. CASE flushed[c].row = None
      <3>1. run' = run /\ read[c] # None /\ run # None /\ copy[c].trace = read[c].trace
        BY <1>1, <1>2, <2>1 DEF Held
      <3>2. Marked(read[c].trace) => Marked(run.trace)
        BY <1>2, <3>1 DEF Held
      <3> QED
        BY <3>1, <3>2 DEF RunInv, RowInv, TypeOK, RunStays
    <2>2. CASE flushed[c].row # None
      <3>1. /\ run' \in Row /\ run' # None /\ RunStays
            /\ run'.status \in Ended => Marked(run'.trace)
            /\ overlapped = FALSE => run'.status = copy[c].status /\ run'.trace = copy[c].trace
        BY <2>2, CommitWrites
      <3>2. overlapped = FALSE => Sound(run')
        BY <1>2, <3>1 DEF Held, Sound
      <3>3. Marked(copy[c].trace) => Marked(run'.trace)
        <4>1. CASE "trace" \in flushed[c].columns
          <5>1. run'.trace = copy[c].trace
            BY <1>1, <1>2, <2>2, <4>1 DEF Held, Written
          <5> QED
            BY <5>1
        <4>2. CASE "trace" \notin flushed[c].columns
          <5>1. read[c] # None /\ copy[c].trace = read[c].trace
            BY <1>2, <4>2 DEF Held
          <5>2. run # None /\ (Marked(read[c].trace) => Marked(run.trace))
            BY <1>2, <5>1 DEF Held
          <5> QED
            BY <3>1, <5>1, <5>2 DEF RunStays
        <4> QED
          BY <4>1, <4>2
      <3> QED
        BY <3>1, <3>2, <3>3
    <2> QED
      BY <2>1, <2>2
  <1>4. steps' \subseteq AllNodes /\ read' \in [Client -> Row \cup {None}]
    BY <1>1 DEF RunInv, TypeOK
  <1>5. NothingFlushed \in [row : Row \cup {None}, columns : SUBSET {"status", "trace"},
                            steps : SUBSET AllNodes]
    BY DEF NothingFlushed
  <1>6. /\ TypeOK' /\ flushed'[c] = NothingFlushed /\ phase'[c] = phase[c]
        /\ \A d \in Client \ {c} : phase'[d] = phase[d] /\ flushed'[d] = flushed[d]
    BY <1>1, <1>2, <1>3, <1>4, <1>5, Typed, TypesOf
  <1>7. RowInv'
    <2>1. \A d, e \in Client : d # e => flushed'[d].row = None \/ flushed'[e].row = None
      BY <1>6 DEF RunInv, RowInv, NothingFlushed
    <2> QED
      BY <1>1, <1>3, <2>1 DEF RowInv
  <1>8. Session(c)'
    <2>1. /\ read'[c] = copy[c] /\ copy'[c] = copy[c] /\ overlapped' = overlapped
          /\ flushed'[c].row = None /\ flushed'[c].columns = {}
      BY <1>1, <1>6 DEF NothingFlushed, RunInv, TypeOK
    <2>2. /\ copy[c].status \in Ended => Marked(copy[c].trace)
          /\ overlapped = FALSE => Sound(copy[c])
      BY <1>2 DEF Held
    <2>3. Held(c)'
      BY <1>2, <1>3, <2>1, <2>2 DEF Held, Grows
    <2> QED
      BY <1>1, <1>6, <2>3 DEF Session, At, Open
  <1>9. \A d \in Client \ {c} : run' = run \/ flushed[d].row = None
    BY <1>1 DEF RunInv, RowInv
  <1>10. \A d \in Client \ {c} : read'[d] = read[d] /\ copy'[d] = copy[d]
    BY <1>1 DEF RunInv, TypeOK
  <1> QED
    BY <1>1, <1>3, <1>6, <1>7, <1>8, <1>9, <1>10, StepOf

LEMMA DieKeeps ==
    ASSUME RunInv, NEW c \in Client, Die(c)
    PROVE  RunInv'
  <1> DEFINE p == [at |-> "end", node |-> phase[c].node]
  <1>1. /\ phase' = [phase EXCEPT ![c] = p]
        /\ flushed' = [flushed EXCEPT ![c] = NothingFlushed]
        /\ UNCHANGED <<case, run, steps, read, copy, overlapped, executed>>
    BY Parts DEF Die, GoTo
  <1>2. p \in Phase /\ p.at = "end" /\ p.node <= Len(Nodes)
    BY Typed DEF Phase
  <1> HIDE DEF p
  <1>3. NothingFlushed \in [row : Row \cup {None}, columns : SUBSET {"status", "trace"},
                            steps : SUBSET AllNodes]
    BY DEF NothingFlushed
  <1>4. /\ TypeOK' /\ flushed'[c] = NothingFlushed /\ phase'[c] = p
        /\ \A d \in Client \ {c} : phase'[d] = phase[d] /\ flushed'[d] = flushed[d]
    BY <1>1, <1>2, <1>3, Typed, TypesOf DEF RunInv, TypeOK
  <1>5. RowInv' /\ RunStays
    BY <1>1, <1>4 DEF RunInv, RowInv, RunStays, NothingFlushed
  <1>6. Session(c)'
    BY <1>2, <1>4 DEF Session, At, Open
  <1> QED
    BY <1>1, <1>4, <1>5, <1>6, StepOf

LEMMA RunInvInit == Init => RunInv
  <1> SUFFICES ASSUME Init PROVE RunInv
    OBVIOUS
  <1>1. CaseInv
    BY CaseInit
  <1>2. /\ phase \in [Client -> Phase]
        /\ \A c \in Client : phase[c].at \in {"start", "end"} /\ phase[c].node = 0
    BY DEF Init, Phase
  <1>3. TypeOK
    <2>1. flushed \in [Client -> [row : Row \cup {None}, columns : SUBSET {"status", "trace"},
                                  steps : SUBSET AllNodes]]
      BY DEF Init, NothingFlushed
    <2>2. /\ read \in [Client -> Row \cup {None}] /\ copy \in [Client -> Row \cup {None}]
          /\ run \in Row \cup {None} /\ steps \subseteq AllNodes /\ overlapped \in BOOLEAN
      BY DEF Init
    <2>3. \A c \in Client : phase[c].node <= Len(Nodes) /\ (c \in Foreign => copy[c] = None)
      BY <1>1, <1>2, NodesAreMany DEF Init
    <2> QED
      BY <1>2, <2>1, <2>2, <2>3 DEF TypeOK
  <1>4. RowInv
    BY DEF Init, RowInv, NothingFlushed
  <1>5. ASSUME NEW c \in Client
        PROVE  Session(c)
    <2>1. flushed[c] = NothingFlushed /\ read[c] = None
      BY DEF Init
    <2> QED
      BY <1>2, <2>1 DEF Session, At, Open
  <1> QED
    BY <1>1, <1>3, <1>4, <1>5 DEF RunInv

\* An approval, or a step that is none of the program's.
LEMMA RestKeeps ==
    ASSUME RunInv, CaseInv', case'.agent = case.agent,
           UNCHANGED <<run, steps, read, copy, flushed, phase, overlapped>>
    PROVE  RunInv'
  <1>1. Nodes' = Nodes /\ AllNodes' = AllNodes /\ RunStays
    BY DEF Nodes, AllNodes, RunStays
  <1>2. TypeOK' /\ RowInv'
    BY <1>1 DEF RunInv, TypeOK, RowInv
  <1>3. \A c \in Client : Session(c)'
    BY <1>1, OthersKeep
  <1> QED
    BY <1>2, <1>3 DEF RunInv

LEMMA RunInvStep ==
    ASSUME RunInv, [Next]_vars
    PROVE  RunInv'
  <1>1. CaseInv' /\ case'.agent = case.agent
    BY CaseStep DEF RunInv
  <1>2. CASE Approve
    BY <1>1, <1>2, RestKeeps DEF Approve
  <1>3. CASE UNCHANGED vars
    BY <1>1, <1>3, RestKeeps DEF vars
  <1> QED
    BY <1>2, <1>3, CreateKeeps, GetKeeps, MarkKeeps, CompleteKeeps, FailKeeps, ComputeKeeps,
       RecordKeeps, CommitKeeps, DieKeeps DEF Next

\* Every variable keeps its type, for any clients and any work.
THEOREM TypesKept == Spec => []TypeOK
  <1>1. RunInv => TypeOK
    BY DEF RunInv
  <1> QED
    BY <1>1, RunInvInit, RunInvStep, PTL DEF Spec

\* Whatever sessions overlap, a run that has ended has a final state or an error
\* in its trace, although a session writes only the columns that differ from its
\* copy; and unless an UPDATE was computed from a row that had changed, the
\* status says which of them.  Steps belong to a run that was created.
THEOREM StatusIsBacked == Spec => []StatusBacked
  <1>1. RunInv => StatusBacked
    <2> SUFFICES ASSUME RunInv PROVE StatusBacked
      OBVIOUS
    <2>1. ~overlapped => overlapped = FALSE
      BY DEF RunInv, TypeOK
    <2> QED
      BY <2>1 DEF StatusBacked, RunInv, RowInv, Sound, Ended, Marked
  <1> QED
    BY <1>1, RunInvInit, RunInvStep, PTL DEF Spec

\* No commit takes an error or a final state out of a trace, unless an UPDATE
\* was computed from a row that had changed.
THEOREM TracesKept == Spec => TraceKept
  <1>1. RunInv /\ [Next]_vars => [Kept]_vars
    <2> SUFFICES ASSUME RunInv, [Next]_vars, run # None PROVE Kept
      BY DEF Kept
    <2>1. CASE run' = run
      BY <2>1 DEF Kept
    <2>2. ASSUME NEW c \in Client, Commit(c), flushed[c].row # None
          PROVE  Kept
      <3>1. overlapped' = overlapped /\ (~overlapped => overlapped = FALSE)
        BY <2>2 DEF Commit, RunInv, TypeOK
      <3> QED
        BY <2>2, <3>1, CommitWrites DEF Kept, Grows
    <2>3. ASSUME NEW c \in Client, Commit(c), flushed[c].row = None
          PROVE  run' = run
      BY <2>3 DEF Commit
    <2> QED
      BY <2>1, <2>2, <2>3 DEF Next, vars, CreateRun, GetOwnedRun, MarkRunning, CompleteRun,
                              FailRun, Update, ComputeNode, RecordStep, Die, Approve
  <1> QED
    BY <1>1, RunInvInit, RunInvStep, PTL DEF Spec, TraceKept
=============================================================================
