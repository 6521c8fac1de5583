----------------------------- MODULE AgentRuns -----------------------------
(***************************************************************************)
(* One agent run kept by AgentStateStore (agents/state.py) while clients   *)
(* carry it out: each has a database session of its own, runs the nodes of *)
(* the agent's graph, may record each as a step, and completes or fails    *)
(* the run when it likes: the store asks neither how far it is nor what    *)
(* the status was.  Nothing in the code calls the store yet; the clients   *)
(* are external and do what its tests do: they may be two, as after a      *)
(* redelivery, die at any time, and commit when they like.                 *)
(*                                                                         *)
(* A session keeps the row it has read (expire_on_commit is off): later    *)
(* calls compute from that copy.  An UPDATE writes the columns that differ *)
(* from it, and waits for the transaction that has the row locked.         *)
(***************************************************************************)
EXTENDS AgentGraphs, TLC

CONSTANTS
    Client,    \* those who call the store
    Foreign,   \* those of another tenant
    Cases      \* records [agent, facts, clients]: the work, and who does it

ASSUME ForeignAreClients == Foreign \subseteq Client

\* The six agents with a graph or a policy of their own, on states they take.
ASSUME CasesFit ==
    \A k \in Cases :
        /\ DOMAIN k = {"agent", "facts", "clients"} /\ k.clients \subseteq Client
        /\ \/ k.agent \in {"supervisor", "risk_scoring", "investigation"}
           \/ k.agent = "alert_triage" /\ k.facts \in TriageState
           \/ k.agent = "response" /\ k.facts \in ResponseState
           \/ k.agent = "policy" /\ k.facts \in AutonomyState

VARIABLES
    case,
    run,        \* the committed row: None or [status, trace]
    steps,      \* committed agent_steps: the nodes they name
    read,       \* the row each session has read, or written and committed
    copy,       \* that row with the changes of its open transaction
    flushed,    \* what its open transaction has written: run, columns, steps
    phase,      \* where each client is
    overlapped, \* some UPDATE was computed from a copy of an older row
    executed    \* response actions that have been carried out

vars == <<case, run, steps, read, copy, flushed, phase, overlapped, executed>>

NodesOf(agent) ==
    CASE agent = "alert_triage" -> <<"deduplicate_alert", "classify_alert",
                                     "prioritize_alert", "choose_next_action">>
      [] agent = "response" -> <<"recommend_response_actions", "execute_response_actions">>
      [] OTHER -> <<agent>>

Nodes == NodesOf(case.agent)
AllNodes == {Nodes[n] : n \in DOMAIN Nodes}

\* What the graph ends with.
FinalStates(agent, f) ==
    CASE agent = "alert_triage" -> { TriageAction(f) }
      [] agent = "response" -> { ResponseAction(f) }
      [] agent = "supervisor" -> { RouteSocWork(f).action }
      [] agent = "risk_scoring" -> { RiskAction(n) : n \in RiskScores(f) }
      [] agent = "investigation" -> { InvestigationAction(f) }
      [] agent = "policy" ->
           { EvaluateAutonomy(f.policy, f.class, f.level, f.confidence, f.floor) }

\* All that they can end with.
Final ==
    { "attach_to_existing_case", "analyst_review_required", "escalate_to_senior_analyst",
      "open_investigation", "monitor", "queue_for_review", "request_human_approval",
      "verify_response_effectiveness", "present_recommendations",
      "validate_alert_before_response", "request_approval_or_execute_response",
      "generate_report", "calculate_risk_score", "build_timeline_and_scope_assets",
      "enrich_observable", "search_for_similar_activity", "collect_context_for_risk_score",
      "collect_evidence_for_report", "triage_alert", "contain_immediately_and_notify_leadership",
      "prioritize_response_and_open_incident", "investigate_during_current_queue",
      "monitor_and_tune_detection", "record_for_context", "contain_and_expand_scope",
      "collect_additional_logs", "close_evidence_gaps", "collect_endpoint_and_identity_evidence" }
    \cup ExecutionPolicy

Trace == [initial_state : {TRUE}, error : BOOLEAN, final_state : Final \cup {None}]
Row == [status : {"queued", "running", "completed", "failed"}, trace : Trace]

ASSUME NoneIsNoRow == None \notin Row /\ None \notin Final

\* A client has created or loaded the run ("active"), computed a node it has
\* not recorded yet, or ended.
Phase == [at : {"start", "active", "computed", "end"}, node : Nat]

NothingFlushed == [row |-> None, columns |-> {}, steps |-> {}]

At(c, where) == phase[c].at = where
GoTo(c, where) == phase' = [phase EXCEPT ![c].at = where]
\* Somebody has committed since this session read the row.
Stale(c) == read[c] # run
Locked(c) == \E d \in Client \ {c} : flushed[d].row # None

\* What the table will be when c commits.
Written(c) ==
    IF run = None THEN flushed[c].row
    ELSE [ status |-> IF "status" \in flushed[c].columns THEN flushed[c].row.status ELSE run.status,
           trace |-> IF "trace" \in flushed[c].columns THEN flushed[c].row.trace ELSE run.trace ]

----------------------------------------------------------------------------
Init ==
    /\ case \in Cases
    /\ run = None /\ steps = {}
    /\ read = [c \in Client |-> None]
    /\ copy = [c \in Client |-> None]
    /\ flushed = [c \in Client |-> NothingFlushed]
    /\ phase = [c \in Client |-> [at |-> IF c \in case.clients THEN "start" ELSE "end", node |-> 0]]
    /\ overlapped = FALSE /\ executed = {}

\* create_run: one client creates the run and hands its id on.
CreateRun(c) ==
    /\ At(c, "start") /\ c \notin Foreign /\ run = None
    /\ \A d \in Client : flushed[d].row = None
    /\ LET row == [status |-> "queued",
                   trace |-> [initial_state |-> TRUE, error |-> FALSE, final_state |-> None]]
       IN  /\ copy' = [copy EXCEPT ![c] = row]
           /\ flushed' = [flushed EXCEPT ![c] =
                            [row |-> row, columns |-> {"status", "trace"}, steps |-> {}]]
    /\ GoTo(c, "active")
    /\ UNCHANGED <<case, run, steps, read, overlapped, executed>>

\* Mutant: the tenant of the run is not compared.
OwnsAny(c) == TRUE

Owns(c) == c \notin Foreign

\* _get_owned_run of a session that has not read the run: LookupError for a
\* run of another tenant.
GetOwnedRun(c) ==
    /\ At(c, "start") /\ run # None
    /\ IF Owns(c)
         THEN /\ read' = [read EXCEPT ![c] = run] /\ copy' = [copy EXCEPT ![c] = run]
              /\ GoTo(c, "active")
         ELSE GoTo(c, "end") /\ UNCHANGED <<read, copy>>
    /\ UNCHANGED <<case, run, steps, flushed, overlapped, executed>>

\* The attributes are set and flushed.  The UPDATE waits while another
\* transaction has the row; nothing is sent when nothing differs from what the
\* session has read.
Update(c, row, node) ==
    LET columns == flushed[c].columns \cup { f \in {"status", "trace"} : row[f] # copy[c][f] }
    IN  /\ copy' = [copy EXCEPT ![c] = row]
        /\ IF columns = {} THEN UNCHANGED <<flushed, overlapped>>
           ELSE /\ ~Locked(c)
                /\ flushed' = [flushed EXCEPT ![c] =
                                  [row |-> row, columns |-> columns, steps |-> @.steps]]
                /\ overlapped' = (overlapped \/ (flushed[c].row = None /\ Stale(c)))
        /\ phase' = [phase EXCEPT ![c] = [at |-> "active", node |-> node]]
        /\ UNCHANGED <<case, run, steps, read, executed>>

MarkRunning(c) ==
    /\ At(c, "active")
    /\ Update(c, [copy[c] EXCEPT !.status = "running"], phase[c].node)

\* Mutant: the trace is replaced.
CompleteRunReplaces(c) ==
    /\ At(c, "active") \/ At(c, "computed")
    /\ \E final \in FinalStates(case.agent, case.facts) :
          Update(c, [status |-> "completed",
                     trace |-> [initial_state |-> TRUE, error |-> FALSE, final_state |-> final]],
                 phase[c].node)

\* complete_run, with or without steps recorded before; the final state handed
\* to it is one the graph ends with.
CompleteRun(c) ==
    /\ At(c, "active") \/ At(c, "computed")
    /\ \E final \in FinalStates(case.agent, case.facts) :
          Update(c, [copy[c] EXCEPT !.status = "completed", !.trace.final_state = final],
                 phase[c].node)

\* Mutant: the error is not kept.
FailRunSilently(c) ==
    /\ At(c, "active") \/ At(c, "computed")
    /\ Update(c, [copy[c] EXCEPT !.status = "failed"], 0)

\* fail_run, at whatever point the client gives up; it may start over.
FailRun(c) ==
    /\ At(c, "active") \/ At(c, "computed")
    /\ Update(c, [copy[c] EXCEPT !.status = "failed", !.trace.error = TRUE], 0)

\* A node of the graph; the second of the response agent acts.
ComputeNode(c) ==
    /\ At(c, "active") /\ phase[c].node < Len(Nodes)
    /\ phase' = [phase EXCEPT ![c] = [at |-> "computed", node |-> @.node + 1]]
    /\ executed' = executed \cup
          (IF case.agent = "response" /\ phase[c].node = 1 THEN Executed(case.facts) ELSE {})
    /\ UNCHANGED <<case, run, steps, read, copy, flushed, overlapped>>

\* record_step: the run is found in the session, the step inserted.
RecordStep(c) ==
    /\ At(c, "computed")
    /\ flushed' = [flushed EXCEPT ![c].steps = @ \cup {Nodes[phase[c].node]}]
    /\ GoTo(c, "active")
    /\ UNCHANGED <<case, run, steps, read, copy, overlapped, executed>>

\* The transaction commits; the session keeps the row.
Commit(c) ==
    /\ At(c, "active") /\ flushed[c] # NothingFlushed
    /\ run' = IF flushed[c].row = None THEN run ELSE Written(c)
    /\ steps' = steps \cup flushed[c].steps
    /\ read' = [read EXCEPT ![c] = copy[c]]
    /\ flushed' = [flushed EXCEPT ![c] = NothingFlushed]
    /\ UNCHANGED <<case, copy, phase, overlapped, executed>>

\* The client dies or closes its session: what it has not committed is lost.
Die(c) ==
    /\ ~At(c, "end")
    /\ flushed' = [flushed EXCEPT ![c] = NothingFlushed]
    /\ GoTo(c, "end")
    /\ UNCHANGED <<case, run, steps, read, copy, overlapped, executed>>

\* An analyst approves what the response agent asks for.
Approve ==
    /\ case.agent = "response" /\ Blocked(case.facts) # {}
    /\ case' = [case EXCEPT !.facts.approved = TRUE]
    /\ UNCHANGED <<run, steps, read, copy, flushed, phase, overlapped, executed>>

Next ==
    \/ \E c \in Client :
          \/ CreateRun(c) \/ GetOwnedRun(c) \/ MarkRunning(c) \/ CompleteRun(c) \/ FailRun(c)
          \/ ComputeNode(c) \/ RecordStep(c) \/ Commit(c) \/ Die(c)
    \/ Approve

Spec == Init /\ [][Next]_vars

----------------------------------------------------------------------------
\* Every variable keeps its type; no client of another tenant holds the run.
TypeOK ==
    /\ run \in Row \cup {None} /\ steps \subseteq AllNodes
    /\ read \in [Client -> Row \cup {None}] /\ copy \in [Client -> Row \cup {None}]
    /\ flushed \in [Client -> [row : Row \cup {None}, columns : SUBSET {"status", "trace"},
                                steps : SUBSET AllNodes]]
    /\ phase \in [Client -> Phase] /\ overlapped \in BOOLEAN
    /\ \A c \in Client : phase[c].node <= Len(Nodes) /\ (c \in Foreign => copy[c] = None)

\* The status of a committed run is backed by its trace: one that is completed
\* or failed holds a final state or an error, however many sessions computed
\* from rows that had changed; and unless one did, a completed run has its
\* final state and a failed one its error.  No step outlives the creation of
\* its run.
StatusBacked ==
    /\ run # None /\ run.status \in {"completed", "failed"} =>
          run.trace.final_state # None \/ run.trace.error
    /\ run # None /\ ~overlapped =>
          /\ run.status = "completed" => run.trace.final_state # None
          /\ run.status = "failed" => run.trace.error
    /\ steps # {} => run # None

\* What a trace holds is only ever added to, and a run is never taken back,
\* but by a session that computes the new trace from a row it read before
\* another session changed it: such a session can lose a final state that
\* docs/agent-state-persistence.md:27 says is stored.
Kept ==
    run # None =>
      /\ run' # None
      /\ ~overlapped' => /\ run.trace.error => run'.trace.error
                         /\ run.trace.final_state # None => run'.trace.final_state # None

TraceKept == [][Kept]_vars

\* However often the work is done again, whoever dies and whoever does it
\* beside him: before an analyst approves, no action is executed that is
\* marked for approval, no account is disabled and no host isolated, no
\* password reset but at a low risk, and no address blocked at a high one.
\* docs/response-agent.md:20 says more, that whatever can disrupt users, hosts or
\* network access requires approval; an address is blocked without one below
\* a high risk, and a password reset at a low one.
NothingUnapproved ==
    \A a \in executed :
        a.approval \/ Serious(a, case.facts.riskLevel) => case.facts.approved

\* Of an alert that is not a duplicate and whose confidence calls for no
\* review, a higher risk score never lowers the urgency triage recommends.
TriageMonotone ==
    case.agent = "alert_triage" /\ ~case.facts.duplicate /\ Confidence(case.facts) >= 55
        /\ case.facts.risk # None =>
      \A higher \in case.facts.risk .. 100 :
        Urgency(TriageAction(case.facts))
          <= Urgency(TriageAction([case.facts EXCEPT !.risk = higher]))

\* Nothing that aggravates a risk lowers its score: no threshold, cap or
\* rounding makes a worse state look better.
RiskMonotone ==
    case.agent = "risk_scoring" =>
      \A worse \in Aggravated(case.facts), n \in RiskScores(case.facts) :
        \E m \in RiskScores(worse) : n <= m

\* What an investigation does next does not depend on the order in which its
\* events arrive, ties in time included.
ArrivalOrderFree ==
    case.agent = "investigation" =>
      \A p \in Permutations(DOMAIN case.facts) :
        InvestigationAction([i \in DOMAIN case.facts |-> case.facts[p[i]]])
          = InvestigationAction(case.facts)

\* The autonomy policy fails safe: what it allows was allowed by the execution
\* policy, is never a critical action, never at a level below 2, never with a
\* known confidence below the floor; and a higher level of autonomy allows it
\* too.
AutonomyFailSafe ==
    LET f == case.facts
        at(level) == EvaluateAutonomy(f.policy, f.class, level, f.confidence, f.floor)
    IN  case.agent = "policy" /\ at(f.level) = "allow" =>
          /\ f.policy = "allow" /\ f.class # "critical" /\ f.level >= 2
          /\ f.confidence # None => f.confidence >= f.floor
          /\ \A level \in f.level .. 4 : at(level) = "allow"

\* docs/AUTONOMOUS_AGENTS.md:35: "the request enters a human decision lane,
\* time-boxed by risk class (informational 0 s, ...)": an approval that an
\* action of some risk waits for has a time-box, after which it is denied.
ApprovalTimeBoxed ==
    LET f == case.facts
    IN  case.agent = "policy" /\ f.class # "informational"
          /\ EvaluateAutonomy(f.policy, f.class, f.level, f.confidence, f.floor)
               = "require_approval" =>
          Lane(f.policy, f.class, f.level, f.confidence, f.floor) # None
=============================================================================
