------------------------------ MODULE MCAgents ------------------------------
EXTENDS AgentRuns

Case(agent, facts, clients) == [agent |-> agent, facts |-> facts, clients |-> clients]

Triages ==
    [severity : {None}, category : {None}, confidence : {70}, risk : {0, 90}, mitre : {FALSE},
     duplicate : {FALSE}, entities : {TRUE}, signal : {"medium"}, textual : {"needs_review"}]

Responses ==
    [riskLevel : {"low", "medium", "critical"}, ip : {None, "ip"}, actor : {None, "bob"},
     assets : {{}, {"web1"}}, target : {"owner"}, approved : {FALSE}, execute : BOOLEAN]

Policies ==
    [policy : ExecutionPolicy, class : RiskClass, level : Level,
     confidence : {None, 0, 49, 50, 100}, floor : {0, 50}]

Routings ==
    { [severity |-> v, confidence |-> c, hasAlert |-> a, hasIncident |-> FALSE,
       hasObservable |-> FALSE, hasEvidence |-> e, requiresResponse |-> FALSE, intents |-> i] :
        v \in {"critical"}, c \in {None, 49}, a \in {FALSE, TRUE}, e \in {FALSE, TRUE},
        i \in {{}, {"contain"}, {"report"}, {"risk", "hunt"}} }

Scores ==
    [severity : {"critical", "low"}, confidence : {None, 39, 79}, exploited : BOOLEAN,
     exploit : {FALSE}, exposed : {TRUE}, duplicates : {4, 5}, criticality : {"critical", "low"},
     sensitivity : {"regulated", "high", "low"}, assets : {1, 2, 5}, cvss : {69, 89, 90}]

Event == [time : {1, 2}, actor : {TRUE}, asset : {TRUE}, access : {"unknown", "phishing"},
          lateral : BOOLEAN]

\* Responses and scores that are carried out.
Contended(f) ==
    f.riskLevel = "critical" /\ f.ip = "ip" /\ f.actor = None /\ f.assets = {}
        /\ f.execute

Scored(f) ==
    f.confidence = None /\ f.exploited /\ f.duplicates = 5 /\ f.assets = 5 /\ f.cvss = 90
Shared(f) ==
    f.riskLevel = "low" /\ f.ip = "ip" /\ f.actor = None /\ f.assets = {} /\ f.execute

\* A case that each client could carry out alone.
Alone(agent, S) == { Case(agent, f, {c}) : f \in S, c \in Client \ Foreign }

\* Every decision of the policy, the scores and the investigation; runs by one
\* client, by one beside a client of another tenant, and a run of two nodes by
\* two clients.
MCCases ==
    { Case("policy", f, {}) : f \in Policies }
    \cup { Case("risk_scoring", f, {}) : f \in Scores }
    \cup { Case("investigation", f, {}) : f \in [1 .. 3 -> Event] }
    \cup Alone("supervisor", Routings)
    \cup Alone("risk_scoring", { f \in Scores : Scored(f) })
    \cup Alone("investigation", {<<>>} \cup [1 .. 1 -> Event])
    \cup Alone("response", Responses)
    \cup { Case("response", f, {c} \cup Foreign) :
              f \in { f \in Responses : Contended(f) }, c \in Client \ Foreign }
    \cup { Case("response", f, Client \ Foreign) : f \in { f \in Responses : Shared(f) } }
    \cup Alone("alert_triage", Triages)

MCPolicies == { Case("policy", f, {}) : f \in Policies }

Symmetric == Permutations(Client \ Foreign)
=============================================================================
