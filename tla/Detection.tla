----------------------------- MODULE Detection -----------------------------
(***************************************************************************)
(* One event from its payload to the risk of its alert: normalization,     *)
(* evaluate_event_rules over the tenant's enabled rules (detection.py),    *)
(* and assess_alert (pipeline/risk_scoring.py), as process_ingested_event  *)
(* calls them (service.py).  AlertPipeline models what the request does    *)
(* with the outcome, and takes any outcome.                                *)
(***************************************************************************)
EXTENDS RuleLanguage, SequencesExt, Sums

CONSTANTS
    Cases,    \* pairs of a payload and a table of enabled rules
    Now       \* the time the request gives the event

ASSUME CasesTyped == Cases \subseteq Payload \X Seq(Rules) /\ Now # Absent

VARIABLES
    payload, rules,
    stage,      \* "received", "rules", "decided" or "failed"
    event,      \* the normalized event
    next,       \* the rule to evaluate next
    triggered,  \* the rules that matched, in order
    decision    \* DetectionDecision and the risk of the alert

vars == <<payload, rules, stage, event, next, triggered, decision>>

----------------------------------------------------------------------------
SeverityOrder == <<"informational", "low", "medium", "high", "critical">>
Rank(severity) == CHOOSE i \in DOMAIN SeverityOrder : SeverityOrder[i] = severity

TacticWeight(t) ==
    CASE t \in {"initial_access", "execution", "credential_access"} -> 100
      [] t = "lateral_movement" -> 150
      [] t = "exfiltration" -> 200
      [] OTHER -> 0

AtMost(a, b) == IF a <= b THEN a ELSE b

\* compute_risk_score; no asset is ever given, so criticality is unknown.
RiskScore(severity, tactics) ==
    LET weights == [i \in DOMAIN tactics |-> TacticWeight(tactics[i])]
        progress == AtMost(SumTo(weights, Len(tactics)), 300)
    IN  AtMost(100 * (Rank(severity) - 1) + progress + 150, 1000)

\* Evidence fields out of four that the event has.
Evidence(e) == Cardinality({f \in {"source_ip", "actor", "hostname", "process_name"} : Truthy(e[f])})

\* Tags are collected over all rules that triggered.
MergedTactics(table, ids) == FlattenSeq([i \in DOMAIN ids |-> table[ids[i]].tactics])

WorstSeverity(table, ids) ==
    LET of == {table[ids[i]].severity : i \in DOMAIN ids}
    IN  CHOOSE s \in of : \A t \in of : Rank(t) <= Rank(s)

NoDecision == [triggers |-> FALSE]
DecisionOf(table, ids, e) ==
    IF ids = <<>> THEN NoDecision
    ELSE [triggers |-> TRUE, name |-> table[Head(ids)].id,
          severity |-> WorstSeverity(table, ids), tactics |-> MergedTactics(table, ids),
          risk |-> RiskScore(WorstSeverity(table, ids), MergedTactics(table, ids)),
          evidence |-> Evidence(e)]

----------------------------------------------------------------------------
Init ==
    /\ \E c \in Cases : payload = c[1] /\ rules = c[2]
    /\ stage = "received" /\ event = Absent /\ next = 1 /\ triggered = <<>>
    /\ decision = NoDecision

\* Only NormalizationError is caught, and nothing here raises that; the event is
\* flushed before the rules are evaluated.
Normalize ==
    /\ stage = "received"
    /\ IF Raises(Derived(Mapped(payload), payload)) \/ Overflows(Normalized(payload, Now))
         THEN stage' = "failed" /\ UNCHANGED event
         ELSE stage' = "rules" /\ event' = Normalized(payload, Now)
    /\ UNCHANGED <<payload, rules, next, triggered, decision>>

\* Mutant: a rule that does not compile ends the loop.
EvaluateRuleStops ==
    /\ stage = "rules" /\ next <= Len(rules)
    /\ IF Outcome(rules[next]) = "raised"
         THEN stage' = "failed" /\ UNCHANGED <<next, triggered>>
         ELSE /\ next' = IF Outcome(rules[next]) = "refused" THEN Len(rules) + 1 ELSE next + 1
              /\ triggered' = IF Outcome(rules[next]) = "ok" /\ Matches(rules[next], event)
                                THEN Append(triggered, next) ELSE triggered
              /\ UNCHANGED stage
    /\ UNCHANGED <<payload, rules, event, decision>>

\* Only RuleCompilationError is caught; anything else ends the request.
EvaluateRule ==
    /\ stage = "rules" /\ next <= Len(rules)
    /\ IF Outcome(rules[next]) = "raised"
         THEN stage' = "failed" /\ UNCHANGED <<next, triggered>>
         ELSE /\ next' = next + 1
              /\ triggered' = IF Outcome(rules[next]) = "ok" /\ Matches(rules[next], event)
                                THEN Append(triggered, next) ELSE triggered
              /\ UNCHANGED stage
    /\ UNCHANGED <<payload, rules, event, decision>>

Decide ==
    /\ stage = "rules" /\ next > Len(rules)
    /\ stage' = "decided"
    /\ decision' = DecisionOf(rules, triggered, event)
    /\ UNCHANGED <<payload, rules, event, next, triggered>>

Next == Normalize \/ EvaluateRule \/ Decide

Spec == Init /\ [][Next]_vars

----------------------------------------------------------------------------
\* seed_default_rules: the rules a tenant starts with.
Clause(f, m, vs) == [field |-> f, modifiers |-> m, values |-> vs]
Selection(n, cs) == [name |-> n, mapping |-> TRUE, clauses |-> cs]

AuthBruteforce ==
    [id |-> "rule-auth-bruteforce", severity |-> "high", level |-> "known",
     tactics |-> <<"credential_access">>,
     selections |-> <<Selection("auth_fail",
                        <<Clause("authentication_result", <<>>, <<T("failure")>>)>>)>>,
     condition |-> [form |-> "tokens", tokens |-> <<"auth_fail">>, names |-> {}]]

SuspiciousProcess ==
    [id |-> "rule-suspicious-process", severity |-> "medium", level |-> "known",
     tactics |-> <<"execution">>,
     selections |-> <<Selection("keywords", <<Clause("keywords", <<>>, <<T("psexec")>>)>>)>>,
     condition |-> [form |-> "tokens", tokens |-> <<"keywords">>, names |-> {}]]

IndicatorMatch ==
    [id |-> "rule-indicator-match", severity |-> "critical", level |-> "known",
     tactics |-> <<"initial_access">>,
     selections |-> <<Selection("hashes", <<Clause("file_hash_sha256", <<>>, <<T("badhash")>>)>>),
                      Selection("dns", <<Clause("domain", <<>>, <<T("bad.example.com")>>)>>)>>,
     condition |-> [form |-> "1 of", tokens |-> <<>>, names |-> {"hashes", "dns"}]]

SeedRules == <<AuthBruteforce, SuspiciousProcess, IndicatorMatch>>

----------------------------------------------------------------------------
\* Indices of triggered rules are in order and evaluated; columns hold what
\* their type and their coercion admit: no blank text, none that is longer than
\* its column, no port out of range, no authentication result, address or hash
\* that is not one.
TypeOK ==
    /\ stage \in {"received", "rules", "decided", "failed"}
    /\ next \in 1..(Len(rules) + 1)
    /\ \A i \in DOMAIN triggered :
          /\ triggered[i] \in 1..(next - 1)
          /\ i > 1 => triggered[i - 1] < triggered[i]
    /\ event = Absent \/
       /\ DOMAIN event = Canonical
       /\ event["event_type"] # Absent /\ event["occurred_at"] # Absent
       /\ event["source_port"] \in {Absent} \cup [number : Ports]
       /\ event["authentication_result"] \in {Absent} \cup {T(w) : w \in Allowed}
       /\ event["source_ip"] \in {Absent} \cup [word : IpWord, padded : {FALSE}, upper : BOOLEAN]
       /\ event["file_hash_sha256"] \in {Absent} \cup {T(w) : w \in HashWord}
       /\ \A f \in Canonical \ {"source_port", "correlation_key", "occurred_at"} :
             event[f] # Absent => ~Blank(event[f])
       /\ \A f \in (Fitted \cup {"severity"}) \ {"correlation_key"} :
             event[f] # Absent => Length(event[f]) <= Width[f]
       /\ event["correlation_key"] # Absent =>
             KeyLength(event["correlation_key"]) <= Width["correlation_key"]

\* A well formed condition over existing selections and without "not" never
\* misses what it says, and without "and" it triggers on nothing else: what
\* detection.py's docstring promises, as far as _parse_boolean keeps it.  It
\* keeps neither "not" nor "and".
NeverMissesWhatItSays ==
    \A i \in 1..(next - 1) :
        LET rule == rules[i]
            tokens == rule.condition.tokens
            says == Meaning(tokens, Holding(rule, event))
            used == {tokens[k] : k \in DOMAIN tokens}
        IN  ( /\ rule.condition.form = "tokens" /\ rule.level = "known"
              /\ \A k \in Kept(rule) : CompileSelection(rule.selections[k]) = "ok"
              /\ used \subseteq NamesOf(rule) \cup {"(", ")", "and", "or"} /\ "not" \notin used
              /\ says # "malformed" )
            => /\ says = "true" => \E k \in DOMAIN triggered : triggered[k] = i
               /\ "and" \notin used /\ (\E k \in DOMAIN triggered : triggered[k] = i)
                    => says = "true"

\* A rule that does not compile is as if it were not in the table: the decision
\* is made of the rules that compile and match, in their order, and of no other
\* (the "continue" of evaluate_event_rules).
RefusedRuleIsInert ==
    LET matching == {i \in DOMAIN rules : Outcome(rules[i]) = "ok" /\ Matches(rules[i], event)}
    IN  stage = "decided" =>
            \E ids \in [1..Cardinality(matching) -> matching] :
                /\ \A i, j \in DOMAIN ids : i < j => ids[i] < ids[j]
                /\ decision = DecisionOf(rules, ids, event)

\* Another rule that triggers never lowers the severity or the risk a rule
\* gives the alert by itself (evaluate_event_rules and assess_alert).
NoRuleLowersRisk ==
    decision.triggers =>
        \A k \in DOMAIN triggered :
            LET rule == rules[triggered[k]]
            IN  /\ Rank(decision.severity) >= Rank(rule.severity)
                /\ decision.risk >= RiskScore(rule.severity, rule.tactics)

\* The identity anchors that are stored are part of the correlation key that
\* alerts are deduplicated and incidents grouped by, unless the payload brings a
\* key of its own, although the key is built before the columns are validated,
\* trimmed and cut (build_correlation_key): the username always, the others as
\* long as all anchors together fit into a key.  A number 0 is stored as a text
\* and yet is no part of the key.
AnchorsInKey ==
    LET key == event["correlation_key"]
        fits == KeyLength(Trimmed(CorrelationKey(Mapped(payload)))) <= Width["correlation_key"]
    IN  event # Absent /\ ~Truthy(payload["correlation_key"]) =>
            \A f \in {"username", "hostname", "source_ip"} :
                ( /\ event[f] # Absent /\ Mapped(payload)[f] # [number |-> 0]
                  /\ f = "username" \/ fits )
                => /\ key # Absent
                   /\ \E i \in DOMAIN key : Strip(key[i]) = Strip(Lower(event[f]))

\* An upload whose only sign of a failed login is its action column makes the
\* seeded brute-force rule trigger (derive, whose comment promises it).
FailedActionTriggers ==
    LET action == payload["action"]
    IN  \A i \in 1..(next - 1) :
            ( /\ rules[i] = AuthBruteforce
              /\ payload["authentication_result"] = Absent /\ payload["result"] = Absent
              /\ IsText(action) /\ action.word \in FailWord )
            => \E k \in DOMAIN triggered : triggered[k] = i
=============================================================================
