---------------------------- MODULE RuleLanguage ----------------------------
(***************************************************************************)
(* domain/pipeline/detection.py: what a rule's YAML compiles to.  SQL is   *)
(* replaced by its meaning: an expression over the columns of one event is *)
(* true or not (NULL is not), and nothing compiles to a negation.          *)
(*                                                                         *)
(* Compiling is "ok", "refused" (RuleCompilationError) or "raised" (any    *)
(* other exception, of the compiler or of the query).                      *)
(***************************************************************************)
EXTENDS Normalization

CONSTANTS
    Hits,       \* text operators: triples <<operator, column word, rule word>>
    BadPattern  \* words that are no regular expression

TextOperator == {"contains", "startswith", "endswith", "re"}
NumericOperator == {"lt", "lte", "gt", "gte"}
AllowedField == Canonical \ {"occurred_at"}
NumberField == {"source_port"}

\* A rule: selections in the order of the YAML, each a sequence of clauses
\* (or a list of mappings, which the compiler passes over), the condition, a
\* level, and the severity and MITRE tags of the database row.  Bound: a list
\* of values is not empty.
Severities == {"informational", "low", "medium", "high", "critical"}
Clauses == [field : STRING, modifiers : Seq(STRING), values : Seq(Value)]
Selections == [name : STRING, mapping : BOOLEAN, clauses : Seq(Clauses)]
Conditions == [form : {"missing", "not a string", "1 of", "all of", "tokens"},
               tokens : Seq(STRING), names : SUBSET STRING]
Rules == [id : STRING, severity : Severities, level : {"known", "unknown", "not a string"},
          tactics : Seq(STRING), selections : Seq(Selections), condition : Conditions]

\* Checks run in order, and the first that fails decides.
FirstFailure(outcomes) ==
    LET bad == {i \in DOMAIN outcomes : outcomes[i] # "ok"}
    IN  IF bad = {} THEN "ok" ELSE outcomes[CHOOSE i \in bad : \A j \in bad : i <= j]

----------------------------------------------------------------------------
\* Clauses: [field, modifiers, values].  A scalar is a sequence of one value.
\* Only the first modifier is looked at.
Modifier(c) == IF c.modifiers = <<>> THEN "none" ELSE Head(c.modifiers)

CompileValue(m, v) ==
    CASE m = "none" -> "ok"
      [] m = "re" -> IF ~IsText(v) THEN "refused"
                     ELSE IF v.word \in BadPattern THEN "raised" ELSE "ok"
      [] m \in TextOperator \ {"re"} -> "ok"
      [] m \in NumericOperator -> IF IsNumber(v) THEN "ok" ELSE "refused"
      [] OTHER -> "refused"

CompileClause(c) ==
    IF c.field = "keywords"
      THEN IF c.values # <<>> /\ \A i \in DOMAIN c.values : IsText(c.values[i])
             THEN "ok" ELSE "refused"
    ELSE IF c.field \notin AllowedField THEN "refused"
    ELSE IF Len(c.values) > 1 /\ Modifier(c) = "all" THEN "ok"
    ELSE FirstFailure([i \in DOMAIN c.values |-> CompileValue(Modifier(c), c.values[i])])

\* PostgreSQL takes a parameter only of its column's type; numbers given to a
\* text operator are written out.
BindsValue(field, m, v) ==
    CASE m \in TextOperator -> field \notin NumberField
      [] m \in NumericOperator -> field \in NumberField
      [] OTHER -> (field \in NumberField) = IsNumber(v)

BindsClause(c) ==
    LET m == IF Len(c.values) > 1 /\ Modifier(c) = "all" THEN "none" ELSE Modifier(c)
    IN  c.field = "keywords" \/ \A i \in DOMAIN c.values : BindsValue(c.field, m, c.values[i])

ValueHolds(column, m, v) ==
    /\ column # Absent
    /\ CASE m = "none" -> column = v
         [] m \in TextOperator -> <<m, column.word, Written(v).word>> \in Hits
         [] m = "lt" -> column.number < v.number
         [] m = "lte" -> column.number <= v.number
         [] m = "gt" -> column.number > v.number
         [] OTHER -> column.number >= v.number

ClauseHolds(c, event) ==
    IF c.field = "keywords"
      THEN \E i \in DOMAIN c.values, f \in {"process_name", "event_type"} :
              ValueHolds(event[f], "contains", c.values[i])
    ELSE IF Len(c.values) > 1 /\ Modifier(c) = "all"
      THEN \A i \in DOMAIN c.values : ValueHolds(event[c.field], "none", c.values[i])
    ELSE \E i \in DOMAIN c.values : ValueHolds(event[c.field], Modifier(c), c.values[i])

----------------------------------------------------------------------------
\* Selections: [name, mapping, clauses].  An empty one has no first clause.
CompileSelection(s) ==
    IF s.clauses = <<>> THEN "raised"
    ELSE FirstFailure([i \in DOMAIN s.clauses |-> CompileClause(s.clauses[i])])

SelectionHolds(s, event) == \A i \in DOMAIN s.clauses : ClauseHolds(s.clauses[i], event)

\* The selections the compiler keeps.
Kept(rule) == {i \in DOMAIN rule.selections : rule.selections[i].mapping}
NamesOf(rule) == {rule.selections[i].name : i \in Kept(rule)}
Holding(rule, event) ==
    {rule.selections[i].name :
        i \in {j \in Kept(rule) : SelectionHolds(rule.selections[j], event)}}

----------------------------------------------------------------------------
\* _parse_boolean.  As _join_clauses only ever joins with OR, what has been read
\* of a condition is the set of selections it mentions.
Reserved == {"(", ")", "and", "or", "not"}
Bad == [ok |-> FALSE, names |-> {}, pos |-> 0]
Join(names, rest) ==
    IF rest.ok THEN [ok |-> TRUE, names |-> names \cup rest.names, pos |-> rest.pos] ELSE Bad

\* What is read of a group from pos on, and the position after it, by what is
\* read further on.
ReadFrom(tokens, known, reading, pos) ==
    CASE pos > Len(tokens) -> [ok |-> TRUE, names |-> {}, pos |-> pos]
      [] pos <= Len(tokens) /\ tokens[pos] \in {"(", "not"} ->
           LET inner == reading[pos + 1]
           IN  IF inner.ok /\ inner.names # {} THEN Join(inner.names, reading[inner.pos]) ELSE Bad
      [] pos <= Len(tokens) /\ tokens[pos] = ")" -> [ok |-> TRUE, names |-> {}, pos |-> pos + 1]
      [] pos <= Len(tokens) /\ tokens[pos] \in {"and", "or"} -> reading[pos + 1]
      [] pos <= Len(tokens) /\ tokens[pos] \in known \ Reserved ->
           Join({tokens[pos]}, reading[pos + 1])
      [] OTHER -> Bad

\* A group that mentions no selection is refused where it ends.
ParseBoolean(tokens, known) ==
    LET reading[pos \in 1..(Len(tokens) + 1)] == ReadFrom(tokens, known, reading, pos)
    IN  IF reading[1].names = {} THEN Bad ELSE reading[1]

\* Mutant: clauses are joined with AND.
JoinClausesAll(names, holding) == names \subseteq holding

\* _join_clauses.
JoinClauses(names, holding) == names \cap holding # {}

\* Conditions: [form, names, tokens].  names is what the pattern of "1 of" and
\* "all of" matches, and everything for "them".
CompileCondition(rule) ==
    CASE rule.condition.form = "missing" -> "refused"
      [] rule.condition.form = "not a string" -> "raised"
      [] rule.condition.form \in {"1 of", "all of"} ->
           IF rule.condition.names \cap NamesOf(rule) = {} THEN "refused" ELSE "ok"
      [] OTHER -> IF ParseBoolean(rule.condition.tokens, NamesOf(rule)).ok
                    THEN "ok" ELSE "refused"

ConditionHolds(rule, holding) ==
    LET c == rule.condition
    IN  CASE c.form = "1 of" -> c.names \cap NamesOf(rule) \cap holding # {}
          [] c.form = "all of" -> c.names \cap NamesOf(rule) \subseteq holding
          [] OTHER -> JoinClauses(ParseBoolean(c.tokens, NamesOf(rule)).names, holding)

\* compile_rule: the checks in their order.
Compile(rule) ==
    FirstFailure(
        << IF rule.condition.form = "missing" THEN "refused" ELSE "ok",
           IF Kept(rule) = {} THEN "refused" ELSE "ok" >>
        \o [i \in DOMAIN rule.selections |->
              IF i \in Kept(rule) THEN CompileSelection(rule.selections[i]) ELSE "ok"]
        \o << CompileCondition(rule),
              CASE rule.level = "not a string" -> "raised"
                [] rule.level = "unknown" -> "refused"
                [] OTHER -> "ok" >>)

\* The selections that become part of the query.
Mentioned(rule) ==
    IF rule.condition.form = "tokens"
      THEN ParseBoolean(rule.condition.tokens, NamesOf(rule)).names
      ELSE rule.condition.names \cap NamesOf(rule)

\* What evaluating a rule comes to: as compiling it, and the query may fail.
Outcome(rule) ==
    LET queried == {i \in Kept(rule) : rule.selections[i].name \in Mentioned(rule)}
    IN  IF Compile(rule) # "ok" THEN Compile(rule)
        ELSE IF \E i \in queried : \E j \in DOMAIN rule.selections[i].clauses :
                  ~BindsClause(rule.selections[i].clauses[j])
          THEN "raised" ELSE "ok"

Matches(rule, event) == ConditionHolds(rule, Holding(rule, event))

----------------------------------------------------------------------------
\* What a condition says: or binds weaker than and, and weaker than not.  A
\* span of tokens is cut at its first operator outside of parentheses.  It is
\* "true", "false" or "malformed".
Depth(tokens, i, k) == Cardinality({j \in i..k : tokens[j] = "("})
                       - Cardinality({j \in i..k : tokens[j] = ")"})
Outside(tokens, op, i, j) ==
    {k \in i..j : tokens[k] = op /\ Depth(tokens, i, k) = 0}
First(S) == CHOOSE k \in S : \A l \in S : k <= l

Either(a, b) == IF "malformed" \in {a, b} THEN "malformed"
                ELSE IF "true" \in {a, b} THEN "true" ELSE "false"
Not(a) == CASE a = "true" -> "false" [] a = "false" -> "true" [] OTHER -> "malformed"
Both(a, b) == Not(Either(Not(a), Not(b)))

\* What the tokens from i to j say, by what the spans within them do.
SpanSays(tokens, holding, mean, i, j) ==
    LET ors == Outside(tokens, "or", i, j)
        ands == Outside(tokens, "and", i, j)
        none == i <= j /\ ors = {} /\ ands = {}
    IN  CASE ors # {} -> Either(mean[<<i, First(ors) - 1>>], mean[<<First(ors) + 1, j>>])
          [] ors = {} /\ ands # {} ->
               Both(mean[<<i, First(ands) - 1>>], mean[<<First(ands) + 1, j>>])
          [] none /\ tokens[i] = "not" -> Not(mean[<<i + 1, j>>])
          [] none /\ tokens[i] = "(" ->
               IF /\ tokens[j] = ")" /\ Depth(tokens, i, j) = 0
                  /\ \A k \in i..(j - 1) : Depth(tokens, i, k) > 0
                 THEN mean[<<i + 1, j - 1>>] ELSE "malformed"
          [] none /\ tokens[i] \notin Reserved /\ i = j ->
               IF tokens[i] \in holding THEN "true" ELSE "false"
          [] OTHER -> "malformed"

Meaning(tokens, holding) ==
    LET n == Len(tokens)
        mean[s \in (1..(n + 1)) \X (0..n)] == SpanSays(tokens, holding, mean, s[1], s[2])
    IN  mean[<<1, n>>]
=============================================================================
