# SOC-AGENTS: verification in TLA+

Specifications of the parts of SOC-AGENTS whose correctness depends on the
order in which things happen, concurrent requests over PostgreSQL under READ
COMMITTED and over Redis, with crashes, cancellations and exceptions between
their steps, and of the decisions that are hard to oversee: the rule language,
the policies of the agents, the cutting of texts. TLC checks them on small instances; TLAPS
proves for all instances every invariant and action property of the runs that pass, but two about
the agents' scores. Paths are
relative to `src/backend/app/` unless they start with `src/`; `docs/` is `src/docs/`.

## 1. Inventory

| Component | State | Operations | Interacts with | Hard behaviour | What makes it correct |
| --- | --- | --- | --- | --- | --- |
| Event pipeline (`domain/pipeline/service.py`, `correlation.py`, `risk_scoring.py`; `api/v1/routes/data_sources.py`, `ingestion.py`, `alerts.py`, `incidents.py`) | tables `raw_events`, `normalized_events`, `observables`, `alerts`, `incidents`, `incident_alerts`, `audit_logs`; the locals of each running request | CSV upload, one pipeline call per row; POST `/ingestion/events`; POST and PATCH `/alerts`; POST `/incidents`; create and delete data sources | detection rules, database sessions, the console | two commits in the middle of a call; reads used after other requests have committed; the unique index as the only lock; an audit that raises | evidence stored once and credited once; counts backed by events; no empty incident; tenants apart in what the pipeline does itself; analysts' decisions kept; what a 200 counts is stored; every upload ends |
| Normalization and rules (`domain/pipeline/normalization.py`, `detection.py`, `risk_scoring.py`) | none (rules are rows) | normalise a payload, compile a rule to SQL, evaluate the rules, score | the pipeline | precedence in rule conditions; rules that are refused, raise or match without meaning to; texts longer than their column | a rule that holds is never missed, a refused one does nothing, one more rule never lowers the risk, the correlation key holds the anchors that are stored |
| Rate limiter (`core/middleware.py`) | one Redis counter per client address and path | INCR, EXPIRE, refuse or pass | every route but health | other requests, failures and cancellation between INCR and EXPIRE | one expiry per window, windows not prolonged, a bounded burst, no client refused for ever |
| Authentication (`api/v1/routes/auth.py`, `core/security.py`, `core/permissions.py`) | `users`, `tenants`, `roles` and their links; refresh tokens in Redis | register, login, refresh, MFA set-up / enable / disable | Redis, every route's principal | GET then DELETE then SETEX; recovery codes as a read-modify-write; check then insert in register; permissions inserted one by one, which can deadlock | a login has one stored token, a recovery code works once, a registration is whole, tokens carry what roles grant |
| Users and roles (`routes/users.py`, `roles.py`) | `users`, `roles` | list, create, assign | authentication | permissions copied into tokens | a principal has what its roles give |
| Autonomy policy (`domain/policy/autonomy.py`) | none | `evaluate_autonomy` | skills | order of the rules | monotone in the level, deny wins, an approval has a time-box |
| Agent run store (`agents/state.py`, `routes/agents.py`) | `agent_runs`, `agent_steps` | create, mark running, record step, complete, fail | agent graphs | no guard on status or progress; the trace is merged into what was read | the status is backed by the trace, no trace entry is lost but to an overlap |
| Agent graphs (`agents/*.py`) | a state dictionary per run | triage, investigate, hunt, score, respond, report, route | LLM client | branch order, thresholds, order of arrival | nothing marked for approval is executed without it; what is worse never scores lower |
| Memory and knowledge (`domain/agents/*.py`, `rag/chunking.py`, `indexing.py`, `knowledge_base.py`) | `agent_memories`, `knowledge_documents`, `vector_chunks` | store, recall, edit a document, index it | embeddings, vector stores | edit during indexing; copies the sessions keep; a sink that raises; chunks that are no longer there | a load leaves nothing out; an edit withdraws the mark; `indexed` means that the text can be found |
| Answers (`rag/pipeline.py`, `hybrid.py`, `reranking.py`, `infrastructure/embeddings`, `reranking`) | none | retrieve, rerank, cite, ask the model | LLM client, vector stores | evidence lost in reranking; fallback | no model is asked without evidence; every question ends |
| LLM client (`infrastructure/llm/openrouter.py`) | none | try the candidate models in turn | provider | failures, retries, an exception nothing catches | each model at most once, none passed over, the first answer wins |
| Read-only and stub routes, logging, errors, migrations and seeds, console, deployment | | | | | not modelled, see section 8 |

## 2. Modules

| Module | What it is |
| --- | --- |
| `EvidenceLedger` | abstract specification: an event enters the ledger at most once, never leaves it and is credited to at most one account in the step that records it |
| `AlertPipeline` | the event pipeline: uploads, direct ingestion and analysts over the committed tables |
| `MCAlertPipeline` | files, rows and tenants of the instances TLC checks |
| `AlertPipeline_proofs` | everything but liveness that the runs of the pipeline check, and complete incidents: types, held events, the abstract ledger and its refinement, tenants in credits and groupings, occurrences, answers |
| `Sums` | sums of finitely many numbers, as recursive functions |
| `Recursion` | lemmas for all proofs: induction and least elements stated of sets, the existence of recursive functions and of loops, sums |
| `RateLimiter` | the rate limiter: requests in flight against one counter; uses `Sums` |
| `RateLimiter_proofs` | types, one expiry per window, windows only run down, bursts are bounded |
| `Accounts` | tenants, users, roles, logins, refresh tokens and second factors: the handlers of auth, roles and users |
| `Accounts_proofs` | types, names held apart, complete roles, tokens within grants, what a deadlock takes |
| `Sessions_proofs` | rotation of refresh tokens and second factors; extends `Accounts_proofs` |
| `MCAccounts` | slugs, permission lists and recovery codes of the instance |
| `Normalization` | what normalization makes of a payload, field by field, cuts to the columns' widths included |
| `RuleLanguage` | the rule compiler and the condition parser, beside what a rule says |
| `Detection` | one event through normalization, rules and risk score; extends the two and `Sums` |
| `Detection_proofs` | everything the `rules` run checks, the risk and failed logins: types and widths, anchors, refused rules, the condition parser against what conditions say |
| `MCDetection` | payloads, events and rules of the instance |
| `AgentPolicy` | the autonomy policy, triage, response and supervisor as operators |
| `AgentGraphs` | risk scoring and investigation as operators; extends `AgentPolicy` |
| `AgentRuns` | the store of agent runs under concurrent clients that carry the graphs out; extends `AgentGraphs` |
| `AgentRuns_proofs` | types, statuses, traces, approvals, triage and the autonomy policy, with lemmas about the operators of `AgentPolicy` |
| `MCAgents` | states of the agents and clients of the instance |
| `Chunking` | the loop of `chunk_document` |
| `KnowledgeBase` | corpus, documents, answers and the model fallback; extends `Chunking` |
| `KnowledgeBase_proofs` | the loop of `Chunking`, types, a load leaves nothing out, an edit withdraws the mark, models are asked in order and only with evidence |
| `MCKnowledge` | corpora and bodies of the instance |

### AlertPipeline and the code

State. `raw`, `alerts`, `incidents` and `links` are what is *committed* in
`raw_events`, `alerts`, `incidents` and `incident_alerts`. `req[u]` is the
request an upload serves, `sess[u]` its program point, row and `processed`,
`work[u]` the locals of the pipeline call it is in. `merged` is a history
variable: the events each alert has been credited with. An alert and an
incident carry the name of the upload that created them; an upload creates at
most one of each, because a call that reaches an alert never returns (below).

Steps. A request is cut where it awaits something that depends on others:

    lookup -> insert -> detect -> dedup -> save -> group -> link

`lookup` is validation and the query for the raw event (`service.py:128-150`),
`insert` the flush of the raw event (163-172), `detect` everything up to the
decision of the rules (174-239), `dedup` the query for an open duplicate
(`correlation.py:61-77`), `save` the commit of a new or an updated alert
(78-113), `group` the queries for an incident (119-157), `link` the commit of the
link, the incident and the score (158-186), and the audit after it.

What the code does that a reader may not expect, and the model keeps:

* Sessions do not autoflush (`infrastructure/db/session.py`). A request's
  changes reach the database with an explicit flush or a commit, so a row lock
  is taken and given back within one action. Only the raw event is flushed long
  before its commit; it is in no table, yet blocks the insert of the same identity
  by others (`HoldsRawEvent`, `InsertWaits`).
* `create_or_update_alert` commits. It makes raw event and alert durable
  together. What follows is in a transaction of its own.
* After the commit of a *new* alert, `correlation.py:112` reads `severity.value`.
  The severity is that of a detection rule, a plain string: AttributeError, and
  the request fails with the alert committed, unscored, in no incident
  (`CreateAlert`).
* `_audit` passes `trace_id`, which `AuditLog` has not: TypeError. Every call that
  reaches it fails: after the incident is committed (`AttachToIncident`,
  `OpenIncident`), or with the raw event not committed at all when no rule
  triggered (`NoRuleTriggered`). A 200 is therefore answered exactly to uploads
  the identities of whose rows are all taken already.
* `SELECT`s see what is committed when they run. A reused alert's severity is the
  one the session loaded then, also in the later grouping.
* The per-candidate query of the grouping joins nothing to `Alert`
  (`correlation.py:140-147`), so `BandSeen` looks at the alerts of all tenants.
  Its candidates come newest first; as it holds for all or none of them, the
  newest is taken.
* A row is known by its index and timestamp, and by the batch_nonce if the client sends one
  (`data_sources.py:228`). A different row under the same identity is skipped, counted in the
  200 and never stored: `DoneMeansStored` names the two ways an identity can be taken.
* POST `/incidents` links the alerts its body names, whosever they are
  (`CreateManualIncident`), and the grouping goes on with such incidents.
* The update of an alert writes the columns that changed: count, `last_seen_at`
  and the references to the event. Status and severity stay what they are in the
  table.

Abstractions. A row of a file is its timestamp, its alert key and whether
validation accepts it. Rule, correlation key, actor and source address are one
value, `Key`: two events have the same key exactly if `build_alert_key` makes
the same string of them. Detection is a choice between nothing and a severity.
The risk score is whether there is one. Normalized events and observables are
rows in the transaction of the raw event that nothing reads, and are left out.
`LIMIT 10` on candidates is left out: only the newest one is ever used. Time is
a counter that may pass or not between any two steps. A request may be cut off
at any point (`Abort`): worker crash, client gone, database error. The checks
of an upload before its loop (source, type, size) only refuse requests and
change nothing; requests they refuse are not sent.

`DELETE /data-sources` is left out: a source that is gone makes the flush of the
raw event fail on its foreign key, which is `Abort`, and one that has events
cannot be deleted. `AlertPipeline` takes from detection only whether a rule
triggers and with which severity; how that comes about is `Detection`.

### RateLimiter and the code

One counter is modelled, as counters do not interact. `Incr` is `redis.incr`,
`Expire` is `redis.expire`, each with a failing form that was applied or not
(`IncrFails`, `ExpireFails`), after which the request passes. `Cancel` is the
client going away: CancelledError is not an Exception, so `except Exception`
does not see it. `Tick` is one unit of time, with which Redis removes an
expired key. Values two or more above the limit are not told apart (`Ceiling`).

### Accounts and the code

State. `db` and `mfa` are the committed rows: tenants, users, roles, permissions
and the two link tables in `db`, the three MFA columns in `mfa`. `issued` holds the
claims of the tokens each request has issued, `live` the refresh tokens in Redis.
`req`, `pc` and `loc` are the call, the program point and the locals of a running
handler. Rows and tokens carry the name of the request that made them. `family`,
`forked`, `overlapped`, `verified` and `spent` are history: which login a token
descends from, which logins had two refreshes read one token, whose second factor
was changed by two requests at once, which secrets were proved and which recovery
codes accepted.

Steps. Registration is `CheckSlug`, `InsertTenant`, `SelectPermissions`, then one
`InsertPermission` for each missing name (each a flush, `auth.py:157`),
`CommitRegistration` and `IssueTokens`. New roles flush their permissions in the
order of the payload. A flush takes the name in the unique index before it is
committed, so that others wait (`WaitsFor`) and may wait in a circle
(`DeadlockVictim`). Login, set-up, enable and disable read the user's row (`Load`)
and write what has changed of it at the commit (`LoginCommit`, `MfaCommit`): SQLAlchemy
writes the columns that differ from the loaded ones, the list of recovery codes
as a whole. Refresh is GET, DELETE, SETEX. `Abort` ends any of them anywhere.

Kept although it may surprise: logout does nothing; `is_active` is never set to
false; the guards ask for `roles:write` where the demo seed grants dotted names;
`domain/permissions.py` is used by nothing. Two overlapping changes of a second
factor can bring spent codes back or leave it enabled with a secret nobody has
proved: `FactorSoundAlone` excepts exactly the users this happened to.

Abstractions. Passwords are right or the request is refused. A code is the TOTP of
a secret or one of its recovery codes; reuse of a TOTP in its window and the expiry of
access tokens are not modelled, a client uses any code that was handed out. Calls that
are refused at their first look are one action, `Refused`.

### Detection and the code

`Normalization` reduces a payload to one field for each way the code treats a
field: a text, an address, a hash, a port, an enumeration, a time, the anchors of the
correlation key. `RuleLanguage` has two readings of each rule side by side: `Compile`
and its helpers do what `detection.py` does; `SelectionHolds` and
`ConditionHolds` say what the SQL expression then means for an event. A value is
a small record of what the code distinguishes about it; a number has the digits it is
written with, because `str()` makes a text of it in the correlation key and in text
operators, and a padded text of digits is a port. A word has a length (`Size`), and
`Cut` takes the first characters of a text, its `Opening`, behind which a cut may leave a
blank; a text has at most one blank at its end, and which words there are is a constant.
Each column cuts to its `Width`, the correlation key as a whole (`CutKey`): the
strongest anchor comes first, and the others may fall off. `Detection` evaluates the
rules one after another (`EvaluateRule`), decides and scores.

`ParseBoolean` reads a condition as `_parse_boolean` does: `reading[pos]` is what the
call that stands at `pos` returns, and `ReadFrom` its next turn by what is read further on. `Meaning` is
the reference beside it: what a span of tokens says by the spans within it (`SpanSays`),
with `or` weaker than `and` and both weaker than `not`. Both are recursive functions, over
positions and over spans.

Kept although it may surprise:

* `_parse_boolean` combines its terms without looking at `and` and `not`, although the
  docstring (`detection.py:11-12`) promises them (section 6); tokens after an
  unmatched ")" are ignored.
* A list-valued selection disappears from a rule; `|all` with one value is refused
  and with several compares for equality to all; a second modifier is ignored.
* Only `RuleCompilationError` is caught at `detection.py:348`. An invalid pattern, an
  empty selection or a type the database refuses ends the evaluation of the event.
* The severity is the one text that is not cut: one of more than 32 characters is refused by
  the database, and its event fails (`Overflows`).
* With a long user and host name the correlation key loses the address or the host, so that
  alerts of different hosts share it (`AnchorsInKey`).
* A numeric severity is stored as NULL. A blank protocol raises. A missing category
  is stored as "None". A later time alias that does not parse discards an earlier one
  that did. The correlation key is made of anchors before they are validated, and an
  anchor that is the number 0 is left out of it although the event stores "0".
* A tactic named by two rules counts twice in the score.

### AgentRuns and the code

`run` and `steps` are the committed `agent_runs` row and its `agent_steps`. `read` is the
row a session has read and `copy` that row as its attributes are now: the session
factory has `expire_on_commit=False`, so later calls compute from it. `flushed` is
what the open transaction has sent. `CreateRun`, `MarkRunning`, `RecordStep`,
`CompleteRun` and `FailRun` are the methods of `AgentStateStore`; `Update` is the flush in
them, whose UPDATE waits for the row lock and names the columns that differ. None of them asks
for the status or for what has been recorded: a run may be completed at any point, without a
single step, as the store's own test does. Nothing in `src/` calls the store yet, nor
`evaluate_autonomy` or the response agent outside of tests. The client is external: it
computes the nodes of the graph in order, may leave one unrecorded, may complete, fail, die or
start over at any point, and may be doubled.

`case` is the agent, what it is asked and who does it. The graphs are operators on
records (`AgentPolicy`, `AgentGraphs`): a text is the set of keywords it contains, a
confidence a percentage. `NodesOf` are the nodes a run records, `FinalStates` what it
ends with; the rounding of a weighted risk score leaves both neighbours open.

Kept although it may surprise: nothing guards the status, a failed run may be completed
and a session with an old copy takes another's trace entries away (`overlapped`); an
address is blocked unasked at a low or medium risk and a password reset unasked at a low one; after an approval the safe actions are executed a
second time; at L0 and L1 a request for approval has no time-box (`agents_lane`); the docstring
of the levels and the table of risk classes do not agree; the id that POST
`/agents/triage-runs` answers is stored nowhere.

### KnowledgeBase and the code

`load` walks `load_initial_knowledge_base`: read the file, then for each document cut
(`CutChunk`, one turn of the loop of `chunk_document`) and embed, at last one upsert.
`docs` is `knowledge_documents` of one title, `writer` where the sessions of
`KnowledgeService` are and `known` the rows they hold: the factory has `expire_on_commit=False`,
so `session.get` and a second SELECT return the copy, and an UPDATE names the columns that
differ from it (`Update`). The service flushes and does not commit; its caller, which `src/` does
not have, commits after each call and rolls back when one raises, which empties the session
(`Rollback`). `ask` walks `generate_rag_answer`: search, rerank, ground, and
`CompleteOnce` for each model of the client.

Kept although it may surprise: `PgvectorSink.upsert` reads an attribute the vectors do
not have, so it raises and only documents without chunks are ever marked as indexed;
one session marks what another has given a body meanwhile;
`KnowledgeRetrievalService`, the only retrieval service of the repository, subscripts dataclass rows, so it returns only when nothing is found (`KnowledgeHits`); chunks of an
earlier text stay in the index; a chunk of nothing but blanks makes the provider
refuse the whole load; an answer that is not JSON leaves the fallback loop as an
exception; two sessions can insert one title twice, after which every upsert of it
raises.

External: the embedding provider, the Pinecone index, any other retrieval service
(`ExternalHits`), the reranker's scores and the models. Each answers anything its caller
handles, or fails. What is found is not tied to what the model's loads have stored, because no
code in `src/` reads that index.

## 3. Runs

| Run | Instance | States | Shows |
| --- | --- | --- | --- |
| `pipeline_uploads` | 2 uploads for 2 tenants with the same keys, a file of two rows, one whose row has the identity of the first and another key, one with an invalid row, one nonce, one event posted directly under an upload's id, an analyst who creates, closes and re-rates, rules of two severities, clock 0..1 with an alert window of 0 and an incident window of 1 | 675 000 | `TypeOK`, `EvidenceUnique`, `CreditsApart`, `LocalsStillTrue`, `DoneMeansStored`, `AnalystDecides`, `UploadAnswered` |
| `pipeline_races` | 4 uploads of one row and one key over 3 sources of 2 tenants with 2 nonces, an analyst who links any tenant's alerts | 750 000 | `HeldApart`, `CreditedOnce`, `OccurrencesBacked`, `ImplementsLedger`, `GroupsApart` |
| `limiter` | 3 requests, limit 2, window 2 | 159 000 | `TypeOK`, `OneSetsExpiry`, `BurstBound`, `WindowNotExtended`, `BlockedWithExpiryEnds` |
| `accounts` | 3 requests, 2 slugs, 2 addresses, 3 role names, 4 permissions of which registration grants 2, payloads in both orders and one with a name twice, 2 recovery codes per secret; on a fresh database and on one with a logged-in owner with and without second factor | 121 000 | `TypeOK`, `NamesHeldApart`, `RolesComplete`, `TokensWithinGrants`, `RotationKeepsOne`, `FactorSoundAlone`, `DeadlockNeedsDisorder` |
| `rules` | payloads with blanks, capitals, numbers (also as user names), blank anchors, padded digits, invalid values, missing fields and texts longer than their column against the seeded rules; events against rules with conditions of all sequences of up to 3 tokens and some of up to 7 | 52 000 | `TypeOK`, `NeverMissesWhatItSays`, `RefusedRuleIsInert`, `AnchorsInKey` |
| `agents` | 2 clients and one of another tenant; all of the autonomy policy, responses, routings, scores, investigations of three events; 2 clients carry out one response run of two nodes at once, one client a triage run of four | 2 512 000 | `TypeOK`, `StatusBacked`, `TraceKept`, `NothingUnapproved`, `RiskMonotone`, `ArrivalOrderFree`, `AutonomyFailSafe` |
| `knowledge` | chunks of 3 with an overlap of 1, five corpora with texts of 0 to 7 characters, 2 loads; 2 sessions and 3 bodies, one empty; up to 3 passages of which 2 are kept; 4 configured models of which one is blank and one named twice | 9 900 | `TypeOK`, `Findable`, `AnswerBacked`, `EditUnmarks`, `Ends` |
| `pipeline_accepted`, `pipeline_open_alert`, `pipeline_occurrences`, `limiter_blocked`, `agents_lane` | an instance that shows it | | the first divergences of section 6 |

Bounds. `pipeline_uploads` has what a single upload can meet, `pipeline_races` what takes several.
Two uploads make every pairwise race; a third lets two requests update the alert a first one
created, which the lost update and the stale duplicate need, and lets the pipeline meet an incident
the analyst has put another tenant's alert into; a fourth gives two requests that attach one alert to
one incident at once, the only way to `AttachConflicts`. A window of 0 ticks and one tick of the
clock have alerts that are in it and out of it. The file of two rows has a new row after a
skipped first, and one nonce makes rows of different contents collide. Uploads are
symmetric, and nonces too where no event is posted directly; runs with a temporal property other than a box formula use no symmetry. `MaxClock` is the
only bound in a guard. Deadlock is not checked in the pipeline runs: when all
uploads have ended and the clock has stopped, the instance is finished. It is
checked for the limiter, where time always passes.

In `accounts`, two requests make every race of two handlers, the third issues or changes
what these two disagree on; its symmetry over requests and codes is why the run
has no temporal property. In `rules`, the longer conditions hold a negated or parenthesised operand
beside another one, the shortest kind the parser misreads; the theorem covers all lengths. The
columns' widths are scaled down to 14 and 19 characters, so that names of up to 26 are kept, cut,
cut behind a blank, and push the other anchors off the key; the theorems hold for any widths.
In `agents`, decisions do not depend on the store, so each is taken once without a client, and
only a few cases of each agent are carried out. Two clients and two nodes make
every overlap of two sessions between any two calls; triage has the longest graph. In
`knowledge`, `MaxLoads` and `MaxEvidence` bound the loads and the evidence, and `Init` picks one of
corpus, documents and questions, which share nothing, to be at work in a behaviour. The texts are
shorter than, as long as, and longer than one and than two chunks.

Fairness. `WF(Process(u))` for each upload: the event loop runs a request that can
run and the database answers it; this is what uvicorn and asyncio do as long as
the worker lives, and if it does not, `Abort` ends the request. A waiting insert
is not enabled, so nothing is assumed about waits but that the one waited for
proceeds. Nothing obliges a client to send, an analyst to act or the clock to
move. For the limiter, `WF(Handle(r))` is the same assumption, and `WF(Tick)`
says that time passes; it does not oblige clients to send requests. In `KnowledgeBase`,
`WF(Load)` and `WF(Answer)` say that what has begun goes on: both are straight code whose
awaits end, the HTTP client's by its timeout, a local model's when its thread returns; nothing
obliges anyone to begin. The timeout of httpx is one of each read, not of the whole answer: that a
provider does not trickle bytes for ever is an assumption about the provider.

## 4. Properties worth a word

* `ImplementsLedger`: the pipeline, cut into a dozen steps that interleave, fail
  and crash, implements a ledger with one atomic step. The mapping is `raw` for
  the ledger and `merged` for its accounts.
* `HeldApart` is the reason why it does, and what `EvidenceUnique` lacks to be
  inductive: between flush and commit an event is in no table, so two holders of
  one identity would both commit it.
* `OccurrencesBacked` is what remains true of the count in spite of the lost update
  (`OccurrencesExact` fails): it may be too low, never too high.
* `LocalsStillTrue` collects what a request relies on at its write: rows are not
  deleted, an alert never changes its tenant or key, no count outruns its events.
* `GroupsApart` holds although `BandSeen` crosses tenants and analysts put other tenants' alerts
  into incidents (section 6): the tenant of an incident comes from the candidate
  query, the band only decides whether one is reused.
* `DoneMeansStored` is what a 200 is worth: a request whose batch_nonce is its own has stored just
  what it counts; without one, a row of an earlier file may stand in its place
  (`AcceptedMeansStored` fails).
* `OneSetsExpiry` is why a window is not prolonged: whoever is between INCR and
  EXPIRE is the only one, and the key has no TTL yet.
* `RotationKeepsOne` names the one way to two stored tokens of a login: two refreshes that
  read the same token before either deletes it. A crash between DELETE and SETEX loses the
  session, it never doubles it.
* `DeadlockNeedsDisorder`: a circle of waits on permission names takes payloads that follow
  no common order of the names; registrations, whose order is a constant, never make one. The
  mutant shows that hashing the names would. (That every two payloads agree is not enough:
  three can disagree in a circle.)
* `FactorSoundAlone` says what the second factor loses when two changes overlap, and that it
  loses nothing otherwise: both the secret that is enabled and the codes that are left are
  those of the row that was loaded.
* `NeverMissesWhatItSays` is as much of the docstring's promise as the parser keeps: a well
  formed condition without `not` never misses an event it covers, and only one without `and`
  triggers on nothing else. The promise itself does not hold (section 6).
* `AnchorsInKey` is what deduplication rests on. The key is made of mapped values and cut as a
  whole, the columns are trimmed, validated and cut one by one; the user is in the key for certain,
  the rest only when everything fits.
* `StatusBacked` has a part without exception: whatever overlaps and dies, and wherever in its work
  a client says it is done, a run that is completed or failed has a final state or an error. An
  UPDATE that names only the status comes from a copy that had both; one that names the
  trace brings its own entry. `TraceKept` is what is left of the documents' promise (section 6).
* `NothingUnapproved` is about the gate the code has: what it marks for approval, and that it marks
  no less than it does today. The documents ask for more (section 6).
* `EditUnmarks` names the one way a mark outlives an edit: the session that edits holds a copy from
  before the document was marked, so `indexed` does not differ and its UPDATE leaves it alone.
* `AnswerBacked` says in which order models are asked and when that may end; a non-JSON answer ends
  it with models left.

## 5. Proofs

For every number of uploads, tenants, files, keys and windows (assumptions
`InputsTyped`, `WindowsAreNat`, `NoneIsNoRow`; `BoundsAreNat` and
`NoExpiryIsNoTime` for the limiter; those of the other components are named below):

| Theorem | Argument |
| --- | --- |
| `TypeCorrect` | invariant `TypeInv` = `TypeOK` and `TargetsExist`: the alert a request remembers is there, without which the update of a row would not be typed. Split into tables, sessions and locals; one step per action |
| `HeldApartAlways` | inductive with `TypeOK`: the insert takes an identity nobody has (`HeldStepInsert`), the commit hands it over to `raw` (`HeldStepCommit`), nobody else comes to hold one (`HeldStepQuiet`, `HeldKept`) |
| `LedgerImplemented` | with `HeldApart`, each commit adds an event that is new (`CommitIsNew`) and is `Credit` or `Record`; every other step stutters |
| `LedgerUnique`, `EvidenceStaysUnique` | uniqueness is proved of the abstract ledger (of `Ledger!Spec`, the ledger under the mapping), and carried over by the refinement |
| `CreditsStayApart`, `GroupsStayApart`, `LocalsStayTrue`, `AnalystsDecide`, `IncidentsComplete` | `TenantInv`: what an upload creates overwrites nothing, because while it runs its alert and its incident are not there (`FreshNames`); so an alert keeps its tenant and key (`AlertWrites`, `AlertsKept`) and an incident all of itself (`IncidentsKept`), and what a request remembers of them (`WorkTrue`), what is credited (`CreditsApart`) stays of one tenant and key. A link is made to the incident and the alert the request remembers, both of its tenant |
| `EventsCreditedOnce` | with `HeldApart`: the event of a commit is in no table yet, so in no alert |
| `OccurrencesAlwaysBacked` | `Counted`: the events credited to an alert are a finite set that only grows, so a count that was read earlier is one they still back |
| `AnswersBacked` | `AllBehind`: a request goes past a row only when its identity is stored, and `raw` only grows. `AllSent`: what is stored under a request's name is the row it was sent, under its source and nonce (`Sent`); everything else was POSTed |
| `LimiterTypeCorrect`, `OneSetsExpiryAlways`, `WindowOnlyRunsDown` | inductive as stated; the third is an action property from the first two: an EXPIRE only ever finds a key without TTL |
| `BurstBounded` | `Burst`: a counter that runs began in some tick of the last window, all that was let in since then is within the counter, and all before it was within the one before; sums of recent admissions change by one with a request (`SumsIncr`) and move by one place with a tick (`SumsShift`) |
| `TypesKept` (accounts) | `TypeInv`: each program point goes with the calls that reach it and with what the request then holds (`PhaseOf`); one lemma per action |
| `RolesKept`, `TokensKept` | `RowsInv`: rows are never removed (`Grows`), so what a token or a running request relies on stays (`TokenStays`, `OthersStay`); a name is used for rows only by the commit of its request (`Unborn`); of a list of permissions each is found, inserted or still to come (`RowsWork`) |
| `NamesApart` | with the former: an insert waits for those who hold the name and looks after them; a registration cannot collide with a role, because a role is created in a tenant that is committed |
| `DeadlocksNeedDisorder` | `WritesInOrder`: what a request has flushed and still has to write is its list cut in two. A request on a circle of waits waits for one that has flushed the name it is about to write, and whose own next name comes later (`CircleGoesUp`): in a common order of the names the next ones would go up for ever, and there is a last one |
| `RotationAlways` | `RotationInv`: a request's name stands for nothing before it has ended (`Fresh`), and a second token of a family, stored or to be stored by a refresh in flight, means that the family is forked |
| `FactorAlways` | `FactorInv`: while a change is on its way undisturbed, the row it loaded is the row it overwrites (`LoadedStands`), and a secret or code has one owner, and none before the request that generates it has ended (`OwnedByOne`, `Ungenerated`); `FactorCommit` is the common step of all commits |
| `PolicyFailsSafe`, `UrgencyMonotone` | the case of a run never changes but for an approval (`CaseStep`); the rest is about the operators: levels only add risk classes (`LevelsGrow`), a score only raises severity and priority (`RiskRaises`) |
| `NothingBeforeApproval` | inductive with the case: what a node executes is approved when it has to be (`ExecutesApproved`), and an approval is never withdrawn |
| `TypesKept`, `StatusIsBacked`, `TracesKept` | one invariant, `RunInv`. Per session (`Held`): the copy keeps what the row it read had and differs from it only in the columns an UPDATE names; a copy that says the run has ended has a final state or an error (`Marked`), so an UPDATE that names the trace writes a marked one, and one that names only the status comes from a row that was marked. A marked row never becomes bare, whatever overlaps. While no UPDATE was computed from a changed row, status and trace also agree (`Sound`). One session at a time holds the row (`RowInv`). `OthersKeep` is the frame, one lemma per action, `CommitWrites` the row a commit leaves |
| `ChunksCoverText`, `ChunkingAdvances` | loop invariant `CutInv`: all positions before `start` that are not blank are shown, and `start` is inside the text while the loop runs |
| `KnowledgeFindable` | `LoadInv`: the queue is the rest of the corpus, the documents that have left it are shown by the list to be upserted, the one at its head satisfies `CutInv` |
| `EditsUnmark` | `DocInv`: a session that is about to write holds a copy of a row that is there; what an UPDATE leaves of `indexed` is what its copy makes of it, or the row's own when the copy does not differ (`UpdatesIndexed`) |
| `KnowledgeTypes` | with the former, and the chunks within their text (`CutTyped`) |
| `AnswersAreBacked` | `AskInv`: the models that have failed are the first of the list, and the one that has answered or raised is the next; the list, a fold over the names, has each of them once and in their order (`CandidatesOnce`) |
| `TypesKept` (detection), `AnchorsStayInKey` | `DetectionInv`: at every stage the event is what normalization makes of the payload, and what has triggered is, in order, what matches among the rules evaluated so far. The rest is about normalization: what each step of it leaves in each column (`NormalizedTyped`), what a cut leaves (`CutTyped`, `EndsAre`) and what the columns hold of their texts (`StoredTexts`); a part of the key stays when others are appended (`AnchorInKey`), and of the text that is cut the first part is left (`CutKeyIs`, `KeyTextHolds`), all of it when it fits (`KeyTextFits`) |
| `RefusedRulesAreInert` | with `DetectionInv`: once all rules are evaluated, what has triggered lists exactly the rules that compile and match, in ascending order, and the decision is made of this list |
| `NoRuleLowersTheRisk` | the worst severity is at least each one's (`WorstIsWorst`), the weight of the merged tactics at least that of each rule's (`FlattenWeighs`), and the score grows with both (`RiskGrows`) |
| `ConditionsKeepTheirPromise` | parser and reference are functions that satisfy their equations (`Parsed`, `Means`); by induction on the length of a span that says something, the parser reads exactly its names and goes on after it, and what it says is between "one of them holds" and "all do" (`Faithful`, `FaithfulStep`); a rule of sound selections then compiles, and matches when its condition says so (`SoundRulesCompile`, `SoundRulesMatch`) |
| `FailedActionsTrigger` | a payload whose action is a word for failure gives an event with that result (`FailedActions`), which the seeded rule selects (`BruteforceIsSound`) |

The assumptions of `Accounts` are `InputsTyped`, `NoneIsNoRow` and, for the deadlocks,
`PermissionsFinite`: a permission name has at most 160 characters (`domain/models.py:113`).
Requests need not be finite. Those of the agents are `CasesFit`, `ForeignAreClients`,
`NoneIsNoRow` and `NoneIsNoValue`, that of the chunks is `ChunkSizes`, which is what
`chunk_document` checks; the knowledge base adds `InputsTyped`, `ModelsTyped` and
`NoneIsNone`. Detection has `WordsKnown`, which says of the words that they include those
the code names, that digits are the names of numbers and that absent is no value; `TextsCut`, that
the opening of a text is a text of the length asked for; `WidthsKnown`, that the columns have
widths and the words of the code fit them; and `CasesTyped`. TLC evaluates all of them in the
runs. `ChunksCoverText` is about the loop alone
(`ChunkSpec`); `KnowledgeFindable` uses its lemmas for the loop inside a load.

Recursive definitions are recursive functions, so that they can be reasoned about. A
function that is chosen by its equation satisfies it only if one exists; `Recursion` shows
that for every equation whose values depend on those at smaller arguments, and states
induction of sets, so that each proof names the set of arguments for which its statement holds.

Only model-checked: liveness (`UploadAnswered`, `BlockedWithExpiryEnds`, `Ends`), which
needs fairness and ENABLED; and `RiskMonotone` and `ArrivalOrderFree`, which are about operators and
are checked over the scores and the three events of the instance. Every other property of the passing
runs is a theorem. Only proved, because they are about a single payload, table, alert or commit, where a
run would add nothing: `FailedActionTriggers`, `NoRuleLowersRisk`, `TriageMonotone` and
`IncidentComplete`.

## 6. Where the code and its documentation differ

Each of these is the single property of a run that ends in a counterexample:

* `AcceptedMeansStored` fails: "Every accepted payload is first stored as a `RawEvent` (immutable
  evidence) before any transformation" (`docs/ARCHITECTURE.md:28`). An accepted row that no rule
  matches is rolled back by the failing audit (`service.py:318`). It fails in a second way: without a
  batch_nonce, a row of another file with the same index and timestamp has the identity of a row that
  is stored (`data_sources.py:228`); it is skipped, counted in the 200, and its payload kept nowhere.
  (`docs/ARCHITECTURE.md:30` says that deduplication uses a hash of the canonical fields.)
* `OneOpenAlert` fails: "alerts sharing the same correlation key ... are merged into a single alert"
  (`correlation.py:3-6`). Two uploads that look for a duplicate at once both create one.
* `OccurrencesExact` fails: "whose occurrence count and last-seen timestamp are updated" (the same
  docstring). The count is a read-modify-write without a lock.
* `BlockedEnds` fails: "Token-bucket rate limiting" (`src/README.md:140`). A counter whose EXPIRE
  never came keeps its client out for ever.
* `ApprovalTimeBoxed` fails: "the request enters a human decision lane, time-boxed by risk class ...
  Timeout means **deny**" (`docs/AUTONOMOUS_AGENTS.md:35`, `docs/SCOPE.md:17`, `autonomy.py:8-11`). The
  decision for L0 and L1 has no `lane_seconds` (`autonomy.py:112`).

The following are actions of the models and visible in their behaviours, without a run of their own. The
properties beside them are worded so that they do not claim what the code does not do:

* "detection conditions using `and`, `or`, `not`, `1 of`, and `all of`" (`detection.py:11-12`): `not` is
  dropped and `and` is read as OR (`detection.py:276`). `NeverMissesWhatItSays` excepts `not` and asks of
  a condition with `and` only that it triggers when it should, not that it stays silent otherwise.
* "Full tenant isolation on every read/write" (`docs/SCOPE.md:35`; also `docs/ARCHITECTURE.md:66`): POST
  `/incidents` links any alert (`incidents.py:56`). `GroupsApart` is about the pipeline's links alone.
* "Actions that can disrupt users, hosts, or network access require approval" (`docs/response-agent.md:20`):
  `block_ip` asks for one only at a critical or high risk (`response.py:47`), `reset_password` not
  at a low one (`response.py:66`). `NothingUnapproved` lists exactly these as free.
* "Documents are chunked, embedded with bge-m3, and indexed into the `vector_chunks` table"
  (`docs/AUTONOMOUS_AGENTS.md:28`): `PgvectorSink.upsert` raises on every vector (`pgvector_client.py:118`), so
  no document with text is; and a session that has found a document empty marks it as indexed
  although another has given it a body (`domain/agents/knowledge.py:88`). `EditUnmarks` is
  about edits, not about that mark.
* "Final state is stored in `AgentRun.trace.final_state`" (`docs/agent-state-persistence.md:27`): a
  session with an older copy fails the run and takes it away (`state.py:78`). `TraceKept` and the
  second part of `StatusBacked` except runs this has happened to.
* "Rate limiting uses Redis token buckets keyed per tenant and endpoint" (`docs/ARCHITECTURE.md:66`):
  the limiter counts in fixed windows, per client address and path.
* Recovery codes are "consumed once" (`docs/authentication-endpoints.md`): two overlapping logins bring a
  spent one back. `FactorSoundAlone` excepts users whose factor two requests change at once.

The sections on the modules list what else is surprising.

## 7. What could follow

1. `AlertPipeline` with data sources that come and go.
2. What two sessions that insert one title at once leave behind in `knowledge_documents`, beyond the
   exception every later upsert of it raises.
3. Proofs of `RiskMonotone` and `ArrivalOrderFree`.

## 8. Not modelled

* Read-only and stub routes, the echo socket, logging, error bodies, migrations, the demo
  seed, the console's rendering and deployment files: no state that two actors share.
* Passwords, JWT signatures and clocks, the window of a TOTP; the text the agents compose
  and the lists they quote; threat hunting, threat intelligence and report generation, which compose
  such text and lists; embeddings, ranking and SQL operators: outside of what a model checker tells
  apart.
* `MemoryService`: an insert and a query by distance that share nothing with any other call.
* The lazy loading of the local models (`infrastructure/embeddings/bge.py`): two threads may
  load a model twice; both get the same one.
* Extraction of observables and the Windows and Okta field tables of normalization: rows
  nothing reads, tables nothing calls.
* Creating and deleting data sources (section 2).

`PROJECT.json` lists every component with its status and every hazard with the
properties that would catch it.
