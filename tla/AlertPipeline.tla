--------------------------- MODULE AlertPipeline ---------------------------
(***************************************************************************)
(* The event pipeline.  A CSV upload (api/v1/routes/data_sources.py) runs  *)
(* process_ingested_event (domain/pipeline/service.py) on its rows one by  *)
(* one: store the raw event, run detection, merge the detection into an    *)
(* alert, group the alert into an incident (correlation.py), audit.        *)
(*                                                                         *)
(* Uploads run concurrently, each with its own database session under READ *)
(* COMMITTED.  raw, alerts, incidents and links are the COMMITTED tables;  *)
(* sess and work are what a running request holds in memory.  A request    *)
(* reads in one action and writes in a later one, so what it read may be   *)
(* stale by the time it writes.  Sessions do not autoflush: what a request *)
(* changes goes to the database with its flush or commit, so row locks are *)
(* held within one action.  Only the raw event is flushed long before its  *)
(* commit: nobody sees it, but it locks the unique index.                  *)
(***************************************************************************)
EXTENDS Naturals, Sequences, FiniteSets

CONSTANTS
    Upload,          \* upload requests; the alert and the incident a request
                     \* creates carry its name (it creates at most one of each)
    Manual,          \* names of the alerts and incidents analysts create
    Tenant,
    Source,          \* csv data sources
    TenantOf,        \* the tenant of each source
    Nonce,           \* values of ?batch_nonce=, "none given" among them
    Timestamp,       \* values of a row's timestamp column
    Key,             \* alert keys: rule, correlation key, actor, source address
    File,            \* uploaded files, parsed: sequences of rows
    DirectEvent,     \* raw events POSTed to /ingestion/events
    AnalystStatus,   \* statuses analysts set through PATCH /alerts
    AnalystSeverity, \* severities analysts give
    RuleSeverity,    \* severities of the tenants' detection rules
    AlertWindow,     \* ALERT_GROUP_WINDOW_SECONDS, in clock ticks
    IncidentWindow,  \* INCIDENT_GROUP_WINDOW_MINUTES, in clock ticks
    MaxClock,        \* bound of the model: the last clock tick
    NoKey,           \* correlation_key IS NULL
    None             \* no such row

VARIABLES
    raw,        \* raw_events
    alerts,     \* alerts: name -> row or None
    incidents,  \* incidents: name -> row or None
    links,      \* incident_alerts, as pairs <<incident, alert>>
    clock,      \* datetime.now(UTC)
    req,        \* the request each upload serves, None before it arrives
    sess,       \* program point, current row and rows processed of each upload
    work,       \* locals of the pipeline call each upload is in
    merged      \* history: the raw events each alert has been credited with

tables == <<raw, alerts, incidents, links, merged>>
vars == <<raw, alerts, incidents, links, clock, req, sess, work, merged>>

----------------------------------------------------------------------------
Severity == {"informational", "low", "medium", "high", "critical"}
AlertStatus == {"new", "triaged", "investigating", "false_positive", "closed"}

\* The alerts and incidents there can be.
AlertId == Upload \cup Manual
IncidentId == Upload \cup Manual

Row == [ts: Timestamp, key: Key, valid: BOOLEAN]
Sid == [source: Source, nonce: Nonce, index: Nat, ts: Timestamp]

RawEvent == [tenant: Tenant, source: Source, sid: Sid, payload: Row,
             by: Upload \cup {None}]
Alert == [tenant: Tenant, key: Key \cup {NoKey}, severity: Severity,
          status: AlertStatus, occ: Nat, lastSeen: Nat, scored: BOOLEAN]
Incident == [tenant: Tenant, created: Nat]
Request == [source: Source, nonce: Nonce, file: File]

Running == {"lookup", "insert", "detect", "dedup", "save", "group", "link"}
Session == [pc: {"idle", "done", "failed", "aborted"} \cup Running,
            idx: Nat \ {0}, processed: Nat]
Work == [severity: Severity, target: AlertId \cup {None}, seen: Nat,
         incident: IncidentId \cup {None}, linked: BOOLEAN]
NoWork == [severity |-> "medium", target |-> None, seen |-> 0,
           incident |-> None, linked |-> FALSE]

ASSUME WindowsAreNat ==
    AlertWindow \in Nat /\ IncidentWindow \in Nat /\ MaxClock \in Nat
ASSUME InputsTyped ==
    /\ TenantOf \in [Source -> Tenant]
    /\ File \subseteq Seq(Row)
    /\ DirectEvent \subseteq [tenant: Tenant, source: Source, sid: Sid,
                              payload: Row, by: {None}]
    /\ AnalystStatus \subseteq AlertStatus
    /\ AnalystSeverity \subseteq Severity
    /\ RuleSeverity \subseteq Severity
ASSUME NoneIsNoRow ==
    /\ None \notin Upload \cup Manual \cup Alert \cup Incident \cup Request
    /\ NoKey \notin Key
    /\ Upload \cap Manual = {}

----------------------------------------------------------------------------
\* The row an upload is working on, and the raw event it makes of it: the
\* source_event_id is csv:<source>:<nonce>:<row index>:<timestamp>.
RowOf(u) == req[u].file[sess[u].idx]

EventOf(u) ==
    [tenant |-> TenantOf[req[u].source], source |-> req[u].source,
     sid |-> [source |-> req[u].source, nonce |-> req[u].nonce,
              index |-> sess[u].idx, ts |-> RowOf(u).ts],
     payload |-> RowOf(u), by |-> u]

\* uq_raw_events_tenant_source_event.
SameIdentity(e, f) == e.tenant = f.tenant /\ e.sid = f.sid

\* The lookup that opens process_ingested_event: by data source as well.
AlreadyIngested(e) == \E r \in raw : SameIdentity(r, e) /\ r.source = e.source

\* Mutant: the unique index is per data source, as the lookup is.
IdentityTakenPerSource(e) == \E r \in raw : SameIdentity(r, e) /\ r.source = e.source

\* The unique index refuses the insert of a raw event.
IdentityTaken(e) == \E r \in raw : SameIdentity(r, e)

\* Mutant: a request that was cut off never gives its transaction back.
HoldsRawEventForever(v) == sess[v].pc \in {"detect", "dedup", "save", "aborted"}

\* The raw event is flushed and not committed.
HoldsRawEvent(v) == sess[v].pc \in {"detect", "dedup", "save"}

\* Mutant: the index does not see what is not committed.
InsertWaitsForNobody(e) == FALSE

\* Another open transaction has inserted the same identity: the insert waits.
InsertWaits(e) == \E v \in Upload : HoldsRawEvent(v) /\ SameIdentity(EventOf(v), e)

\* Mutant: duplicates are looked for in every tenant.
OpenDuplicatesOfAll(tenant, key) ==
    {a \in AlertId : /\ alerts[a] # None
                     /\ alerts[a].key = key
                     /\ alerts[a].status \in {"new", "triaged"}
                     /\ alerts[a].lastSeen + AlertWindow >= clock}

\* The alerts create_or_update_alert would reuse.
OpenDuplicates(tenant, key) ==
    {a \in AlertId : /\ alerts[a] # None
                     /\ alerts[a].tenant = tenant
                     /\ alerts[a].key = key
                     /\ alerts[a].status \in {"new", "triaged"}
                     /\ alerts[a].lastSeen + AlertWindow >= clock}

\* _severity_enum_for_band(_severity_band(s)): the one severity that stands
\* for a whole band in the incident query.
BandSeverity(s) == IF s \in {"high", "critical"} THEN "high" ELSE "medium"

\* Mutant: candidates are looked for in every tenant.
CandidatesOfAll(tenant) ==
    {i \in IncidentId :
        /\ incidents[i] # None
        /\ \E a \in AlertId : /\ <<i, a>> \in links
                              /\ alerts[a].key # NoKey
                              /\ alerts[a].lastSeen + IncidentWindow >= clock}

\* candidate_query: the tenant's incidents (no code closes one) with a
\* recently seen pipeline alert.
Candidates(tenant) ==
    {i \in IncidentId :
        /\ incidents[i] # None
        /\ incidents[i].tenant = tenant
        /\ \E a \in AlertId : /\ <<i, a>> \in links
                              /\ alerts[a].key # NoKey
                              /\ alerts[a].lastSeen + IncidentWindow >= clock}

\* The per-candidate query joins nothing to Alert: it finds a row as soon as
\* ANY alert, of any tenant, has the band's severity.
BandSeen(severity) ==
    \E a \in AlertId : alerts[a] # None /\ alerts[a].severity = BandSeverity(severity)

----------------------------------------------------------------------------
Init ==
    /\ raw = {}
    /\ alerts = [a \in AlertId |-> None]
    /\ incidents = [i \in IncidentId |-> None]
    /\ links = {}
    /\ clock = 0
    /\ req = [u \in Upload |-> None]
    /\ sess = [u \in Upload |-> [pc |-> "idle", idx |-> 1, processed |-> 0]]
    /\ work = [u \in Upload |-> NoWork]
    /\ merged = [a \in AlertId |-> {}]

\* The request ends: with a result, an exception (500) or a crash.  Whatever
\* its transaction had not committed is rolled back.
End(u, how) ==
    /\ sess' = [sess EXCEPT ![u].pc = how]
    /\ work' = [work EXCEPT ![u] = NoWork]

GoTo(u, pc) == sess' = [sess EXCEPT ![u].pc = pc]

\* upload_csv_events up to its loop, for a request its checks accept.
Receive(u) ==
    /\ sess[u].pc = "idle"
    /\ \E r \in Request :
         /\ req' = [req EXCEPT ![u] = r]
         /\ sess' = [sess EXCEPT ![u] =
                       [pc |-> IF r.file = <<>> THEN "done" ELSE "lookup",
                        idx |-> 1, processed |-> 0]]
    /\ UNCHANGED <<tables, clock, work>>

\* validate_raw_payload raises IngestionValidationError.
InvalidRow(u) ==
    /\ sess[u].pc = "lookup"
    /\ ~RowOf(u).valid
    /\ End(u, "failed")
    /\ UNCHANGED <<tables, clock, req>>

\* Mutant: the loop does not stop at the last row.
SkipRowOverruns(u) ==
    /\ sess[u].pc = "lookup"
    /\ RowOf(u).valid
    /\ AlreadyIngested(EventOf(u))
    /\ sess' = [sess EXCEPT ![u].processed = @ + 1, ![u].idx = @ + 1]
    /\ UNCHANGED <<tables, clock, req, work>>

\* The raw event is already there: an early return, and the next row.
SkipRow(u) ==
    /\ sess[u].pc = "lookup"
    /\ RowOf(u).valid
    /\ AlreadyIngested(EventOf(u))
    /\ sess' = [sess EXCEPT ![u].processed = @ + 1,
                            ![u].idx = IF @ < Len(req[u].file) THEN @ + 1 ELSE @,
                            ![u].pc = IF sess[u].idx < Len(req[u].file)
                                      THEN "lookup" ELSE "done"]
    /\ UNCHANGED <<tables, clock, req, work>>

LookupMisses(u) ==
    /\ sess[u].pc = "lookup"
    /\ RowOf(u).valid
    /\ ~AlreadyIngested(EventOf(u))
    /\ GoTo(u, "insert")
    /\ UNCHANGED <<tables, clock, req, work>>

\* Mutant: the raw event is committed at once, ahead of its alert.
InsertRawEventCommits(u) ==
    /\ sess[u].pc = "insert"
    /\ ~InsertWaits(EventOf(u))
    /\ ~IdentityTaken(EventOf(u))
    /\ raw' = raw \cup {EventOf(u)}
    /\ GoTo(u, "detect")
    /\ UNCHANGED <<alerts, incidents, links, merged, clock, req, work>>

\* session.add(raw_event); flush().
InsertRawEvent(u) ==
    /\ sess[u].pc = "insert"
    /\ ~InsertWaits(EventOf(u))
    /\ ~IdentityTaken(EventOf(u))
    /\ GoTo(u, "detect")
    /\ UNCHANGED <<tables, clock, req, work>>

\* The flush raises IntegrityError: the identity was committed since the
\* lookup, or under another data source.
InsertConflicts(u) ==
    /\ sess[u].pc = "insert"
    /\ IdentityTaken(EventOf(u))
    /\ End(u, "failed")
    /\ UNCHANGED <<tables, clock, req>>

\* Mutant: nothing triggered is a success, and nothing is committed.
NoRuleTriggeredSilently(u) ==
    /\ sess[u].pc = "detect"
    /\ sess' = [sess EXCEPT ![u].processed = @ + 1,
                            ![u].idx = IF @ < Len(req[u].file) THEN @ + 1 ELSE @,
                            ![u].pc = IF sess[u].idx < Len(req[u].file)
                                      THEN "lookup" ELSE "done"]
    /\ UNCHANGED <<tables, clock, req, work>>

\* evaluate_event_rules triggers nothing (or a stage raises): _audit is the
\* next call, and raises TypeError too (AuditLog has no trace_id).
NoRuleTriggered(u) ==
    /\ sess[u].pc = "detect"
    /\ End(u, "failed")
    /\ UNCHANGED <<tables, clock, req>>

RuleTriggered(u) ==
    /\ sess[u].pc = "detect"
    /\ \E s \in RuleSeverity : work' = [work EXCEPT ![u].severity = s]
    /\ GoTo(u, "dedup")
    /\ UNCHANGED <<tables, clock, req>>

\* create_or_update_alert: the SELECT of the newest open duplicate.
SelectAlert(u) ==
    LET e == EventOf(u)
        found == OpenDuplicates(e.tenant, e.payload.key)
    IN  /\ sess[u].pc = "dedup"
        /\ \/ /\ found = {}
              /\ UNCHANGED work
           \/ \E a \in found :
                /\ \A b \in found : alerts[b].lastSeen <= alerts[a].lastSeen
                /\ work' = [work EXCEPT ![u].target = a,
                                        ![u].seen = alerts[a].occ,
                                        ![u].severity = alerts[a].severity]
        /\ GoTo(u, "save")
        /\ UNCHANGED <<tables, clock, req>>

\* No duplicate: commit a new alert, and with it the raw event.  The log call
\* after the commit reads severity.value of a plain string: AttributeError.
CreateAlert(u) ==
    LET e == EventOf(u)
    IN  /\ sess[u].pc = "save"
        /\ work[u].target = None
        /\ raw' = raw \cup {e}
        /\ alerts' = [alerts EXCEPT ![u] =
                        [tenant |-> e.tenant, key |-> e.payload.key,
                         severity |-> work[u].severity, status |-> "new",
                         occ |-> 1, lastSeen |-> clock, scored |-> FALSE]]
        /\ merged' = [merged EXCEPT ![u] = @ \cup {e}]
        /\ End(u, "failed")
        /\ UNCHANGED <<incidents, links, clock, req>>

\* Mutant: the severity is written back as it was read.
UpdateAlertWritesBack(u) ==
    LET e == EventOf(u)
        a == work[u].target
    IN  /\ sess[u].pc = "save"
        /\ a # None
        /\ raw' = raw \cup {e}
        /\ alerts' = [alerts EXCEPT ![a].occ = work[u].seen + 1,
                                    ![a].lastSeen = clock,
                                    ![a].severity = work[u].severity]
        /\ merged' = [merged EXCEPT ![a] = @ \cup {e}]
        /\ GoTo(u, "group")
        /\ UNCHANGED <<incidents, links, clock, req, work>>

\* Mutant: the alert is committed in a session of its own, the event later.
UpdateAlertAlone(u) ==
    LET a == work[u].target
    IN  /\ sess[u].pc = "save"
        /\ a # None
        /\ alerts' = [alerts EXCEPT ![a].occ = work[u].seen + 1,
                                    ![a].lastSeen = clock]
        /\ GoTo(u, "group")
        /\ UNCHANGED <<raw, incidents, links, merged, clock, req, work>>

\* A duplicate: commit last_seen_at and the count READ BEFORE plus one, and
\* with them the raw event.  No other column of the alert is written.
UpdateAlert(u) ==
    LET e == EventOf(u)
        a == work[u].target
    IN  /\ sess[u].pc = "save"
        /\ a # None
        /\ raw' = raw \cup {e}
        /\ alerts' = [alerts EXCEPT ![a].occ = work[u].seen + 1,
                                    ![a].lastSeen = clock]
        /\ merged' = [merged EXCEPT ![a] = @ \cup {e}]
        /\ GoTo(u, "group")
        /\ UNCHANGED <<incidents, links, clock, req, work>>

\* group_alert_into_incident: the queries.  The band is that of the severity
\* the session loaded in SelectAlert.
SelectIncident(u) ==
    LET found == IF BandSeen(work[u].severity)
                 THEN Candidates(EventOf(u).tenant) ELSE {}
    IN  /\ sess[u].pc = "group"
        /\ \/ /\ found = {}
              /\ UNCHANGED work
           \/ \E i \in found :
                /\ \A j \in found : incidents[j].created <= incidents[i].created
                /\ work' = [work EXCEPT ![u].incident = i,
                                        ![u].linked = <<i, work[u].target>> \in links]
        /\ GoTo(u, "link")
        /\ UNCHANGED <<tables, clock, req>>

\* Attach to the incident found, commit the link and the risk score; _audit
\* then raises.
AttachToIncident(u) ==
    LET link == <<work[u].incident, work[u].target>>
    IN  /\ sess[u].pc = "link"
        /\ work[u].incident # None
        /\ work[u].linked \/ link \notin links
        /\ links' = links \cup {link}
        /\ alerts' = [alerts EXCEPT ![work[u].target].scored = TRUE]
        /\ End(u, "failed")
        /\ UNCHANGED <<raw, incidents, merged, clock, req>>

\* The same, but another request has committed that link since:
\* uq_incident_alerts_incident_alert refuses it, and the score is lost.
AttachConflicts(u) ==
    LET link == <<work[u].incident, work[u].target>>
    IN  /\ sess[u].pc = "link"
        /\ work[u].incident # None
        /\ ~work[u].linked /\ link \in links
        /\ End(u, "failed")
        /\ UNCHANGED <<tables, clock, req>>

\* No incident found: create one, link it, commit both and the score; _audit
\* then raises.
OpenIncident(u) ==
    /\ sess[u].pc = "link"
    /\ work[u].incident = None
    /\ incidents' = [incidents EXCEPT ![u] =
                       [tenant |-> EventOf(u).tenant, created |-> clock]]
    /\ links' = links \cup {<<u, work[u].target>>}
    /\ alerts' = [alerts EXCEPT ![work[u].target].scored = TRUE]
    /\ End(u, "failed")
    /\ UNCHANGED <<raw, merged, clock, req>>

\* The worker crashes, the client goes away or the database fails: the
\* session is closed and its open transaction rolled back.
Abort(u) ==
    /\ sess[u].pc \in Running
    /\ End(u, "aborted")
    /\ UNCHANGED <<tables, clock, req>>

----------------------------------------------------------------------------
\* POST /ingestion/events: insert and commit, or IntegrityError.
IngestDirect(e) ==
    /\ ~InsertWaits(e)
    /\ ~IdentityTaken(e)
    /\ raw' = raw \cup {e}
    /\ UNCHANGED <<alerts, incidents, links, merged, clock, req, sess, work>>

\* PATCH /alerts/{id}: any status to any status.
PatchAlert(a) ==
    /\ alerts[a] # None
    /\ \E status \in AnalystStatus \cup {alerts[a].status},
          severity \in AnalystSeverity \cup {alerts[a].severity} :
         alerts' = [alerts EXCEPT ![a].status = status, ![a].severity = severity]
    /\ UNCHANGED <<raw, incidents, links, merged, clock, req, sess, work>>

\* POST /alerts: no correlation key and no last_seen_at.
CreateManualAlert(m) ==
    /\ alerts[m] = None
    /\ \E tenant \in Tenant, severity \in AnalystSeverity :
         alerts' = [alerts EXCEPT ![m] =
                     [tenant |-> tenant, key |-> NoKey, severity |-> severity,
                      status |-> "new", occ |-> 1, lastSeen |-> 0,
                      scored |-> FALSE]]
    /\ UNCHANGED <<raw, incidents, links, merged, clock, req, sess, work>>

\* POST /incidents, with the alerts the analyst lists (a foreign key asks
\* only that they exist).
CreateManualIncident(m) ==
    /\ incidents[m] = None
    /\ \E tenant \in Tenant, listed \in SUBSET {a \in AlertId : alerts[a] # None} :
         /\ incidents' = [incidents EXCEPT ![m] =
                            [tenant |-> tenant, created |-> clock]]
         /\ links' = links \cup ({m} \X listed)
    /\ UNCHANGED <<raw, alerts, merged, clock, req, sess, work>>

Tick ==
    /\ clock < MaxClock
    /\ clock' = clock + 1
    /\ UNCHANGED <<tables, req, sess, work>>

----------------------------------------------------------------------------
Process(u) ==
    \/ InvalidRow(u) \/ SkipRow(u) \/ LookupMisses(u)
    \/ InsertRawEvent(u) \/ InsertConflicts(u)
    \/ NoRuleTriggered(u) \/ RuleTriggered(u)
    \/ SelectAlert(u) \/ CreateAlert(u) \/ UpdateAlert(u)
    \/ SelectIncident(u) \/ AttachToIncident(u) \/ AttachConflicts(u)
    \/ OpenIncident(u)

Analyst ==
    \/ \E e \in DirectEvent : IngestDirect(e)
    \/ \E a \in AlertId : PatchAlert(a)
    \/ \E m \in Manual : CreateManualAlert(m) \/ CreateManualIncident(m)

Next ==
    \/ \E u \in Upload : Receive(u) \/ Process(u) \/ Abort(u)
    \/ Analyst
    \/ Tick

\* The event loop schedules every running request and the database answers
\* it; nothing obliges a client, an analyst or the clock.
Spec == Init /\ [][Next]_vars /\ \A u \in Upload : WF_vars(Process(u))

----------------------------------------------------------------------------
\* The tables, the requests and what they hold in memory have their types, and
\* a running request is at a row of its file.
TypeOK ==
    /\ raw \subseteq RawEvent
    /\ alerts \in [AlertId -> Alert \cup {None}]
    /\ incidents \in [IncidentId -> Incident \cup {None}]
    /\ links \subseteq IncidentId \X AlertId
    /\ clock \in 0 .. MaxClock
    /\ req \in [Upload -> Request \cup {None}]
    /\ sess \in [Upload -> Session]
    /\ work \in [Upload -> Work]
    /\ merged \in [AlertId -> SUBSET RawEvent]
    /\ \A u \in Upload : sess[u].pc \in Running =>
            req[u] # None /\ sess[u].idx <= Len(req[u].file)

\* Re-uploads, concurrent uploads and direct ingestion never store one event
\* twice (docs/SCOPE.md: "re-uploads never create duplicate evidence"), even
\* when two requests have both looked it up in vain.
EvidenceUnique ==
    \A e, f \in raw : SameIdentity(e, f) => e = f

\* An event an upload stored is credited to exactly one alert, and no alert is
\* credited with an event that is not stored: the commit of
\* create_or_update_alert stores both, so a crash cannot separate them and the
\* rows a retry skips have had their effect.
CreditedOnce ==
    /\ \A a \in AlertId : merged[a] \subseteq raw
    /\ \A a, b \in AlertId : a # b => merged[a] \cap merged[b] = {}
    /\ \A e \in raw : e.by # None => \E a \in AlertId : e \in merged[a]

\* An alert of the pipeline never claims more occurrences than events: the
\* count written is one more than a count that was read earlier, and updates
\* in between can only have made it stale towards too few.
OccurrencesBacked ==
    \A a \in Upload : alerts[a] # None =>
        alerts[a].occ \in 1 .. Cardinality(merged[a])

\* The incident the pipeline opens, its first link and the alert's risk
\* explanation are committed together: no crash or failing audit leaves an
\* empty incident, or one opened for an alert nobody scored.
IncidentComplete ==
    \A i \in Upload : incidents[i] # None =>
        \E a \in AlertId : /\ <<i, a>> \in links
                            /\ alerts[a] # None
                            /\ alerts[a].scored

\* What an alert is credited with is of its tenant and its key, although the
\* alert was looked up long before the event is committed.
CreditsApart ==
    \A a \in AlertId : \A e \in merged[a] :
        /\ alerts[a] # None
        /\ e.tenant = alerts[a].tenant
        /\ e.payload.key = alerts[a].key

\* The pipeline never groups an alert into an incident of another tenant,
\* whoever created the incident and whatever other tenants' alerts an analyst
\* has put into it (POST /incidents asks for nobody's tenant, against
\* docs/SCOPE.md:35), although the band query of the grouping looks at every
\* tenant's alerts.
GroupsApart ==
    [][\A i \in IncidentId, a \in AlertId :
         (sess' # sess /\ <<i, a>> \in links' \ links)
         => incidents'[i].tenant = alerts'[a].tenant]_vars

\* The raw event an open transaction has flushed is committed nowhere else and
\* flushed by no other transaction: the unique index alone serialises uploads
\* of one file.
HeldApart ==
    \A u \in Upload : HoldsRawEvent(u) =>
        /\ ~IdentityTaken(EventOf(u))
        /\ \A v \in Upload \ {u} :
              HoldsRawEvent(v) => ~SameIdentity(EventOf(u), EventOf(v))

\* What a request remembers of the rows it read still holds, as far as it
\* matters, when it writes: the alert is one of the pipeline, of the event's
\* tenant and key, credited with all it was counted for; the incident is there
\* and of that tenant.
LocalsStillTrue ==
    \A u \in Upload :
        /\ sess[u].pc \in {"save", "group", "link"} /\ work[u].target # None =>
              /\ work[u].target \in Upload
              /\ alerts[work[u].target] # None
              /\ alerts[work[u].target].tenant = EventOf(u).tenant
              /\ alerts[work[u].target].key = EventOf(u).payload.key
              /\ work[u].seen <= Cardinality(merged[work[u].target])
        /\ sess[u].pc \in {"group", "link"} => work[u].target # None
        /\ sess[u].pc = "link" /\ work[u].incident # None =>
              /\ incidents[work[u].incident] # None
              /\ incidents[work[u].incident].tenant = EventOf(u).tenant

\* What stands under the identity of row i of the file of request u.
HoldsIdentity(r, u, i) ==
    /\ r.tenant = TenantOf[req[u].source]
    /\ r.sid = [source |-> req[u].source, nonce |-> req[u].nonce, index |-> i,
                ts |-> req[u].file[i].ts]

\* A 200 answer ("processed": n) counts every row of the file, and every one
\* of them is stored as it was sent, by whoever came first, unless its identity
\* was taken: by another request for that source with the same batch_nonce, or
\* by an event POSTed directly under that id.  So a request whose batch_nonce
\* is its own has stored just what it counts.
DoneMeansStored ==
    \A u \in Upload : sess[u].pc = "done" =>
        /\ sess[u].processed = Len(req[u].file)
        /\ \A i \in 1 .. Len(req[u].file) :
              \E r \in raw :
                 /\ HoldsIdentity(r, u, i)
                 /\ \/ r.payload = req[u].file[i]
                    \/ r.by = None
                    \/ /\ r.by \in Upload \ {u}
                       /\ req[r.by].source = req[u].source
                       /\ req[r.by].nonce = req[u].nonce

\* A request writes an alert long after it read it, and never undoes what an
\* analyst decided in between: only a PATCH, which no request takes part in,
\* changes the status or the severity of an alert.
AnalystDecides ==
    [][\A a \in AlertId :
         (/\ alerts[a] # None
          /\ \/ alerts'[a].status # alerts[a].status
             \/ alerts'[a].severity # alerts[a].severity)
         => sess' = sess]_vars

\* The pipeline keeps the promise of the evidence ledger.
Ledger == INSTANCE EvidenceLedger
            WITH Account <- AlertId, ledger <- raw, tally <- merged
ImplementsLedger == Ledger!Spec

\* Every upload that arrived is answered, although it may wait for the raw
\* event another one has not committed: the waits never form a cycle.
UploadAnswered ==
    \A u \in Upload : sess[u].pc # "idle" ~> sess[u].pc \in {"done", "failed", "aborted"}

----------------------------------------------------------------------------
(* What the documentation says and the code does not do.                   *)

\* "Every accepted payload is first stored as a RawEvent (immutable evidence)
\* ..., preserving the forensic original" (docs/ARCHITECTURE.md): by the time a
\* request has been answered, each row that it has reached and validation has
\* accepted is in raw_events as it was sent.
AcceptedMeansStored ==
    \A u \in Upload : sess[u].pc \in {"done", "failed"} =>
        \A i \in DOMAIN req[u].file : i <= sess[u].idx /\ req[u].file[i].valid =>
           \E r \in raw : HoldsIdentity(r, u, i) /\ r.payload = req[u].file[i]

\* "alerts sharing the same correlation key ... within
\* ALERT_GROUP_WINDOW_SECONDS are merged into a single alert"
\* (correlation.py): no two open alerts of one tenant and key are that close.
OneOpenAlert ==
    \A a, b \in Upload :
        (/\ a # b /\ alerts[a] # None /\ alerts[b] # None
         /\ alerts[a].tenant = alerts[b].tenant /\ alerts[a].key = alerts[b].key
         /\ {alerts[a].status, alerts[b].status} \subseteq {"new", "triaged"})
        => \/ alerts[a].lastSeen + AlertWindow < alerts[b].lastSeen
           \/ alerts[b].lastSeen + AlertWindow < alerts[a].lastSeen

\* "a single alert whose occurrence count ... [is] updated" (correlation.py):
\* the count is the number of events merged into the alert.
OccurrencesExact ==
    \A a \in Upload : alerts[a] # None => alerts[a].occ = Cardinality(merged[a])
=============================================================================
