------------------------ MODULE AlertPipeline_proofs ------------------------
(* Theorems about AlertPipeline, for every value of its constants.         *)
EXTENDS AlertPipeline, FiniteSetTheorems, TLAPS

----------------------------------------------------------------------------
(* What the upload handler is working on.                                  *)

LEMMA EventTyped ==
    ASSUME TypeOK, NEW u \in Upload, sess[u].pc \in Running
    PROVE  /\ req[u] \in Request
           /\ RowOf(u) \in Row
           /\ EventOf(u) \in RawEvent
           /\ EventOf(u).by = u
<1>1. req[u] \in Request /\ sess[u].idx \in 1 .. Len(req[u].file)
  BY DEF TypeOK, Session
<1>2. req[u].file \in Seq(Row)
  BY <1>1, InputsTyped DEF Request
<1>3. RowOf(u) \in Row
  BY <1>1, <1>2 DEF RowOf
<1> QED
  BY <1>1, <1>2, <1>3, InputsTyped DEF EventOf, RawEvent, Request, Row, Sid

----------------------------------------------------------------------------
(* Types.  A request updates the alert it remembers without looking again, *)
(* so the type of alerts rests on that alert still being there.            *)

TargetsExist ==
    \A u \in Upload :
        /\ work[u].target # None => alerts[work[u].target] # None
        /\ sess[u].pc \in {"group", "link"} => work[u].target # None

TypeInv == TypeOK /\ TargetsExist

LEMMA TypeInit == Init => TypeInv
BY WindowsAreNat, NoneIsNoRow DEF Init, TypeInv, TypeOK, TargetsExist, Session, Work, NoWork,
   AlertId, IncidentId, Running, Severity

\* The part of TypeInv about the tables, and the part about the requests.
TablesTyped ==
    /\ raw \subseteq RawEvent
    /\ alerts \in [AlertId -> Alert \cup {None}]
    /\ incidents \in [IncidentId -> Incident \cup {None}]
    /\ links \subseteq IncidentId \X AlertId
    /\ clock \in 0 .. MaxClock
    /\ merged \in [AlertId -> SUBSET RawEvent]

SessionsTyped ==
    /\ req \in [Upload -> Request \cup {None}]
    /\ sess \in [Upload -> Session]
    /\ \A u \in Upload : sess[u].pc \in Running =>
            req[u] # None /\ sess[u].idx <= Len(req[u].file)

WorkTyped == work \in [Upload -> Work] /\ TargetsExist

LEMMA TypeParts == TypeInv <=> TablesTyped /\ SessionsTyped /\ WorkTyped
BY DEF TypeInv, TypeOK, TablesTyped, SessionsTyped, WorkTyped

\* A request moves on to another program point of the same row.
LEMMA MoveTyped ==
    ASSUME SessionsTyped, NEW u \in Upload, NEW p \in Running, sess[u].pc \in Running,
           GoTo(u, p), req' = req
    PROVE  SessionsTyped'
BY DEF SessionsTyped, GoTo, Session

\* A request ends and forgets what it remembered.
LEMMA EndTyped ==
    ASSUME SessionsTyped, WorkTyped, NEW u \in Upload,
           NEW how \in {"failed", "aborted"}, End(u, how), req' = req,
           \A a \in AlertId : alerts[a] # None => alerts'[a] # None
    PROVE  SessionsTyped' /\ WorkTyped'
<1>1. SessionsTyped'
  BY ZenonT(30) DEF SessionsTyped, End, Session, Running
<1>2. NoWork \in Work
  BY DEF NoWork, Work, Severity
<1>3. work' \in [Upload -> Work]
  BY <1>2 DEF WorkTyped, End
<1>4. ASSUME NEW v \in Upload PROVE TargetsExist!(v)'
  <2>1. CASE v = u
    BY <2>1, <1>2 DEF End, NoWork, SessionsTyped, WorkTyped, Session
  <2>2. CASE v # u
    BY <2>2, NoneIsNoRow DEF End, SessionsTyped, WorkTyped, TargetsExist, Work
  <2> QED BY <2>1, <2>2
<1> QED BY <1>1, <1>3, <1>4 DEF WorkTyped, TargetsExist

\* A request remembers something, or an alert it remembers is written.
LEMMA RememberTyped ==
    ASSUME SessionsTyped, WorkTyped, NEW u \in Upload, NEW p \in Running, GoTo(u, p),
           NEW w \in Work, work' = [work EXCEPT ![u] = w],
           w.target # None => alerts'[w.target] # None,
           p \in {"group", "link"} => w.target # None,
           \A a \in AlertId : alerts[a] # None => alerts'[a] # None
    PROVE  WorkTyped'
<1>1. work' \in [Upload -> Work]
  BY DEF WorkTyped
<1>2. ASSUME NEW v \in Upload PROVE TargetsExist!(v)'
  <2>1. CASE v = u
    BY <2>1 DEF GoTo, SessionsTyped, WorkTyped, Session
  <2>2. CASE v # u
    BY <2>2, NoneIsNoRow DEF GoTo, SessionsTyped, WorkTyped, TargetsExist, Work
  <2> QED BY <2>1, <2>2
<1> QED BY <1>1, <1>2 DEF WorkTyped, TargetsExist

\* The alert columns the pipeline and a PATCH write keep the row an alert.
LEMMA AlertColumns ==
    ASSUME NEW r \in Alert
    PROVE  /\ \A n, t \in Nat : [r EXCEPT !.occ = n, !.lastSeen = t] \in Alert
           /\ [r EXCEPT !.scored = TRUE] \in Alert
           /\ \A x \in AlertStatus, y \in Severity :
                 [r EXCEPT !.status = x, !.severity = y] \in Alert
BY DEF Alert

\* What SelectIncident remembers is a candidate.
LEMMA CandidateRemembered ==
    ASSUME NEW u \in Upload, SelectIncident(u), work' # work
    PROVE  \E i \in Candidates(EventOf(u).tenant) :
              work' = [work EXCEPT ![u].incident = i,
                                   ![u].linked = <<i, work[u].target>> \in links]
<1>1. CASE BandSeen(work[u].severity)
  BY <1>1 DEF SelectIncident
<1>2. CASE ~BandSeen(work[u].severity)
  BY <1>2 DEF SelectIncident
<1> QED BY <1>1, <1>2

LEMMA TypeStep == TypeInv /\ [Next]_vars => TypeInv'
<1> SUFFICES ASSUME TypeInv, [Next]_vars PROVE TypeInv'
  OBVIOUS
<1>0. TablesTyped /\ SessionsTyped /\ WorkTyped
  BY TypeParts
<1>p. TablesTyped' /\ SessionsTyped' /\ WorkTyped' => TypeInv'
  BY DEF TypeInv, TypeOK, TablesTyped, SessionsTyped, WorkTyped
<1>1. ASSUME NEW u \in Upload, Receive(u) PROVE TypeInv'
  <2>1. PICK r \in Request :
          /\ req' = [req EXCEPT ![u] = r]
          /\ sess' = [sess EXCEPT ![u] =
                        [pc |-> IF r.file = <<>> THEN "done" ELSE "lookup",
                         idx |-> 1, processed |-> 0]]
    BY <1>1 DEF Receive
  <2>2. r.file \in Seq(Row) /\ r # None
    BY InputsTyped, NoneIsNoRow DEF Request
  <2>3. r.file # <<>> => Len(r.file) >= 1
    BY <2>2
  <2>4. SessionsTyped'
    BY <1>0, <2>1, <2>2, <2>3 DEF SessionsTyped, Session, Running
  <2> QED BY <1>0, <1>p, <1>1, <2>1, <2>4 DEF Receive, tables, TablesTyped, WorkTyped, TargetsExist, SessionsTyped, Session
<1>2. ASSUME NEW u \in Upload, InvalidRow(u) PROVE TypeInv'
  <2>1. End(u, "failed") /\ UNCHANGED <<tables, clock, req>>
    BY <1>2 DEF InvalidRow
  <2>2. TablesTyped'
    BY <1>0, <2>1 DEF tables, TablesTyped
  <2> QED BY <1>0, <1>p, <2>1, <2>2, EndTyped DEF tables
<1>3. ASSUME NEW u \in Upload, SkipRow(u) PROVE TypeInv'
  <2>1. req[u] # None /\ sess[u].idx <= Len(req[u].file) /\ req[u] \in Request
    BY <1>0, <1>3 DEF SkipRow, SessionsTyped, Running
  <2>2. Len(req[u].file) \in Nat
    BY <2>1, InputsTyped DEF Request
  <2>3. SessionsTyped'
    BY <1>0, <1>3, <2>1, <2>2 DEF SkipRow, SessionsTyped, Session, Running
  <2>4. WorkTyped'
    BY <1>0, <1>3 DEF SkipRow, WorkTyped, TargetsExist, tables, SessionsTyped, Session
  <2> QED BY <1>0, <1>p, <1>3, <2>3, <2>4 DEF SkipRow, tables, TablesTyped
<1>4. ASSUME NEW u \in Upload, LookupMisses(u) PROVE TypeInv'
  <2>1. GoTo(u, "insert") /\ UNCHANGED <<tables, clock, req, work>>
    BY <1>4 DEF LookupMisses
  <2>2. SessionsTyped'
    BY <1>0, <1>4, <2>1, MoveTyped DEF LookupMisses, Running
  <2>3. WorkTyped'
    BY <1>0, <2>1 DEF GoTo, WorkTyped, TargetsExist, tables, SessionsTyped, Session
  <2> QED BY <1>0, <1>p, <2>1, <2>2, <2>3 DEF tables, TablesTyped
<1>5. ASSUME NEW u \in Upload, InsertRawEvent(u) PROVE TypeInv'
  <2>1. GoTo(u, "detect") /\ UNCHANGED <<tables, clock, req, work>>
    BY <1>5 DEF InsertRawEvent
  <2>2. SessionsTyped'
    BY <1>0, <1>5, <2>1, MoveTyped DEF InsertRawEvent, Running
  <2>3. WorkTyped'
    BY <1>0, <2>1 DEF GoTo, WorkTyped, TargetsExist, tables, SessionsTyped, Session
  <2> QED BY <1>0, <1>p, <2>1, <2>2, <2>3 DEF tables, TablesTyped
<1>6. ASSUME NEW u \in Upload, InsertConflicts(u) PROVE TypeInv'
  <2>1. End(u, "failed") /\ UNCHANGED <<tables, clock, req>>
    BY <1>6 DEF InsertConflicts
  <2>2. TablesTyped'
    BY <1>0, <2>1 DEF tables, TablesTyped
  <2> QED BY <1>0, <1>p, <2>1, <2>2, EndTyped DEF tables
<1>7. ASSUME NEW u \in Upload, NoRuleTriggered(u) PROVE TypeInv'
  <2>1. End(u, "failed") /\ UNCHANGED <<tables, clock, req>>
    BY <1>7 DEF NoRuleTriggered
  <2>2. TablesTyped'
    BY <1>0, <2>1 DEF tables, TablesTyped
  <2> QED BY <1>0, <1>p, <2>1, <2>2, EndTyped DEF tables
<1>8. ASSUME NEW u \in Upload, RuleTriggered(u) PROVE TypeInv'
  <2>1. SessionsTyped'
    BY <1>0, <1>8, MoveTyped DEF RuleTriggered, Running
  <2>2. PICK s \in Severity : work' = [work EXCEPT ![u] = [work[u] EXCEPT !.severity = s]]
    BY <1>8, InputsTyped DEF RuleTriggered
  <2>3. [work[u] EXCEPT !.severity = s] \in Work
    BY <1>0 DEF WorkTyped, Work
  <2>4. WorkTyped'
    BY <1>0, <1>8, <2>2, <2>3, RememberTyped
       DEF RuleTriggered, tables, Running, WorkTyped, TargetsExist, Work
  <2> QED BY <1>0, <1>p, <1>8, <2>1, <2>4 DEF RuleTriggered, tables, TablesTyped
<1>9. ASSUME NEW u \in Upload, SelectAlert(u) PROVE TypeInv'
  <2>1. SessionsTyped'
    BY <1>0, <1>9, MoveTyped DEF SelectAlert, Running
  <2>2. UNCHANGED tables
    BY <1>9 DEF SelectAlert
  <2>3. CASE UNCHANGED work
    BY <1>0, <1>p, <1>9, <2>1, <2>2, <2>3
       DEF SelectAlert, GoTo, WorkTyped, TargetsExist, tables, TablesTyped, SessionsTyped, Session
  <2>4. CASE work' # work
    <3>1. PICK a \in AlertId :
            /\ alerts[a] # None
            /\ work' = [work EXCEPT ![u] = [work[u] EXCEPT !.target = a,
                                !.seen = alerts[a].occ, !.severity = alerts[a].severity]]
      <4>1. PICK a \in OpenDuplicates(EventOf(u).tenant, EventOf(u).payload.key) :
              work' = [work EXCEPT ![u].target = a, ![u].seen = alerts[a].occ,
                                   ![u].severity = alerts[a].severity]
        BY <1>9, <2>4 DEF SelectAlert
      <4>2. a \in AlertId /\ alerts[a] # None
        BY <4>1 DEF OpenDuplicates
      <4> QED BY <4>1, <4>2
    <3>2. alerts[a].occ \in Nat /\ alerts[a].severity \in Severity
      BY <1>0, <3>1 DEF TablesTyped, Alert
    <3> DEFINE w == [work[u] EXCEPT !.target = a, !.seen = alerts[a].occ,
                                    !.severity = alerts[a].severity]
    <3>3. w \in Work /\ w.target = a
      BY <1>0, <3>2 DEF WorkTyped, Work
    <3> HIDE DEF w
    <3>4. WorkTyped'
      BY <1>0, <1>9, <2>2, <3>1, <3>3, RememberTyped DEF SelectAlert, tables, Running, w
    <3> QED BY <1>0, <1>p, <1>9, <2>1, <3>4 DEF SelectAlert, tables, TablesTyped
  <2> QED BY <2>3, <2>4
<1>10. ASSUME NEW u \in Upload, CreateAlert(u) PROVE TypeInv'
  <2>1. EventOf(u) \in RawEvent
    BY <1>10, EventTyped DEF CreateAlert, Running, TypeInv
  <2>2. EventOf(u).tenant \in Tenant /\ EventOf(u).payload.key \in Key
    BY <2>1 DEF RawEvent, Row
  <2>3. work[u].severity \in Severity /\ u \in AlertId
    BY <1>0 DEF WorkTyped, Work, AlertId
  <2> DEFINE new == [tenant |-> EventOf(u).tenant, key |-> EventOf(u).payload.key,
                     severity |-> work[u].severity, status |-> "new",
                     occ |-> 1, lastSeen |-> clock, scored |-> FALSE]
  <2>4. new \in Alert
    BY <1>0, <2>2, <2>3, WindowsAreNat DEF TablesTyped, Alert, AlertStatus
  <2>5. alerts' = [alerts EXCEPT ![u] = new]
    BY <1>10 DEF CreateAlert
  <2> HIDE DEF new
  <2>6. TablesTyped'
    BY <1>0, <1>10, <2>1, <2>3, <2>4, <2>5 DEF CreateAlert, TablesTyped
  <2>7. \A a \in AlertId : alerts[a] # None => alerts'[a] # None
    BY <1>0, <2>3, <2>4, <2>5, NoneIsNoRow DEF TablesTyped
  <2> QED BY <1>0, <1>p, <1>10, <2>6, <2>7, EndTyped DEF CreateAlert
<1>11. ASSUME NEW u \in Upload, UpdateAlert(u) PROVE TypeInv'
  <2> DEFINE a == work[u].target
  <2>1. EventOf(u) \in RawEvent
    BY <1>11, EventTyped DEF UpdateAlert, Running, TypeInv
  <2>2. a \in AlertId /\ alerts[a] # None /\ work[u].seen \in Nat
    BY <1>0, <1>11 DEF UpdateAlert, WorkTyped, TargetsExist, Work
  <2>3. alerts' = [alerts EXCEPT ![a] = [alerts[a] EXCEPT !.occ = work[u].seen + 1, !.lastSeen = clock]]
    BY <1>11 DEF UpdateAlert
  <2>4. alerts'[a] \in Alert
    <3>1. alerts[a] \in Alert /\ clock \in Nat /\ work[u].seen + 1 \in Nat
      BY <1>0, <2>2, WindowsAreNat DEF TablesTyped
    <3> QED BY <1>0, <2>2, <2>3, <3>1, AlertColumns DEF TablesTyped
  <2>5. TablesTyped'
    BY <1>0, <1>11, <2>1, <2>2, <2>3, <2>4 DEF UpdateAlert, TablesTyped
  <2>6. SessionsTyped'
    BY <1>0, <1>11, MoveTyped DEF UpdateAlert, Running
  <2>7. WorkTyped'
    <3>1. work' = [work EXCEPT ![u] = work[u]]
      BY <1>0, <1>11 DEF UpdateAlert, WorkTyped
    <3>2. \A b \in AlertId : alerts[b] # None => alerts'[b] # None
      BY <1>0, <2>2, <2>3, <2>4, NoneIsNoRow DEF TablesTyped
    <3> QED BY <1>0, <1>11, <2>2, <3>1, <3>2, RememberTyped DEF UpdateAlert, Running, WorkTyped
  <2> QED BY <1>p, <2>5, <2>6, <2>7
<1>12. ASSUME NEW u \in Upload, SelectIncident(u) PROVE TypeInv'
  <2>1. SessionsTyped'
    BY <1>0, <1>12, MoveTyped DEF SelectIncident, Running
  <2>2. UNCHANGED <<tables, clock>>
    BY <1>12 DEF SelectIncident
  <2>3. PICK w \in Work : work' = [work EXCEPT ![u] = w] /\ w.target = work[u].target
    <3>1. CASE UNCHANGED work
      BY <1>0, <3>1 DEF WorkTyped
    <3>2. CASE work' # work
      <4>1. PICK i \in IncidentId :
              work' = [work EXCEPT ![u] = [work[u] EXCEPT !.incident = i,
                                             !.linked = <<i, work[u].target>> \in links]]
        <5>1. PICK i \in Candidates(EventOf(u).tenant) :
                work' = [work EXCEPT ![u].incident = i,
                                     ![u].linked = <<i, work[u].target>> \in links]
          BY <1>12, <3>2, CandidateRemembered
        <5>2. i \in IncidentId
          BY <5>1 DEF Candidates
        <5> QED BY <5>1, <5>2
      <4> DEFINE b == <<i, work[u].target>> \in links
      <4>2. b \in BOOLEAN
        OBVIOUS
      <4> HIDE DEF b
      <4>3. [work[u] EXCEPT !.incident = i, !.linked = b] \in Work
        BY <1>0, <4>2 DEF WorkTyped, Work
      <4>4. work' = [work EXCEPT ![u] = [work[u] EXCEPT !.incident = i, !.linked = b]]
        BY <4>1 DEF b
      <4> QED BY <1>0, <4>3, <4>4 DEF WorkTyped, Work
    <3> QED BY <3>1, <3>2
  <2>4. WorkTyped'
    BY ZenonT(30), <1>0, <1>12, <2>2, <2>3, RememberTyped
       DEF SelectIncident, WorkTyped, TargetsExist, tables, Running, Work
  <2> QED BY <1>0, <1>p, <2>1, <2>2, <2>4 DEF tables, TablesTyped
<1>13. ASSUME NEW u \in Upload, NEW i \in IncidentId,
              AttachToIncident(u) \/ OpenIncident(u),
              incidents' \in [IncidentId -> Incident \cup {None}],
              links' = links \cup {<<i, work[u].target>>}
       PROVE  TypeInv'
  <2> DEFINE a == work[u].target
  <2>1. a \in AlertId /\ alerts[a] # None
    BY <1>0, <1>13 DEF AttachToIncident, OpenIncident, WorkTyped, TargetsExist, Work
  <2>2. alerts' = [alerts EXCEPT ![a] = [alerts[a] EXCEPT !.scored = TRUE]]
    BY <1>13 DEF AttachToIncident, OpenIncident
  <2>3. alerts'[a] \in Alert
    BY <1>0, <2>1, <2>2, AlertColumns DEF TablesTyped
  <2>4. UNCHANGED <<raw, merged, clock, req>> /\ End(u, "failed")
    BY <1>13 DEF AttachToIncident, OpenIncident
  <2>5. TablesTyped'
    <3>1. links' \subseteq IncidentId \X AlertId
      BY <1>0, <1>13, <2>1 DEF TablesTyped
    <3> QED BY <1>0, <1>13, <2>1, <2>2, <2>3, <2>4, <3>1 DEF TablesTyped
  <2>6. \A b \in AlertId : alerts[b] # None => alerts'[b] # None
    BY <1>0, <2>2, <2>3, NoneIsNoRow DEF TablesTyped
  <2> QED BY <1>0, <1>p, <2>4, <2>5, <2>6, EndTyped
<1>14. ASSUME NEW u \in Upload, AttachToIncident(u) PROVE TypeInv'
  <2>1. work[u].incident \in IncidentId
    BY <1>0, <1>14 DEF AttachToIncident, WorkTyped, Work
  <2> QED BY <1>0, <1>13, <1>14, <2>1 DEF AttachToIncident, TablesTyped
<1>15. ASSUME NEW u \in Upload, OpenIncident(u) PROVE TypeInv'
  <2>1. EventOf(u).tenant \in Tenant
    BY <1>15, EventTyped DEF OpenIncident, Running, TypeInv, RawEvent
  <2>2. [tenant |-> EventOf(u).tenant, created |-> clock] \in Incident
    BY <1>0, <2>1, WindowsAreNat DEF TablesTyped, Incident
  <2>3. incidents' \in [IncidentId -> Incident \cup {None}]
    BY <1>0, <1>15, <2>2 DEF OpenIncident, TablesTyped
  <2>4. u \in IncidentId
    BY DEF IncidentId
  <2> QED BY <1>13, <1>15, <2>3, <2>4 DEF OpenIncident
<1>16. ASSUME NEW u \in Upload, AttachConflicts(u) PROVE TypeInv'
  <2>1. End(u, "failed") /\ UNCHANGED <<tables, clock, req>>
    BY <1>16 DEF AttachConflicts
  <2>2. TablesTyped'
    BY <1>0, <2>1 DEF tables, TablesTyped
  <2> QED BY <1>0, <1>p, <2>1, <2>2, EndTyped DEF tables
<1>17. ASSUME NEW u \in Upload, Abort(u) PROVE TypeInv'
  <2>1. End(u, "aborted") /\ UNCHANGED <<tables, clock, req>>
    BY <1>17 DEF Abort
  <2>2. TablesTyped'
    BY <1>0, <2>1 DEF tables, TablesTyped
  <2> QED BY <1>0, <1>p, <2>1, <2>2, EndTyped DEF tables
<1>18. ASSUME NEW e \in DirectEvent, IngestDirect(e) PROVE TypeInv'
  <2>1. e \in RawEvent
    BY InputsTyped DEF RawEvent
  <2> QED BY <1>0, <1>p, <1>18, <2>1
          DEF IngestDirect, TablesTyped, SessionsTyped, WorkTyped, TargetsExist
<1>19. ASSUME NEW a \in AlertId, PatchAlert(a) PROVE TypeInv'
  <2>1. PICK status \in AlertStatus, severity \in Severity :
          alerts' = [alerts EXCEPT ![a] = [alerts[a] EXCEPT !.status = status, !.severity = severity]]
    <3>1. alerts[a].status \in AlertStatus /\ alerts[a].severity \in Severity
      BY <1>0, <1>19 DEF PatchAlert, TablesTyped, Alert
    <3>2. PICK status \in AnalystStatus \cup {alerts[a].status},
               severity \in AnalystSeverity \cup {alerts[a].severity} :
            alerts' = [alerts EXCEPT ![a].status = status, ![a].severity = severity]
      BY <1>19 DEF PatchAlert
    <3> QED BY <3>1, <3>2, InputsTyped
  <2>2. alerts'[a] \in Alert
    BY <1>0, <1>19, <2>1, AlertColumns DEF PatchAlert, TablesTyped
  <2>3. TablesTyped'
    BY <1>0, <1>19, <2>1, <2>2 DEF PatchAlert, TablesTyped
  <2>4. WorkTyped'
    BY <1>0, <1>19, <2>1, <2>2, NoneIsNoRow
       DEF PatchAlert, TablesTyped, WorkTyped, TargetsExist, Work
  <2> QED BY <1>0, <1>p, <1>19, <2>3, <2>4 DEF PatchAlert, SessionsTyped
<1>20. ASSUME NEW m \in Manual, CreateManualAlert(m) PROVE TypeInv'
  <2>1. PICK new \in Alert : alerts' = [alerts EXCEPT ![m] = new]
    BY <1>20, InputsTyped DEF CreateManualAlert, Alert, AlertStatus
  <2>2. TablesTyped'
    BY <1>0, <1>20, <2>1 DEF CreateManualAlert, TablesTyped
  <2>3. WorkTyped'
    BY <1>0, <1>20, <2>1, NoneIsNoRow
       DEF CreateManualAlert, TablesTyped, WorkTyped, TargetsExist, Work
  <2> QED BY <1>0, <1>p, <1>20, <2>2, <2>3 DEF CreateManualAlert, SessionsTyped
<1>21. ASSUME NEW m \in Manual, CreateManualIncident(m) PROVE TypeInv'
  <2>1. PICK new \in Incident, listed \in SUBSET AlertId :
          /\ incidents' = [incidents EXCEPT ![m] = new]
          /\ links' = links \cup ({m} \X listed)
    <3>1. clock \in Nat
      BY <1>0, WindowsAreNat DEF TablesTyped
    <3>2. PICK tenant \in Tenant, listed \in SUBSET {a \in AlertId : alerts[a] # None} :
            /\ incidents' = [incidents EXCEPT ![m] = [tenant |-> tenant, created |-> clock]]
            /\ links' = links \cup ({m} \X listed)
      BY <1>21 DEF CreateManualIncident
    <3>3. [tenant |-> tenant, created |-> clock] \in Incident
      BY <3>1 DEF Incident
    <3> QED BY <3>2, <3>3
  <2>2. m \in IncidentId
    BY DEF IncidentId
  <2>3. TablesTyped'
    BY <1>0, <1>21, <2>1, <2>2 DEF CreateManualIncident, TablesTyped
  <2> QED BY <1>0, <1>p, <1>21, <2>3
          DEF CreateManualIncident, SessionsTyped, WorkTyped, TargetsExist
<1>22. CASE Tick
  BY <1>0, <1>p, <1>22, WindowsAreNat
     DEF Tick, tables, TablesTyped, SessionsTyped, WorkTyped, TargetsExist
<1>23. CASE UNCHANGED vars
  BY <1>0, <1>p, <1>23 DEF vars, TablesTyped, SessionsTyped, WorkTyped, TargetsExist
<1> QED
  BY <1>1, <1>2, <1>3, <1>4, <1>5, <1>6, <1>7, <1>8, <1>9, <1>10, <1>11, <1>12, <1>14,
     <1>15, <1>16, <1>17, <1>18, <1>19, <1>20, <1>21, <1>22, <1>23
     DEF Next, Process, Analyst

\* The tables, the requests and what they remember always have their types:
\* no request updates a row that is not there.
THEOREM TypeCorrect == Spec => []TypeOK
BY TypeInit, TypeStep, PTL DEF Spec, TypeInv

----------------------------------------------------------------------------
(* The unique index.  Between the insert and the commit an event is in no  *)
(* table, so EvidenceUnique is not inductive: it needs HeldApart, that what *)
(* open transactions hold is apart from raw_events and from each other.    *)

\* A step of one request leaves the others where they are.
LEMMA Frame ==
    ASSUME TypeOK, NEW u \in Upload, Process(u) \/ Abort(u)
    PROVE  /\ UNCHANGED <<req, clock>>
           /\ \A v \in Upload \ {u} : sess'[v] = sess[v] /\ work'[v] = work[v]
BY DEF TypeOK, Process, Abort, End, GoTo, InvalidRow, SkipRow, LookupMisses, InsertRawEvent,
   InsertConflicts, NoRuleTriggered, RuleTriggered, SelectAlert, CreateAlert, UpdateAlert,
   SelectIncident, AttachToIncident, AttachConflicts, OpenIncident

LEMMA SameEvent ==
    ASSUME NEW v \in Upload, req'[v] = req[v], sess'[v].idx = sess[v].idx
    PROVE  EventOf(v)' = EventOf(v)
BY DEF EventOf, RowOf

\* No request comes to hold an event, and raw_events is left alone.
LEMMA HeldKept ==
    ASSUME HeldApart, raw' = raw,
           \A v \in Upload : HoldsRawEvent(v)' => HoldsRawEvent(v) /\ EventOf(v)' = EventOf(v)
    PROVE  HeldApart'
BY DEF HeldApart, IdentityTaken, SameIdentity

\* The steps of a request that neither take nor give up an event of raw_events.
LEMMA HeldStepQuiet ==
    ASSUME TypeOK, HeldApart, NEW u \in Upload, Process(u) \/ Abort(u),
           ~InsertRawEvent(u), ~CreateAlert(u), ~UpdateAlert(u)
    PROVE  HeldApart' /\ raw' = raw /\ merged' = merged
<1>1. raw' = raw /\ merged' = merged
  BY DEF Process, Abort, InvalidRow, SkipRow, LookupMisses, InsertConflicts, NoRuleTriggered,
     RuleTriggered, SelectAlert, SelectIncident, AttachToIncident, AttachConflicts,
     OpenIncident, tables
<1>2. HoldsRawEvent(u)' => HoldsRawEvent(u) /\ sess'[u].idx = sess[u].idx
  <2>1. sess \in [Upload -> Session]
    BY DEF TypeOK
  <2>2. CASE SkipRow(u)
    <3>1. sess'[u].pc \in {"lookup", "done"}
      BY <2>1, <2>2 DEF SkipRow, Session
    <3> QED BY <3>1 DEF HoldsRawEvent
  <2>3. CASE \/ GoTo(u, "dedup") /\ sess[u].pc = "detect"
             \/ GoTo(u, "save") /\ sess[u].pc = "dedup"
             \/ GoTo(u, "insert") \/ GoTo(u, "link")
    BY <2>1, <2>3 DEF GoTo, HoldsRawEvent, Session
  <2>4. CASE \E how \in {"failed", "aborted"} : End(u, how)
    BY <2>1, <2>4 DEF End, HoldsRawEvent, Session
  <2> QED
    BY <2>2, <2>3, <2>4 DEF Process, Abort, InvalidRow, LookupMisses, InsertConflicts,
       NoRuleTriggered, RuleTriggered, SelectAlert, SelectIncident, AttachToIncident,
       AttachConflicts, OpenIncident
<1>3. ASSUME NEW v \in Upload, HoldsRawEvent(v)'
      PROVE  HoldsRawEvent(v) /\ EventOf(v)' = EventOf(v)
  <2>1. CASE v = u
    BY <1>2, <1>3, <2>1, Frame, SameEvent
  <2>2. CASE v # u
    BY <1>3, <2>2, Frame, SameEvent DEF HoldsRawEvent
  <2> QED BY <2>1, <2>2
<1> QED BY <1>1, <1>3, HeldKept

\* The insert takes an identity nobody has; the commit gives it to raw_events.
LEMMA HeldStepInsert ==
    ASSUME TypeOK, HeldApart, NEW u \in Upload, InsertRawEvent(u)
    PROVE  HeldApart'
<1>1. raw' = raw /\ ~InsertWaits(EventOf(u)) /\ ~IdentityTaken(EventOf(u))
  BY DEF InsertRawEvent, tables
<1>2. \A v \in Upload : EventOf(v)' = EventOf(v)
  BY SameEvent DEF InsertRawEvent, GoTo, TypeOK, Session
<1>3. \A v \in Upload \ {u} : HoldsRawEvent(v)' <=> HoldsRawEvent(v)
  BY DEF InsertRawEvent, GoTo, TypeOK, HoldsRawEvent
<1> QED BY <1>1, <1>2, <1>3 DEF HeldApart, InsertWaits, IdentityTaken, SameIdentity

LEMMA HeldStepCommit ==
    ASSUME TypeOK, HeldApart, NEW u \in Upload, CreateAlert(u) \/ UpdateAlert(u)
    PROVE  /\ HeldApart'
           /\ ~IdentityTaken(EventOf(u))
           /\ raw' = raw \cup {EventOf(u)}
<1>1. raw' = raw \cup {EventOf(u)} /\ req' = req
  BY DEF CreateAlert, UpdateAlert
<1>2. HoldsRawEvent(u) /\ ~HoldsRawEvent(u)'
  BY DEF CreateAlert, UpdateAlert, End, GoTo, HoldsRawEvent, TypeOK, Session
<1>3. \A v \in Upload \ {u} : sess'[v] = sess[v]
  BY Frame DEF Process
<1>4. \A v \in Upload \ {u} :
        EventOf(v)' = EventOf(v) /\ (HoldsRawEvent(v)' <=> HoldsRawEvent(v))
  BY <1>1, <1>3, SameEvent DEF HoldsRawEvent
<1> QED BY <1>1, <1>2, <1>4 DEF HeldApart, IdentityTaken, SameIdentity

LEMMA HeldStepDirect ==
    ASSUME HeldApart, NEW e \in DirectEvent, IngestDirect(e)
    PROVE  HeldApart'
<1>1. \A v \in Upload : EventOf(v)' = EventOf(v) /\ (HoldsRawEvent(v)' <=> HoldsRawEvent(v))
  BY SameEvent DEF IngestDirect, HoldsRawEvent
<1> QED BY <1>1 DEF IngestDirect, HeldApart, InsertWaits, IdentityTaken, SameIdentity

\* PATCH, manual alerts and incidents, the clock: nothing a held event rests on.
LEMMA HeldStepOther ==
    ASSUME TypeOK, HeldApart,
           \/ \E a \in AlertId : PatchAlert(a)
           \/ \E m \in Manual : CreateManualAlert(m) \/ CreateManualIncident(m)
           \/ Tick
           \/ UNCHANGED vars
           \/ \E u \in Upload : Receive(u)
    PROVE  HeldApart' /\ raw' = raw /\ merged' = merged
<1>1. CASE \E u \in Upload : Receive(u)
  <2>1. PICK u \in Upload : Receive(u)
    BY <1>1
  <2>2. raw' = raw /\ merged' = merged /\ ~HoldsRawEvent(u)'
    BY <2>1 DEF Receive, tables, HoldsRawEvent, TypeOK
  <2>3. \A v \in Upload \ {u} : sess'[v] = sess[v] /\ req'[v] = req[v]
    BY <2>1 DEF Receive, TypeOK
  <2> QED BY <2>2, <2>3, HeldKept, SameEvent DEF HoldsRawEvent
<1>2. CASE ~\E u \in Upload : Receive(u)
  <2>1. UNCHANGED <<raw, merged, req, sess>>
    BY <1>2 DEF PatchAlert, CreateManualAlert, CreateManualIncident, Tick, vars, tables
  <2> QED BY <2>1, HeldKept, SameEvent DEF HoldsRawEvent
<1> QED BY <1>1, <1>2

LEMMA HeldInit == Init => HeldApart
BY DEF Init, HeldApart, HoldsRawEvent

LEMMA HeldStep == TypeOK /\ HeldApart /\ [Next]_vars => HeldApart'
<1> SUFFICES ASSUME TypeOK, HeldApart, [Next]_vars PROVE HeldApart'
  OBVIOUS
<1>1. ASSUME NEW u \in Upload, Process(u) \/ Abort(u) PROVE HeldApart'
  BY <1>1, HeldStepQuiet, HeldStepInsert, HeldStepCommit
<1>2. ASSUME NEW e \in DirectEvent, IngestDirect(e) PROVE HeldApart'
  BY <1>2, HeldStepDirect
<1> QED BY <1>1, <1>2, HeldStepOther DEF Next, Analyst

\* The raw event an open transaction has flushed is committed nowhere else and
\* flushed by no other: the unique index serialises the uploads of one file.
THEOREM HeldApartAlways == Spec => []HeldApart
BY TypeInit, TypeStep, HeldInit, HeldStep, PTL DEF Spec, TypeInv

----------------------------------------------------------------------------
(* The pipeline implements the evidence ledger.                            *)

\* Storing an event nobody has stored is a step of the ledger.
LEMMA CommitIsNew ==
    ASSUME NEW e, ~IdentityTaken(e), raw' = raw \cup {e}
    PROVE  e \in raw' \ raw /\ Ledger!New(e)
BY DEF IdentityTaken, SameIdentity, Ledger!New

LEMMA LedgerStep ==
    TypeOK /\ HeldApart /\ [Next]_vars => [Ledger!Next]_<<raw, merged>>
<1> SUFFICES ASSUME TypeOK, HeldApart, [Next]_vars PROVE [Ledger!Next]_<<raw, merged>>
  OBVIOUS
<1>1. ASSUME NEW u \in Upload, CreateAlert(u) \/ UpdateAlert(u)
      PROVE  Ledger!Next
  <2>1. PICK a \in AlertId : merged' = [merged EXCEPT ![a] = @ \cup {EventOf(u)}]
    <3>1. CASE CreateAlert(u)
      BY <3>1 DEF CreateAlert, AlertId
    <3>2. CASE UpdateAlert(u)
      BY <3>2 DEF UpdateAlert, TypeOK, Work
    <3> QED BY <1>1, <3>1, <3>2
  <2>2. ~IdentityTaken(EventOf(u)) /\ raw' = raw \cup {EventOf(u)}
    BY <1>1, HeldStepCommit
  <2>3. Ledger!Credit(EventOf(u), a)
    BY <2>1, <2>2, CommitIsNew DEF Ledger!Credit
  <2> QED BY <2>2, <2>3, CommitIsNew DEF Ledger!Next
<1>2. ASSUME NEW e \in DirectEvent, IngestDirect(e) PROVE Ledger!Next
  <2>1. Ledger!Record(e)
    BY <1>2, CommitIsNew DEF IngestDirect, Ledger!Record
  <2> QED BY <1>2, <2>1, CommitIsNew DEF IngestDirect, Ledger!Next
<1>3. ASSUME NEW u \in Upload, Process(u) \/ Abort(u), ~CreateAlert(u), ~UpdateAlert(u)
      PROVE  UNCHANGED <<raw, merged>>
  <2>1. CASE InsertRawEvent(u)
    BY <2>1 DEF InsertRawEvent, tables
  <2> QED BY <1>3, <2>1, HeldStepQuiet
<1> QED BY <1>1, <1>2, <1>3, HeldStepOther DEF Next, Analyst

LEMMA LedgerInit == Init => Ledger!Init
BY DEF Init, Ledger!Init

\* Re-uploads, races, crashes: the pipeline's commits are those of the evidence
\* ledger, one event at a time, recorded and credited in one step.
THEOREM LedgerImplemented == Spec => ImplementsLedger
<1>1. Spec => []TypeOK
  BY TypeCorrect
<1>2. Spec => []HeldApart
  BY HeldApartAlways
<1> QED BY <1>1, <1>2, LedgerInit, LedgerStep, PTL DEF Spec, ImplementsLedger, Ledger!Spec

\* What the abstract ledger promises of raw_events and its unique constraint:
\* an event is recorded once, however often it is offered.
THEOREM LedgerUnique == Ledger!Spec => []EvidenceUnique
<1>1. Ledger!Init => EvidenceUnique
  BY DEF Ledger!Init, EvidenceUnique
<1>2. EvidenceUnique /\ [Ledger!Next]_<<raw, merged>> => EvidenceUnique'
  <2> SUFFICES ASSUME EvidenceUnique, [Ledger!Next]_<<raw, merged>> PROVE EvidenceUnique'
    OBVIOUS
  <2>1. CASE UNCHANGED <<raw, merged>>
    BY <2>1 DEF EvidenceUnique
  <2>2. CASE Ledger!Next
    <3>1. PICK e : Ledger!New(e) /\ raw' = raw \cup {e}
      BY <2>2 DEF Ledger!Next, Ledger!Record, Ledger!Credit
    <3> QED BY <3>1 DEF EvidenceUnique, Ledger!New
  <2> QED BY <2>1, <2>2
<1> QED BY <1>1, <1>2, PTL DEF Ledger!Spec

\* No event is stored twice, whoever uploads it again: what the ledger keeps,
\* its implementation keeps.
THEOREM EvidenceStaysUnique == Spec => []EvidenceUnique
  BY LedgerImplemented, LedgerUnique, PTL DEF ImplementsLedger

----------------------------------------------------------------------------
(* What a step leaves of the rows there are.  A request that still runs has *)
(* created no alert and no incident, so what it creates overwrites none.   *)

FreshNames ==
    \A u \in Upload : sess[u].pc \in {"idle"} \cup Running =>
        alerts[u] = None /\ incidents[u] = None

\* The actions that write alerts, one by one.
LEMMA AlertWriters ==
    ASSUME [Next]_vars, alerts' # alerts
    PROVE  \/ \E u \in Upload : CreateAlert(u) \/ UpdateAlert(u)
           \/ \E u \in Upload : AttachToIncident(u) \/ OpenIncident(u)
           \/ \E a \in AlertId : PatchAlert(a)
           \/ \E m \in Manual : CreateManualAlert(m)
BY DEF Next, Process, Abort, Analyst, Receive, InvalidRow, SkipRow, LookupMisses, InsertRawEvent,
   InsertConflicts, NoRuleTriggered, RuleTriggered, SelectAlert, SelectIncident, AttachConflicts,
   IngestDirect, CreateManualIncident, Tick, tables, vars

\* What becomes of an alert that is there: a merge moves its count and its
\* date, the grouping scores it, an analyst decides; nothing else happens.
LEMMA AlertWrites ==
    ASSUME TypeInv, FreshNames, [Next]_vars, NEW a \in AlertId, alerts[a] # None
    PROVE  \/ alerts'[a] = alerts[a]
           \/ \E u \in Upload :
                /\ UpdateAlert(u) /\ work[u].target = a
                /\ alerts'[a] = [alerts[a] EXCEPT !.occ = work[u].seen + 1, !.lastSeen = clock]
           \/ alerts'[a] = [alerts[a] EXCEPT !.scored = TRUE]
           \/ /\ PatchAlert(a)
              /\ \E x \in AlertStatus, y \in Severity :
                    alerts'[a] = [alerts[a] EXCEPT !.status = x, !.severity = y]
<1> USE DEF TypeInv
<1>0. alerts \in [AlertId -> Alert \cup {None}] /\ work \in [Upload -> Work]
  BY DEF TypeOK
<1>1. ASSUME NEW u \in Upload, CreateAlert(u) PROVE alerts'[a] = alerts[a]
  <2>1. alerts[u] = None
    BY <1>1 DEF FreshNames, CreateAlert, Running
  <2> QED BY <1>0, <1>1, <2>1 DEF CreateAlert
<1>2. ASSUME NEW u \in Upload, UpdateAlert(u), alerts'[a] # alerts[a]
      PROVE  /\ work[u].target = a
             /\ alerts'[a] = [alerts[a] EXCEPT !.occ = work[u].seen + 1, !.lastSeen = clock]
  BY <1>0, <1>2 DEF UpdateAlert
<1>3. ASSUME NEW u \in Upload, AttachToIncident(u) \/ OpenIncident(u), alerts'[a] # alerts[a]
      PROVE  alerts'[a] = [alerts[a] EXCEPT !.scored = TRUE]
  BY <1>0, <1>3 DEF AttachToIncident, OpenIncident
<1>4. ASSUME NEW b \in AlertId, PatchAlert(b), alerts'[a] # alerts[a]
      PROVE  /\ PatchAlert(a)
             /\ \E x \in AlertStatus, y \in Severity :
                   alerts'[a] = [alerts[a] EXCEPT !.status = x, !.severity = y]
  <2>1. PICK status \in AnalystStatus \cup {alerts[b].status},
             severity \in AnalystSeverity \cup {alerts[b].severity} :
          alerts' = [alerts EXCEPT ![b].status = status, ![b].severity = severity]
    BY <1>4 DEF PatchAlert
  <2>2. b = a
    BY <1>0, <1>4, <2>1
  <2>3. status \in AlertStatus /\ severity \in Severity
    <3>1. alerts[a] \in Alert
      BY <1>0
    <3> QED BY <2>1, <2>2, <3>1, InputsTyped DEF Alert
  <2>4. alerts'[a] = [alerts[a] EXCEPT !.status = status, !.severity = severity]
    BY <1>0, <2>1, <2>2
  <2> QED BY <1>4, <2>2, <2>3, <2>4
<1>5. ASSUME NEW m \in Manual, CreateManualAlert(m) PROVE alerts'[a] = alerts[a]
  BY <1>0, <1>5 DEF CreateManualAlert
<1> QED BY <1>1, <1>2, <1>3, <1>4, <1>5, AlertWriters

\* An alert never disappears, never changes its tenant or its key, and is not
\* unscored.
LEMMA AlertsKept ==
    ASSUME TypeInv, FreshNames, [Next]_vars, NEW a \in AlertId, alerts[a] # None
    PROVE  /\ alerts'[a] # None
           /\ alerts'[a].tenant = alerts[a].tenant
           /\ alerts'[a].key = alerts[a].key
           /\ alerts[a].scored => alerts'[a].scored
<1>1. alerts[a] \in Alert
  BY DEF TypeInv, TypeOK
<1>2. alerts'[a] \in Alert \cup {None}
  BY TypeStep DEF TypeInv, TypeOK
<1>3. /\ alerts'[a].tenant = alerts[a].tenant
      /\ alerts'[a].key = alerts[a].key
      /\ alerts[a].scored => alerts'[a].scored
  BY <1>1, AlertWrites DEF Alert
<1>4. alerts'[a] \in Alert
  <2>1. clock \in Nat /\ \A u \in Upload : work[u].seen \in Nat
    BY WindowsAreNat DEF TypeInv, TypeOK, Work
  <2>2. ASSUME NEW u \in Upload,
               alerts'[a] = [alerts[a] EXCEPT !.occ = work[u].seen + 1, !.lastSeen = clock]
        PROVE  alerts'[a] \in Alert
    <3> DEFINE n == work[u].seen + 1
    <3>1. n \in Nat
      BY <2>1
    <3>2. alerts'[a] = [alerts[a] EXCEPT !.occ = n, !.lastSeen = clock]
      BY <2>2
    <3> HIDE DEF n
    <3>3. \A m, t \in Nat : [alerts[a] EXCEPT !.occ = m, !.lastSeen = t] \in Alert
      BY <1>1, AlertColumns
    <3> QED BY <2>1, <3>1, <3>2, <3>3, Zenon
  <2>3. ASSUME NEW x \in AlertStatus, NEW y \in Severity,
               alerts'[a] = [alerts[a] EXCEPT !.status = x, !.severity = y]
        PROVE  alerts'[a] \in Alert
    <3>1. \A p \in AlertStatus, q \in Severity :
             [alerts[a] EXCEPT !.status = p, !.severity = q] \in Alert
      BY <1>1, AlertColumns
    <3> QED BY <2>3, <3>1, Zenon
  <2>4. CASE alerts'[a] = alerts[a] \/ alerts'[a] = [alerts[a] EXCEPT !.scored = TRUE]
    BY <1>1, <2>4, AlertColumns
  <2> QED BY <2>2, <2>3, <2>4, AlertWrites
<1> QED BY <1>3, <1>4, NoneIsNoRow

\* An alert that was not there is new, of an upload that has to do with its
\* event, or of an analyst.
LEMMA NewAlert ==
    ASSUME TypeInv, [Next]_vars, NEW a \in AlertId, alerts[a] = None, alerts'[a] # None
    PROVE  \/ /\ a \in Upload /\ CreateAlert(a)
              /\ alerts'[a] = [tenant |-> EventOf(a).tenant, key |-> EventOf(a).payload.key,
                               severity |-> work[a].severity, status |-> "new", occ |-> 1,
                               lastSeen |-> clock, scored |-> FALSE]
           \/ a \in Manual /\ alerts'[a].key = NoKey
<1>0. alerts \in [AlertId -> Alert \cup {None}] /\ TargetsExist
  BY DEF TypeInv, TypeOK
<1>1. ASSUME NEW u \in Upload, CreateAlert(u)
      PROVE  /\ a = u
             /\ alerts'[a] = [tenant |-> EventOf(u).tenant, key |-> EventOf(u).payload.key,
                              severity |-> work[u].severity, status |-> "new", occ |-> 1,
                              lastSeen |-> clock, scored |-> FALSE]
  BY <1>0, <1>1 DEF CreateAlert
<1>2. ASSUME NEW u \in Upload, UpdateAlert(u) \/ AttachToIncident(u) \/ OpenIncident(u)
      PROVE  FALSE
  <2>1. work[u].target # a /\ work[u].target \in AlertId
    BY <1>0, <1>2, NoneIsNoRow DEF UpdateAlert, AttachToIncident, OpenIncident, TargetsExist, TypeInv, TypeOK, Work
  <2> QED BY <1>0, <1>2, <2>1 DEF UpdateAlert, AttachToIncident, OpenIncident
<1>3. ASSUME NEW b \in AlertId, PatchAlert(b) PROVE FALSE
  BY <1>0, <1>3 DEF PatchAlert
<1>4. ASSUME NEW m \in Manual, CreateManualAlert(m)
      PROVE  a = m /\ alerts'[a].key = NoKey
  BY <1>0, <1>4 DEF CreateManualAlert
<1> QED BY <1>1, <1>2, <1>3, <1>4, AlertWriters

\* An incident is never written again; a new one is of an upload that links
\* it to the alert it remembers, or of an analyst.
LEMMA IncidentsKept ==
    ASSUME TypeInv, FreshNames, [Next]_vars, NEW i \in IncidentId
    PROVE  /\ incidents[i] # None => incidents'[i] = incidents[i]
           /\ i \in Upload /\ incidents'[i] # incidents[i] => OpenIncident(i)
<1>0. incidents \in [IncidentId -> Incident \cup {None}]
  BY DEF TypeInv, TypeOK
<1>1. ASSUME NEW u \in Upload, OpenIncident(u)
      PROVE  incidents[u] = None /\ (i # u => incidents'[i] = incidents[i])
  BY <1>0, <1>1 DEF FreshNames, OpenIncident, Running
<1>2. ASSUME NEW m \in Manual, CreateManualIncident(m)
      PROVE  incidents[m] = None /\ (i # m => incidents'[i] = incidents[i])
  BY <1>0, <1>2 DEF CreateManualIncident
<1>3. \/ incidents' = incidents
      \/ \E u \in Upload : OpenIncident(u)
      \/ \E m \in Manual : CreateManualIncident(m)
  BY DEF Next, Process, Abort, Analyst, Receive, InvalidRow, SkipRow, LookupMisses,
     InsertRawEvent, InsertConflicts, NoRuleTriggered, RuleTriggered, SelectAlert, CreateAlert,
     UpdateAlert, SelectIncident, AttachToIncident, AttachConflicts, IngestDirect, PatchAlert,
     CreateManualAlert, Tick, tables, vars
<1> QED BY <1>1, <1>2, <1>3, NoneIsNoRow

\* The requests: a step is one request's, or leaves them all alone.
LEMMA OthersKept ==
    ASSUME TypeInv, [Next]_vars, NEW u \in Upload,
           ~Receive(u), ~Process(u), ~Abort(u)
    PROVE  req'[u] = req[u] /\ sess'[u] = sess[u] /\ work'[u] = work[u]
<1>1. ASSUME NEW v \in Upload, Process(v) \/ Abort(v)
      PROVE  req'[u] = req[u] /\ sess'[u] = sess[u] /\ work'[u] = work[u]
  BY <1>1, Frame DEF TypeInv
<1>2. ASSUME NEW v \in Upload, Receive(v)
      PROVE  req'[u] = req[u] /\ sess'[u] = sess[u] /\ work'[u] = work[u]
  BY <1>2 DEF Receive, TypeInv, TypeOK
<1> QED BY <1>1, <1>2 DEF Next, Analyst, IngestDirect, PatchAlert, CreateManualAlert,
           CreateManualIncident, Tick, vars

LEMMA FreshInit == Init => FreshNames
BY DEF Init, FreshNames, AlertId, IncidentId

LEMMA FreshStep == TypeInv /\ FreshNames /\ [Next]_vars => FreshNames'
<1> SUFFICES ASSUME TypeInv, FreshNames, [Next]_vars, NEW u \in Upload,
                    sess'[u].pc \in {"idle"} \cup Running
             PROVE  alerts'[u] = None /\ incidents'[u] = None
  BY DEF FreshNames
<1>1. sess[u].pc \in {"idle"} \cup Running
  <2>1. CASE Receive(u)
    BY <2>1 DEF Receive
  <2>2. CASE Process(u) \/ Abort(u)
    BY <2>2 DEF Process, Abort, InvalidRow, SkipRow, LookupMisses, InsertRawEvent,
       InsertConflicts, NoRuleTriggered, RuleTriggered, SelectAlert, CreateAlert, UpdateAlert,
       SelectIncident, AttachToIncident, AttachConflicts, OpenIncident, Running
  <2>3. CASE ~Receive(u) /\ ~Process(u) /\ ~Abort(u)
    <3>1. sess'[u] = sess[u]
      BY <2>3, OthersKept
    <3> QED BY <3>1
  <2> QED BY <2>1, <2>2, <2>3
<1>2. ~CreateAlert(u) /\ ~OpenIncident(u)
  <2>1. sess \in [Upload -> Session]
    BY DEF TypeInv, TypeOK
  <2> QED BY <2>1 DEF CreateAlert, OpenIncident, End, Session, Running
<1>3. u \in AlertId /\ u \in IncidentId /\ u \notin Manual
  BY NoneIsNoRow DEF AlertId, IncidentId
<1> QED BY <1>1, <1>2, <1>3, NewAlert, IncidentsKept DEF FreshNames

----------------------------------------------------------------------------
(* Tenants.  The queries of a request keep to its tenant, the writes trust  *)
(* what the queries found: the writes are right because an alert and an    *)
(* incident keep their tenant, and a request forgets what it found when it *)
(* ends.                                                                   *)

ManualUnkeyed == \A m \in Manual : alerts[m] # None => alerts[m].key = NoKey

TargetTrue(u) ==
    work[u].target # None =>
        /\ sess[u].pc \in {"save", "group", "link"}
        /\ work[u].target \in Upload
        /\ alerts[work[u].target].tenant = EventOf(u).tenant
        /\ alerts[work[u].target].key = EventOf(u).payload.key

IncidentTrue(u) ==
    work[u].incident # None =>
        /\ sess[u].pc = "link"
        /\ incidents[work[u].incident] # None
        /\ incidents[work[u].incident].tenant = EventOf(u).tenant

WorkTrue == \A u \in Upload : TargetTrue(u) /\ IncidentTrue(u)

TenantInv == FreshNames /\ ManualUnkeyed /\ CreditsApart /\ WorkTrue

LEMMA TenantInit == Init => TenantInv
BY FreshInit, NoneIsNoRow
   DEF Init, TenantInv, ManualUnkeyed, CreditsApart, WorkTrue, TargetTrue,
       IncidentTrue, NoWork, AlertId, IncidentId

\* What a step credits: the event of the request, to the alert it creates or
\* remembers.
LEMMA CreditsChange ==
    ASSUME TypeInv, [Next]_vars, NEW a \in AlertId, merged'[a] # merged[a]
    PROVE  \E u \in Upload :
              /\ (CreateAlert(u) /\ a = u) \/ (UpdateAlert(u) /\ a = work[u].target)
              /\ merged'[a] = merged[a] \cup {EventOf(u)}
<1>0. merged \in [AlertId -> SUBSET RawEvent]
  BY DEF TypeInv, TypeOK
<1>1. ASSUME NEW u \in Upload, CreateAlert(u)
      PROVE  a = u /\ merged'[a] = merged[a] \cup {EventOf(u)}
  BY <1>0, <1>1 DEF CreateAlert
<1>2. ASSUME NEW u \in Upload, UpdateAlert(u)
      PROVE  a = work[u].target /\ merged'[a] = merged[a] \cup {EventOf(u)}
  BY <1>0, <1>2 DEF UpdateAlert
<1>3. \/ merged' = merged
      \/ \E u \in Upload : CreateAlert(u) \/ UpdateAlert(u)
  BY ZenonT(30) DEF Next, Process, Abort, Analyst, Receive, InvalidRow, SkipRow, LookupMisses,
     InsertRawEvent, InsertConflicts, NoRuleTriggered, RuleTriggered, SelectAlert,
     SelectIncident, AttachToIncident, AttachConflicts, OpenIncident, IngestDirect, PatchAlert,
     CreateManualAlert, CreateManualIncident, Tick, tables, vars
<1> QED BY <1>1, <1>2, <1>3

\* What a step of a request links: the alert it remembers, to the incident it
\* remembers or opens.
LEMMA LinksChange ==
    ASSUME [Next]_vars, sess' # sess, NEW i, NEW a, <<i, a>> \in links', <<i, a>> \notin links
    PROVE  \E u \in Upload :
              /\ \/ AttachToIncident(u) /\ i = work[u].incident
                 \/ OpenIncident(u) /\ i = u
              /\ a = work[u].target
<1>1. ASSUME NEW m \in Manual, CreateManualIncident(m) PROVE FALSE
  BY <1>1 DEF CreateManualIncident
<1>2. ASSUME NEW u \in Upload, AttachToIncident(u) PROVE i = work[u].incident /\ a = work[u].target
  BY <1>2 DEF AttachToIncident
<1>3. ASSUME NEW u \in Upload, OpenIncident(u) PROVE i = u /\ a = work[u].target
  BY <1>3 DEF OpenIncident
<1>4. \/ links' = links
      \/ \E u \in Upload : AttachToIncident(u) \/ OpenIncident(u)
      \/ \E m \in Manual : CreateManualIncident(m)
  BY ZenonT(30) DEF Next, Process, Abort, Analyst, Receive, InvalidRow, SkipRow, LookupMisses,
     InsertRawEvent, InsertConflicts, NoRuleTriggered, RuleTriggered, SelectAlert, CreateAlert,
     UpdateAlert, SelectIncident, AttachConflicts, IngestDirect, PatchAlert,
     CreateManualAlert, Tick, tables, vars
<1> QED BY <1>1, <1>2, <1>3, <1>4

\* What a request remembers stays true while others run.
LEMMA WorkKept ==
    ASSUME TypeInv, TenantInv, [Next]_vars, NEW u \in Upload,
           work'[u].target = work[u].target, EventOf(u)' = EventOf(u),
           work[u].target # None => sess'[u].pc \in {"save", "group", "link"}
    PROVE  TargetTrue(u)'
<1>1. CASE work[u].target # None
  <2>1. work[u].target \in AlertId /\ alerts[work[u].target] # None
    BY <1>1 DEF TypeInv, TypeOK, TargetsExist, Work
  <2>2. TargetTrue(u) /\ FreshNames
    BY DEF TenantInv, WorkTrue
  <2>3. /\ alerts'[work[u].target].tenant = alerts[work[u].target].tenant
        /\ alerts'[work[u].target].key = alerts[work[u].target].key
    BY <2>1, <2>2, AlertsKept
  <2> QED BY <1>1, <2>2, <2>3 DEF TargetTrue
<1>2. CASE work[u].target = None
  BY <1>2 DEF TargetTrue
<1> QED BY <1>1, <1>2

LEMMA WorkStep == TypeInv /\ TenantInv /\ [Next]_vars => WorkTrue'
<1> SUFFICES ASSUME TypeInv, TenantInv, [Next]_vars, NEW u \in Upload
             PROVE  TargetTrue(u)' /\ IncidentTrue(u)'
  BY DEF WorkTrue
<1>0. /\ sess \in [Upload -> Session] /\ work \in [Upload -> Work]
      /\ TargetTrue(u) /\ IncidentTrue(u) /\ FreshNames
  BY DEF TypeInv, TypeOK, TenantInv, WorkTrue
<1>1. CASE ~Receive(u) /\ ~Process(u) /\ ~Abort(u)
  <2>1. req'[u] = req[u] /\ sess'[u] = sess[u] /\ work'[u] = work[u]
    BY <1>1, OthersKept
  <2>2. EventOf(u)' = EventOf(u)
    BY <2>1, SameEvent
  <2>3. work[u].target # None => sess'[u].pc \in {"save", "group", "link"}
    BY <1>0, <2>1 DEF TargetTrue
  <2>4. TargetTrue(u)'
    BY <2>1, <2>2, <2>3, WorkKept
  <2>5. IncidentTrue(u)'
    <3>1. work[u].incident # None => work[u].incident \in IncidentId
      BY <1>0 DEF Work
    <3> QED BY <1>0, <2>1, <2>2, <3>1, IncidentsKept DEF IncidentTrue
  <2> QED BY <2>4, <2>5
<1>2. CASE \E how \in {"failed", "aborted"} : End(u, how)
  <2>1. work'[u] = NoWork
    BY <1>0, <1>2 DEF End
  <2> QED BY <2>1 DEF NoWork, TargetTrue, IncidentTrue
<1>3. CASE \/ Receive(u) \/ SkipRow(u) \/ LookupMisses(u) \/ InsertRawEvent(u) \/ RuleTriggered(u)
  <2>1. sess[u].pc \in {"idle", "lookup", "insert", "detect"}
    BY <1>3 DEF Receive, SkipRow, LookupMisses, InsertRawEvent, RuleTriggered
  <2>2. work[u].target = None /\ work[u].incident = None
    BY <1>0, <2>1 DEF TargetTrue, IncidentTrue
  <2>3. work'[u].target = None /\ work'[u].incident = None
    BY <1>0, <1>3, <2>2 DEF Receive, SkipRow, LookupMisses, InsertRawEvent, RuleTriggered, Work
  <2> QED BY <2>3 DEF TargetTrue, IncidentTrue
<1>4. CASE SelectAlert(u)
  <2>g. sess[u].pc = "dedup" /\ GoTo(u, "save") /\ UNCHANGED <<tables, req>>
    BY <1>4 DEF SelectAlert
  <2>1. sess'[u].pc = "save" /\ UNCHANGED alerts
    BY <1>0, <2>g DEF GoTo, tables, Session
  <2>2. work[u].target = None /\ work[u].incident = None
    BY <1>0, <2>g DEF TargetTrue, IncidentTrue
  <2>3. EventOf(u)' = EventOf(u)
    BY <1>0, <2>g, SameEvent DEF GoTo, Session
  <2>4. CASE UNCHANGED work
    BY <2>2, <2>4 DEF TargetTrue, IncidentTrue
  <2>5. CASE work' # work
    <3>1. PICK a \in OpenDuplicates(EventOf(u).tenant, EventOf(u).payload.key) :
            work' = [work EXCEPT ![u].target = a, ![u].seen = alerts[a].occ,
                                 ![u].severity = alerts[a].severity]
      BY <1>4, <2>5 DEF SelectAlert
    <3>2. /\ a \in AlertId /\ alerts[a] # None
          /\ alerts[a].tenant = EventOf(u).tenant /\ alerts[a].key = EventOf(u).payload.key
      BY <3>1 DEF OpenDuplicates
    <3>3. work'[u].target = a /\ work'[u].incident = None
      BY <1>0, <2>2, <3>1 DEF Work
    <3>4. a \in Upload
      <4>1. EventOf(u).payload.key \in Key
        BY <2>g, EventTyped DEF TypeInv, RawEvent, Row, Running
      <4> QED BY <3>2, <4>1, NoneIsNoRow DEF TenantInv, ManualUnkeyed, AlertId
    <3> QED BY <2>1, <2>3, <3>2, <3>3, <3>4 DEF TargetTrue, IncidentTrue
  <2> QED BY <2>4, <2>5
<1>5. CASE UpdateAlert(u)
  <2>1. sess'[u].pc = "group" /\ work'[u] = work[u]
    BY <1>0, <1>5 DEF UpdateAlert, GoTo, Session
  <2>2. EventOf(u)' = EventOf(u)
    BY <1>0, <1>5, SameEvent DEF UpdateAlert, GoTo, Session
  <2>3. work[u].incident = None
    BY <1>0, <1>5 DEF UpdateAlert, IncidentTrue
  <2> QED BY <2>1, <2>2, <2>3, WorkKept DEF IncidentTrue
<1>6. CASE SelectIncident(u)
  <2>1. sess[u].pc = "group" /\ sess'[u].pc = "link" /\ UNCHANGED incidents
    BY <1>0, <1>6 DEF SelectIncident, GoTo, tables, Session
  <2>2. EventOf(u)' = EventOf(u)
    BY <1>0, <1>6, SameEvent DEF SelectIncident, GoTo, Session
  <2>3. CASE UNCHANGED work
    <3>1. TargetTrue(u)'
      BY <2>1, <2>2, <2>3, WorkKept
    <3> QED BY <1>0, <2>1, <2>3, <3>1 DEF IncidentTrue
  <2>4. CASE work' # work
    <3>1. PICK i \in Candidates(EventOf(u).tenant) :
            work' = [work EXCEPT ![u].incident = i,
                                 ![u].linked = <<i, work[u].target>> \in links]
      BY <1>6, <2>4, CandidateRemembered
    <3>2. incidents[i] # None /\ incidents[i].tenant = EventOf(u).tenant
      BY <3>1 DEF Candidates
    <3>3. work'[u].target = work[u].target /\ work'[u].incident = i
      BY <1>0, <3>1 DEF Work
    <3>4. TargetTrue(u)'
      BY <2>1, <2>2, <3>3, WorkKept
    <3> QED BY <2>1, <2>2, <3>2, <3>3, <3>4 DEF IncidentTrue
  <2> QED BY <2>3, <2>4
<1> QED BY <1>1, <1>2, <1>3, <1>4, <1>5, <1>6
        DEF Process, Abort, InvalidRow, InsertConflicts, NoRuleTriggered, CreateAlert,
            AttachToIncident, AttachConflicts, OpenIncident

LEMMA CreditsStep == TypeInv /\ TenantInv /\ [Next]_vars => CreditsApart'
<1> SUFFICES ASSUME TypeInv, TenantInv, [Next]_vars, NEW a \in AlertId, NEW e \in merged'[a]
             PROVE  /\ alerts'[a] # None
                    /\ e.tenant = alerts'[a].tenant
                    /\ e.payload.key = alerts'[a].key
  BY DEF CreditsApart
<1>0. FreshNames /\ CreditsApart /\ WorkTrue
  BY DEF TenantInv
<1>1. CASE e \in merged[a]
  BY <1>0, <1>1, AlertsKept DEF CreditsApart
<1>2. CASE e \notin merged[a]
  <2>1. PICK u \in Upload :
          /\ (CreateAlert(u) /\ a = u) \/ (UpdateAlert(u) /\ a = work[u].target)
          /\ e = EventOf(u)
    BY <1>2, CreditsChange
  <2>2. CASE CreateAlert(u) /\ a = u
    <3>1. alerts[a] = None
      BY <1>0, <2>2 DEF FreshNames, CreateAlert, Running
    <3> DEFINE new == [tenant |-> e.tenant, key |-> e.payload.key,
                       severity |-> work[u].severity, status |-> "new",
                       occ |-> 1, lastSeen |-> clock, scored |-> FALSE]
    <3>2. alerts'[a] = new
      BY <2>1, <2>2 DEF CreateAlert, TypeInv, TypeOK
    <3>3. new \in Alert
      <4>1. EventOf(u) \in RawEvent
        BY <2>2, EventTyped DEF CreateAlert, Running, TypeInv
      <4>2. e.tenant \in Tenant /\ e.payload.key \in Key
        BY <2>1, <4>1 DEF RawEvent, Row
      <4>3. work[u].severity \in Severity /\ clock \in Nat
        BY WindowsAreNat DEF TypeInv, TypeOK, Work
      <4> QED BY <4>2, <4>3 DEF Alert, AlertStatus
    <3>4. alerts'[a] # None
      BY <3>2, <3>3, NoneIsNoRow
    <3> QED BY <3>2, <3>4
  <2>3. CASE UpdateAlert(u) /\ a = work[u].target
    <3>1. alerts[a] # None
      BY <2>3 DEF UpdateAlert, TypeInv, TargetsExist
    <3>2. alerts[a].tenant = e.tenant /\ alerts[a].key = e.payload.key
      BY <1>0, <2>1, <2>3 DEF UpdateAlert, WorkTrue, TargetTrue
    <3> QED BY <1>0, <3>1, <3>2, AlertsKept
  <2> QED BY <2>1, <2>2, <2>3
<1> QED BY <1>1, <1>2

LEMMA LinksStep ==
    ASSUME TypeInv, TenantInv, [Next]_vars, sess' # sess,
           NEW i \in IncidentId, NEW a \in AlertId, <<i, a>> \in links' \ links
    PROVE  /\ incidents'[i] # None /\ alerts'[a] # None
           /\ incidents'[i].tenant = alerts'[a].tenant
<1>0. FreshNames /\ WorkTrue
  BY DEF TenantInv
<1>1. PICK u \in Upload :
        /\ \/ AttachToIncident(u) /\ i = work[u].incident
           \/ OpenIncident(u) /\ i = u
        /\ a = work[u].target
  BY LinksChange
<1>2. /\ sess[u].pc = "link" /\ alerts[a] # None /\ a # None
      /\ alerts[a].tenant = EventOf(u).tenant
  <2>1. sess[u].pc = "link"
    BY <1>1 DEF AttachToIncident, OpenIncident
  <2> QED BY <1>0, <1>1, <2>1 DEF TypeInv, TargetsExist, WorkTrue, TargetTrue
<1>3. alerts'[a] # None /\ alerts'[a].tenant = EventOf(u).tenant
  BY <1>0, <1>2, AlertsKept
<1>4. incidents'[i] # None /\ incidents'[i].tenant = EventOf(u).tenant
  <2>1. CASE AttachToIncident(u) /\ i = work[u].incident
    <3>1. incidents[i] # None /\ incidents[i].tenant = EventOf(u).tenant
      BY <1>0, <2>1 DEF AttachToIncident, WorkTrue, IncidentTrue
    <3> QED BY <1>0, <3>1, IncidentsKept
  <2>2. CASE OpenIncident(u) /\ i = u
    <3> DEFINE new == [tenant |-> EventOf(u).tenant, created |-> clock]
    <3>1. incidents'[i] = new
      BY <1>0, <2>2 DEF OpenIncident, TypeInv, TypeOK
    <3>2. new \in Incident
      <4>1. EventOf(u).tenant \in Tenant
        BY <1>2, EventTyped DEF TypeInv, Running, RawEvent
      <4> QED BY <4>1, WindowsAreNat DEF TypeInv, TypeOK, Incident
    <3> QED BY <3>1, <3>2, NoneIsNoRow
  <2> QED BY <1>1, <2>1, <2>2
<1> QED BY <1>3, <1>4

LEMMA TenantStep == TypeInv /\ TenantInv /\ [Next]_vars => TenantInv'
<1> SUFFICES ASSUME TypeInv, TenantInv, [Next]_vars PROVE TenantInv'
  OBVIOUS
<1>1. ManualUnkeyed'
  <2> SUFFICES ASSUME NEW m \in Manual, alerts'[m] # None PROVE alerts'[m].key = NoKey
    BY DEF ManualUnkeyed
  <2>1. m \in AlertId /\ m \notin Upload /\ FreshNames
    BY NoneIsNoRow DEF AlertId, TenantInv
  <2>2. CASE alerts[m] # None
    BY <2>1, <2>2, AlertsKept DEF TenantInv, ManualUnkeyed
  <2>3. CASE alerts[m] = None
    BY <2>1, <2>3, NewAlert
  <2> QED BY <2>2, <2>3
<1> QED BY <1>1, FreshStep, CreditsStep, WorkStep DEF TenantInv

\* For any number of tenants, uploads and analysts, no event is credited to an
\* alert of another tenant or of another key.
THEOREM CreditsStayApart == Spec => []CreditsApart
<1>1. TenantInv => CreditsApart
  BY DEF TenantInv
<1> QED BY <1>1, TypeInit, TypeStep, TenantInit, TenantStep, PTL DEF Spec

\* For any number of them, no step of a request links an alert to an incident
\* of another tenant, be it its own, another request's or an analyst's.
THEOREM GroupsStayApart == Spec => GroupsApart
<1>1. TypeInv /\ TenantInv /\ [Next]_vars =>
        [\A i \in IncidentId, a \in AlertId :
           (sess' # sess /\ <<i, a>> \in links' \ links)
           => incidents'[i].tenant = alerts'[a].tenant]_vars
  BY LinksStep
<1> QED BY <1>1, TypeInit, TypeStep, TenantInit, TenantStep, PTL DEF Spec, GroupsApart

\* A request never undoes what an analyst decided between its read and its
\* write: an alert that was there keeps its status and severity in every step
\* of a request.
THEOREM AnalystsDecide == Spec => AnalystDecides
<1>1. TypeInv /\ TenantInv /\ [Next]_vars =>
        [\A a \in AlertId :
           (/\ alerts[a] # None
            /\ \/ alerts'[a].status # alerts[a].status
               \/ alerts'[a].severity # alerts[a].severity)
           => sess' = sess]_vars
  <2> SUFFICES ASSUME TypeInv, TenantInv, [Next]_vars, NEW a \in AlertId, alerts[a] # None,
                      \/ alerts'[a].status # alerts[a].status
                      \/ alerts'[a].severity # alerts[a].severity
               PROVE  sess' = sess
    OBVIOUS
  <2>1. alerts[a] \in Alert /\ FreshNames
    BY DEF TypeInv, TypeOK, TenantInv
  <2>2. PatchAlert(a)
    BY <2>1, AlertWrites DEF Alert
  <2> QED BY <2>2 DEF PatchAlert
<1> QED BY <1>1, TypeInit, TypeStep, TenantInit, TenantStep, PTL DEF Spec, AnalystDecides

----------------------------------------------------------------------------
(* An incident the pipeline opens is complete from its first commit on.    *)

LEMMA CompleteStep ==
    TypeInv /\ TenantInv /\ IncidentComplete /\ [Next]_vars => IncidentComplete'
<1> SUFFICES ASSUME TypeInv, TenantInv, IncidentComplete, [Next]_vars,
                    NEW i \in Upload, incidents'[i] # None
             PROVE  \E a \in AlertId :
                       <<i, a>> \in links' /\ alerts'[a] # None /\ alerts'[a].scored
  BY DEF IncidentComplete
<1>0. FreshNames /\ i \in IncidentId
  BY DEF TenantInv, IncidentId
<1>1. CASE incidents[i] # None
  <2>1. PICK a \in AlertId : <<i, a>> \in links /\ alerts[a] # None /\ alerts[a].scored
    BY <1>1 DEF IncidentComplete
  <2>2. links \subseteq links'
    BY ZenonT(30) DEF Next, Process, Abort, Analyst, Receive, InvalidRow, SkipRow, LookupMisses,
       InsertRawEvent, InsertConflicts, NoRuleTriggered, RuleTriggered, SelectAlert, CreateAlert,
       UpdateAlert, SelectIncident, AttachToIncident, AttachConflicts, OpenIncident, IngestDirect,
       PatchAlert, CreateManualAlert, CreateManualIncident, Tick, tables, vars
  <2> QED BY <1>0, <2>1, <2>2, AlertsKept
<1>2. CASE incidents[i] = None
  <2>1. OpenIncident(i)
    BY <1>0, <1>2, IncidentsKept
  <2> DEFINE a == work[i].target
  <2>2. a \in AlertId /\ alerts[a] # None
    BY <2>1 DEF OpenIncident, TypeInv, TypeOK, TargetsExist, Work
  <2>3. alerts[a] \in Alert /\ alerts'[a] = [alerts[a] EXCEPT !.scored = TRUE]
    BY <2>1, <2>2 DEF OpenIncident, TypeInv, TypeOK
  <2>4. alerts'[a].scored
    BY <2>3 DEF Alert
  <2> QED BY <1>0, <2>1, <2>2, <2>4, AlertsKept DEF OpenIncident
<1> QED BY <1>1, <1>2

\* Whatever fails after its commit, an incident of the pipeline has a link to
\* an alert, and that alert its risk explanation.
THEOREM IncidentsComplete == Spec => []IncidentComplete
<1>1. Init => IncidentComplete
  BY DEF Init, IncidentComplete, IncidentId
<1> QED BY <1>1, CompleteStep, TypeInit, TypeStep, TenantInit, TenantStep, PTL DEF Spec

----------------------------------------------------------------------------
(* Crediting.  An event is in no table until the commit that credits it, so *)
(* CreditedOnce rests on HeldApart.                                        *)

LEMMA CreditedStep ==
    TypeOK /\ HeldApart /\ CreditedOnce /\ [Next]_vars => CreditedOnce'
<1> SUFFICES ASSUME TypeOK, HeldApart, CreditedOnce, [Next]_vars PROVE CreditedOnce'
  OBVIOUS
<1>1. ASSUME NEW u \in Upload, CreateAlert(u) \/ UpdateAlert(u) PROVE CreditedOnce'
  <2> DEFINE e == EventOf(u)
  <2>1. PICK a \in AlertId : merged' = [merged EXCEPT ![a] = @ \cup {e}]
    <3>1. CASE CreateAlert(u)
      BY <3>1 DEF CreateAlert, AlertId
    <3>2. CASE UpdateAlert(u)
      BY <3>2 DEF UpdateAlert, TypeOK, Work
    <3> QED BY <1>1, <3>1, <3>2
  <2>2. ~IdentityTaken(e) /\ raw' = raw \cup {e}
    BY <1>1, HeldStepCommit
  <2>3. e \notin raw
    BY <2>2 DEF IdentityTaken, SameIdentity
  <2> HIDE DEF e
  <2>4. merged'[a] = merged[a] \cup {e} /\ \A b \in AlertId \ {a} : merged'[b] = merged[b]
    BY <2>1 DEF TypeOK
  <2>5. \A b \in AlertId : merged[b] \subseteq raw /\ e \notin merged[b]
    BY <2>3 DEF CreditedOnce
  <2> QED BY <2>2, <2>4, <2>5 DEF CreditedOnce
<1>2. ASSUME NEW e \in DirectEvent, IngestDirect(e) PROVE CreditedOnce'
  <2>1. e.by = None
    BY InputsTyped
  <2> QED BY <1>2, <2>1 DEF IngestDirect, CreditedOnce
<1>3. ASSUME NEW u \in Upload, Process(u) \/ Abort(u), ~CreateAlert(u), ~UpdateAlert(u)
      PROVE  UNCHANGED <<raw, merged>>
  <2>1. CASE InsertRawEvent(u)
    BY <2>1 DEF InsertRawEvent, tables
  <2> QED BY <1>3, <2>1, HeldStepQuiet
<1>4. ASSUME UNCHANGED <<raw, merged>> PROVE CreditedOnce'
  BY <1>4 DEF CreditedOnce
<1> QED BY <1>1, <1>2, <1>3, <1>4, HeldStepOther DEF Next, Analyst

\* A crash, a failing step or a second upload never separates an event from
\* its alert: what an upload stored is credited to one alert, and to one only.
THEOREM EventsCreditedOnce == Spec => []CreditedOnce
<1>1. Init => CreditedOnce
  BY DEF Init, CreditedOnce
<1> QED BY <1>1, CreditedStep, TypeInit, TypeStep, HeldInit, HeldStep, PTL DEF Spec, TypeInv

----------------------------------------------------------------------------
(* Occurrences.  The count a request remembers may be stale when it writes, *)
(* but what it stands for only grows: the events credited to the alert.    *)

Counted ==
    /\ \A a \in AlertId : IsFiniteSet(merged[a])
    /\ OccurrencesBacked
    /\ \A u \in Upload : work[u].target # None =>
          work[u].seen <= Cardinality(merged[work[u].target])

LEMMA CreditsGrow ==
    ASSUME TypeInv, [Next]_vars, NEW a \in AlertId, IsFiniteSet(merged[a])
    PROVE  /\ IsFiniteSet(merged'[a])
           /\ Cardinality(merged[a]) \in Nat /\ Cardinality(merged'[a]) \in Nat
           /\ Cardinality(merged[a]) <= Cardinality(merged'[a])
<1>1. merged'[a] = merged[a] \/ \E e : merged'[a] = merged[a] \cup {e}
  BY CreditsChange
<1>2. IsFiniteSet(merged'[a]) /\ merged[a] \subseteq merged'[a]
  BY <1>1, FS_AddElement
<1> QED BY <1>2, FS_Subset, FS_CardinalityType

LEMMA CountedStep ==
    TypeInv /\ TenantInv /\ HeldApart /\ CreditedOnce /\ Counted /\ [Next]_vars => Counted'
<1> SUFFICES ASSUME TypeInv, TenantInv, HeldApart, CreditedOnce, Counted, [Next]_vars
             PROVE  Counted'
  OBVIOUS
<1>0. FreshNames /\ WorkTrue /\ sess \in [Upload -> Session] /\ work \in [Upload -> Work]
  BY DEF TenantInv, TypeInv, TypeOK
<1>1. \A a \in AlertId :
         /\ IsFiniteSet(merged'[a])
         /\ Cardinality(merged[a]) \in Nat /\ Cardinality(merged'[a]) \in Nat
         /\ Cardinality(merged[a]) <= Cardinality(merged'[a])
  BY CreditsGrow DEF Counted
<1>2. ASSUME NEW a \in Upload, alerts'[a] # None
      PROVE  alerts'[a].occ \in 1 .. Cardinality(merged'[a])
  <2>1. a \in AlertId
    BY DEF AlertId
  <2>2. CASE alerts[a] = None
    <3>m. a \notin Manual
      BY NoneIsNoRow
    <3>n. CreateAlert(a) /\ alerts'[a] = [tenant |-> EventOf(a).tenant,
             key |-> EventOf(a).payload.key, severity |-> work[a].severity, status |-> "new",
             occ |-> 1, lastSeen |-> clock, scored |-> FALSE]
      BY <1>2, <2>1, <2>2, <3>m, NewAlert
    <3>1. CreateAlert(a) /\ alerts'[a].occ = 1
      BY <3>n
    <3>2. EventOf(a) \in merged'[a]
      BY <2>1, <3>1 DEF CreateAlert, TypeInv, TypeOK
    <3>3. Cardinality(merged'[a]) # 0
      BY <1>1, <2>1, <3>2, FS_EmptySet
    <3> QED BY <1>1, <2>1, <3>1, <3>3
  <2>3. CASE alerts[a] # None
    <3>1. alerts[a].occ \in 1 .. Cardinality(merged[a]) /\ alerts[a] \in Alert
      BY <2>1, <2>3 DEF Counted, OccurrencesBacked, TypeInv, TypeOK
    <3>2. CASE alerts'[a].occ = alerts[a].occ
      BY <1>1, <2>1, <3>1, <3>2
    <3>3. ASSUME NEW u \in Upload, UpdateAlert(u), work[u].target = a,
                 alerts'[a].occ = work[u].seen + 1
          PROVE  alerts'[a].occ \in 1 .. Cardinality(merged'[a])
      <4>1. merged'[a] = merged[a] \cup {EventOf(u)}
        BY <2>1, <3>3 DEF UpdateAlert, TypeInv, TypeOK
      <4>2. EventOf(u) \notin merged[a]
        BY <2>1, <3>3, HeldStepCommit DEF TypeInv, IdentityTaken, SameIdentity, CreditedOnce
      <4>3. Cardinality(merged'[a]) = Cardinality(merged[a]) + 1
        BY <2>1, <4>1, <4>2, FS_AddElement DEF Counted
      <4>4. work[u].seen \in Nat /\ work[u].seen <= Cardinality(merged[a])
        BY <1>0, <2>1, <3>3, NoneIsNoRow DEF Work, Counted, AlertId
      <4> QED BY <1>1, <2>1, <3>3, <4>3, <4>4
    <3>4. \/ alerts'[a].occ = alerts[a].occ
          \/ \E u \in Upload : /\ UpdateAlert(u) /\ work[u].target = a
                               /\ alerts'[a].occ = work[u].seen + 1
      BY <1>0, <2>1, <2>3, <3>1, AlertWrites DEF Alert
    <3> QED BY <3>2, <3>3, <3>4
  <2> QED BY <2>2, <2>3
<1>3. ASSUME NEW u \in Upload, work'[u].target # None
      PROVE  work'[u].seen <= Cardinality(merged'[work'[u].target])
  <2>1. CASE work'[u].target = work[u].target /\ work'[u].seen = work[u].seen
    <3>1. work[u].target \in AlertId /\ work[u].seen \in Nat
      BY <1>0, <1>3, <2>1 DEF Work
    <3>2. work[u].seen <= Cardinality(merged[work[u].target])
      BY <1>3, <2>1 DEF Counted
    <3> QED BY <1>1, <2>1, <3>1, <3>2
  <2>2. CASE SelectAlert(u) /\ work' # work
    <3>1. PICK a \in OpenDuplicates(EventOf(u).tenant, EventOf(u).payload.key) :
            work' = [work EXCEPT ![u].target = a, ![u].seen = alerts[a].occ,
                                 ![u].severity = alerts[a].severity]
      BY <2>2 DEF SelectAlert
    <3>2. a \in AlertId /\ alerts[a] # None /\ alerts[a] \in Alert
      BY <3>1 DEF OpenDuplicates, TypeInv, TypeOK
    <3>3. work'[u].target = a /\ work'[u].seen = alerts[a].occ
      BY <1>0, <3>1 DEF Work
    <3>4. a \in Upload
      <4>1. TargetTrue(u)'
        BY WorkStep DEF WorkTrue
      <4> QED BY <1>3, <3>3, <4>1 DEF TargetTrue
    <3>5. alerts[a].occ \in 1 .. Cardinality(merged[a])
      BY <3>2, <3>4 DEF Counted, OccurrencesBacked
    <3> QED BY <1>1, <3>2, <3>3, <3>5
  <2>3. CASE \E how \in {"failed", "aborted"} : End(u, how)
    BY <1>0, <1>3, <2>3 DEF End, NoWork
  <2>4. CASE RuleTriggered(u)
    BY <1>0, <2>1, <2>4 DEF RuleTriggered, Work
  <2>5. CASE SelectIncident(u)
    <3>1. work'[u].target = work[u].target /\ work'[u].seen = work[u].seen
      <4>1. CASE work' = work
        BY <4>1
      <4>2. CASE work' # work
        <5>1. PICK i \in Candidates(EventOf(u).tenant) :
                work' = [work EXCEPT ![u].incident = i,
                                     ![u].linked = <<i, work[u].target>> \in links]
          BY <2>5, <4>2, CandidateRemembered
        <5> QED BY <1>0, <5>1 DEF Work
      <4> QED BY <4>1, <4>2
    <3> QED BY <2>1, <3>1
  <2>6. CASE \/ Receive(u) \/ SkipRow(u) \/ LookupMisses(u) \/ InsertRawEvent(u) \/ UpdateAlert(u)
             \/ SelectAlert(u) /\ work' = work
    BY <2>1, <2>6 DEF Receive, SkipRow, LookupMisses, InsertRawEvent, UpdateAlert
  <2>7. CASE ~Receive(u) /\ ~Process(u) /\ ~Abort(u)
    <3>1. work'[u] = work[u]
      BY <2>7, OthersKept
    <3> QED BY <2>1, <3>1
  <2> QED BY <2>2, <2>3, <2>4, <2>5, <2>6, <2>7
          DEF Process, Abort, InvalidRow, InsertConflicts, NoRuleTriggered, CreateAlert,
              AttachToIncident, AttachConflicts, OpenIncident
<1> QED BY <1>1, <1>2, <1>3 DEF Counted, OccurrencesBacked

LEMMA CountedInit == Init => Counted
BY FS_EmptySet DEF Init, Counted, OccurrencesBacked, NoWork, AlertId

\* Concurrent merges lose counts and never invent them, however many uploads
\* merge into one alert at once.
THEOREM OccurrencesAlwaysBacked == Spec => []OccurrencesBacked
<1>1. Counted => OccurrencesBacked
  BY DEF Counted
<1>2. Spec => []CreditedOnce
  BY EventsCreditedOnce
<1>3. Spec => []HeldApart
  BY HeldApartAlways
<1> QED BY <1>1, <1>2, <1>3, CountedInit, CountedStep, TypeInit, TypeStep, TenantInit, TenantStep,
           PTL DEF Spec

\* What a request remembers of the alert and the incident it found is still
\* true, as far as its writes rest on it, whoever wrote in between.
THEOREM LocalsStayTrue == Spec => []LocalsStillTrue
<1>1. TypeInv /\ TenantInv /\ Counted => LocalsStillTrue
  BY DEF TypeInv, TargetsExist, TenantInv, WorkTrue, TargetTrue, IncidentTrue, Counted,
     LocalsStillTrue
<1>2. Spec => []CreditedOnce
  BY EventsCreditedOnce
<1>3. Spec => []HeldApart
  BY HeldApartAlways
<1> QED BY <1>1, <1>2, <1>3, CountedInit, CountedStep, TypeInit, TypeStep, TenantInit, TenantStep,
           PTL DEF Spec

----------------------------------------------------------------------------
(* Answers.  A request goes on to its next row only past one that is stored,*)
(* so the rows behind it are, and stay, in raw_events.                     *)

Stored(u, i) == \E e \in raw : HoldsIdentity(e, u, i)

AllBehind ==
    \A u \in Upload :
        /\ sess[u].pc \in Running =>
              /\ sess[u].processed = sess[u].idx - 1
              /\ \A i \in 1 .. (sess[u].idx - 1) : Stored(u, i)
        /\ sess[u].pc = "done" =>
              /\ sess[u].processed = Len(req[u].file)
              /\ \A i \in 1 .. Len(req[u].file) : Stored(u, i)

LEMMA RawGrows == [Next]_vars => raw \subseteq raw'
BY ZenonT(30) DEF Next, Process, Abort, Analyst, Receive, InvalidRow, SkipRow, LookupMisses,
   InsertRawEvent, InsertConflicts, NoRuleTriggered, RuleTriggered, SelectAlert, CreateAlert,
   UpdateAlert, SelectIncident, AttachToIncident, AttachConflicts, OpenIncident, IngestDirect,
   PatchAlert, CreateManualAlert, CreateManualIncident, Tick, tables, vars

LEMMA StoredStays ==
    ASSUME [Next]_vars, NEW u \in Upload, req'[u] = req[u], NEW i, Stored(u, i)
    PROVE  Stored(u, i)'
BY RawGrows DEF Stored, HoldsIdentity

LEMMA BehindStep == TypeInv /\ AllBehind /\ [Next]_vars => AllBehind'
<1> SUFFICES ASSUME TypeInv, AllBehind, [Next]_vars, NEW u \in Upload
             PROVE  /\ sess'[u].pc \in Running =>
                          /\ sess'[u].processed = sess'[u].idx - 1
                          /\ \A i \in 1 .. (sess'[u].idx - 1) : Stored(u, i)'
                    /\ sess'[u].pc = "done" =>
                          /\ sess'[u].processed = Len(req'[u].file)
                          /\ \A i \in 1 .. Len(req'[u].file) : Stored(u, i)'
  BY DEF AllBehind
<1>0. sess \in [Upload -> Session] /\ req \in [Upload -> Request \cup {None}]
  BY DEF TypeInv, TypeOK
<1>1. CASE /\ req'[u] = req[u] /\ sess'[u].idx = sess[u].idx
           /\ sess'[u].processed = sess[u].processed
           /\ \/ sess'[u].pc \in {"failed", "aborted"}
              \/ sess[u].pc \in Running /\ sess'[u].pc \in Running
              \/ sess'[u].pc = sess[u].pc
  <2>1. \A i : Stored(u, i) => Stored(u, i)'
    BY <1>1, StoredStays
  <2>2. ASSUME sess'[u].pc \in Running PROVE sess[u].pc \in Running
    BY <1>1, <2>2 DEF Running
  <2>3. ASSUME sess'[u].pc = "done" PROVE sess[u].pc = "done"
    BY <1>1, <2>3 DEF Running
  <2> QED BY <1>1, <2>1, <2>2, <2>3 DEF AllBehind
<1>2. CASE Receive(u)
  <2>1. PICK r \in Request :
          /\ req'[u] = r
          /\ sess'[u] = [pc |-> IF r.file = <<>> THEN "done" ELSE "lookup",
                         idx |-> 1, processed |-> 0]
    BY <1>0, <1>2 DEF Receive
  <2>2. sess'[u].idx = 1 /\ sess'[u].processed = 0
    BY <2>1
  <2>3. sess'[u].pc = "done" => Len(req'[u].file) = 0
    BY <2>1
  <2> QED BY <2>2, <2>3
<1>3. CASE SkipRow(u)
  <2> DEFINE n == sess[u].idx
  <2>1. /\ n <= Len(req[u].file) /\ n \in Nat \ {0} /\ Len(req[u].file) \in Nat
        /\ sess[u].processed = n - 1 /\ \A i \in 1 .. (n - 1) : Stored(u, i)
    <3>1. sess[u].pc \in Running
      BY <1>3 DEF SkipRow, Running
    <3>2. req[u] \in Request /\ n <= Len(req[u].file) /\ n \in Nat \ {0}
      BY <1>0, <3>1 DEF TypeInv, TypeOK, Session
    <3> QED BY <3>1, <3>2, InputsTyped DEF Request, AllBehind
  <2>2. /\ req' = req /\ sess'[u].processed = n
        /\ \/ n < Len(req[u].file) /\ sess'[u].pc = "lookup" /\ sess'[u].idx = n + 1
           \/ n = Len(req[u].file) /\ sess'[u].pc = "done"
    BY <1>0, <1>3, <2>1 DEF SkipRow, Session
  <2>3. Stored(u, n)
    <3>1. PICK e \in raw : SameIdentity(e, EventOf(u))
      BY <1>3 DEF SkipRow, AlreadyIngested
    <3> QED BY <3>1 DEF SameIdentity, EventOf, RowOf, Stored, HoldsIdentity
  <2>4. \A i \in 1 .. n : i = n \/ i \in 1 .. (n - 1)
    BY <2>1
  <2>5. \A i \in 1 .. n : Stored(u, i)
    BY <2>1, <2>3, <2>4
  <2>6. \A i \in 1 .. n : Stored(u, i)'
    BY <2>2, <2>5, StoredStays
  <2> HIDE DEF n
  <2>7. n + 1 - 1 = n
    BY <2>1
  <2>8. CASE sess'[u].pc = "lookup" /\ sess'[u].idx = n + 1
    <3>1. sess'[u].idx - 1 = n
      BY <2>1, <2>8
    <3> QED BY <2>2, <2>6, <2>8, <3>1
  <2>9. CASE n = Len(req[u].file) /\ sess'[u].pc = "done"
    BY <2>2, <2>6, <2>9 DEF Running
  <2> QED BY <2>2, <2>8, <2>9
<1>4. CASE ~Receive(u) /\ ~Process(u) /\ ~Abort(u)
  BY <1>1, <1>4, OthersKept
<1>5. CASE (Process(u) \/ Abort(u)) /\ ~SkipRow(u)
  <2>1. req' = req /\ sess[u].pc \in Running
    BY <1>5, Frame DEF Process, Abort, InvalidRow, LookupMisses, InsertRawEvent,
       InsertConflicts, NoRuleTriggered, RuleTriggered, SelectAlert, CreateAlert, UpdateAlert,
       SelectIncident, AttachToIncident, AttachConflicts, OpenIncident, Running, TypeInv
  <2>2. \/ \E how \in {"failed", "aborted"} : End(u, how)
        \/ \E p \in Running : GoTo(u, p)
    BY <1>5 DEF Process, Abort, InvalidRow, LookupMisses, InsertRawEvent,
       InsertConflicts, NoRuleTriggered, RuleTriggered, SelectAlert, CreateAlert, UpdateAlert,
       SelectIncident, AttachToIncident, AttachConflicts, OpenIncident, Running
  <2>3. PICK p \in {"failed", "aborted"} \cup Running : GoTo(u, p)
    BY <2>2 DEF End, GoTo
  <2>4. /\ sess'[u].pc = p /\ sess'[u].idx = sess[u].idx
        /\ sess'[u].processed = sess[u].processed
    BY <1>0, <2>3 DEF GoTo, Session
  <2> QED BY <1>1, <2>1, <2>4
<1> QED BY <1>2, <1>3, <1>4, <1>5

\* What an upload has stored is a row of the file it was sent.
Sent(e) ==
    e.by \in Upload =>
        /\ req[e.by] # None
        /\ e.sid.source = req[e.by].source /\ e.sid.nonce = req[e.by].nonce
        /\ e.payload = req[e.by].file[e.sid.index]

AllSent ==
    /\ \A u \in Upload : req[u] # None => sess[u].pc # "idle"
    /\ \A e \in raw : Sent(e)

LEMMA ArrivedStep == TypeInv /\ AllSent /\ [Next]_vars =>
    \A u \in Upload : /\ req'[u] # None => sess'[u].pc # "idle"
                      /\ req[u] # None => req'[u] = req[u]
<1> SUFFICES ASSUME TypeInv, AllSent, [Next]_vars, NEW u \in Upload
             PROVE  /\ req'[u] # None => sess'[u].pc # "idle"
                    /\ req[u] # None => req'[u] = req[u]
  OBVIOUS
<1>0. sess \in [Upload -> Session] /\ (req[u] # None => sess[u].pc # "idle")
  BY DEF TypeInv, TypeOK, AllSent
<1>1. CASE Receive(u)
  <2>1. sess[u].pc = "idle" /\ sess'[u].pc \in {"done", "lookup"}
    BY <1>0, <1>1 DEF Receive
  <2> QED BY <1>0, <2>1
<1>2. CASE ~Receive(u) /\ ~Process(u) /\ ~Abort(u)
  BY <1>0, <1>2, OthersKept
<1>3. CASE Process(u) \/ Abort(u)
  <2>1. req' = req
    BY <1>3, Frame DEF Process, Abort, InvalidRow, SkipRow, LookupMisses, InsertRawEvent,
       InsertConflicts, NoRuleTriggered, RuleTriggered, SelectAlert, CreateAlert, UpdateAlert,
       SelectIncident, AttachToIncident, AttachConflicts, OpenIncident
  <2>2. \/ \E how \in {"failed", "aborted"} : End(u, how)
        \/ \E p \in Running : GoTo(u, p)
        \/ SkipRow(u)
    BY <1>3 DEF Process, Abort, InvalidRow, LookupMisses, InsertRawEvent,
       InsertConflicts, NoRuleTriggered, RuleTriggered, SelectAlert, CreateAlert, UpdateAlert,
       SelectIncident, AttachToIncident, AttachConflicts, OpenIncident, Running
  <2>3. sess'[u].pc # "idle"
    <3>1. CASE SkipRow(u)
      BY <1>0, <3>1 DEF SkipRow, Session
    <3>2. CASE ~SkipRow(u)
      <4>1. PICK p \in {"failed", "aborted"} \cup Running : GoTo(u, p)
        BY <2>2, <3>2 DEF End, GoTo
      <4> QED BY <1>0, <4>1 DEF GoTo, Session, Running
    <3> QED BY <3>1, <3>2
  <2> QED BY <2>1, <2>3
<1> QED BY <1>1, <1>2, <1>3

\* What a step stores: the event of the request, or one that was POSTed.
LEMMA RawChange ==
    ASSUME [Next]_vars, NEW e \in raw', e \notin raw
    PROVE  \/ e \in DirectEvent
           \/ \E u \in Upload : sess[u].pc = "save" /\ req' = req /\ e = EventOf(u)
<1>1. ASSUME NEW u \in Upload, CreateAlert(u) \/ UpdateAlert(u)
      PROVE  sess[u].pc = "save" /\ req' = req /\ e = EventOf(u)
  BY <1>1 DEF CreateAlert, UpdateAlert
<1>2. ASSUME NEW d \in DirectEvent, IngestDirect(d) PROVE e \in DirectEvent
  BY <1>2 DEF IngestDirect
<1>3. \/ \E u \in Upload : CreateAlert(u) \/ UpdateAlert(u)
      \/ \E d \in DirectEvent : IngestDirect(d)
  BY ZenonT(30) DEF Next, Process, Abort, Analyst, Receive, InvalidRow, SkipRow, LookupMisses,
     InsertRawEvent, InsertConflicts, NoRuleTriggered, RuleTriggered, SelectAlert,
     SelectIncident, AttachToIncident, AttachConflicts, OpenIncident, PatchAlert,
     CreateManualAlert, CreateManualIncident, Tick, tables, vars
<1> QED BY <1>1, <1>2, <1>3

LEMMA SentStep == TypeInv /\ AllSent /\ [Next]_vars => AllSent'
<1> SUFFICES ASSUME TypeInv, AllSent, [Next]_vars, NEW e \in raw' PROVE Sent(e)'
  BY ArrivedStep DEF AllSent
<1>0. \A u \in Upload : req[u] # None => req'[u] = req[u]
  BY ArrivedStep
<1>1. CASE e \in raw
  BY <1>0, <1>1 DEF AllSent, Sent
<1>2. CASE e \notin raw
  <2>1. CASE e \in DirectEvent
    BY <2>1, InputsTyped, NoneIsNoRow DEF Sent
  <2>2. CASE \E u \in Upload : sess[u].pc = "save" /\ req' = req /\ e = EventOf(u)
    <3>1. PICK u \in Upload : sess[u].pc = "save" /\ req' = req /\ e = EventOf(u)
      BY <2>2
    <3>2. req[u] # None
      BY <3>1 DEF TypeInv, TypeOK, Running
    <3>3. /\ e.by = u /\ e.payload = req[u].file[e.sid.index]
          /\ e.sid.source = req[u].source /\ e.sid.nonce = req[u].nonce
      BY <3>1 DEF EventOf, RowOf
    <3> QED BY <3>1, <3>2, <3>3 DEF Sent
  <2> QED BY <1>2, <2>1, <2>2, RawChange
<1> QED BY <1>1, <1>2

\* A 200 answer is backed by evidence, for any number of uploads and any
\* files: every row it counts is stored as it was sent, unless its identity was
\* taken by an event POSTed directly or by another request for that source with
\* the same batch_nonce; and what is stored is never taken back.
THEOREM AnswersBacked == Spec => []DoneMeansStored
<1>1. TypeInv /\ AllBehind /\ AllSent => DoneMeansStored
  <2> SUFFICES ASSUME TypeInv, AllBehind, AllSent, NEW u \in Upload, sess[u].pc = "done"
               PROVE  /\ sess[u].processed = Len(req[u].file)
                      /\ \A i \in 1 .. Len(req[u].file) :
                            \E r \in raw :
                               /\ HoldsIdentity(r, u, i)
                               /\ \/ r.payload = req[u].file[i]
                                  \/ r.by = None
                                  \/ /\ r.by \in Upload \ {u}
                                     /\ req[r.by].source = req[u].source
                                     /\ req[r.by].nonce = req[u].nonce
    BY DEF DoneMeansStored
  <2>1. sess[u].processed = Len(req[u].file)
    BY DEF AllBehind
  <2>2. ASSUME NEW i \in 1 .. Len(req[u].file)
        PROVE  \E r \in raw :
                  /\ HoldsIdentity(r, u, i)
                  /\ \/ r.payload = req[u].file[i]
                     \/ r.by = None
                     \/ /\ r.by \in Upload \ {u}
                        /\ req[r.by].source = req[u].source
                        /\ req[r.by].nonce = req[u].nonce
    <3>1. PICK r \in raw : HoldsIdentity(r, u, i)
      BY <2>2 DEF AllBehind, Stored
    <3>2. r.sid.source = req[u].source /\ r.sid.nonce = req[u].nonce /\ r.sid.index = i
      BY <3>1 DEF HoldsIdentity
    <3>3. r.by \in Upload \cup {None} /\ Sent(r)
      BY DEF TypeInv, TypeOK, RawEvent, AllSent
    <3> QED BY <3>1, <3>2, <3>3 DEF Sent
  <2> QED BY <2>1, <2>2
<1>2. Init => AllBehind /\ AllSent
  BY DEF Init, AllBehind, AllSent, Running
<1> QED BY <1>1, <1>2, BehindStep, SentStep, TypeInit, TypeStep, PTL DEF Spec
=============================================================================
