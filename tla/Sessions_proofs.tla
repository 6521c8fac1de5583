--------------------------- MODULE Sessions_proofs ---------------------------
(***************************************************************************)
(* Refresh tokens and second factors, for any number of concurrent logins, *)
(* refreshes, set-ups, crashes and expiries.                               *)
(***************************************************************************)
EXTENDS Accounts_proofs

----------------------------------------------------------------------------
(* Rotation.  A token descends from the request of a login or registration *)
(* only once that request has issued it, so that a family begins with one  *)
(* token.  From then on a second one takes two refreshes in flight, and    *)
(* the second of them read a token the first had read or was given.        *)

InFlight(r) == pc[r] \in {"delete", "issue"} /\ req[r].op = "refresh"
FamilyOf(r) == family[req[r].token]

RotationTypes ==
    /\ live \subseteq Id /\ family \in [Id -> Id] /\ forked \subseteq Id
    /\ DOMAIN pc = Req /\ DOMAIN req = Req
    /\ \A r \in Req : pc[r] = "delete" => req[r].op = "refresh"
    /\ \A r \in Req : pc[r] = "grants" => req[r].op = "login"
    /\ \A r \in Req : InFlight(r) => req[r].token \in Id

\* The name of a request stands for nothing before it has ended.
Fresh ==
    \A r \in Req : pc[r] # "done" =>
      /\ r \notin live
      /\ \A i \in Id : family[i] = r => i = r
      /\ \A v \in Req : InFlight(v) => req[v].token # r

RotationInv ==
    /\ RotationTypes /\ Fresh /\ RotationKeepsOne
    /\ \A r \in Req : InFlight(r) =>
          \A t \in live :
             family[t] = FamilyOf(r) /\ (pc[r] = "delete" => t # req[r].token) =>
               FamilyOf(r) \in forked
    /\ \A r, v \in Req : r # v /\ InFlight(r) /\ InFlight(v) /\ FamilyOf(r) = FamilyOf(v) =>
          FamilyOf(r) \in forked

LEMMA RotationInit == Init => RotationInv
  BY InputsTyped DEF Init, RotationInv, RotationTypes, Fresh, RotationKeepsOne, InFlight, Id

\* A step of r that leaves Redis alone and is not on its way to refresh.
LEMMA RotationQuiet ==
    ASSUME RotationInv, NEW r \in Req, pc[r] # "done",
           UNCHANGED <<live, family, forked>>, DOMAIN pc' = Req, DOMAIN req' = Req,
           \A v \in Req \ {r} : pc'[v] = pc[v] /\ req'[v] = req[v],
           pc'[r] # "delete", pc'[r] = "issue" => req'[r].op # "refresh",
           pc'[r] = "grants" => req'[r].op = "login"
    PROVE  RotationInv'
  <1>1. ~InFlight(r)' /\ \A v \in Req \ {r} : InFlight(v)' = InFlight(v)
    BY DEF InFlight
  <1>2. RotationTypes'
    BY <1>1 DEF RotationInv, RotationTypes
  <1>3. Fresh'
    BY <1>1 DEF RotationInv, Fresh
  <1> QED
    BY <1>1, <1>2, <1>3 DEF RotationInv, RotationKeepsOne, FamilyOf

\* The second of two refreshes of one family shows it to be forked.
LEMMA RotationGet == ASSUME RotationInv, NEW r \in Req, RefreshGet(r) PROVE RotationInv'
  <1> PICK t \in live :
        /\ req' = [req EXCEPT ![r] = [op |-> "refresh", token |-> t]]
        /\ forked' = IF \E v \in Req : pc[v] = "delete" /\ req[v].token = t
                       THEN forked \cup {family[t]} ELSE forked
    BY DEF RefreshGet
  <1> USE DEF RotationInv, RotationTypes
  <1>1. /\ pc[r] = "idle" /\ pc'[r] = "delete"
        /\ req'[r].op = "refresh" /\ req'[r].token = t
        /\ \A v \in Req \ {r} : pc'[v] = pc[v] /\ req'[v] = req[v]
        /\ UNCHANGED <<live, family>> /\ forked \subseteq forked' /\ forked' \subseteq Id
        /\ DOMAIN pc' = Req /\ DOMAIN req' = Req
    BY DEF RefreshGet
  <1>2. InFlight(r)' /\ \A v \in Req \ {r} : InFlight(v)' = InFlight(v)
    BY <1>1 DEF InFlight
  <1>3. RotationTypes'
    BY <1>1, <1>2
  <1>4. Fresh'
    BY <1>1, <1>2 DEF Fresh
  <1>5. ASSUME NEW v \in Req \ {r}, InFlight(v), FamilyOf(v) = family[t]
        PROVE  family[t] \in forked'
    <2>1. CASE pc[v] = "delete" /\ req[v].token = t
      BY <2>1
    <2>2. CASE ~(pc[v] = "delete" /\ req[v].token = t)
      BY <2>2, <1>1, <1>5
    <2> QED
      BY <2>1, <2>2
  <1>6. ASSUME NEW s \in live, s # t, family[s] = family[t] PROVE family[t] \in forked'
    BY <1>1, <1>6 DEF RotationKeepsOne
  <1> QED
    BY <1>1, <1>2, <1>3, <1>4, <1>5, <1>6 DEF RotationKeepsOne, FamilyOf

LEMMA RotationDelete == ASSUME RotationInv, NEW r \in Req, RefreshDelete(r) PROVE RotationInv'
  <1> USE DEF RotationInv, RotationTypes
  <1>1. /\ pc[r] = "delete" /\ pc'[r] = "issue" /\ live' = live \ {req[r].token}
        /\ UNCHANGED <<req, family, forked>>
        /\ \A v \in Req \ {r} : pc'[v] = pc[v]
        /\ DOMAIN pc' = Req
    BY DEF RefreshDelete, Goto, Remaining
  <1>2. \A v \in Req : InFlight(v)' = InFlight(v)
    BY <1>1 DEF InFlight
  <1>3. RotationTypes'
    BY <1>1, <1>2
  <1>4. Fresh'
    BY <1>1, <1>2 DEF Fresh
  <1> QED
    BY <1>1, <1>2, <1>3, <1>4 DEF RotationKeepsOne, FamilyOf

\* The request that stores a token names a token nobody has heard of.
LEMMA RotationIssue == ASSUME RotationInv, NEW r \in Req, IssueTokens(r) PROVE RotationInv'
  <1> USE DEF RotationInv, RotationTypes
  <1> DEFINE root == IF req[r].op = "refresh" THEN FamilyOf(r) ELSE r
  <1>1. /\ pc[r] = "issue" /\ pc'[r] = "done" /\ live' = live \cup {r}
        /\ family' = [family EXCEPT ![r] = root] /\ forked' = forked
        /\ \A v \in Req \ {r} : pc'[v] = pc[v] /\ req'[v] = req[v]
        /\ DOMAIN pc' = Req /\ DOMAIN req' = Req
    BY DEF IssueTokens, End, FamilyOf
  <1>2. /\ r \in Id /\ r \notin live
        /\ \A i \in Id : family[i] = r => i = r
        /\ \A v \in Req : InFlight(v) => req[v].token # r
    BY <1>1 DEF Fresh, Id
  <1>3. ~InFlight(r)' /\ \A v \in Req \ {r} : InFlight(v)' = InFlight(v)
    BY <1>1 DEF InFlight
  <1>4. InFlight(r) <=> req[r].op = "refresh"
    BY <1>1 DEF InFlight
  <1>5. root \in Id /\ family'[r] = root /\ \A i \in Id \ {r} : family'[i] = family[i]
    BY <1>1, <1>2, <1>4 DEF FamilyOf
  <1>6. RotationTypes'
    BY <1>1, <1>2, <1>3, <1>5
  <1>7. Fresh'
    <2> SUFFICES ASSUME NEW v \in Req, pc'[v] # "done"
                 PROVE  /\ v \notin live'
                        /\ \A i \in Id : family'[i] = v => i = v
                        /\ \A w \in Req : InFlight(w)' => req'[w].token # v
      BY DEF Fresh
    <2>1. /\ v # r /\ pc[v] # "done"
      BY <1>1
    <2>2. root # v
      BY <2>1, <1>4 DEF Fresh, FamilyOf
    <2> QED
      BY <2>1, <2>2, <1>1, <1>3, <1>5 DEF Fresh
  <1>8. ASSUME NEW v \in Req, InFlight(v)'
        PROVE  /\ v # r /\ InFlight(v) /\ pc'[v] = pc[v] /\ req'[v] = req[v]
               /\ FamilyOf(v)' = FamilyOf(v)
               /\ FamilyOf(v) = root => root \in forked
    <2>1. v # r /\ InFlight(v) /\ req'[v] = req[v] /\ pc'[v] = pc[v]
      BY <1>1, <1>3, <1>8
    <2>2. req[v].token \in Id /\ req[v].token # r
      BY <2>1, <1>2
    <2>3. FamilyOf(v)' = FamilyOf(v)
      BY <2>1, <2>2, <1>5 DEF FamilyOf
    <2>4. FamilyOf(v) # r
      BY <2>2, <1>2 DEF FamilyOf
    <2>5. FamilyOf(v) = root => root \in forked
      BY <2>1, <2>4, <1>4
    <2> QED
      BY <2>1, <2>3, <2>5
  <1>9. ASSUME NEW t \in live, family[t] = root PROVE root \in forked
    BY <1>1, <1>2, <1>4, <1>9 DEF FamilyOf
  <1>10. RotationKeepsOne'
    BY <1>1, <1>2, <1>5, <1>9 DEF RotationKeepsOne
  <1>11. ASSUME NEW v \in Req, InFlight(v)', NEW t \in live',
                family'[t] = FamilyOf(v)', pc'[v] = "delete" => t # req'[v].token
         PROVE  FamilyOf(v)' \in forked'
    BY <1>1, <1>2, <1>5, <1>8, <1>11
  <1>12. ASSUME NEW v \in Req, NEW w \in Req, v # w, InFlight(v)', InFlight(w)',
                FamilyOf(v)' = FamilyOf(w)'
         PROVE  FamilyOf(v)' \in forked'
    BY <1>1, <1>8, <1>12
  <1> QED
    BY <1>6, <1>7, <1>10, <1>11, <1>12

LEMMA RotationExpire == ASSUME RotationInv, NEW t \in Id, Expire(t) PROVE RotationInv'
  <1>1. live' \subseteq live /\ UNCHANGED <<pc, req, family, forked>>
    BY DEF Expire
  <1>2. \A v \in Req : InFlight(v)' = InFlight(v) /\ FamilyOf(v)' = FamilyOf(v)
    BY <1>1 DEF InFlight, FamilyOf
  <1> QED
    BY <1>1, <1>2 DEF RotationInv, RotationTypes, Fresh, RotationKeepsOne

LEMMA RotationEnds ==
    ASSUME RotationInv, NEW r \in Req, pc[r] # "done", NEW how \in Ended, End(r, how),
           UNCHANGED <<live, family, forked>>
    PROVE  RotationInv'
  <1>1. /\ DOMAIN pc' = Req /\ DOMAIN req' = Req /\ pc'[r] = how
        /\ \A v \in Req \ {r} : pc'[v] = pc[v] /\ req'[v] = req[v]
    BY DEF End, RotationInv, RotationTypes
  <1> QED
    BY <1>1, RotationQuiet DEF Ended

LEMMA RotationBegins ==
    ASSUME RotationInv, NEW r \in Req, Begin(r) PROVE RotationInv'
  <1> USE DEF redis
  <1>1. CASE RefreshGet(r)
    BY <1>1, RotationGet
  <1>2. CASE AssignRole(r) \/ CreateUser(r) \/ Refused(r)
    BY <1>2, RotationEnds DEF AssignRole, CreateUser, Refused, Ended
  <1>3. ASSUME NEW call, NEW where \in {"tenant", "role", "save"}, pc[r] = "idle",
               req' = [req EXCEPT ![r] = call], pc' = [pc EXCEPT ![r] = where],
               UNCHANGED <<live, family, forked>>
        PROVE  RotationInv'
    <2>1. /\ DOMAIN pc' = Req /\ DOMAIN req' = Req /\ pc'[r] = where
          /\ \A v \in Req \ {r} : pc'[v] = pc[v] /\ req'[v] = req[v]
      BY <1>3 DEF RotationInv, RotationTypes
    <2> QED
      BY <2>1, <1>3, RotationQuiet
  <1>4. CASE CheckSlug(r)
    BY <1>3, <1>4 DEF CheckSlug
  <1>5. CASE StartRole(r)
    BY <1>3, <1>5 DEF StartRole
  <1>6. ASSUME NEW op, NEW u, NEW code, Load(r, op, u, code) PROVE RotationInv'
    BY <1>3, <1>6 DEF Load
  <1>7. CASE Login(r) \/ SetupMfa(r) \/ EnableMfa(r) \/ DisableMfa(r)
    BY <1>6, <1>7 DEF Login, SetupMfa, EnableMfa, DisableMfa
  <1> QED
    BY <1>1, <1>2, <1>4, <1>5, <1>7 DEF Begin

LEMMA RotationGoes ==
    ASSUME RotationInv, NEW r \in Req, pc[r] # "done", NEW where, Goto(r, where),
           where # "delete", where = "issue" => req[r].op # "refresh",
           where = "grants" => req[r].op = "login", UNCHANGED <<live, family, forked>>
    PROVE  RotationInv'
  <1>1. /\ DOMAIN pc' = Req /\ req' = req /\ DOMAIN req' = Req /\ pc'[r] = where
        /\ \A v \in Req \ {r} : pc'[v] = pc[v] /\ req'[v] = req[v]
    BY DEF Goto, RotationInv, RotationTypes
  <1> QED
    BY <1>1, RotationQuiet

LEMMA RotationStays ==
    ASSUME RotationInv, UNCHANGED <<live, family, forked, pc, req>> PROVE RotationInv'
  BY DEF RotationInv, RotationTypes, Fresh, RotationKeepsOne, InFlight, FamilyOf

LEMMA RotationProceeds ==
    ASSUME RotationInv, NEW r \in Req, Proceed(r) PROVE RotationInv'
  <1> USE DEF redis, Ended
  <1>1. CASE InsertTenant(r)
    BY <1>1, RotationEnds, RotationGoes DEF InsertTenant
  <1>2. CASE SelectPermissions(r)
    BY <1>2, RotationGoes DEF SelectPermissions
  <1>3. CASE SkipFound(r)
    BY <1>3, RotationStays DEF SkipFound
  <1>4. CASE InsertPermission(r)
    BY <1>4, RotationEnds, RotationGoes DEF InsertPermission
  <1>5. CASE CommitRegistration(r)
    BY <1>5, RotationGoes DEF CommitRegistration
  <1>6. CASE InsertRole(r)
    BY <1>6, RotationEnds, RotationGoes DEF InsertRole
  <1>7. CASE LookupPermission(r)
    BY <1>7, RotationStays, RotationGoes DEF LookupPermission
  <1>8. CASE CommitRole(r)
    BY <1>8, RotationEnds DEF CommitRole
  <1>9. CASE LoginCommit(r)
    BY <1>9, RotationGoes DEF LoginCommit
  <1>10. CASE LoadGrants(r)
    <2>1. pc[r] = "grants" /\ req[r].op = "login"
      BY <1>10 DEF LoadGrants, RotationInv, RotationTypes
    <2> QED
      BY <1>10, <2>1, RotationGoes DEF LoadGrants
  <1>11. CASE MfaCommit(r)
    BY <1>11, RotationEnds DEF MfaCommit
  <1>12. CASE RefreshDelete(r)
    BY <1>12, RotationDelete
  <1>13. CASE IssueTokens(r)
    BY <1>13, RotationIssue
  <1>14. CASE DeadlockVictim(r)
    <2>1. WaitsFor(r) # {}
      BY <1>14 DEF DeadlockVictim, OnCycle
    <2>2. pc[r] # "done"
      BY <2>1 DEF WaitsFor
    <2> QED
      BY <1>14, <2>2, RotationEnds DEF DeadlockVictim
  <1> QED
    BY <1>1, <1>2, <1>3, <1>4, <1>5, <1>6, <1>7, <1>8, <1>9, <1>10, <1>11, <1>12,
       <1>13, <1>14 DEF Proceed

LEMMA RotationStep == RotationInv /\ [Next]_vars => RotationInv'
  <1> SUFFICES ASSUME RotationInv, [Next]_vars PROVE RotationInv'
    OBVIOUS
  <1>1. CASE \E r \in Req : Begin(r) \/ Proceed(r)
    BY <1>1, RotationBegins, RotationProceeds
  <1>2. ASSUME NEW r \in Req, Abort(r) PROVE RotationInv'
    BY <1>2, RotationEnds DEF Abort, Running, Ended, redis
  <1>3. CASE \E t \in Id : Expire(t)
    BY <1>3, RotationExpire
  <1>4. CASE UNCHANGED vars
    BY <1>4, RotationStays DEF vars
  <1> QED
    BY <1>1, <1>2, <1>3, <1>4 DEF Next

\* Whatever logins, refreshes, crashes and expiries interleave, a login has at
\* most one stored refresh token until two refreshes have read one token
\* (auth.py:262-286).
THEOREM RotationAlways == Spec => []RotationKeepsOne
  <1>1. RotationInv => RotationKeepsOne
    BY DEF RotationInv
  <1> QED
    BY <1>1, RotationInit, RotationStep, PTL DEF Spec

----------------------------------------------------------------------------
(* Second factors.  While one change of a factor is on its way, the row it *)
(* loaded is the row it will overwrite; a secret or a code belongs to one  *)
(* user, and to nobody before the request that generates it has ended.     *)

Gens(f) == {g \in Id : f.secret = g \/ \E c \in f.codes : c.gen = g}
Pending(r, u) == pc[r] = "save" /\ req[r].user = u
Uses(u, g) == g \in Gens(mfa[u]) \/ \E r \in Req : Pending(r, u) /\ g \in Gens(loc[r].row)

LoadedStands ==
    \A u \in Id \ overlapped, r \in Req : ChangesFactor(r, u) => loc[r].row = mfa[u]
SpendsItsOwn ==
    \A r \in Req : pc[r] = "save" =>
        /\ loc[r].spend # None => loc[r].spend \in loc[r].row.codes
        /\ req[r].op \in {"setup", "enable"} => loc[r].spend = None
OwnedByOne == \A u, w \in Id : u # w => \A g \in Id : ~(Uses(u, g) /\ Uses(w, g))
Ungenerated ==
    \A r \in Req : pc[r] # "done" =>
        /\ \A u \in Id : ~Uses(u, r)
        /\ \A c \in spent : c.gen # r

FactorInv == FactorSoundAlone /\ LoadedStands /\ SpendsItsOwn /\ OwnedByOne /\ Ungenerated

LEMMA FactorInit == Init => FactorInv
  <1> SUFFICES ASSUME Init PROVE FactorInv
    OBVIOUS
  <1>1. /\ \A i \in Id : mfa[i] = NoFactor \/ (i = Base /\ mfa[i] = BaseFactor)
        /\ \A r \in Req : pc[r] = "idle"
        /\ verified = {Base} /\ spent = {} /\ Base \in Id /\ Base \notin Req
    BY InputsTyped DEF Init, Id
  <1>2. Base # None
    BY NoneIsNoRow DEF Id
  <1>3. /\ NoFactor.enabled = FALSE /\ NoFactor.secret = None /\ NoFactor.codes = {}
        /\ BaseFactor.secret = Base /\ BaseFactor.codes = RecoveryCodes(Base)
    BY DEF NoFactor, BaseFactor
  <1>4. FactorSoundAlone
    BY <1>1, <1>2, <1>3 DEF FactorSoundAlone
  <1>5. Gens(NoFactor) = {} /\ Gens(BaseFactor) = {Base}
    BY <1>1, <1>3, NoneIsNoRow DEF Gens, RecoveryCodes
  <1>6. \A u, g \in Id : Uses(u, g) => u = Base /\ g = Base
    BY <1>1, <1>5 DEF Uses, Pending
  <1>7. LoadedStands /\ SpendsItsOwn
    BY <1>1 DEF LoadedStands, SpendsItsOwn, ChangesFactor
  <1>8. OwnedByOne /\ Ungenerated
    BY <1>1, <1>6 DEF OwnedByOne, Ungenerated, Id
  <1> QED
    BY <1>4, <1>7, <1>8 DEF FactorInv

\* A step of r that has nothing to do with a second factor, or gives one up.
LEMMA FactorQuiet ==
    ASSUME FactorInv, NEW r \in Req, pc[r] # "done", pc'[r] # "save", Alone(r),
           UNCHANGED factors
    PROVE  FactorInv'
  <1>1. /\ mfa' = mfa /\ verified' = verified /\ spent' = spent /\ overlapped' = overlapped
        /\ \A v \in Req : pc'[v] = "save" =>
              v # r /\ pc[v] = "save" /\ req'[v] = req[v] /\ loc'[v] = loc[v]
    BY DEF Alone, factors
  <1>2. \A u, g \in Id : Uses(u, g)' => Uses(u, g)
    BY <1>1 DEF Uses, Pending
  <1>3. FactorSoundAlone' /\ LoadedStands' /\ SpendsItsOwn'
    BY <1>1 DEF FactorInv, FactorSoundAlone, LoadedStands, SpendsItsOwn, ChangesFactor
  <1>4. OwnedByOne'
    BY <1>2 DEF FactorInv, OwnedByOne
  <1>5. Ungenerated'
    BY <1>1, <1>2 DEF FactorInv, Ungenerated, Alone, Id
  <1> QED
    BY <1>3, <1>4, <1>5 DEF FactorInv

LEMMA FactorLoad ==
    ASSUME TypeInv, FactorInv, NEW r \in Req, NEW op \in {"login", "setup", "enable", "disable"},
           NEW u \in Id, NEW code \in Code \cup {None},
           op \in {"setup", "enable"} => code = None, Load(r, op, u, code)
    PROVE  FactorInv'
  <1> DEFINE s == SpentBy(mfa[u], code)
             f == mfa[u]
             l == WithRow(loc[r], f, s)
  <1>1. /\ s \in Code \cup {None} /\ f \in Factor /\ loc[r] \in Local
        /\ s # None => s \in f.codes
        /\ op \in {"setup", "enable"} => s = None
    BY RequestTyped DEF SpentBy, SpendsRecoveryCode, TypeInv, TypeOK, Load
  <1>2. loc' = [loc EXCEPT ![r] = l]
    BY DEF Load, WithRow
  <1>3. /\ pc[r] = "idle" /\ pc'[r] = "save" /\ req'[r].op = op /\ req'[r].user = u
        /\ \A v \in Req \ {r} : pc'[v] = pc[v] /\ req'[v] = req[v] /\ loc'[v] = loc[v]
        /\ mfa' = mfa /\ verified' = verified /\ spent' = spent /\ overlapped' = overlapped
        /\ loc'[r] = l
    BY <1>2 DEF Load, TypeInv, TypeOK, factors
  <1> HIDE DEF s
  <1>4. l.row = f /\ l.spend = s
    <2> HIDE DEF f
    <2> QED
      BY <1>1, SetRow
  <1> HIDE DEF l
  <1>5. \A w, g \in Id : Uses(w, g)' => Uses(w, g)
    BY <1>3, <1>4 DEF Uses, Pending
  <1>6. FactorSoundAlone'
    BY <1>3 DEF FactorInv, FactorSoundAlone
  <1>7. LoadedStands'
    BY <1>3, <1>4 DEF FactorInv, LoadedStands, ChangesFactor
  <1>8. SpendsItsOwn'
    BY <1>1, <1>3, <1>4 DEF FactorInv, SpendsItsOwn
  <1>9. OwnedByOne'
    BY <1>5 DEF FactorInv, OwnedByOne
  <1>10. Ungenerated'
    BY <1>3, <1>5 DEF FactorInv, Ungenerated, Id
  <1> QED
    BY <1>6, <1>7, <1>8, <1>9, <1>10 DEF FactorInv

LEMMA FactorLoads ==
    ASSUME TypeInv, FactorInv, NEW r \in Req,
           Login(r) \/ SetupMfa(r) \/ EnableMfa(r) \/ DisableMfa(r)
    PROVE  FactorInv'
  <1>1. CASE Login(r)
    BY <1>1, KnownCode, FactorLoad DEF Login
  <1>2. CASE SetupMfa(r)
    BY <1>2, FactorLoad DEF SetupMfa
  <1>3. CASE EnableMfa(r)
    BY <1>3, FactorLoad DEF EnableMfa
  <1>4. CASE DisableMfa(r)
    BY <1>4, KnownCode, FactorLoad DEF DisableMfa
  <1> QED
    BY <1>1, <1>2, <1>3, <1>4

\* A commit of r that leaves user u the factor f, whose secret and codes u had
\* or r has generated.
LEMMA FactorCommit ==
    ASSUME TypeInv, FactorInv, NEW r \in Req, pc[r] = "save", NEW u \in Id, u = req[r].user,
           Alone(r), pc'[r] # "save", Commits(r), NEW f \in Factor,
           mfa' = [mfa EXCEPT ![u] = f], verified \subseteq verified',
           f # mfa[u] => ChangesFactor(r, u),
           \A g \in Gens(f) : Uses(u, g) \/ (g = r /\ pc'[r] = "done"),
           \A c \in f.codes : (c \notin spent /\ c # loc[r].spend) \/ u \in overlapped',
           u \notin overlapped' =>
             /\ f.enabled => f.secret # None /\ f.secret \in verified'
             /\ f.codes # {} => f.secret # None /\ f.codes \subseteq RecoveryCodes(f.secret)
    PROVE  FactorInv'
  <1>1. /\ \A v \in Req : pc'[v] = "save" =>
              v # r /\ pc[v] = "save" /\ req'[v] = req[v] /\ loc'[v] = loc[v]
        /\ overlapped \subseteq overlapped' /\ overlapped' \subseteq overlapped \cup {u}
        /\ spent' = spent \cup ({loc[r].spend} \ {None})
        /\ mfa'[u] = f /\ \A w \in Id \ {u} : mfa'[w] = mfa[w]
    BY DEF Alone, Commits, TypeInv, TypeOK
  <1>2. \A w, g \in Id : Uses(w, g)' => Uses(w, g) \/ (w = u /\ g = r /\ pc'[r] = "done")
    BY <1>1 DEF Uses, Pending
  <1>3. loc[r].spend # None =>
           /\ loc[r].spend \in loc[r].row.codes /\ loc[r].spend.gen \in Id
           /\ Uses(u, loc[r].spend.gen)
    <2>1. loc[r].spend \in Code \cup {None}
      BY RequestTyped, LocalFields
    <2>2. loc[r].spend # None => loc[r].spend \in loc[r].row.codes /\ loc[r].spend.gen \in Id
      BY <2>1 DEF FactorInv, SpendsItsOwn, Code
    <2> QED
      BY <2>2 DEF Uses, Pending, Gens
  <1>4. \A v \in Req : pc'[v] # "done" => pc[v] # "done"
    BY DEF Alone
  <1>5. FactorSoundAlone'
    <2> SUFFICES ASSUME NEW w \in Id \ overlapped'
                 PROVE  /\ mfa'[w].enabled => mfa'[w].secret # None /\ mfa'[w].secret \in verified'
                        /\ mfa'[w].codes # {} => /\ mfa'[w].secret # None
                                                 /\ mfa'[w].codes \subseteq RecoveryCodes(mfa'[w].secret)
                        /\ mfa'[w].codes \cap spent' = {}
      BY DEF FactorSoundAlone, RecoveryCodes
    <2>1. CASE w = u
      BY <1>1, <2>1
    <2>2. CASE w # u
      <3>1. /\ mfa[w].enabled => mfa[w].secret # None /\ mfa[w].secret \in verified
            /\ mfa[w].codes # {} => /\ mfa[w].secret # None
                                    /\ mfa[w].codes \subseteq RecoveryCodes(mfa[w].secret)
            /\ mfa[w].codes \cap spent = {}
        BY <1>1, <2>2 DEF FactorInv, FactorSoundAlone
      <3>2. loc[r].spend # None => loc[r].spend \notin mfa[w].codes
        BY <1>3, <2>2 DEF FactorInv, OwnedByOne, Uses, Gens
      <3> QED
        BY <1>1, <2>2, <3>1, <3>2
    <2> QED
      BY <2>1, <2>2
  <1>6. LoadedStands'
    <2> SUFFICES ASSUME NEW w \in Id \ overlapped', NEW v \in Req, ChangesFactor(v, w)'
                 PROVE  loc'[v].row = mfa'[w]
      BY DEF LoadedStands
    <2>1. v # r /\ ChangesFactor(v, w) /\ loc'[v] = loc[v] /\ loc[v].row = mfa[w]
      BY <1>1 DEF ChangesFactor, FactorInv, LoadedStands
    <2>2. CASE w # u
      BY <1>1, <2>1, <2>2
    <2>3. CASE w = u
      BY <1>1, <2>1, <2>3 DEF Commits
    <2> QED
      BY <2>2, <2>3
  <1>7. SpendsItsOwn'
    BY <1>1 DEF FactorInv, SpendsItsOwn
  <1>8. OwnedByOne'
    BY <1>2 DEF FactorInv, OwnedByOne, Ungenerated
  <1>9. Ungenerated'
    <2> SUFFICES ASSUME NEW v \in Req, pc'[v] # "done"
                 PROVE  (\A w \in Id : ~Uses(w, v)') /\ \A c \in spent' : c.gen # v
      BY DEF Ungenerated
    <2>1. v \in Id /\ pc[v] # "done"
      BY <1>4 DEF Id
    <2>2. \A w \in Id : ~Uses(w, v)'
      BY <1>2, <2>1 DEF FactorInv, Ungenerated
    <2>3. \A c \in spent' : c.gen # v
      BY <1>1, <1>3, <2>1 DEF FactorInv, Ungenerated
    <2> QED
      BY <2>2, <2>3
  <1> QED
    BY <1>5, <1>6, <1>7, <1>8, <1>9 DEF FactorInv

\* What r loaded is what it overwrites, unless another change came between.
LEMMA LoadedIs ==
    ASSUME FactorInv, NEW r \in Req, NEW u \in Id, ChangesFactor(r, u), Commits(r),
           u \notin overlapped'
    PROVE  loc[r].row = mfa[u] /\ u \notin overlapped
  <1>1. req[r].user = u
    BY DEF ChangesFactor
  <1>2. overlapped \subseteq overlapped'
    BY <1>1 DEF Commits
  <1> QED
    BY <1>2 DEF FactorInv, LoadedStands

LEMMA FactorLoginCommit ==
    ASSUME TypeInv, FactorInv, NEW r \in Req, LoginCommit(r) PROVE FactorInv'
  <1> DEFINE u == req[r].user
             k == CodesLeft(loc[r].row, loc[r].spend)
             f == IF loc[r].spend = None THEN mfa[u] ELSE [mfa[u] EXCEPT !.codes = k]
  <1>1. /\ u \in Id /\ loc[r].row \in Factor /\ mfa[u] \in Factor
        /\ loc[r].spend \in Code \cup {None}
    BY CommitsTyped, RequestTyped, LocalFields DEF LoginCommit, TypeInv, TypeOK
  <1>2. /\ Alone(r) /\ pc[r] = "save" /\ pc'[r] = "grants" /\ Commits(r)
        /\ verified' = verified
    BY DEF LoginCommit, Goto, Alone, TypeInv, TypeOK
  <1>3. k = loc[r].row.codes \ {loc[r].spend} /\ k \subseteq Code
    BY <1>1, FactorFields DEF CodesLeft
  <1> HIDE DEF k
  <1>4. f \in Factor /\ f.secret = mfa[u].secret /\ f.enabled = mfa[u].enabled
        /\ (loc[r].spend # None => f.codes = k)
    BY <1>1, <1>3 DEF Factor
  <1>5. mfa' = [mfa EXCEPT ![u] = f]
    BY DEF LoginCommit, k, TypeInv, TypeOK
  <1>6. loc[r].spend # None => ChangesFactor(r, u)
    BY <1>2 DEF ChangesFactor
  <1>7. f # mfa[u] => ChangesFactor(r, u)
    BY <1>6
  <1>8. overlapped \subseteq overlapped'
    BY <1>2 DEF Commits
  <1> HIDE DEF f
  <1>9. CASE loc[r].spend = None
    <2>1. f = mfa[u]
      BY <1>9 DEF f
    <2>2. \A g \in Gens(f) : Uses(u, g)
      BY <2>1 DEF Uses
    <2>3. \A c \in f.codes : c # None
      BY <1>4, FactorFields, NoneIsNoRow
    <2>4. u \notin overlapped' =>
             /\ f.codes \cap spent = {}
             /\ f.enabled => f.secret # None /\ f.secret \in verified'
             /\ f.codes # {} => f.secret # None /\ f.codes \subseteq RecoveryCodes(f.secret)
      BY <1>1, <1>2, <1>8, <2>1 DEF FactorInv, FactorSoundAlone
    <2> QED
      BY <1>1, <1>2, <1>4, <1>5, <1>7, <1>9, <2>2, <2>3, <2>4, FactorCommit
  <1>10. CASE loc[r].spend # None
    <2>1. \A g \in Gens(f) : Uses(u, g)
      BY <1>1, <1>2, <1>3, <1>4, <1>10 DEF Uses, Gens, Pending
    <2>2. u \notin overlapped' => loc[r].row = mfa[u] /\ u \notin overlapped
      BY <1>1, <1>2, <1>6, <1>10, LoadedIs
    <2>3. u \notin overlapped' =>
             /\ \A c \in f.codes : c \notin spent /\ c # loc[r].spend
             /\ f.enabled => f.secret # None /\ f.secret \in verified'
             /\ f.codes # {} => f.secret # None /\ f.codes \subseteq RecoveryCodes(f.secret)
      BY <1>1, <1>2, <1>3, <1>4, <1>10, <2>2 DEF FactorInv, FactorSoundAlone
    <2> QED
      BY <1>1, <1>2, <1>4, <1>5, <1>7, <2>1, <2>3, FactorCommit
  <1> QED
    BY <1>9, <1>10

LEMMA FactorMfaCommit ==
    ASSUME TypeInv, FactorInv, NEW r \in Req, MfaCommit(r) PROVE FactorInv'
  <1> DEFINE u == req[r].user
             m == mfa[u]
             f == CASE req[r].op = "setup" -> SetupFactor(r, m)
                    [] req[r].op = "enable" -> EnableFactor(r, m)
                    [] OTHER -> DisableFactor(r, m)
  <1>1. /\ u \in Id /\ r \in Id /\ loc[r].row \in Factor /\ m \in Factor
        /\ loc[r].spend \in Code \cup {None} /\ r # None
    BY CommitsTyped, RequestTyped, LocalFields, NoneIsNoRow DEF MfaCommit, TypeInv, TypeOK
  <1>2. /\ Alone(r) /\ pc[r] = "save" /\ pc'[r] = "done" /\ Commits(r)
        /\ verified \subseteq verified'
    BY EndsBacked DEF MfaCommit, Ended, End, TypeInv, TypeOK
  <1>3. mfa' = [mfa EXCEPT ![u] = f] /\ ChangesFactor(r, u)
    BY DEF MfaCommit, ChangesFactor
  <1>4. u \notin overlapped' => loc[r].row = m /\ u \notin overlapped
    BY <1>1, <1>2, <1>3, LoadedIs
  <1>5. u \notin overlapped =>
           /\ m.enabled => m.secret # None /\ m.secret \in verified
           /\ m.codes # {} => m.secret # None /\ m.codes \subseteq RecoveryCodes(m.secret)
           /\ m.codes \cap spent = {}
    BY <1>1 DEF FactorInv, FactorSoundAlone
  <1>6. \A g \in Id : g \in Gens(m) \/ g \in Gens(loc[r].row) => Uses(u, g)
    BY <1>2 DEF Uses, Pending
  <1>7. req[r].op \in {"setup", "enable"} => loc[r].spend = None
    BY <1>2 DEF FactorInv, SpendsItsOwn
  <1>8. ASSUME NEW e \in Factor, mfa' = [mfa EXCEPT ![u] = e],
               \A g \in Gens(e) : Uses(u, g) \/ g = r,
               u \notin overlapped' =>
                 /\ \A c \in e.codes : c \notin spent /\ c # loc[r].spend
                 /\ e.enabled => e.secret # None /\ e.secret \in verified'
                 /\ e.codes # {} => e.secret # None /\ e.codes \subseteq RecoveryCodes(e.secret)
        PROVE  FactorInv'
    BY <1>1, <1>2, <1>3, <1>8, FactorCommit
  <1>9. CASE req[r].op = "setup"
    <2> DEFINE e == SetupFactor(r, m)
    <2>1. /\ e.secret = r /\ e.codes = RecoveryCodes(r)
          /\ e.enabled = IF loc[r].row.enabled THEN FALSE ELSE m.enabled
      BY DEF SetupFactor
    <2>2. e \in Factor
      BY <1>1, FactorFields DEF SetupFactor, Factor, RecoveryCodes, Code
    <2>3. f = e
      BY <1>9
    <2> HIDE DEF e, m, f
    <2>4. \A g \in Gens(e) : g = r
      BY <2>1 DEF Gens, RecoveryCodes
    <2>5. \A c \in e.codes : c.gen = r /\ c # None
      <3>1. \A c \in RecoveryCodes(r) : c.gen = r
        BY DEF RecoveryCodes
      <3>2. e.codes \subseteq Code
        BY <2>2, FactorFields
      <3> QED
        BY <2>1, <3>1, <3>2, NoneIsNoRow
    <2>6. \A c \in e.codes : c \notin spent
      BY <1>2, <2>5 DEF FactorInv, Ungenerated
    <2> QED
      BY <1>1, <1>3, <1>4, <1>7, <1>8, <1>9, <2>1, <2>2, <2>3, <2>4, <2>5, <2>6
  <1>10. CASE req[r].op = "enable"
    <2> DEFINE e == EnableFactor(r, m)
    <2>1. /\ e \in Factor /\ e.secret = m.secret /\ e.codes = m.codes
      BY <1>1, FactorFields DEF EnableFactor, Factor
    <2>2. f = e
      BY <1>10
    <2>3. loc[r].row.secret # None /\ loc[r].row.secret \in verified'
      BY <1>2, <1>10, RequestTyped DEF PhaseOf, MfaCommit
    <2> HIDE DEF e, m, f
    <2>4. \A g \in Gens(e) : Uses(u, g)
      BY <1>6, <2>1 DEF Gens
    <2>5. \A c \in e.codes : c # None
      BY <2>1, FactorFields, NoneIsNoRow
    <2>6. u \notin overlapped' =>
             /\ \A c \in e.codes : c \notin spent
             /\ e.secret # None /\ e.secret \in verified'
             /\ e.codes # {} => e.codes \subseteq RecoveryCodes(e.secret)
      BY <1>4, <1>5, <2>1, <2>3
    <2> QED
      BY <1>3, <1>7, <1>8, <1>10, <2>1, <2>2, <2>4, <2>5, <2>6
  <1>11. CASE req[r].op \notin {"setup", "enable"}
    <2> DEFINE e == DisableFactor(r, m)
    <2>1. /\ e \in Factor
          /\ e.enabled = (m.enabled /\ ~loc[r].row.enabled)
          /\ e.secret = IF loc[r].row.secret = None THEN m.secret ELSE None
          /\ e.codes = IF loc[r].row.codes = {} THEN m.codes ELSE {}
      BY <1>1, FactorFields DEF DisableFactor, Factor
    <2>2. f = e
      BY <1>11
    <2> HIDE DEF e, m, f
    <2>3. \A g \in Gens(e) : Uses(u, g)
      BY <1>6, <2>1, NoneIsNoRow DEF Gens
    <2>4. u \notin overlapped' => e.codes = {} /\ ~e.enabled
      BY <1>1, <1>4, <2>1, FactorFields
    <2> QED
      BY <1>3, <1>8, <2>1, <2>2, <2>3, <2>4
  <1> QED
    BY <1>9, <1>10, <1>11

LEMMA FactorUnchanged ==
    ASSUME FactorInv, UNCHANGED <<factors, pc, req, loc>> PROVE FactorInv'
  BY DEF FactorInv, FactorSoundAlone, LoadedStands, SpendsItsOwn, OwnedByOne, Ungenerated,
         Uses, Pending, ChangesFactor, factors

LEMMA FactorStep == TypeInv /\ FactorInv /\ [Next]_vars => FactorInv'
  <1> SUFFICES ASSUME TypeInv, FactorInv, [Next]_vars PROVE FactorInv'
    OBVIOUS
  <1>1. ASSUME NEW r \in Req, NEW how \in Ended, pc[r] # "done", End(r, how), UNCHANGED factors
        PROVE  FactorInv'
    <2>1. pc'[r] # "save"
      BY <1>1 DEF End, Ended, TypeInv, TypeOK
    <2> QED
      BY <1>1, <2>1, EndsBacked, FactorQuiet
  <1>2. ASSUME NEW r \in Req, NEW p, p # "save", pc[r] # "done", pc' = [pc EXCEPT ![r] = p],
               \A v \in Req \ {r} : req'[v] = req[v] /\ loc'[v] = loc[v], UNCHANGED factors
        PROVE  FactorInv'
    <2>1. pc'[r] # "save" /\ Alone(r)
      BY <1>2 DEF TypeInv, TypeOK, Alone
    <2> QED
      BY <1>2, <2>1, FactorQuiet
  <1>3. ASSUME NEW r \in Req, Begin(r) PROVE FactorInv'
    <2>1. CASE CheckSlug(r)
      BY <1>2, <2>1 DEF CheckSlug, TypeInv, TypeOK
    <2>2. CASE StartRole(r)
      BY <1>2, <2>2 DEF StartRole, TypeInv, TypeOK
    <2>3. CASE RefreshGet(r)
      BY <1>2, <2>3 DEF RefreshGet, TypeInv, TypeOK
    <2>4. CASE AssignRole(r) \/ CreateUser(r) \/ Refused(r)
      BY <1>1, <2>4 DEF AssignRole, CreateUser, Refused, Ended
    <2> QED
      BY <1>3, <2>1, <2>2, <2>3, <2>4, FactorLoads DEF Begin
  <1>4. ASSUME NEW r \in Req, Proceed(r) PROVE FactorInv'
    <2>1. CASE InsertTenant(r)
      BY <1>1, <1>2, <2>1 DEF InsertTenant, Goto, Ended
    <2>2. CASE SelectPermissions(r)
      BY <1>2, <2>2 DEF SelectPermissions, Goto, TypeInv, TypeOK
    <2>3. CASE SkipFound(r)
      <3>1. pc' = [pc EXCEPT ![r] = "insert"] /\ pc[r] = "insert"
        BY <2>3 DEF SkipFound, TypeInv, TypeOK
      <3> QED
        BY <1>2, <2>3, <3>1 DEF SkipFound, TypeInv, TypeOK
    <2>4. CASE InsertPermission(r)
      BY <1>1, <1>2, <2>4 DEF InsertPermission, Goto, Ended, TypeInv, TypeOK
    <2>5. CASE CommitRegistration(r)
      BY <1>2, <2>5 DEF CommitRegistration, Goto, TypeInv, TypeOK
    <2>6. CASE InsertRole(r)
      BY <1>1, <1>2, <2>6 DEF InsertRole, Goto, Ended, TypeInv, TypeOK
    <2>7. CASE LookupPermission(r) /\ UNCHANGED <<pc, req>>
      <3>1. pc' = [pc EXCEPT ![r] = "lookup"] /\ pc[r] = "lookup"
        BY <2>7 DEF LookupPermission, TypeInv, TypeOK
      <3> QED
        BY <1>2, <2>7, <3>1 DEF LookupPermission, TypeInv, TypeOK
    <2>8. CASE LookupPermission(r) /\ Goto(r, "insert") /\ UNCHANGED loc
      BY <1>2, <2>8 DEF LookupPermission, Goto
    <2>9. CASE LookupPermission(r)
      BY <2>7, <2>8, <2>9 DEF LookupPermission
    <2>10. CASE CommitRole(r)
      BY <1>1, <2>10 DEF CommitRole, Ended
    <2>11. CASE LoadGrants(r)
      BY <1>2, <2>11 DEF LoadGrants, Goto, TypeInv, TypeOK
    <2>12. CASE RefreshDelete(r)
      BY <1>2, <2>12 DEF RefreshDelete, Goto
    <2>13. CASE IssueTokens(r)
      BY <1>1, <2>13 DEF IssueTokens, Ended
    <2>14. CASE DeadlockVictim(r)
      <3>1. WaitsFor(r) # {}
        BY <2>14 DEF DeadlockVictim, OnCycle
      <3>2. pc[r] # "done"
        BY <3>1 DEF WaitsFor
      <3> QED
        BY <1>1, <2>14, <3>2 DEF DeadlockVictim, Ended
    <2> QED
      BY <1>4, <2>1, <2>2, <2>3, <2>4, <2>5, <2>6, <2>9, <2>10, <2>11, <2>12, <2>13, <2>14,
         FactorLoginCommit, FactorMfaCommit DEF Proceed
  <1>5. ASSUME NEW r \in Req, Abort(r) PROVE FactorInv'
    BY <1>1, <1>5 DEF Abort, Running, Ended
  <1>6. CASE (\E t \in Id : Expire(t)) \/ UNCHANGED vars
    BY <1>6, FactorUnchanged DEF Expire, vars, factors
  <1> QED
    BY <1>3, <1>4, <1>5, <1>6 DEF Next

\* As long as no two changes of a second factor overlap, an enabled factor has
\* a proved secret, its recovery codes belong to that secret, and a spent code
\* never works again (auth.py:139-144, 299-344).
THEOREM FactorAlways == Spec => []FactorSoundAlone
  <1>1. AccountsInv => TypeInv
    BY DEF AccountsInv
  <1>2. FactorInv => FactorSoundAlone
    BY DEF FactorInv
  <1> QED
    BY <1>1, <1>2, AccountsAlways, FactorInit, FactorStep, PTL DEF Spec
=============================================================================
