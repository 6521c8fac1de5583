----------------------------- MODULE Accounts -----------------------------
(***************************************************************************)
(* Tenants, users, roles, sessions and second factors: the handlers of     *)
(* api/v1/routes/auth.py, roles.py and users.py, running concurrently over *)
(* PostgreSQL (READ COMMITTED, no autoflush, expire_on_commit=False) and   *)
(* over the refresh tokens in Redis.                                       *)
(*                                                                         *)
(* db and mfa are the COMMITTED rows.  loc is what a running handler holds *)
(* in memory or has flushed and not committed.  A handler is cut where it  *)
(* awaits; a row that others cannot reach yet needs no cut of its own.     *)
(* Rows, tokens, secrets and recovery codes are named by the request that  *)
(* made them.                                                              *)
(***************************************************************************)
EXTENDS Naturals, Sequences, FiniteSets

CONSTANTS
    Req,              \* requests; each serves one call
    Base,             \* the tenant, its owner and tokens of an earlier registration
    Slug, BaseSlug,   \* tenant slugs, and that of Base
    Email,            \* addresses given to new users
    OwnerEmail,       \* the address a tenant is registered with
    RoleName,         \* names given to roles, "Owner" among them
    Permission,       \* permission names
    OwnerPermissions, \* OWNER_PERMISSIONS, a sequence of them
    Payload,          \* permission lists sent to POST /roles
    CodeIndex,        \* the recovery codes of one generation
    None              \* NULL, no row, no code

VARIABLES
    db,         \* tenants, users, roles, permissions and the two link tables
    mfa,        \* is_mfa_enabled, mfa_secret and mfa_recovery_codes of each user
    issued,     \* the claims of the tokens each request has issued, or None
    live,       \* the refresh tokens stored in Redis
    pc,         \* program point of each request
    req,        \* the call each running request serves
    loc,        \* its locals and what it has flushed
    verified,   \* history: secrets a user has proved with a code
    spent,      \* history: recovery codes that were accepted and committed
    overlapped, \* history: users whose second factor two requests changed at once
    family,     \* history: the login or registration a token descends from
    forked      \* history: families of which two refreshes read one token

redis == <<issued, live, family, forked>>
factors == <<mfa, verified, spent, overlapped>>
vars == <<db, mfa, issued, live, pc, req, loc, verified, spent, overlapped,
          family, forked>>

----------------------------------------------------------------------------
Id == Req \cup {Base}
Names(list) == {list[i] : i \in DOMAIN list}
OwnerSet == Names(OwnerPermissions)

Tenant == [slug: Slug]
User == [tenant: Id, email: Email]
Role == [tenant: Id, name: RoleName]
Db == [tenants: [Id -> Tenant \cup {None}], users: [Id -> User \cup {None}],
       roles: [Id -> Role \cup {None}], perms: SUBSET Permission,
       rolePerms: SUBSET (Id \X Permission), userRoles: SUBSET (Id \X Id)]

\* A code is the TOTP of a secret or a recovery code made with it.
Code == [gen: Id, kind: {"totp"} \cup CodeIndex]
Factor == [enabled: BOOLEAN, secret: Id \cup {None}, codes: SUBSET Code]
NoFactor == [enabled |-> FALSE, secret |-> None, codes |-> {}]
Claims == [user: Id, tenant: Id, perms: SUBSET Permission]

Call == [op: {"register"}, slug: Slug]
   \cup [op: {"create_role"}, tenant: Id, name: RoleName, perms: Payload]
   \cup [op: {"login", "setup", "enable", "disable"}, user: Id]
   \cup [op: {"refresh"}, token: Id]
Local == [todo: Seq(Permission), found: SUBSET Permission,
          held: SUBSET Permission, row: Factor,
          spend: Code \cup {None}, grant: Claims \cup {None}]
NoLocal == [todo |-> <<>>, found |-> {}, held |-> {}, row |-> NoFactor, spend |-> None,
            grant |-> None]
Running == {"tenant", "select", "insert", "role", "lookup", "save", "grants",
            "delete", "issue"}
Ended == {"done", "failed"}

ASSUME InputsTyped ==
    /\ Base \notin Req /\ BaseSlug \in Slug /\ OwnerEmail \in Email
    /\ "Owner" \in RoleName
    /\ OwnerPermissions \in Seq(Permission)
    /\ Payload \subseteq Seq(Permission)
    /\ "totp" \notin CodeIndex
\* A permission name has at most 160 characters (models.py:113).
ASSUME PermissionsFinite == IsFiniteSet(Permission)
ASSUME NoneIsNoRow ==
    None \notin Id \cup Tenant \cup User \cup Role \cup Code \cup Claims \cup Call

----------------------------------------------------------------------------
Totp(secret) == [gen |-> secret, kind |-> "totp"]
RecoveryCodes(gen) == [gen: {gen}, kind: CodeIndex]

\* What the roles of a user grant (load_user_permissions).
Grants(u) == {p \in db.perms : \E r \in Id : /\ <<u, r>> \in db.userRoles
                                            /\ <<r, p>> \in db.rolePerms}

\* Some access token of the tenant carries the permission a route requires.
Authorised(t, p) ==
    \E i \in Id : issued[i] # None /\ issued[i].tenant = t /\ p \in issued[i].perms
IsPrincipal(u) == \E i \in Id : issued[i] # None /\ issued[i].user = u

\* verify_user_mfa, given the row the handler loaded.
SpendsRecoveryCode(row, code) ==
    /\ row.enabled
    /\ code # None
    /\ ~(row.secret # None /\ code = Totp(row.secret))
    /\ code \in row.codes
Accepts(row, code) ==
    \/ ~row.enabled
    \/ row.secret # None /\ code = Totp(row.secret)
    \/ SpendsRecoveryCode(row, code)
SpentBy(row, code) == IF SpendsRecoveryCode(row, code) THEN code ELSE None

\* Mutant: mfa_recovery_codes is not assigned, so no code is ever removed.
CodesLeftAll(row, code) == row.codes

\* The list verify_user_mfa assigns to mfa_recovery_codes.
CodesLeft(row, code) == row.codes \ {code}

\* What the call leaves behind when it ends; what it held is rolled back.
End(r, how) ==
    /\ pc' = [pc EXCEPT ![r] = how]
    /\ req' = [req EXCEPT ![r] = None]
    /\ loc' = [loc EXCEPT ![r] = NoLocal]

Goto(r, where) == pc' = [pc EXCEPT ![r] = where] /\ UNCHANGED req

----------------------------------------------------------------------------
\* A fresh database, or one with a tenant whose owner is logged in, with or
\* without a second factor.
EmptyDb == [tenants |-> [i \in Id |-> None], users |-> [i \in Id |-> None],
            roles |-> [i \in Id |-> None], perms |-> {}, rolePerms |-> {},
            userRoles |-> {}]
BaseDb ==
    [tenants |-> [i \in Id |-> IF i = Base THEN [slug |-> BaseSlug] ELSE None],
     users |-> [i \in Id |-> IF i = Base THEN [tenant |-> Base, email |-> OwnerEmail] ELSE None],
     roles |-> [i \in Id |-> IF i = Base THEN [tenant |-> Base, name |-> "Owner"] ELSE None],
     perms |-> OwnerSet, rolePerms |-> {Base} \X OwnerSet, userRoles |-> {<<Base, Base>>}]
BaseClaims == [user |-> Base, tenant |-> Base, perms |-> OwnerSet]
BaseFactor == [enabled |-> TRUE, secret |-> Base, codes |-> RecoveryCodes(Base)]

Init ==
    /\ \/ /\ db = EmptyDb
          /\ mfa = [i \in Id |-> NoFactor]
          /\ issued = [i \in Id |-> None]
          /\ live = {}
       \/ /\ db = BaseDb
          /\ \E f \in {NoFactor, BaseFactor} :
                mfa = [i \in Id |-> IF i = Base THEN f ELSE NoFactor]
          /\ issued = [i \in Id |-> IF i = Base THEN BaseClaims ELSE None]
          /\ live = {Base}
    /\ pc = [r \in Req |-> "idle"]
    /\ req = [r \in Req |-> None]
    /\ loc = [r \in Req |-> NoLocal]
    /\ verified = {Base}
    /\ spent = {} /\ overlapped = {} /\ forked = {}
    /\ family = [i \in Id |-> i]

\* The transaction of a request ends in its abort, at any point: database or
\* Redis error, worker crash, client gone.
Abort(r) == pc[r] \in Running /\ End(r, "failed") /\ UNCHANGED <<db, factors, redis>>

----------------------------------------------------------------------------
\* What open transactions have inserted and not committed.
HoldsTenant(v) == req[v] # None /\ req[v].op = "register" /\ pc[v] \in {"select", "insert"}
HoldsSlug(v, s) == HoldsTenant(v) /\ req[v].slug = s
HoldsRole(v, t, n) ==
    /\ req[v] # None /\ req[v].op = "create_role" /\ pc[v] \in {"lookup", "insert"}
    /\ req[v].tenant = t /\ req[v].name = n
HoldsPermission(v, p) == p \in loc[v].held

SlugTaken(s) == \E i \in Id : db.tenants[i] # None /\ db.tenants[i].slug = s
RoleTaken(t, n) == [tenant |-> t, name |-> n] \in {db.roles[i] : i \in Id}

\* Mutant: a unique index does not see what is not committed.
WaitsForNobody(r) == {}

\* The requests whose transaction an insert of r waits for.
WaitsFor(r) ==
    {v \in Req \ {r} :
        \/ pc[r] = "tenant" /\ HoldsSlug(v, req[r].slug)
        \/ pc[r] = "role" /\ HoldsRole(v, req[r].tenant, req[r].name)
        \/ /\ pc[r] = "insert" /\ loc[r].todo # <<>>
           /\ Head(loc[r].todo) \notin loc[r].found
           /\ HoldsPermission(v, Head(loc[r].todo))}

\* POST /auth/register.  The slug is looked up, then the tenant, its user and
\* its role are flushed; only the slug can collide with others.
CheckSlug(r) ==
    /\ pc[r] = "idle"
    /\ \E s \in Slug :
        /\ req' = [req EXCEPT ![r] = [op |-> "register", slug |-> s]]
        /\ ~SlugTaken(s)
    /\ pc' = [pc EXCEPT ![r] = "tenant"]
    /\ UNCHANGED <<db, factors, redis, loc>>

InsertTenant(r) ==
    /\ pc[r] = "tenant"
    /\ WaitsFor(r) = {}
    /\ IF SlugTaken(req[r].slug) THEN End(r, "failed")
                                 ELSE Goto(r, "select") /\ UNCHANGED loc
    /\ UNCHANGED <<db, factors, redis>>

\* Mutant: the names are kept in a set, whose order differs between workers.
InsertOrderHashed(r) ==
    IF req[r].slug = BaseSlug THEN OwnerPermissions
    ELSE [i \in DOMAIN OwnerPermissions |->
              OwnerPermissions[Len(OwnerPermissions) + 1 - i]]

\* ensure_owner_permissions: look all names up at once, then insert those that
\* are missing, in the order of the list.
InsertOrder(r) == OwnerPermissions

SelectPermissions(r) ==
    /\ pc[r] = "select"
    /\ loc' = [loc EXCEPT ![r].todo = InsertOrder(r), ![r].found = db.perms]
    /\ Goto(r, "insert")
    /\ UNCHANGED <<db, factors, redis>>

SkipFound(r) ==
    /\ pc[r] = "insert"
    /\ loc[r].todo # <<>>
    /\ Head(loc[r].todo) \in loc[r].found
    /\ loc' = [loc EXCEPT ![r].todo = Tail(@)]
    /\ UNCHANGED <<db, factors, redis, pc, req>>

InsertPermission(r) ==
    /\ pc[r] = "insert"
    /\ loc[r].todo # <<>>
    /\ Head(loc[r].todo) \notin loc[r].found
    /\ WaitsFor(r) = {}
    /\ IF Head(loc[r].todo) \in db.perms
         THEN End(r, "failed")
         ELSE /\ loc' = [loc EXCEPT ![r].held = @ \cup {Head(loc[r].todo)},
                                    ![r].todo = Tail(@)]
              /\ Goto(r, IF req[r].op = "register" THEN "insert" ELSE "lookup")
    /\ UNCHANGED <<db, factors, redis>>

\* Mutant: the owner is not given the role.
RegisteredUnassigned(r) ==
    [db EXCEPT !.tenants[r] = [slug |-> req[r].slug],
               !.users[r] = [tenant |-> r, email |-> OwnerEmail],
               !.roles[r] = [tenant |-> r, name |-> "Owner"],
               !.perms = @ \cup loc[r].held,
               !.rolePerms = @ \cup ({r} \X OwnerSet)]

\* The rows a registration commits.
Registered(r) ==
    [db EXCEPT !.tenants[r] = [slug |-> req[r].slug],
               !.users[r] = [tenant |-> r, email |-> OwnerEmail],
               !.roles[r] = [tenant |-> r, name |-> "Owner"],
               !.perms = @ \cup loc[r].held,
               !.rolePerms = @ \cup ({r} \X OwnerSet),
               !.userRoles = @ \cup {<<r, r>>}]

CommitRegistration(r) ==
    /\ pc[r] = "insert" /\ req[r].op = "register"
    /\ loc[r].todo = <<>>
    /\ db' = Registered(r)
    /\ loc' = [loc EXCEPT ![r] = [NoLocal EXCEPT
                  !.grant = [user |-> r, tenant |-> r, perms |-> OwnerSet]]]
    /\ Goto(r, "issue")
    /\ UNCHANGED <<factors, redis>>

----------------------------------------------------------------------------
\* POST /roles: flush the role, then look up and flush permission by
\* permission, in the order of the payload.
StartRole(r) ==
    /\ pc[r] = "idle"
    /\ \E t \in Id, n \in RoleName, ps \in Payload :
        /\ Authorised(t, "roles:write")
        /\ req' = [req EXCEPT ![r] = [op |-> "create_role", tenant |-> t, name |-> n,
                                      perms |-> ps]]
    /\ pc' = [pc EXCEPT ![r] = "role"]
    /\ UNCHANGED <<db, factors, redis, loc>>

InsertRole(r) ==
    /\ pc[r] = "role"
    /\ WaitsFor(r) = {}
    /\ IF RoleTaken(req[r].tenant, req[r].name)
         THEN End(r, "failed")
         ELSE loc' = [loc EXCEPT ![r].todo = req[r].perms] /\ Goto(r, "lookup")
    /\ UNCHANGED <<db, factors, redis>>

LookupPermission(r) ==
    /\ pc[r] = "lookup"
    /\ loc[r].todo # <<>>
    /\ IF Head(loc[r].todo) \in db.perms \cup loc[r].held
         THEN loc' = [loc EXCEPT ![r].todo = Tail(@)] /\ UNCHANGED <<pc, req>>
         ELSE Goto(r, "insert") /\ UNCHANGED loc
    /\ UNCHANGED <<db, factors, redis>>

\* A permission named twice is linked twice, which the unique index refuses.
CommitRole(r) ==
    /\ pc[r] = "lookup"
    /\ loc[r].todo = <<>>
    /\ IF \A i, j \in DOMAIN req[r].perms : req[r].perms[i] = req[r].perms[j] => i = j
         THEN /\ db' = [db EXCEPT
                    !.roles[r] = [tenant |-> req[r].tenant, name |-> req[r].name],
                    !.perms = @ \cup loc[r].held,
                    !.rolePerms = @ \cup ({r} \X Names(req[r].perms))]
              /\ End(r, "done")
         ELSE UNCHANGED db /\ End(r, "failed")
    /\ UNCHANGED <<factors, redis>>

\* Mutant: the role is looked up in all tenants.
RolesOfAny(t) == {i \in Id : db.roles[i] # None}

RolesOf(t) == {i \in Id : db.roles[i] # None /\ db.roles[i].tenant = t}
UsersOf(t) == {i \in Id : db.users[i] # None /\ db.users[i].tenant = t}

\* POST /roles/assignments; assigning twice violates the unique index.
AssignRole(r) ==
    /\ pc[r] = "idle"
    /\ \E t \in Id :
        /\ Authorised(t, "roles:write")
        /\ \E u \in UsersOf(t), rl \in RolesOf(t) :
            /\ <<u, rl>> \notin db.userRoles
            /\ db' = [db EXCEPT !.userRoles = @ \cup {<<u, rl>>}]
    /\ End(r, "done")
    /\ UNCHANGED <<factors, redis>>

\* POST /users: a user without roles; (tenant, email) is unique.
CreateUser(r) ==
    /\ pc[r] = "idle"
    /\ \E t \in Id, e \in Email :
        /\ Authorised(t, "users:write")
        /\ \A i \in UsersOf(t) : db.users[i].email # e
        /\ db' = [db EXCEPT !.users[r] = [tenant |-> t, email |-> e]]
    /\ End(r, "done")
    /\ UNCHANGED <<factors, redis>>

----------------------------------------------------------------------------
\* Requests that read a user's second factor and have yet to write it.
ChangesFactor(v, u) ==
    /\ pc[v] = "save" /\ req[v].user = u
    /\ req[v].op # "login" \/ loc[v].spend # None

Commits(r) ==
    LET u == req[r].user
    IN  /\ overlapped' = IF /\ ChangesFactor(r, u)
                            /\ \E v \in Req \ {r} : ChangesFactor(v, u)
                           THEN overlapped \cup {u} ELSE overlapped
        /\ spent' = spent \cup ({loc[r].spend} \ {None})

\* The codes a client can know: those of generations that were handed out.
Known == {i \in Id : i = Base \/ pc[i] = "done"}

\* The handler loads the user's row and decides on it.
Load(r, op, u, code) ==
    /\ pc[r] = "idle"
    /\ db.users[u] # None
    /\ req' = [req EXCEPT ![r] = [op |-> op, user |-> u]]
    /\ loc' = [loc EXCEPT ![r].row = mfa[u], ![r].spend = SpentBy(mfa[u], code)]
    /\ pc' = [pc EXCEPT ![r] = "save"]
    /\ UNCHANGED <<db, factors, redis>>

\* POST /auth/login with the right password.
Login(r) ==
    \E u \in Id, code \in [gen: Known, kind: {"totp"} \cup CodeIndex] \cup {None} :
        /\ Accepts(mfa[u], code)
        /\ Load(r, "login", u, code)

\* The commit writes the whole list of codes, if one was removed from it.
LoginCommit(r) ==
    /\ pc[r] = "save" /\ req[r].op = "login"
    /\ mfa' = IF loc[r].spend = None THEN mfa
              ELSE [mfa EXCEPT ![req[r].user].codes = CodesLeft(loc[r].row, loc[r].spend)]
    /\ Commits(r)
    /\ Goto(r, "grants")
    /\ loc' = [loc EXCEPT ![r] = NoLocal]
    /\ UNCHANGED <<db, redis, verified>>

LoadGrants(r) ==
    /\ pc[r] = "grants"
    /\ loc' = [loc EXCEPT ![r].grant =
                 [user |-> req[r].user, tenant |-> db.users[req[r].user].tenant,
                  perms |-> Grants(req[r].user)]]
    /\ Goto(r, "issue")
    /\ UNCHANGED <<db, factors, redis>>

\* POST /auth/mfa/setup: a new secret and new codes, not enabled.  A commit
\* writes only the columns whose value differs from the one loaded.
SetupMfa(r) == \E u \in Id : IsPrincipal(u) /\ Load(r, "setup", u, None)

SetupFactor(r, m) ==
    [enabled |-> IF loc[r].row.enabled THEN FALSE ELSE m.enabled,
     secret |-> r, codes |-> RecoveryCodes(r)]

\* Mutant: a user without a secret is not refused.
EnableMfaUnset(r) == \E u \in Id : IsPrincipal(u) /\ Load(r, "enable", u, None)

\* POST /auth/mfa/enable with the code of the secret that was loaded.
EnableMfa(r) ==
    \E u \in Id : /\ IsPrincipal(u)
                  /\ mfa[u].secret # None
                  /\ Load(r, "enable", u, None)

EnableFactor(r, m) == [m EXCEPT !.enabled = @ \/ ~loc[r].row.enabled]

\* POST /auth/mfa/disable.
DisableMfa(r) ==
    \E u \in Id, code \in [gen: Known, kind: {"totp"} \cup CodeIndex] \cup {None} :
        /\ IsPrincipal(u)
        /\ Accepts(mfa[u], code)
        /\ Load(r, "disable", u, code)

DisableFactor(r, m) ==
    [enabled |-> m.enabled /\ ~loc[r].row.enabled,
     secret |-> IF loc[r].row.secret = None THEN m.secret ELSE None,
     codes |-> IF loc[r].row.codes = {} THEN m.codes ELSE {}]

MfaCommit(r) ==
    /\ pc[r] = "save" /\ req[r].op # "login"
    /\ LET u == req[r].user
       IN  mfa' = [mfa EXCEPT ![u] = CASE req[r].op = "setup" -> SetupFactor(r, @)
                                       [] req[r].op = "enable" -> EnableFactor(r, @)
                                       [] OTHER -> DisableFactor(r, @)]
    /\ verified' = verified \cup IF req[r].op = "enable" THEN {loc[r].row.secret} ELSE {}
    /\ Commits(r)
    /\ End(r, "done")
    /\ UNCHANGED <<db, redis>>

----------------------------------------------------------------------------
\* POST /auth/refresh: GET, DELETE, SETEX.  The database is not consulted.
RefreshGet(r) ==
    /\ pc[r] = "idle"
    /\ \E t \in live :
        /\ req' = [req EXCEPT ![r] = [op |-> "refresh", token |-> t]]
        /\ loc' = [loc EXCEPT ![r].grant = issued[t]]
        /\ forked' = IF \E v \in Req : /\ pc[v] = "delete"
                                       /\ req[v].token = t
                       THEN forked \cup {family[t]} ELSE forked
    /\ pc' = [pc EXCEPT ![r] = "delete"]
    /\ UNCHANGED <<db, factors, issued, live, family>>

\* Mutant: the old token is left to expire by itself.
RemainingAll(t) == live

Remaining(t) == live \ {t}

RefreshDelete(r) ==
    /\ pc[r] = "delete"
    /\ live' = Remaining(req[r].token)
    /\ Goto(r, "issue")
    /\ UNCHANGED <<db, factors, loc, issued, family, forked>>

\* SETEX and the answer, for login, registration and refresh.
IssueTokens(r) ==
    /\ pc[r] = "issue"
    /\ issued' = [issued EXCEPT ![r] = loc[r].grant]
    /\ live' = live \cup {r}
    /\ family' = [family EXCEPT ![r] = IF req[r].op = "refresh" THEN family[req[r].token]
                                                                ELSE r]
    /\ End(r, "done")
    /\ UNCHANGED <<db, factors, forked>>

\* The TTL of a stored token runs out.
Expire(t) ==
    /\ t \in live
    /\ live' = live \ {t}
    /\ UNCHANGED <<db, factors, pc, req, loc, issued, family, forked>>

\* A request of any kind that is refused at its first look (409, 401, 403,
\* 404, or a unique index at its only commit) ends without a trace.
Refused(r) == pc[r] = "idle" /\ End(r, "failed") /\ UNCHANGED <<db, factors, redis>>

\* PostgreSQL cancels a request that is on a cycle of waits.
OnCycle(r) ==
    \E S \in SUBSET Req : /\ r \in S
                          /\ \A x \in S : \E y \in S : y \in WaitsFor(x)
                          /\ \A x \in S : \E y \in S : x \in WaitsFor(y)
DeadlockVictim(r) == OnCycle(r) /\ End(r, "failed") /\ UNCHANGED <<db, factors, redis>>

Begin(r) ==
    \/ CheckSlug(r) \/ StartRole(r) \/ AssignRole(r) \/ CreateUser(r)
    \/ Login(r) \/ SetupMfa(r) \/ EnableMfa(r) \/ DisableMfa(r) \/ RefreshGet(r)
    \/ Refused(r)

Proceed(r) ==
    \/ InsertTenant(r) \/ SelectPermissions(r) \/ SkipFound(r)
    \/ InsertPermission(r) \/ CommitRegistration(r) \/ InsertRole(r) \/ LookupPermission(r) \/ CommitRole(r)
    \/ LoginCommit(r) \/ LoadGrants(r) \/ MfaCommit(r)
    \/ RefreshDelete(r) \/ IssueTokens(r) \/ DeadlockVictim(r)

Next == \/ \E r \in Req : Begin(r) \/ Proceed(r) \/ Abort(r)
        \/ \E t \in Id : Expire(t)

Spec == Init /\ [][Next]_vars

----------------------------------------------------------------------------
\* Types of the tables, of Redis and of the running requests.
TypeOK ==
    /\ db \in Db
    /\ mfa \in [Id -> Factor]
    /\ issued \in [Id -> Claims \cup {None}]
    /\ live \subseteq Id
    /\ pc \in [Req -> {"idle"} \cup Running \cup Ended]
    /\ req \in [Req -> Call \cup {None}]
    /\ loc \in [Req -> Local]
    /\ verified \subseteq Id
    /\ spent \subseteq Code
    /\ overlapped \subseteq Id
    /\ family \in [Id -> Id]
    /\ forked \subseteq Id

\* The indexes on slugs, role names and permission names (models.py) are the
\* only locks of registrations and new roles: what an open transaction has
\* inserted is in no table and in no other open transaction.
NamesHeldApart ==
    \A r \in Req :
        /\ HoldsTenant(r) => /\ ~SlugTaken(req[r].slug)
                             /\ \A v \in Req \ {r} : ~HoldsSlug(v, req[r].slug)
        /\ \A t \in Id, n \in RoleName : HoldsRole(r, t, n) =>
              ~RoleTaken(t, n) /\ \A v \in Req \ {r} : ~HoldsRole(v, t, n)
        /\ \A p \in loc[r].held :
              p \notin db.perms /\ \A v \in Req \ {r} : p \notin loc[v].held

\* Registration is all or nothing although it takes three flushes and a wait
\* (auth.py:188-199), links lead to rows, and no role crosses tenants.
RolesComplete ==
    /\ \A i \in Id : db.tenants[i] # None =>
          /\ db.users[i] # None /\ db.users[i].tenant = i
          /\ db.roles[i] = [tenant |-> i, name |-> "Owner"]
          /\ <<i, i>> \in db.userRoles
          /\ {i} \X OwnerSet \subseteq db.rolePerms
    /\ \A l \in db.rolePerms : db.roles[l[1]] # None /\ l[2] \in db.perms
    /\ \A l \in db.userRoles : /\ db.users[l[1]] # None /\ db.roles[l[2]] # None
                                /\ db.users[l[1]].tenant = db.roles[l[2]].tenant

\* Refresh copies the claims of the old token and never asks the database
\* (auth.py:269-286), registration issues a constant list: still no token
\* carries a permission that its user's roles do not grant.
TokensWithinGrants ==
    \A i \in Id : issued[i] # None =>
        /\ db.users[issued[i].user] # None
        /\ db.users[issued[i].user].tenant = issued[i].tenant
        /\ issued[i].perms \subseteq Grants(issued[i].user)

\* Rotation: a login has one stored refresh token at a time, whatever crashes
\* between DELETE and SETEX, unless two refreshes have read the same token
\* before either deleted it (auth.py:262-269).
RotationKeepsOne ==
    \A s, t \in live : s # t /\ family[s] = family[t] => family[s] \in forked

\* The second factor is a read-modify-write (auth.py:139-144, 299-344).  As
\* long as no two changes of it overlap, an enabled factor has a secret its
\* user has proved, recovery codes belong to that secret, and a code that was
\* spent never works again.
FactorSoundAlone ==
    \A u \in Id \ overlapped :
        /\ mfa[u].enabled => mfa[u].secret # None /\ mfa[u].secret \in verified
        /\ mfa[u].codes # {} => /\ mfa[u].secret # None
                                /\ mfa[u].codes \subseteq RecoveryCodes(mfa[u].secret)
        /\ mfa[u].codes \cap spent = {}

OrderOf(r) == IF req[r].op = "register" THEN OwnerPermissions ELSE req[r].perms

\* The orders all permission names could be written in.
Orders == {place \in [Permission -> 1..Cardinality(Permission)] :
              \A p, q \in Permission : place[p] = place[q] => p = q}
Follows(list, place) ==
    \A i, j \in DOMAIN list : i < j => place[list[i]] <= place[list[j]]

\* Requests that flush permissions one by one (auth.py:157, roles.py:59) wait
\* for each other in a circle only if their payloads follow no common order:
\* registrations never do.
DeadlockNeedsDisorder ==
    \A r \in Req : OnCycle(r) =>
        \A place \in Orders :
            \E x \in Req : OnCycle(x) /\ ~Follows(OrderOf(x), place)
=============================================================================
