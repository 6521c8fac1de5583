--------------------------- MODULE Accounts_proofs ---------------------------
(***************************************************************************)
(* Tenants, users, roles and the permissions of tokens, for any number of  *)
(* concurrent requests and any names and lists of permissions.             *)
(***************************************************************************)
EXTENDS Accounts, Recursion, FiniteSetTheorems

----------------------------------------------------------------------------
(* Types.  Each point of a request goes with the calls that reach it and   *)
(* with what it then holds.                                                *)

Serves(c, ops) == c \in Call /\ c.op \in ops

PhaseOf(p, c, l) ==
    /\ p \notin Running => c = None /\ l = NoLocal
    /\ p \in {"tenant", "select"} => Serves(c, {"register"})
    /\ p \in {"role", "lookup"} => Serves(c, {"create_role"})
    /\ p = "insert" => Serves(c, {"register", "create_role"})
    /\ p = "save" => /\ Serves(c, {"login", "setup", "enable", "disable"})
                     /\ c.op = "enable" => l.row.secret # None
    /\ p = "grants" => Serves(c, {"login"})
    /\ p = "delete" => Serves(c, {"refresh"})
    /\ p = "issue" => Serves(c, {"register", "login", "refresh"})
    /\ l.grant # None => p \in {"delete", "issue"}
    /\ l.held # {} => p \in {"insert", "lookup"}

Phases == \A r \in Req : PhaseOf(pc[r], req[r], loc[r])
TypeInv == TypeOK /\ Phases

RequestsTyped ==
    /\ pc \in [Req -> {"idle"} \cup Running \cup Ended]
    /\ req \in [Req -> Call \cup {None}]
    /\ loc \in [Req -> Local]
RowsTyped ==
    /\ db \in Db
    /\ mfa \in [Id -> Factor]
    /\ issued \in [Id -> Claims \cup {None}]
    /\ live \subseteq Id
    /\ verified \subseteq Id
    /\ spent \subseteq Code
    /\ overlapped \subseteq Id
    /\ family \in [Id -> Id]
    /\ forked \subseteq Id

LEMMA CallFields ==
    ASSUME NEW c \in Call
    PROVE  /\ c # None
           /\ c.op = "register" => c.slug \in Slug
           /\ c.op = "create_role" => /\ c.tenant \in Id /\ c.name \in RoleName
                                      /\ c.perms \in Payload
           /\ c.op \in {"login", "setup", "enable", "disable"} => c.user \in Id
           /\ c.op = "refresh" => c.token \in Id
  BY NoneIsNoRow DEF Call

LEMMA NoLocalTyped ==
    /\ NoLocal \in Local /\ NoLocal.grant = None /\ NoLocal.held = {}
    /\ NoLocal.found = {} /\ NoLocal.todo = <<>>
  BY DEF NoLocal, Local, NoFactor, Factor

LEMMA LocalFields ==
    ASSUME NEW l \in Local
    PROVE  /\ l.todo \in Seq(Permission) /\ l.found \subseteq Permission
           /\ l.held \subseteq Permission /\ l.row \in Factor
           /\ l.spend \in Code \cup {None} /\ l.grant \in Claims \cup {None}
  BY DEF Local

\* Setting one field, or the two a statement sets, changes no other.
WithTodo(l, x) == [l EXCEPT !.todo = x]
WithFound(l, x, f) == [l EXCEPT !.todo = x, !.found = f]
WithHeld(l, h, x) == [l EXCEPT !.held = h, !.todo = x]
WithGrant(l, g) == [l EXCEPT !.grant = g]
WithRow(l, f, s) == [l EXCEPT !.row = f, !.spend = s]

LEMMA SetTodo ==
    ASSUME NEW l \in Local, NEW x \in Seq(Permission)
    PROVE  /\ WithTodo(l, x) \in Local /\ WithTodo(l, x).todo = x
           /\ WithTodo(l, x).held = l.held /\ WithTodo(l, x).found = l.found
           /\ WithTodo(l, x).grant = l.grant /\ WithTodo(l, x).row = l.row
  BY DEF Local, WithTodo

LEMMA SetFound ==
    ASSUME NEW l \in Local, NEW x \in Seq(Permission), NEW f \in SUBSET Permission
    PROVE  /\ WithFound(l, x, f) \in Local /\ WithFound(l, x, f).todo = x
           /\ WithFound(l, x, f).found = f /\ WithFound(l, x, f).held = l.held
           /\ WithFound(l, x, f).grant = l.grant
  BY DEF Local, WithFound

LEMMA SetHeld ==
    ASSUME NEW l \in Local, NEW x \in Seq(Permission), NEW h \in SUBSET Permission
    PROVE  /\ WithHeld(l, h, x) \in Local /\ WithHeld(l, h, x).todo = x
           /\ WithHeld(l, h, x).found = l.found /\ WithHeld(l, h, x).held = h
           /\ WithHeld(l, h, x).grant = l.grant
  BY DEF Local, WithHeld

LEMMA SetGrant ==
    ASSUME NEW l \in Local, NEW g \in Claims \cup {None}
    PROVE  /\ WithGrant(l, g) \in Local /\ WithGrant(l, g).grant = g
           /\ WithGrant(l, g).held = l.held /\ WithGrant(l, g).found = l.found
           /\ WithGrant(l, g).todo = l.todo
  BY DEF Local, WithGrant

LEMMA SetRow ==
    ASSUME NEW l \in Local, NEW f \in Factor, NEW s \in Code \cup {None}
    PROVE  /\ WithRow(l, f, s) \in Local /\ WithRow(l, f, s).row = f
           /\ WithRow(l, f, s).spend = s /\ WithRow(l, f, s).grant = l.grant
           /\ WithRow(l, f, s).held = l.held /\ WithRow(l, f, s).found = l.found
           /\ WithRow(l, f, s).todo = l.todo
  BY DEF Local, WithRow

Moves(r, p, c, l) ==
    /\ pc' = [pc EXCEPT ![r] = p]
    /\ req' = [req EXCEPT ![r] = c]
    /\ loc' = [loc EXCEPT ![r] = l]

LEMMA MovesTyped ==
    ASSUME TypeInv, NEW r \in Req, NEW p \in {"idle"} \cup Running \cup Ended,
           NEW c \in Call \cup {None}, NEW l \in Local, Moves(r, p, c, l), PhaseOf(p, c, l),
           RowsTyped'
    PROVE  TypeInv'
  <1>1. RequestsTyped'
    BY DEF TypeInv, TypeOK, Moves, RequestsTyped
  <1>2. Phases'
    BY DEF TypeInv, TypeOK, Phases, Moves
  <1> QED
    BY <1>1, <1>2 DEF TypeInv, TypeOK, RequestsTyped, RowsTyped

LEMMA TypeEnds ==
    ASSUME TypeInv, NEW r \in Req, NEW how \in Ended, End(r, how), RowsTyped'
    PROVE  TypeInv'
  <1>1. Moves(r, how, None, NoLocal)
    BY DEF End, Moves
  <1>2. PhaseOf(how, None, NoLocal)
    BY NoLocalTyped DEF PhaseOf, Ended, Running
  <1> QED
    BY <1>1, <1>2, NoLocalTyped, MovesTyped

LEMMA TypeInit == Init => TypeInv
  <1> SUFFICES ASSUME Init PROVE TypeInv
    OBVIOUS
  <1> USE InputsTyped DEF Id
  <1>1. OwnerSet \subseteq Permission
    BY DEF OwnerSet, Names
  <1>2. EmptyDb \in Db
    BY DEF EmptyDb, Db
  <1>3. BaseDb \in Db
    <2>1. [slug |-> BaseSlug] \in Tenant /\ [tenant |-> Base, email |-> OwnerEmail] \in User
          /\ [tenant |-> Base, name |-> "Owner"] \in Role
      BY DEF Tenant, User, Role
    <2>2. {Base} \X OwnerSet \subseteq Id \X Permission /\ {<<Base, Base>>} \subseteq Id \X Id
      BY <1>1
    <2> QED
      BY <1>1, <2>1, <2>2 DEF BaseDb, Db
  <1>4. NoFactor \in Factor /\ BaseFactor \in Factor
    BY DEF NoFactor, BaseFactor, Factor, RecoveryCodes, Code
  <1>5. BaseClaims \in Claims
    BY <1>1 DEF BaseClaims, Claims
  <1>6. db \in Db /\ mfa \in [Id -> Factor] /\ issued \in [Id -> Claims \cup {None}]
        /\ live \subseteq Id
    BY <1>2, <1>3, <1>4, <1>5 DEF Init
  <1>7. RowsTyped
    BY <1>6 DEF Init, RowsTyped
  <1>8. RequestsTyped
    BY NoLocalTyped DEF Init, RequestsTyped
  <1>9. Phases
    BY NoLocalTyped DEF Init, Phases, PhaseOf, Running
  <1> QED
    BY <1>7, <1>8, <1>9 DEF TypeInv, TypeOK, RequestsTyped, RowsTyped

LEMMA RowsStay ==
    ASSUME TypeInv, UNCHANGED <<db, factors, redis>> PROVE RowsTyped'
  BY DEF TypeInv, TypeOK, RowsTyped, factors, redis

\* What the invariant says of one request.
LEMMA RequestTyped ==
    ASSUME TypeInv, NEW r \in Req
    PROVE  /\ req[r] \in Call \cup {None} /\ loc[r] \in Local
           /\ pc[r] \in {"idle"} \cup Running \cup Ended
           /\ PhaseOf(pc[r], req[r], loc[r])
           /\ r \in Id
  BY DEF TypeInv, TypeOK, Phases, Id

\* A step that changes nothing but the request.
LEMMA TypeMoves ==
    ASSUME TypeInv, NEW r \in Req, NEW p \in {"idle"} \cup Running \cup Ended,
           NEW c \in Call \cup {None}, NEW l \in Local, PhaseOf(p, c, l), UNCHANGED <<db, factors, redis>>,
           pc' = [pc EXCEPT ![r] = p], req' = [req EXCEPT ![r] = c],
           loc' = [loc EXCEPT ![r] = l]
    PROVE  TypeInv'
  BY MovesTyped, RowsStay DEF Moves

LEMMA TypeGoes ==
    ASSUME TypeInv, NEW r \in Req, NEW p \in Running, Goto(r, p), UNCHANGED <<db, factors, redis>>,
           NEW l \in Local, loc' = [loc EXCEPT ![r] = l], PhaseOf(p, req[r], l)
    PROVE  TypeInv'
  <1>1. req' = [req EXCEPT ![r] = req[r]]
    BY DEF Goto, TypeInv, TypeOK
  <1> QED
    BY <1>1, TypeMoves, RequestTyped DEF Goto

LEMMA TypeGoesOn ==
    ASSUME TypeInv, NEW r \in Req, NEW p \in Running, Goto(r, p),
           UNCHANGED <<db, factors, redis>>, UNCHANGED loc, PhaseOf(p, req[r], loc[r])
    PROVE  TypeInv'
  <1> DEFINE l == loc[r]
  <1>1. loc' = [loc EXCEPT ![r] = l] /\ l \in Local /\ PhaseOf(p, req[r], l)
    BY DEF TypeInv, TypeOK
  <1> HIDE DEF l
  <1> QED
    BY <1>1, TypeGoes

LEMMA TypeKeeps ==
    ASSUME TypeInv, NEW r \in Req, UNCHANGED <<db, factors, redis, pc, req>>,
           NEW l \in Local, loc' = [loc EXCEPT ![r] = l], PhaseOf(pc[r], req[r], l)
    PROVE  TypeInv'
  <1> DEFINE p == pc[r]
             c == req[r]
  <1>1. pc' = [pc EXCEPT ![r] = p] /\ req' = [req EXCEPT ![r] = c]
    BY DEF TypeInv, TypeOK
  <1>2. /\ p \in {"idle"} \cup Running \cup Ended /\ c \in Call \cup {None}
        /\ PhaseOf(p, c, l)
    BY RequestTyped
  <1> HIDE DEF p, c
  <1> QED
    BY <1>1, <1>2, TypeMoves

\* A request that begins holds nothing.
LEMMA TypeCalls ==
    ASSUME TypeInv, NEW r \in Req, NEW p \in Running, NEW c \in Call,
           pc' = [pc EXCEPT ![r] = p], req' = [req EXCEPT ![r] = c],
           UNCHANGED <<db, factors, redis, loc>>, PhaseOf(p, c, loc[r])
    PROVE  TypeInv'
  <1> DEFINE l == loc[r]
  <1>1. loc' = [loc EXCEPT ![r] = l] /\ l \in Local /\ PhaseOf(p, c, l)
    BY DEF TypeInv, TypeOK
  <1> HIDE DEF l
  <1> QED
    BY <1>1, TypeMoves

LEMMA TypeStops ==
    ASSUME TypeInv, NEW r \in Req, NEW how \in Ended, End(r, how), UNCHANGED <<db, factors, redis>>
    PROVE  TypeInv'
  BY TypeEnds, RowsStay

LEMMA TypeCheckSlug == ASSUME TypeInv, NEW r \in Req, CheckSlug(r) PROVE TypeInv'
  <1> PICK s \in Slug : req' = [req EXCEPT ![r] = [op |-> "register", slug |-> s]]
    BY DEF CheckSlug
  <1> DEFINE c == [op |-> "register", slug |-> s]
  <1>1. c \in Call /\ c.op = "register"
    BY DEF Call
  <1>3. PhaseOf("tenant", c, loc[r])
    BY <1>1, RequestTyped, NoLocalTyped DEF CheckSlug, PhaseOf, Serves, Running
  <1> HIDE DEF c
  <1>4. req' = [req EXCEPT ![r] = c] /\ pc' = [pc EXCEPT ![r] = "tenant"]
    BY DEF c, CheckSlug
  <1> QED
    BY <1>1, <1>3, <1>4, TypeCalls DEF CheckSlug, Running

LEMMA TypeInsertTenant == ASSUME TypeInv, NEW r \in Req, InsertTenant(r) PROVE TypeInv'
  <1>1. CASE End(r, "failed")
    BY <1>1, TypeStops DEF InsertTenant, Ended
  <1>2. CASE Goto(r, "select") /\ UNCHANGED loc
    <2>1. PhaseOf("select", req[r], loc[r])
      BY RequestTyped DEF InsertTenant, PhaseOf, Running
    <2> QED
      BY <1>2, <2>1, TypeGoesOn DEF InsertTenant, Running
  <1> QED
    BY <1>1, <1>2 DEF InsertTenant

LEMMA TypeSelectPermissions ==
    ASSUME TypeInv, NEW r \in Req, SelectPermissions(r) PROVE TypeInv'
  <1> DEFINE l == WithFound(loc[r], OwnerPermissions, db.perms)
  <1>1. loc[r] \in Local /\ db.perms \in SUBSET Permission
        /\ OwnerPermissions \in Seq(Permission)
    BY RequestTyped, InputsTyped DEF TypeInv, TypeOK, Db
  <1>2. l \in Local /\ l.held = loc[r].held /\ l.grant = loc[r].grant
    BY <1>1, SetFound
  <1>3. loc' = [loc EXCEPT ![r] = l]
    BY DEF SelectPermissions, InsertOrder, WithFound
  <1> HIDE DEF l
  <1>4. PhaseOf("insert", req[r], l)
    BY <1>2, RequestTyped DEF SelectPermissions, PhaseOf, Running, Serves
  <1> QED
    BY <1>2, <1>3, <1>4, TypeGoes DEF SelectPermissions, Running

LEMMA TailTyped ==
    ASSUME NEW s \in Seq(Permission), s # <<>>
    PROVE  Tail(s) \in Seq(Permission) /\ Head(s) \in Permission
  OBVIOUS

LEMMA TypeSkipFound == ASSUME TypeInv, NEW r \in Req, SkipFound(r) PROVE TypeInv'
  <1> DEFINE l == WithTodo(loc[r], Tail(loc[r].todo))
  <1>1. l \in Local /\ l.held = loc[r].held /\ l.grant = loc[r].grant
    BY RequestTyped, LocalFields, TailTyped, SetTodo DEF SkipFound
  <1>2. loc' = [loc EXCEPT ![r] = l] /\ UNCHANGED <<db, factors, redis, pc, req>>
    BY DEF SkipFound, WithTodo
  <1> HIDE DEF l
  <1>3. PhaseOf(pc[r], req[r], l)
    BY <1>1, RequestTyped DEF SkipFound, PhaseOf, Running, Serves
  <1> QED
    BY <1>1, <1>2, <1>3, TypeKeeps

LEMMA TypeInsertPermission ==
    ASSUME TypeInv, NEW r \in Req, InsertPermission(r) PROVE TypeInv'
  <1>1. CASE Head(loc[r].todo) \in db.perms
    BY <1>1, TypeStops DEF InsertPermission, Ended
  <1>2. CASE Head(loc[r].todo) \notin db.perms
    <2> DEFINE l == WithHeld(loc[r], loc[r].held \cup {Head(loc[r].todo)}, Tail(loc[r].todo))
    <2> DEFINE p == IF req[r].op = "register" THEN "insert" ELSE "lookup"
    <2>1. l \in Local /\ l.grant = loc[r].grant
      <3>1. /\ loc[r] \in Local /\ Tail(loc[r].todo) \in Seq(Permission)
            /\ loc[r].held \cup {Head(loc[r].todo)} \in SUBSET Permission
        BY RequestTyped, LocalFields, TailTyped DEF InsertPermission
      <3> QED
        BY <3>1, SetHeld
    <2>2. loc' = [loc EXCEPT ![r] = l] /\ Goto(r, p)
      BY <1>2 DEF InsertPermission, WithHeld
    <2> HIDE DEF l
    <2>3. PhaseOf(p, req[r], l)
      BY <2>1, RequestTyped DEF InsertPermission, PhaseOf, Running, Serves
    <2>4. p \in Running /\ UNCHANGED <<db, factors, redis>>
      BY DEF Running, InsertPermission
    <2> HIDE DEF p
    <2> QED
      BY <2>1, <2>2, <2>3, <2>4, TypeGoes
  <1> QED
    BY <1>1, <1>2

LEMMA OwnerSetTyped == OwnerSet \subseteq Permission
  BY InputsTyped DEF OwnerSet, Names

LEMMA TypeCommitRegistration ==
    ASSUME TypeInv, NEW r \in Req, CommitRegistration(r) PROVE TypeInv'
  <1> DEFINE g == [user |-> r, tenant |-> r, perms |-> OwnerSet]
             l == WithGrant(NoLocal, g)
  <1>1. g \in Claims
    BY RequestTyped, OwnerSetTyped DEF Claims
  <1>2. loc' = [loc EXCEPT ![r] = l] /\ req' = req /\ pc' = [pc EXCEPT ![r] = "issue"]
    BY DEF CommitRegistration, WithGrant, Goto
  <1> HIDE DEF g
  <1>3. l \in Local /\ l.held = {}
    BY <1>1, SetGrant, NoLocalTyped
  <1>4. db' \in Db
    <2>1. db \in Db /\ r \in Id /\ loc[r].held \subseteq Permission
      BY RequestTyped, LocalFields DEF TypeInv, TypeOK
    <2>2. /\ [slug |-> req[r].slug] \in Tenant
          /\ [tenant |-> r, email |-> OwnerEmail] \in User
          /\ [tenant |-> r, name |-> "Owner"] \in Role
      <3>1. req[r] \in Call /\ req[r].op = "register"
        BY RequestTyped DEF CommitRegistration, PhaseOf, Serves
      <3> QED
        BY <2>1, <3>1, CallFields, InputsTyped DEF Tenant, User, Role
    <2>3. {r} \X OwnerSet \subseteq Id \X Permission
      BY <2>1, OwnerSetTyped
    <2>4. <<r, r>> \in Id \X Id
      BY <2>1
    <2>5. Registered(r) \in Db
      BY <2>1, <2>2, <2>3, <2>4 DEF Registered, Db
    <2> QED
      BY <2>5 DEF CommitRegistration
  <1>5. RowsTyped'
    BY <1>4 DEF CommitRegistration, factors, redis, TypeInv, TypeOK, RowsTyped
  <1> HIDE DEF l
  <1>6. PhaseOf("issue", req[r], l)
    BY <1>3, RequestTyped DEF CommitRegistration, PhaseOf, Running, Serves
  <1>7. Moves(r, "issue", req[r], l)
    BY <1>2 DEF Moves, TypeInv, TypeOK
  <1> QED
    BY <1>3, <1>5, <1>6, <1>7, RequestTyped, MovesTyped DEF Running

LEMMA TypeStartRole == ASSUME TypeInv, NEW r \in Req, StartRole(r) PROVE TypeInv'
  <1> PICK t \in Id, n \in RoleName, ps \in Payload :
        req' = [req EXCEPT ![r] = [op |-> "create_role", tenant |-> t, name |-> n,
                                   perms |-> ps]]
    BY DEF StartRole
  <1> DEFINE c == [op |-> "create_role", tenant |-> t, name |-> n, perms |-> ps]
  <1>1. c \in Call /\ c.op = "create_role"
    BY DEF Call
  <1> HIDE DEF c
  <1>2. PhaseOf("role", c, loc[r])
    BY <1>1, RequestTyped, NoLocalTyped DEF StartRole, PhaseOf, Serves, Running
  <1>3. /\ pc' = [pc EXCEPT ![r] = "role"] /\ req' = [req EXCEPT ![r] = c]
        /\ UNCHANGED <<db, factors, redis, loc>>
    BY DEF c, StartRole
  <1> QED
    BY <1>1, <1>2, <1>3, TypeCalls DEF Running

LEMMA TypeInsertRole == ASSUME TypeInv, NEW r \in Req, InsertRole(r) PROVE TypeInv'
  <1>1. CASE End(r, "failed")
    BY <1>1, TypeStops DEF InsertRole, Ended
  <1>2. CASE loc' = [loc EXCEPT ![r].todo = req[r].perms] /\ Goto(r, "lookup")
    <2> DEFINE l == WithTodo(loc[r], req[r].perms)
    <2>1. /\ req[r] \in Call /\ req[r].op = "create_role" /\ loc[r] \in Local
          /\ loc[r].grant = None
      BY RequestTyped DEF InsertRole, PhaseOf, Serves
    <2>2. l \in Local /\ l.held = loc[r].held /\ l.grant = None
      BY <2>1, CallFields, InputsTyped, SetTodo
    <2>3. loc' = [loc EXCEPT ![r] = l]
      BY <1>2 DEF WithTodo
    <2> HIDE DEF l
    <2>4. PhaseOf("lookup", req[r], l)
      BY <2>1, <2>2, RequestTyped DEF InsertRole, PhaseOf, Running, Serves
    <2> QED
      BY <1>2, <2>2, <2>3, <2>4, TypeGoes DEF InsertRole, Running
  <1> QED
    BY <1>1, <1>2 DEF InsertRole

LEMMA TypeLookupPermission ==
    ASSUME TypeInv, NEW r \in Req, LookupPermission(r) PROVE TypeInv'
  <1>1. CASE Head(loc[r].todo) \in db.perms \cup loc[r].held
    <2> DEFINE l == WithTodo(loc[r], Tail(loc[r].todo))
    <2>1. l \in Local /\ l.held = loc[r].held /\ l.grant = loc[r].grant
      BY RequestTyped, LocalFields, TailTyped, SetTodo DEF LookupPermission
    <2>2. loc' = [loc EXCEPT ![r] = l] /\ UNCHANGED <<db, factors, redis, pc, req>>
      BY <1>1 DEF LookupPermission, WithTodo
    <2> HIDE DEF l
    <2>3. PhaseOf(pc[r], req[r], l)
      BY <2>1, RequestTyped DEF LookupPermission, PhaseOf, Running, Serves
    <2> QED
      BY <2>1, <2>2, <2>3, TypeKeeps
  <1>2. CASE Head(loc[r].todo) \notin db.perms \cup loc[r].held
    <2>1. PhaseOf("insert", req[r], loc[r])
      BY RequestTyped DEF LookupPermission, PhaseOf, Running, Serves
    <2> QED
      BY <1>2, <2>1, TypeGoesOn DEF LookupPermission, Running
  <1> QED
    BY <1>1, <1>2

LEMMA TypeCommitRole == ASSUME TypeInv, NEW r \in Req, CommitRole(r) PROVE TypeInv'
  <1>1. CASE UNCHANGED db /\ End(r, "failed")
    BY <1>1, TypeStops DEF CommitRole, Ended
  <1>2. CASE db' = [db EXCEPT
                !.roles[r] = [tenant |-> req[r].tenant, name |-> req[r].name],
                !.perms = @ \cup loc[r].held,
                !.rolePerms = @ \cup ({r} \X Names(req[r].perms))] /\ End(r, "done")
    <2>1. req[r] \in Call /\ req[r].op = "create_role"
      BY RequestTyped DEF CommitRole, PhaseOf, Serves
    <2>2. [tenant |-> req[r].tenant, name |-> req[r].name] \in Role
      BY <2>1, CallFields DEF Role
    <2>3. Names(req[r].perms) \subseteq Permission
      BY <2>1, CallFields, InputsTyped DEF Names
    <2>4. db \in Db /\ r \in Id /\ loc[r].held \subseteq Permission
      BY RequestTyped, LocalFields DEF TypeInv, TypeOK
    <2>5. db' \in Db
      BY <1>2, <2>2, <2>3, <2>4 DEF Db
    <2>6. RowsTyped'
      BY <2>5 DEF CommitRole, factors, redis, TypeInv, TypeOK, RowsTyped
    <2> QED
      BY <1>2, <2>6, TypeEnds DEF Ended
  <1> QED
    BY <1>1, <1>2 DEF CommitRole

LEMMA TypeAssignRole == ASSUME TypeInv, NEW r \in Req, AssignRole(r) PROVE TypeInv'
  <1>1. db' \in Db
    BY DEF AssignRole, UsersOf, RolesOf, TypeInv, TypeOK, Db
  <1>2. RowsTyped'
    BY <1>1 DEF AssignRole, factors, redis, TypeInv, TypeOK, RowsTyped
  <1> QED
    BY <1>2, TypeEnds DEF AssignRole, Ended

LEMMA TypeCreateUser == ASSUME TypeInv, NEW r \in Req, CreateUser(r) PROVE TypeInv'
  <1>1. db' \in Db
    <2> PICK t \in Id, e \in Email :
          db' = [db EXCEPT !.users[r] = [tenant |-> t, email |-> e]]
      BY DEF CreateUser
    <2>1. [tenant |-> t, email |-> e] \in User /\ r \in Id
      BY RequestTyped DEF User
    <2> QED
      BY <2>1 DEF TypeInv, TypeOK, Db
  <1>2. RowsTyped'
    BY <1>1 DEF CreateUser, factors, redis, TypeInv, TypeOK, RowsTyped
  <1> QED
    BY <1>2, TypeEnds DEF CreateUser, Ended

LEMMA TypeLoad ==
    ASSUME TypeInv, NEW r \in Req, NEW op \in {"login", "setup", "enable", "disable"},
           NEW u \in Id, NEW code \in Code \cup {None},
           op = "enable" => mfa[u].secret # None, Load(r, op, u, code)
    PROVE  TypeInv'
  <1> DEFINE c == [op |-> op, user |-> u]
             s == SpentBy(mfa[u], code)
             f == mfa[u]
             l == WithRow(loc[r], f, s)
  <1>1. c \in Call /\ c.op = op
    BY DEF Call
  <1>2. s \in Code \cup {None} /\ f \in Factor
    BY DEF SpentBy, TypeInv, TypeOK
  <1>3. /\ loc' = [loc EXCEPT ![r] = l] /\ req' = [req EXCEPT ![r] = c]
        /\ pc' = [pc EXCEPT ![r] = "save"] /\ pc[r] = "idle"
        /\ UNCHANGED <<db, factors, redis>>
    BY DEF Load, WithRow
  <1>4. op = "enable" => f.secret # None
    OBVIOUS
  <1> HIDE DEF c, s, f
  <1>5. /\ l \in Local /\ l.row = f /\ l.held = loc[r].held /\ l.grant = loc[r].grant
    BY <1>2, SetRow, RequestTyped
  <1> HIDE DEF l
  <1>6. PhaseOf("save", c, l)
    BY <1>1, <1>3, <1>4, <1>5, RequestTyped, NoLocalTyped DEF PhaseOf, Running, Serves
  <1> QED
    BY <1>1, <1>3, <1>5, <1>6, TypeMoves DEF Running

\* A code a client can present.
LEMMA KnownCode == [gen: Known, kind: {"totp"} \cup CodeIndex] \subseteq Code
  BY DEF Known, Code

LEMMA TypeLoads ==
    ASSUME TypeInv, NEW r \in Req, Login(r) \/ SetupMfa(r) \/ EnableMfa(r) \/ DisableMfa(r)
    PROVE  TypeInv'
  <1>1. CASE Login(r)
    BY <1>1, KnownCode, TypeLoad DEF Login
  <1>2. CASE SetupMfa(r)
    BY <1>2, TypeLoad DEF SetupMfa
  <1>3. CASE EnableMfa(r)
    BY <1>3, TypeLoad DEF EnableMfa
  <1>4. CASE DisableMfa(r)
    BY <1>4, KnownCode, TypeLoad DEF DisableMfa
  <1> QED
    BY <1>1, <1>2, <1>3, <1>4

\* What a request commits about a second factor is of the types of the rows.
LEMMA CommitsTyped ==
    ASSUME TypeInv, NEW r \in Req, pc[r] = "save", Commits(r)
    PROVE  req[r].user \in Id /\ spent' \subseteq Code /\ overlapped' \subseteq Id
  <1>1. req[r].user \in Id
    BY RequestTyped, CallFields DEF PhaseOf, Serves
  <1>2. loc[r].spend \in Code \cup {None}
    BY RequestTyped, LocalFields
  <1> QED
    BY <1>1, <1>2 DEF Commits, TypeInv, TypeOK

LEMMA FactorFields ==
    ASSUME NEW f \in Factor
    PROVE  f.enabled \in BOOLEAN /\ f.secret \in Id \cup {None} /\ f.codes \subseteq Code
  BY DEF Factor

LEMMA TypeLoginCommit == ASSUME TypeInv, NEW r \in Req, LoginCommit(r) PROVE TypeInv'
  <1> DEFINE u == req[r].user
  <1>1. u \in Id /\ spent' \subseteq Code /\ overlapped' \subseteq Id
    BY CommitsTyped DEF LoginCommit
  <1>2. mfa' \in [Id -> Factor]
    <2>1. CASE loc[r].spend = None
      BY <2>1 DEF LoginCommit, TypeInv, TypeOK
    <2>2. CASE loc[r].spend # None
      <3> DEFINE k == CodesLeft(loc[r].row, loc[r].spend)
                 f == [mfa[u] EXCEPT !.codes = k]
      <3>1. k \subseteq Code
        BY RequestTyped, LocalFields, FactorFields DEF CodesLeft
      <3>2. mfa' = [mfa EXCEPT ![u] = f]
        BY <2>2 DEF LoginCommit
      <3> HIDE DEF k
      <3>3. f \in Factor
        BY <1>1, <3>1 DEF TypeInv, TypeOK, Factor
      <3> HIDE DEF f
      <3> QED
        BY <3>2, <3>3 DEF TypeInv, TypeOK
    <2> QED
      BY <2>1, <2>2
  <1>3. RowsTyped'
    BY <1>1, <1>2 DEF LoginCommit, factors, redis, TypeInv, TypeOK, RowsTyped
  <1>4. Moves(r, "grants", req[r], NoLocal)
    BY DEF LoginCommit, Goto, Moves, TypeInv, TypeOK
  <1>5. PhaseOf("grants", req[r], NoLocal)
    BY RequestTyped, NoLocalTyped DEF LoginCommit, PhaseOf, Running, Serves
  <1> QED
    BY <1>3, <1>4, <1>5, RequestTyped, NoLocalTyped, MovesTyped DEF Running

LEMMA TypeMfaCommit == ASSUME TypeInv, NEW r \in Req, MfaCommit(r) PROVE TypeInv'
  <1> DEFINE u == req[r].user
             m == mfa[u]
             f == CASE req[r].op = "setup" -> SetupFactor(r, m)
                    [] req[r].op = "enable" -> EnableFactor(r, m)
                    [] OTHER -> DisableFactor(r, m)
  <1>1. u \in Id /\ spent' \subseteq Code /\ overlapped' \subseteq Id
    BY CommitsTyped DEF MfaCommit
  <1>2. m \in Factor /\ loc[r].row \in Factor /\ r \in Id
    BY <1>1, RequestTyped, LocalFields DEF TypeInv, TypeOK
  <1>3. mfa' = [mfa EXCEPT ![u] = f]
    BY DEF MfaCommit
  <1> HIDE DEF m
  <1>4. SetupFactor(r, m) \in Factor
    BY <1>2, FactorFields DEF SetupFactor, Factor, RecoveryCodes, Code
  <1>5. EnableFactor(r, m) \in Factor
    BY <1>2, FactorFields DEF EnableFactor, Factor
  <1>6. DisableFactor(r, m) \in Factor
    BY <1>2, FactorFields DEF DisableFactor, Factor
  <1>7. f \in Factor
    BY <1>4, <1>5, <1>6
  <1> HIDE DEF f
  <1>8. verified' \subseteq Id
    <2>1. req[r].op = "enable" => loc[r].row.secret \in Id
      BY <1>2, FactorFields, RequestTyped DEF MfaCommit, PhaseOf
    <2> QED
      BY <2>1 DEF MfaCommit, TypeInv, TypeOK
  <1>9. RowsTyped'
    BY <1>1, <1>3, <1>7, <1>8 DEF MfaCommit, factors, redis, TypeInv, TypeOK, RowsTyped
  <1> QED
    BY <1>9, TypeEnds DEF MfaCommit, Ended

LEMMA TypeLoadGrants == ASSUME TypeInv, NEW r \in Req, LoadGrants(r),
                               db.users[req[r].user] # None PROVE TypeInv'
  <1> DEFINE u == req[r].user
             g == [user |-> u, tenant |-> db.users[u].tenant, perms |-> Grants(u)]
             l == WithGrant(loc[r], g)
  <1>1. u \in Id
    BY RequestTyped, CallFields DEF LoadGrants, PhaseOf, Serves
  <1>2. g \in Claims
    <2>1. db.users[u] \in User /\ db.perms \subseteq Permission
      BY <1>1 DEF TypeInv, TypeOK, Db
    <2> QED
      BY <1>1, <2>1 DEF Claims, User, Grants
  <1>3. loc' = [loc EXCEPT ![r] = l] /\ Goto(r, "issue") /\ UNCHANGED <<db, factors, redis>>
    BY DEF LoadGrants, WithGrant
  <1> HIDE DEF g
  <1>4. l \in Local /\ l.held = loc[r].held
    BY <1>2, SetGrant, RequestTyped
  <1> HIDE DEF l
  <1>5. PhaseOf("issue", req[r], l)
    BY <1>4, RequestTyped DEF LoadGrants, PhaseOf, Running, Serves
  <1> QED
    BY <1>3, <1>4, <1>5, TypeGoes DEF Running

LEMMA TypeRefreshGet == ASSUME TypeInv, NEW r \in Req, RefreshGet(r) PROVE TypeInv'
  <1> PICK t \in live :
        /\ req' = [req EXCEPT ![r] = [op |-> "refresh", token |-> t]]
        /\ loc' = [loc EXCEPT ![r].grant = issued[t]]
        /\ forked' = IF \E v \in Req : pc[v] = "delete" /\ req[v].token = t
                       THEN forked \cup {family[t]} ELSE forked
    BY DEF RefreshGet
  <1> DEFINE c == [op |-> "refresh", token |-> t]
             g == issued[t]
             l == WithGrant(loc[r], g)
  <1>1. t \in Id /\ family[t] \in Id /\ g \in Claims \cup {None}
    BY DEF TypeInv, TypeOK
  <1>2. c \in Call /\ c.op = "refresh"
    BY <1>1 DEF Call
  <1>3. Moves(r, "delete", c, l)
    BY DEF Moves, WithGrant, RefreshGet
  <1>4. RowsTyped'
    BY <1>1 DEF RefreshGet, factors, redis, TypeInv, TypeOK, RowsTyped
  <1> HIDE DEF c, g
  <1>5. l \in Local /\ l.held = loc[r].held
    BY <1>1, SetGrant, RequestTyped
  <1> HIDE DEF l
  <1>6. PhaseOf("delete", c, l)
    BY <1>2, <1>5, RequestTyped, NoLocalTyped DEF RefreshGet, PhaseOf, Running, Serves
  <1> QED
    BY <1>2, <1>3, <1>4, <1>5, <1>6, MovesTyped DEF Running

LEMMA TypeRefreshDelete == ASSUME TypeInv, NEW r \in Req, RefreshDelete(r) PROVE TypeInv'
  <1>1. RowsTyped'
    BY DEF RefreshDelete, Remaining, factors, redis, TypeInv, TypeOK, RowsTyped
  <1>2. Moves(r, "issue", req[r], loc[r])
    BY DEF Moves, RefreshDelete, Goto, TypeInv, TypeOK
  <1>3. PhaseOf("issue", req[r], loc[r])
    BY RequestTyped DEF RefreshDelete, PhaseOf, Running, Serves
  <1> QED
    BY <1>1, <1>2, <1>3, RequestTyped, MovesTyped DEF Running

LEMMA TypeIssueTokens == ASSUME TypeInv, NEW r \in Req, IssueTokens(r) PROVE TypeInv'
  <1>1. r \in Id /\ loc[r].grant \in Claims \cup {None}
    BY RequestTyped, LocalFields
  <1>2. req[r].op = "refresh" => req[r].token \in Id
    BY RequestTyped, CallFields DEF IssueTokens, PhaseOf, Serves
  <1>3. RowsTyped'
    BY <1>1, <1>2 DEF IssueTokens, factors, redis, TypeInv, TypeOK, RowsTyped
  <1> QED
    BY <1>3, TypeEnds DEF IssueTokens, Ended

LEMMA TypeExpire == ASSUME TypeInv, NEW t \in Id, Expire(t) PROVE TypeInv'
  BY DEF Expire, TypeInv, TypeOK, Phases, factors

----------------------------------------------------------------------------
(* Rows.  A row is never removed, so that what a token or a running        *)
(* request relies on stays there; a name is used for rows only by the      *)
(* commit of its request; and of a list of permissions each one is found,  *)
(* inserted or still to come.                                              *)

TokenBacked(c) ==
    /\ db.users[c.user] # None
    /\ db.users[c.user].tenant = c.tenant
    /\ c.perms \subseteq Grants(c.user)

ListOf(r) == IF req[r].op = "register" THEN OwnerSet ELSE Names(req[r].perms)
Unborn == {"idle", "tenant", "select", "insert", "role", "lookup"}

RequestBacked(r) ==
    /\ loc[r].grant # None => TokenBacked(loc[r].grant)
    /\ pc[r] \in {"save", "grants"} => db.users[req[r].user] # None
    /\ pc[r] \in Running /\ req[r].op = "create_role" => db.tenants[req[r].tenant] # None
    /\ pc[r] \in Unborn => /\ db.tenants[r] = None /\ db.users[r] = None
                           /\ db.roles[r] = None
    /\ loc[r].found \subseteq db.perms
    /\ pc[r] \in {"insert", "lookup"} =>
          ListOf(r) \subseteq Names(loc[r].todo) \cup db.perms \cup loc[r].held

TenantsExist == \A i \in Id : db.users[i] # None => db.tenants[db.users[i].tenant] # None
RequestsBacked == \A r \in Req : RequestBacked(r)
RowsInv == RolesComplete /\ TenantsExist /\ TokensWithinGrants /\ RequestsBacked

LEMMA NamesTail ==
    /\ Names(<<>>) = {}
    /\ \A s \in Seq(Permission) : s # <<>> => Names(s) \subseteq {Head(s)} \cup Names(Tail(s))
  <1>1. Names(<<>>) = {}
    BY DEF Names
  <1>2. ASSUME NEW s \in Seq(Permission), s # <<>>, NEW i \in DOMAIN s
        PROVE  s[i] \in {Head(s)} \cup Names(Tail(s))
    <2>1. i \in 1..Len(s)
      BY <1>2
    <2>2. CASE i = 1
      BY <1>2, <2>2
    <2>3. CASE i # 1
      <3>1. i - 1 \in 1..Len(Tail(s)) /\ Tail(s)[i - 1] = s[i]
        BY <1>2, <2>1, <2>3
      <3>2. Tail(s) \in Seq(Permission)
        BY <1>2
      <3>3. i - 1 \in DOMAIN Tail(s)
        BY <3>1, <3>2
      <3> QED
        BY <3>1, <3>3 DEF Names
    <2> QED
      BY <2>2, <2>3
  <1> QED
    BY <1>1, <1>2 DEF Names

Grows ==
    /\ \A i \in Id : /\ db.tenants[i] # None => db'.tenants[i] = db.tenants[i]
                     /\ db.users[i] # None => db'.users[i] = db.users[i]
                     /\ db.roles[i] # None => db'.roles[i] = db.roles[i]
    /\ db.perms \subseteq db'.perms
    /\ db.rolePerms \subseteq db'.rolePerms
    /\ db.userRoles \subseteq db'.userRoles

LEMMA TokenStays ==
    ASSUME TypeInv, Grows, NEW c \in Claims, TokenBacked(c) PROVE TokenBacked(c)'
  <1>1. c.user \in Id /\ c.tenant \in Id
    BY DEF Claims
  <1>2. Grants(c.user) \subseteq Grants(c.user)'
    BY <1>1 DEF Grants, Grows
  <1> QED
    BY <1>1, <1>2 DEF TokenBacked, Grows

\* What a step of another request leaves to request v.
LEMMA OthersStay ==
    ASSUME TypeInv, RequestsBacked, Grows, NEW v \in Req,
           pc'[v] = pc[v], req'[v] = req[v], loc'[v] = loc[v],
           db'.tenants[v] = db.tenants[v], db'.users[v] = db.users[v],
           db'.roles[v] = db.roles[v]
    PROVE  RequestBacked(v)'
  <1>1. RequestBacked(v) /\ loc[v] \in Local
    BY RequestTyped DEF RequestsBacked
  <1>2. loc[v].grant # None => TokenBacked(loc[v].grant)'
    BY <1>1, LocalFields, TokenStays DEF RequestBacked
  <1>3. pc[v] \in {"save", "grants"} => req[v].user \in Id
    BY RequestTyped, CallFields DEF PhaseOf, Serves
  <1>4. pc[v] \in Running /\ req[v].op = "create_role" => req[v].tenant \in Id
    BY RequestTyped, CallFields DEF PhaseOf, Serves, Running
  <1>5. ListOf(v)' = ListOf(v)
    BY DEF ListOf
  <1>6. pc[v] \in {"save", "grants"} => db'.users[req[v].user] # None
    BY <1>1, <1>3 DEF RequestBacked, Grows
  <1>7. pc[v] \in Running /\ req[v].op = "create_role" => db'.tenants[req[v].tenant] # None
    BY <1>1, <1>4 DEF RequestBacked, Grows
  <1>8. /\ loc[v].found \subseteq db'.perms
        /\ pc[v] \in {"insert", "lookup"} =>
              ListOf(v) \subseteq Names(loc[v].todo) \cup db'.perms \cup loc[v].held
    BY <1>1 DEF RequestBacked, Grows
  <1> QED
    BY <1>1, <1>2, <1>5, <1>6, <1>7, <1>8 DEF RequestBacked

Alone(r) == \A v \in Req \ {r} : pc'[v] = pc[v] /\ req'[v] = req[v] /\ loc'[v] = loc[v]

\* A step that touches neither the rows nor the tokens.
LEMMA RowsKept ==
    ASSUME TypeInv, RowsInv, NEW r \in Req, UNCHANGED <<db, issued>>, Alone(r),
           RequestBacked(r)'
    PROVE  RowsInv'
  <1>1. Grows
    BY DEF Grows
  <1>2. RequestsBacked'
    BY <1>1, OthersStay DEF RowsInv, RequestsBacked, Alone
  <1>3. RolesComplete' /\ TenantsExist' /\ TokensWithinGrants'
    BY DEF RowsInv, RolesComplete, TenantsExist, TokensWithinGrants, Grants
  <1> QED
    BY <1>2, <1>3 DEF RowsInv

LEMMA EndsBacked ==
    ASSUME TypeInv, NEW r \in Req, NEW how \in Ended, End(r, how)
    PROVE  Alone(r) /\ RequestBacked(r)'
  <1>1. pc'[r] = how /\ loc'[r] = NoLocal /\ req'[r] = None
    BY DEF End, TypeInv, TypeOK
  <1>2. Alone(r)
    BY DEF End, Alone, TypeInv, TypeOK
  <1>3. how \notin Running /\ how \notin Unborn
    BY DEF Ended, Running, Unborn
  <1> QED
    BY <1>1, <1>2, <1>3, NoLocalTyped DEF RequestBacked, Running

LEMMA RowsInit == Init => RowsInv
  <1> SUFFICES ASSUME Init PROVE RowsInv
    OBVIOUS
  <1> USE InputsTyped DEF Id
  <1>1. RequestsBacked
    <2> SUFFICES ASSUME NEW r \in Req PROVE RequestBacked(r)
      BY DEF RequestsBacked
    <2>1. db.tenants[r] = None /\ db.users[r] = None /\ db.roles[r] = None
      BY DEF Init, EmptyDb, BaseDb
    <2> QED
      BY <2>1, NoLocalTyped DEF Init, RequestBacked, Running
  <1>2. CASE db = EmptyDb /\ issued = [i \in Id |-> None]
    BY <1>1, <1>2 DEF EmptyDb, RowsInv, RolesComplete, TenantsExist, TokensWithinGrants
  <1>3. CASE db = BaseDb /\ issued = [i \in Id |-> IF i = Base THEN BaseClaims ELSE None]
    <2>1. /\ [slug |-> BaseSlug] # None /\ [tenant |-> Base, email |-> OwnerEmail] # None
          /\ [tenant |-> Base, name |-> "Owner"] # None
      BY NoneIsNoRow DEF Tenant, User, Role
    <2>2. RolesComplete /\ TenantsExist
      BY <1>3, <2>1 DEF BaseDb, RolesComplete, TenantsExist
    <2>3. TokensWithinGrants
      BY <1>3, <2>1 DEF BaseDb, TokensWithinGrants, BaseClaims, Grants
    <2> QED
      BY <1>1, <2>2, <2>3 DEF RowsInv
  <1> QED
    BY <1>2, <1>3 DEF Init

LEMMA RowsEnds ==
    ASSUME TypeInv, RowsInv, NEW r \in Req, NEW how \in Ended, End(r, how),
           UNCHANGED <<db, issued>>
    PROVE  RowsInv'
  BY EndsBacked, RowsKept

\* A step of one request, and what it was and is for it.
LEMMA RowsStep1 ==
    ASSUME TypeInv, RowsInv, NEW r \in Req, UNCHANGED <<db, issued>>,
           NEW p, NEW c, NEW l, Moves(r, p, c, l),
           l.grant # None => TokenBacked(l.grant),
           p \in {"save", "grants"} => db.users[c.user] # None,
           p \in Running /\ c.op = "create_role" => db.tenants[c.tenant] # None,
           p \in Unborn => pc[r] \in Unborn,
           l.found \subseteq db.perms,
           p \in {"insert", "lookup"} =>
              (IF c.op = "register" THEN OwnerSet ELSE Names(c.perms))
                 \subseteq Names(l.todo) \cup db.perms \cup l.held
    PROVE  RowsInv'
  <1>1. pc'[r] = p /\ req'[r] = c /\ loc'[r] = l /\ Alone(r)
    BY DEF Moves, TypeInv, TypeOK, Alone
  <1>2. pc[r] \in Unborn => /\ db'.tenants[r] = None /\ db'.users[r] = None
                            /\ db'.roles[r] = None
    BY DEF RowsInv, RequestsBacked, RequestBacked
  <1>3. (l.grant # None => TokenBacked(l.grant))' <=> (l.grant # None => TokenBacked(l.grant))
    BY DEF TokenBacked, Grants
  <1>4. RequestBacked(r)'
    BY <1>1, <1>2, <1>3 DEF RequestBacked, ListOf, TokenBacked, Grants
  <1> QED
    BY <1>1, <1>4, RowsKept

\* A step that does not touch the locals.
LEMMA RowsGoes ==
    ASSUME TypeInv, RowsInv, NEW r \in Req, UNCHANGED <<db, issued, req, loc>>, NEW p,
           pc' = [pc EXCEPT ![r] = p],
           p \in {"save", "grants"} => db.users[req[r].user] # None,
           pc[r] \in Running,
           p \in Unborn => pc[r] \in Unborn,
           p \in {"insert", "lookup"} => pc[r] \in {"insert", "lookup"}
    PROVE  RowsInv'
  <1>1. pc'[r] = p /\ Alone(r) /\ RequestBacked(r)
    BY DEF TypeInv, TypeOK, Alone, RowsInv, RequestsBacked
  <1>2. RequestBacked(r)'
    BY <1>1 DEF RequestBacked, ListOf, TokenBacked, Grants
  <1> QED
    BY <1>1, <1>2, RowsKept

\* What is known of a request at any point.
LEMMA Backed ==
    ASSUME RowsInv, NEW r \in Req PROVE RequestBacked(r)
  BY DEF RowsInv, RequestsBacked

LEMMA Idle ==
    ASSUME TypeInv, NEW r \in Req, pc[r] = "idle" PROVE loc[r] = NoLocal /\ req[r] = None
  BY RequestTyped DEF PhaseOf, Running

LEMMA AuthorisedExists ==
    ASSUME TypeInv, RowsInv, NEW t \in Id, NEW p, Authorised(t, p)
    PROVE  db.tenants[t] # None
  <1> PICK i \in Id : issued[i] # None /\ issued[i].tenant = t
    BY DEF Authorised
  <1>1. issued[i].user \in Id
    BY DEF TypeInv, TypeOK, Claims
  <1> QED
    BY <1>1 DEF RowsInv, TokensWithinGrants, TenantsExist

LEMMA RowsCheckSlug == ASSUME TypeInv, RowsInv, NEW r \in Req, CheckSlug(r) PROVE RowsInv'
  <1> PICK s \in Slug : req' = [req EXCEPT ![r] = [op |-> "register", slug |-> s]]
    BY DEF CheckSlug
  <1> DEFINE c == [op |-> "register", slug |-> s]
  <1>1. c.op = "register"
    OBVIOUS
  <1>2. Moves(r, "tenant", c, NoLocal) /\ UNCHANGED <<db, issued>> /\ pc[r] = "idle"
    BY Idle DEF CheckSlug, Moves, TypeInv, TypeOK, redis
  <1> HIDE DEF c
  <1> QED
    BY <1>1, <1>2, NoLocalTyped, RowsStep1 DEF Unborn

LEMMA RowsInsertTenant ==
    ASSUME TypeInv, RowsInv, NEW r \in Req, InsertTenant(r) PROVE RowsInv'
  <1>1. CASE End(r, "failed")
    BY <1>1, RowsEnds DEF InsertTenant, redis, Ended
  <1>2. CASE Goto(r, "select") /\ UNCHANGED loc
    BY <1>2, RowsGoes DEF InsertTenant, Goto, redis, Unborn, Running
  <1> QED
    BY <1>1, <1>2 DEF InsertTenant

LEMMA RowsSelectPermissions ==
    ASSUME TypeInv, RowsInv, NEW r \in Req, SelectPermissions(r) PROVE RowsInv'
  <1> DEFINE l == WithFound(loc[r], OwnerPermissions, db.perms)
             c == req[r]
  <1>1. l.grant = loc[r].grant /\ l.found = db.perms /\ l.todo = OwnerPermissions
    BY SetFound, RequestTyped, InputsTyped DEF TypeInv, TypeOK, Db
  <1>2. Moves(r, "insert", c, l) /\ UNCHANGED <<db, issued>> /\ pc[r] = "select"
    BY DEF SelectPermissions, InsertOrder, WithFound, Moves, Goto, TypeInv, TypeOK, redis
  <1>3. c.op = "register" /\ loc[r].grant = None
    BY <1>2, RequestTyped DEF PhaseOf, Serves
  <1>4. OwnerSet = Names(l.todo)
    BY <1>1 DEF OwnerSet
  <1> HIDE DEF l, c
  <1> QED
    BY <1>1, <1>2, <1>3, <1>4, RowsStep1 DEF Unborn

\* Progress through the list of permissions.
LEMMA RowsWork ==
    ASSUME TypeInv, RowsInv, NEW r \in Req, NEW p \in {"insert", "lookup"},
           pc[r] \in {"insert", "lookup"}, loc[r].todo # <<>>, NEW l \in Local,
           Moves(r, p, req[r], l), l.grant = loc[r].grant, l.found = loc[r].found,
           l.todo = Tail(loc[r].todo), loc[r].held \subseteq l.held,
           Head(loc[r].todo) \in db.perms \cup l.held, UNCHANGED <<db, issued>>
    PROVE  RowsInv'
  <1> DEFINE c == req[r]
             list == IF c.op = "register" THEN OwnerSet ELSE Names(c.perms)
  <1>1. RequestBacked(r) /\ loc[r].todo \in Seq(Permission)
    BY Backed, RequestTyped, LocalFields
  <1>2. Names(loc[r].todo) \subseteq {Head(loc[r].todo)} \cup Names(l.todo)
    BY <1>1, NamesTail
  <1>3. list \subseteq Names(l.todo) \cup db.perms \cup l.held
    BY <1>1, <1>2 DEF RequestBacked, ListOf
  <1>4. /\ l.grant # None => TokenBacked(l.grant)
        /\ p \in Running /\ c.op = "create_role" => db.tenants[c.tenant] # None
        /\ p \in Unborn => pc[r] \in Unborn
        /\ l.found \subseteq db.perms
    BY <1>1 DEF RequestBacked, Running, Unborn
  <1> HIDE DEF c
  <1>5. Moves(r, p, c, l)
    BY DEF c
  <1> QED
    BY <1>3, <1>4, <1>5, RowsStep1

LEMMA RowsSkipFound == ASSUME TypeInv, RowsInv, NEW r \in Req, SkipFound(r) PROVE RowsInv'
  <1> DEFINE l == WithTodo(loc[r], Tail(loc[r].todo))
             p == pc[r]
  <1>1. /\ l \in Local /\ l.held = loc[r].held /\ l.grant = loc[r].grant
        /\ l.found = loc[r].found /\ l.todo = Tail(loc[r].todo)
    BY RequestTyped, LocalFields, TailTyped, SetTodo DEF SkipFound
  <1>2. Moves(r, p, req[r], l) /\ UNCHANGED <<db, issued>> /\ p = "insert"
    BY DEF SkipFound, WithTodo, Moves, TypeInv, TypeOK, redis
  <1>3. Head(loc[r].todo) \in db.perms
    BY Backed DEF SkipFound, RequestBacked
  <1> HIDE DEF l, p
  <1> QED
    BY <1>1, <1>2, <1>3, RowsWork DEF SkipFound

LEMMA RowsInsertPermission ==
    ASSUME TypeInv, RowsInv, NEW r \in Req, InsertPermission(r) PROVE RowsInv'
  <1>1. CASE Head(loc[r].todo) \in db.perms
    BY <1>1, RowsEnds DEF InsertPermission, Ended, redis
  <1>2. CASE Head(loc[r].todo) \notin db.perms
    <2> DEFINE h == loc[r].held \cup {Head(loc[r].todo)}
               l == WithHeld(loc[r], h, Tail(loc[r].todo))
               p == IF req[r].op = "register" THEN "insert" ELSE "lookup"
    <2>1. /\ loc[r] \in Local /\ Tail(loc[r].todo) \in Seq(Permission)
          /\ h \in SUBSET Permission
      BY RequestTyped, LocalFields, TailTyped DEF InsertPermission
    <2>2. /\ l \in Local /\ l.held = h /\ l.grant = loc[r].grant
          /\ l.found = loc[r].found /\ l.todo = Tail(loc[r].todo)
      <3> DEFINE q == loc[r]
                 x == Tail(loc[r].todo)
      <3>1. q \in Local /\ x \in Seq(Permission) /\ h \in SUBSET Permission
        BY <2>1
      <3> HIDE DEF h, q, x
      <3>2. /\ WithHeld(q, h, x) \in Local /\ WithHeld(q, h, x).held = h
            /\ WithHeld(q, h, x).grant = q.grant /\ WithHeld(q, h, x).found = q.found
            /\ WithHeld(q, h, x).todo = x
        BY <3>1, SetHeld
      <3> QED
        BY <3>2 DEF q, x
    <2>3. /\ Moves(r, p, req[r], l) /\ UNCHANGED <<db, issued>> /\ p \in {"insert", "lookup"}
          /\ pc[r] = "insert" /\ loc[r].todo # <<>>
      BY <1>2 DEF InsertPermission, WithHeld, Goto, Moves, TypeInv, TypeOK, redis
    <2> HIDE DEF l, p
    <2> QED
      BY <2>2, <2>3, RowsWork
  <1> QED
    BY <1>1, <1>2

LEMMA RowsStartRole == ASSUME TypeInv, RowsInv, NEW r \in Req, StartRole(r) PROVE RowsInv'
  <1> PICK t \in Id, n \in RoleName, ps \in Payload :
        /\ Authorised(t, "roles:write")
        /\ req' = [req EXCEPT ![r] = [op |-> "create_role", tenant |-> t, name |-> n,
                                      perms |-> ps]]
    BY DEF StartRole
  <1> DEFINE c == [op |-> "create_role", tenant |-> t, name |-> n, perms |-> ps]
  <1>1. c.tenant = t /\ db.tenants[t] # None
    BY AuthorisedExists
  <1>2. Moves(r, "role", c, NoLocal) /\ UNCHANGED <<db, issued>> /\ pc[r] = "idle"
    BY Idle DEF StartRole, Moves, TypeInv, TypeOK, redis
  <1> HIDE DEF c
  <1> QED
    BY <1>1, <1>2, NoLocalTyped, RowsStep1 DEF Unborn

LEMMA RowsInsertRole == ASSUME TypeInv, RowsInv, NEW r \in Req, InsertRole(r) PROVE RowsInv'
  <1>1. CASE End(r, "failed")
    BY <1>1, RowsEnds DEF InsertRole, Ended, redis
  <1>2. CASE loc' = [loc EXCEPT ![r].todo = req[r].perms] /\ Goto(r, "lookup")
    <2> DEFINE c == req[r]
               l == WithTodo(loc[r], c.perms)
    <2>1. c \in Call /\ c.op = "create_role" /\ loc[r] \in Local /\ pc[r] = "role"
      BY RequestTyped DEF InsertRole, PhaseOf, Serves
    <2>2. /\ l.grant = loc[r].grant /\ l.found = loc[r].found /\ l.todo = c.perms
      BY <2>1, CallFields, InputsTyped, SetTodo
    <2>3. Moves(r, "lookup", c, l) /\ UNCHANGED <<db, issued>>
      BY <1>2 DEF InsertRole, WithTodo, Moves, Goto, TypeInv, TypeOK, redis
    <2>4. /\ l.grant # None => TokenBacked(l.grant)
          /\ db.tenants[c.tenant] # None /\ l.found \subseteq db.perms
      BY <2>1, <2>2, Backed DEF RequestBacked, Running
    <2> HIDE DEF l, c
    <2> QED
      BY <2>1, <2>2, <2>3, <2>4, RowsStep1 DEF Unborn
  <1> QED
    BY <1>1, <1>2 DEF InsertRole

LEMMA RowsLookupPermission ==
    ASSUME TypeInv, RowsInv, NEW r \in Req, LookupPermission(r) PROVE RowsInv'
  <1>1. CASE Head(loc[r].todo) \in db.perms \cup loc[r].held
    <2> DEFINE l == WithTodo(loc[r], Tail(loc[r].todo))
               p == pc[r]
    <2>1. /\ l \in Local /\ l.held = loc[r].held /\ l.grant = loc[r].grant
          /\ l.found = loc[r].found /\ l.todo = Tail(loc[r].todo)
      BY ZenonT(30), RequestTyped, LocalFields, TailTyped, SetTodo DEF LookupPermission
    <2>2. Moves(r, p, req[r], l) /\ UNCHANGED <<db, issued>> /\ p = "lookup"
      BY <1>1 DEF LookupPermission, WithTodo, Moves, TypeInv, TypeOK, redis
    <2> HIDE DEF l, p
    <2> QED
      BY <1>1, <2>1, <2>2, RowsWork DEF LookupPermission
  <1>2. CASE Head(loc[r].todo) \notin db.perms \cup loc[r].held
    BY <1>2, RowsGoes DEF LookupPermission, Goto, redis, Unborn, Running
  <1> QED
    BY <1>1, <1>2

\* A commit of r adds rows, none of them another request's.
LEMMA RowsCommitted ==
    ASSUME TypeInv, RowsInv, NEW r \in Req, Grows, Alone(r), issued' = issued,
           \A i \in Id \ {r} : /\ db'.tenants[i] = db.tenants[i]
                               /\ db'.users[i] = db.users[i] /\ db'.roles[i] = db.roles[i],
           RequestBacked(r)', RolesComplete', TenantsExist'
    PROVE  RowsInv'
  <1>1. RequestsBacked'
    <2> SUFFICES ASSUME NEW v \in Req PROVE RequestBacked(v)'
      BY DEF RequestsBacked
    <2>1. CASE v = r
      BY <2>1
    <2>2. CASE v # r
      BY <2>2, OthersStay, RequestTyped DEF RowsInv, Alone
    <2> QED
      BY <2>1, <2>2
  <1>2. TokensWithinGrants'
    <2> SUFFICES ASSUME NEW i \in Id, issued[i] # None PROVE TokenBacked(issued[i])'
      BY DEF TokensWithinGrants, TokenBacked
    <2>1. issued[i] \in Claims /\ TokenBacked(issued[i])
      BY DEF TypeInv, TypeOK, RowsInv, TokensWithinGrants, TokenBacked
    <2> DEFINE c == issued[i]
    <2>2. c \in Claims /\ TokenBacked(c) /\ issued'[i] = c
      BY <2>1
    <2> QED
      BY <2>1, TokenStays
  <1> QED
    BY <1>1, <1>2 DEF RowsInv

LEMMA RowsCommitRegistration ==
    ASSUME TypeInv, RowsInv, NEW r \in Req, CommitRegistration(r) PROVE RowsInv'
  <1> DEFINE tn == [slug |-> req[r].slug]
             us == [tenant |-> r, email |-> OwnerEmail]
             rl == [tenant |-> r, name |-> "Owner"]
             g == [user |-> r, tenant |-> r, perms |-> OwnerSet]
             l == WithGrant(NoLocal, g)
  <1>1. req[r] \in Call /\ req[r].op = "register" /\ r \in Id /\ RequestBacked(r)
    BY RequestTyped, Backed DEF CommitRegistration, PhaseOf, Serves
  <1>2. tn \in Tenant /\ us \in User /\ rl \in Role /\ g \in Claims
    BY <1>1, CallFields, InputsTyped, OwnerSetTyped DEF Tenant, User, Role, Claims
  <1>3. tn # None /\ us # None /\ rl # None
    BY <1>2, NoneIsNoRow
  <1>4. us.tenant = r /\ rl.tenant = r /\ g.user = r /\ g.tenant = r /\ g.perms = OwnerSet
    OBVIOUS
  <1>5. db.tenants[r] = None /\ db.users[r] = None /\ db.roles[r] = None
    BY <1>1 DEF CommitRegistration, RequestBacked, Unborn
  <1>6. OwnerSet \subseteq db.perms \cup loc[r].held
    BY <1>1, NamesTail DEF CommitRegistration, RequestBacked, ListOf
  <1>7. /\ db'.tenants = [db.tenants EXCEPT ![r] = tn]
        /\ db'.users = [db.users EXCEPT ![r] = us]
        /\ db'.roles = [db.roles EXCEPT ![r] = rl]
        /\ db'.perms = db.perms \cup loc[r].held
        /\ db'.rolePerms = db.rolePerms \cup ({r} \X OwnerSet)
        /\ db'.userRoles = db.userRoles \cup {<<r, r>>}
    BY DEF CommitRegistration, Registered, TypeInv, TypeOK, Db
  <1>8. /\ DOMAIN db.tenants = Id /\ DOMAIN db.users = Id /\ DOMAIN db.roles = Id
        /\ \A i \in Id : db.users[i] # None => db.users[i].tenant \in Id
        /\ \A k \in db.userRoles : k \in Id \X Id
        /\ \A k \in db.rolePerms : k \in Id \X Permission
    BY DEF TypeInv, TypeOK, Db, User
  <1>9. loc' = [loc EXCEPT ![r] = l] /\ req' = req /\ pc' = [pc EXCEPT ![r] = "issue"]
        /\ issued' = issued
    BY DEF CommitRegistration, WithGrant, Goto, redis
  <1>10. loc'[r] = l /\ pc'[r] = "issue" /\ Alone(r)
    BY <1>9 DEF TypeInv, TypeOK, Alone
  <1> HIDE DEF g
  <1>11. l.grant = g /\ l.found = {}
    BY <1>2, SetGrant, NoLocalTyped
  <1> HIDE DEF tn, us, rl, l
  <1>12. Grows
    BY <1>5, <1>7, <1>8 DEF Grows
  <1>13. RolesComplete'
    <2>1. rl = [tenant |-> r, name |-> "Owner"]
      BY DEF rl
    <2>2. ASSUME NEW i \in Id, db'.tenants[i] # None
          PROVE  /\ db'.users[i] # None /\ db'.users[i].tenant = i
                 /\ db'.roles[i] = [tenant |-> i, name |-> "Owner"]
                 /\ <<i, i>> \in db'.userRoles
                 /\ {i} \X OwnerSet \subseteq db'.rolePerms
      <3>1. CASE i = r
        BY <1>1, <1>3, <1>4, <1>7, <1>8, <2>1, <3>1
      <3>2. CASE i # r
        BY <1>7, <1>8, <2>2, <3>2 DEF RowsInv, RolesComplete
      <3> QED
        BY <3>1, <3>2
    <2>3. ASSUME NEW k \in db'.rolePerms
          PROVE  db'.roles[k[1]] # None /\ k[2] \in db'.perms
      <3>1. CASE k \in {r} \X OwnerSet
        BY <1>1, <1>3, <1>6, <1>7, <1>8, <3>1
      <3>2. CASE k \in db.rolePerms
        <4>1. k[1] \in Id /\ db.roles[k[1]] # None /\ k[2] \in db.perms
          BY <1>8, <3>2 DEF RowsInv, RolesComplete
        <4> QED
          BY <4>1, <1>12 DEF Grows
      <3> QED
        BY <1>7, <2>3, <3>1, <3>2
    <2>4. ASSUME NEW k \in db'.userRoles
          PROVE  /\ db'.users[k[1]] # None /\ db'.roles[k[2]] # None
                 /\ db'.users[k[1]].tenant = db'.roles[k[2]].tenant
      <3>1. CASE k = <<r, r>>
        BY <1>1, <1>3, <1>4, <1>7, <1>8, <3>1
      <3>2. CASE k \in db.userRoles
        <4>1. /\ k[1] \in Id /\ k[2] \in Id
              /\ db.users[k[1]] # None /\ db.roles[k[2]] # None
              /\ db.users[k[1]].tenant = db.roles[k[2]].tenant
          BY <1>8, <3>2 DEF RowsInv, RolesComplete
        <4> QED
          BY <4>1, <1>12 DEF Grows
      <3> QED
        BY <1>7, <2>4, <3>1, <3>2
    <2> QED
      BY <2>2, <2>3, <2>4 DEF RolesComplete
  <1>14. TenantsExist'
    BY <1>1, <1>3, <1>4, <1>7, <1>8, <1>12 DEF RowsInv, TenantsExist, Grows
  <1>15. OwnerSet \subseteq Grants(r)'
    <2> SUFFICES ASSUME NEW p \in OwnerSet PROVE p \in Grants(r)'
      OBVIOUS
    <2>1. p \in db'.perms /\ <<r, r>> \in db'.userRoles /\ <<r, p>> \in db'.rolePerms
      BY <1>6, <1>7
    <2> QED
      BY <1>1, <2>1 DEF Grants
  <1>16. TokenBacked(g)'
    BY <1>1, <1>3, <1>4, <1>7, <1>8, <1>15 DEF TokenBacked, Grants
  <1>17. RequestBacked(r)'
    BY <1>1, <1>9, <1>10, <1>11, <1>16 DEF RequestBacked, TokenBacked, Grants, Unborn, Running
  <1> QED
    BY <1>7, <1>8, <1>9, <1>10, <1>12, <1>13, <1>14, <1>17, RowsCommitted

\* What the types say of the tables.
LEMMA Tables ==
    ASSUME TypeInv
    PROVE  /\ DOMAIN db.tenants = Id /\ DOMAIN db.users = Id /\ DOMAIN db.roles = Id
           /\ \A i \in Id : db.users[i] # None => db.users[i].tenant \in Id
           /\ \A k \in db.userRoles : k \in Id \X Id
           /\ \A k \in db.rolePerms : k \in Id \X Permission
  BY DEF TypeInv, TypeOK, Db, User

LEMMA RowsCommitRole == ASSUME TypeInv, RowsInv, NEW r \in Req, CommitRole(r) PROVE RowsInv'
  <1>1. CASE UNCHANGED db /\ End(r, "failed")
    BY <1>1, RowsEnds DEF CommitRole, Ended, redis
  <1>2. CASE /\ db' = [db EXCEPT
                    !.roles[r] = [tenant |-> req[r].tenant, name |-> req[r].name],
                    !.perms = @ \cup loc[r].held,
                    !.rolePerms = @ \cup ({r} \X Names(req[r].perms))]
             /\ End(r, "done")
    <2> DEFINE rl == [tenant |-> req[r].tenant, name |-> req[r].name]
               ps == Names(req[r].perms)
    <2>1. req[r] \in Call /\ req[r].op = "create_role" /\ r \in Id /\ RequestBacked(r)
      BY RequestTyped, Backed DEF CommitRole, PhaseOf, Serves
    <2>2. rl # None
      BY <2>1, CallFields, NoneIsNoRow DEF Role
    <2>3. db.tenants[r] = None /\ db.users[r] = None /\ db.roles[r] = None
      BY <2>1 DEF CommitRole, RequestBacked, Unborn
    <2>4. ps \subseteq db.perms \cup loc[r].held
      BY <2>1, NamesTail DEF CommitRole, RequestBacked, ListOf
    <2>5. /\ db'.tenants = db.tenants /\ db'.users = db.users
          /\ db'.roles = [db.roles EXCEPT ![r] = rl]
          /\ db'.perms = db.perms \cup loc[r].held
          /\ db'.rolePerms = db.rolePerms \cup ({r} \X ps)
          /\ db'.userRoles = db.userRoles
      BY <1>2 DEF TypeInv, TypeOK, Db
    <2>6. issued' = issued
      BY DEF CommitRole, redis
    <2> HIDE DEF rl, ps
    <2>7. Grows
      BY <2>3, <2>5, Tables DEF Grows
    <2>8. RolesComplete'
      <3>1. ASSUME NEW i \in Id, db'.tenants[i] # None
            PROVE  /\ db'.users[i] # None /\ db'.users[i].tenant = i
                   /\ db'.roles[i] = [tenant |-> i, name |-> "Owner"]
                   /\ <<i, i>> \in db'.userRoles
                   /\ {i} \X OwnerSet \subseteq db'.rolePerms
        BY <2>3, <2>5, Tables, <3>1 DEF RowsInv, RolesComplete
      <3>2. ASSUME NEW k \in db'.rolePerms
            PROVE  db'.roles[k[1]] # None /\ k[2] \in db'.perms
        <4>1. CASE k \in {r} \X ps
          BY <2>1, <2>2, <2>4, <2>5, Tables, <4>1
        <4>2. CASE k \in db.rolePerms
          <5>1. k[1] \in Id /\ db.roles[k[1]] # None /\ k[2] \in db.perms
            BY Tables, <4>2 DEF RowsInv, RolesComplete
          <5> QED
            BY <5>1, <2>7 DEF Grows
        <4> QED
          BY <2>5, <3>2, <4>1, <4>2
      <3>3. ASSUME NEW k \in db'.userRoles
            PROVE  /\ db'.users[k[1]] # None /\ db'.roles[k[2]] # None
                   /\ db'.users[k[1]].tenant = db'.roles[k[2]].tenant
        <4>1. /\ k[1] \in Id /\ k[2] \in Id
              /\ db.users[k[1]] # None /\ db.roles[k[2]] # None
              /\ db.users[k[1]].tenant = db.roles[k[2]].tenant
          BY <2>5, <3>3, Tables DEF RowsInv, RolesComplete
        <4> QED
          BY <4>1, <2>7 DEF Grows
      <3> QED
        BY <3>1, <3>2, <3>3 DEF RolesComplete
    <2>9. TenantsExist'
      BY <2>5 DEF RowsInv, TenantsExist
    <2>10. Alone(r) /\ RequestBacked(r)'
      BY <1>2, EndsBacked DEF Ended
    <2> QED
      BY <2>5, <2>6, <2>7, <2>8, <2>9, <2>10, Tables, RowsCommitted
  <1> QED
    BY <1>1, <1>2 DEF CommitRole

LEMMA RowsAssignRole == ASSUME TypeInv, RowsInv, NEW r \in Req, AssignRole(r) PROVE RowsInv'
  <1> PICK t \in Id, u \in Id, rl \in Id :
        /\ u \in UsersOf(t) /\ rl \in RolesOf(t)
        /\ db' = [db EXCEPT !.userRoles = @ \cup {<<u, rl>>}]
    BY DEF AssignRole, UsersOf, RolesOf
  <1>1. /\ db'.tenants = db.tenants /\ db'.users = db.users /\ db'.roles = db.roles
        /\ db'.perms = db.perms /\ db'.rolePerms = db.rolePerms
        /\ db'.userRoles = db.userRoles \cup {<<u, rl>>}
    BY DEF TypeInv, TypeOK, Db
  <1>2. Grows /\ issued' = issued
    BY <1>1 DEF Grows, AssignRole, redis
  <1>3. /\ db.users[u] # None /\ db.roles[rl] # None /\ db.users[u].tenant = db.roles[rl].tenant
    BY DEF UsersOf, RolesOf
  <1>4. RolesComplete'
    BY <1>1, <1>3 DEF RowsInv, RolesComplete
  <1>5. TenantsExist'
    BY <1>1 DEF RowsInv, TenantsExist
  <1>6. Alone(r) /\ RequestBacked(r)'
    BY EndsBacked DEF AssignRole, Ended
  <1> QED
    BY <1>1, <1>2, <1>4, <1>5, <1>6, RowsCommitted

LEMMA RowsCreateUser == ASSUME TypeInv, RowsInv, NEW r \in Req, CreateUser(r) PROVE RowsInv'
  <1> PICK t \in Id, e \in Email :
        /\ Authorised(t, "users:write")
        /\ db' = [db EXCEPT !.users[r] = [tenant |-> t, email |-> e]]
    BY DEF CreateUser
  <1> DEFINE us == [tenant |-> t, email |-> e]
  <1>1. us # None /\ us.tenant = t /\ db.tenants[t] # None /\ r \in Id
    BY NoneIsNoRow, RequestTyped, AuthorisedExists DEF User
  <1>2. db.tenants[r] = None /\ db.users[r] = None
    BY Backed DEF CreateUser, RequestBacked, Unborn
  <1>3. /\ db'.tenants = db.tenants /\ db'.roles = db.roles
        /\ db'.users = [db.users EXCEPT ![r] = us]
        /\ db'.perms = db.perms /\ db'.rolePerms = db.rolePerms
        /\ db'.userRoles = db.userRoles
    BY DEF TypeInv, TypeOK, Db
  <1> HIDE DEF us
  <1>4. Grows /\ issued' = issued
    BY <1>2, <1>3, Tables DEF Grows, CreateUser, redis
  <1>5. RolesComplete'
    BY <1>2, <1>3, Tables DEF RowsInv, RolesComplete
  <1>6. TenantsExist'
    BY <1>1, <1>3, Tables DEF RowsInv, TenantsExist
  <1>7. Alone(r) /\ RequestBacked(r)'
    BY EndsBacked DEF CreateUser, Ended
  <1> QED
    BY <1>3, <1>4, <1>5, <1>6, <1>7, Tables, RowsCommitted

LEMMA RowsLoad ==
    ASSUME TypeInv, RowsInv, NEW r \in Req, NEW op \in {"login", "setup", "enable", "disable"},
           NEW u \in Id, NEW code \in Code \cup {None}, Load(r, op, u, code)
    PROVE  RowsInv'
  <1> DEFINE c == [op |-> op, user |-> u]
             s == SpentBy(mfa[u], code)
             f == mfa[u]
             l == WithRow(loc[r], f, s)
  <1>1. s \in Code \cup {None} /\ f \in Factor /\ loc[r] = NoLocal
    BY Idle DEF SpentBy, TypeInv, TypeOK, Load
  <1>2. /\ Moves(r, "save", c, l) /\ UNCHANGED <<db, issued>>
        /\ db.users[c.user] # None /\ c.op # "create_role"
    BY DEF Load, WithRow, Moves, redis
  <1> HIDE DEF c, s, f
  <1>3. l.grant = None /\ l.found = {}
    BY <1>1, SetRow, NoLocalTyped
  <1> HIDE DEF l
  <1> QED
    BY <1>2, <1>3, RowsStep1 DEF Unborn

LEMMA RowsLoads ==
    ASSUME TypeInv, RowsInv, NEW r \in Req,
           Login(r) \/ SetupMfa(r) \/ EnableMfa(r) \/ DisableMfa(r)
    PROVE  RowsInv'
  <1>1. CASE Login(r)
    BY <1>1, KnownCode, RowsLoad DEF Login
  <1>2. CASE SetupMfa(r)
    BY <1>2, RowsLoad DEF SetupMfa
  <1>3. CASE EnableMfa(r)
    BY <1>3, RowsLoad DEF EnableMfa
  <1>4. CASE DisableMfa(r)
    BY <1>4, KnownCode, RowsLoad DEF DisableMfa
  <1> QED
    BY <1>1, <1>2, <1>3, <1>4

LEMMA RowsLoginCommit ==
    ASSUME TypeInv, RowsInv, NEW r \in Req, LoginCommit(r) PROVE RowsInv'
  <1> DEFINE c == req[r]
  <1>1. c.op = "login" /\ db.users[c.user] # None
    BY Backed DEF LoginCommit, RequestBacked
  <1>2. Moves(r, "grants", c, NoLocal) /\ UNCHANGED <<db, issued>>
    BY DEF LoginCommit, Goto, Moves, TypeInv, TypeOK, redis
  <1> HIDE DEF c
  <1> QED
    BY <1>1, <1>2, NoLocalTyped, RowsStep1 DEF Unborn

LEMMA RowsLoadGrants == ASSUME TypeInv, RowsInv, NEW r \in Req, LoadGrants(r) PROVE RowsInv'
  <1> DEFINE c == req[r]
             u == c.user
             g == [user |-> u, tenant |-> db.users[u].tenant, perms |-> Grants(u)]
             l == WithGrant(loc[r], g)
  <1>1. /\ u \in Id /\ c.op = "login" /\ db.users[u] # None /\ loc[r] \in Local
        /\ loc[r].found \subseteq db.perms
    BY RequestTyped, CallFields, Backed DEF LoadGrants, PhaseOf, Serves, RequestBacked
  <1>2. g \in Claims
    <2>1. db.users[u] \in User /\ db.perms \subseteq Permission
      BY <1>1 DEF TypeInv, TypeOK, Db
    <2> QED
      BY <1>1, <2>1 DEF Claims, User, Grants
  <1>3. TokenBacked(g)
    BY <1>1 DEF TokenBacked
  <1>4. Moves(r, "issue", c, l) /\ UNCHANGED <<db, issued>>
    BY DEF LoadGrants, WithGrant, Goto, Moves, TypeInv, TypeOK, redis
  <1> HIDE DEF g, c
  <1>5. l.grant = g /\ l.found = loc[r].found
    BY <1>1, <1>2, SetGrant
  <1> HIDE DEF l
  <1> QED
    BY <1>1, <1>3, <1>4, <1>5, RowsStep1 DEF Unborn

LEMMA RowsMfaCommit == ASSUME TypeInv, RowsInv, NEW r \in Req, MfaCommit(r) PROVE RowsInv'
  BY RowsEnds DEF MfaCommit, Ended, redis

LEMMA RowsRefreshGet == ASSUME TypeInv, RowsInv, NEW r \in Req, RefreshGet(r) PROVE RowsInv'
  <1> PICK t \in live :
        /\ req' = [req EXCEPT ![r] = [op |-> "refresh", token |-> t]]
        /\ loc' = [loc EXCEPT ![r].grant = issued[t]]
    BY DEF RefreshGet
  <1> DEFINE c == [op |-> "refresh", token |-> t]
             g == issued[t]
             l == WithGrant(loc[r], g)
  <1>1. /\ t \in Id /\ g \in Claims \cup {None} /\ c.op = "refresh"
        /\ g # None => TokenBacked(g)
    BY DEF TypeInv, TypeOK, RowsInv, TokensWithinGrants, TokenBacked
  <1>2. Moves(r, "delete", c, l) /\ UNCHANGED <<db, issued>> /\ loc[r] = NoLocal
    BY Idle DEF Moves, WithGrant, RefreshGet
  <1> HIDE DEF c, g
  <1>3. l.grant = g /\ l.found = {}
    BY <1>1, <1>2, SetGrant, NoLocalTyped
  <1> HIDE DEF l
  <1> QED
    BY <1>1, <1>2, <1>3, RowsStep1 DEF Unborn

LEMMA RowsRefreshDelete ==
    ASSUME TypeInv, RowsInv, NEW r \in Req, RefreshDelete(r) PROVE RowsInv'
  BY RowsGoes DEF RefreshDelete, Goto, Unborn, Running

LEMMA RowsIssueTokens == ASSUME TypeInv, RowsInv, NEW r \in Req, IssueTokens(r) PROVE RowsInv'
  <1>1. Alone(r) /\ RequestBacked(r)' /\ db' = db /\ RequestBacked(r) /\ r \in Id
    BY EndsBacked, Backed, RequestTyped DEF IssueTokens, Ended
  <1>2. Grows
    BY <1>1 DEF Grows
  <1>3. RequestsBacked'
    BY <1>1, <1>2, OthersStay DEF RowsInv, RequestsBacked, Alone
  <1>4. RolesComplete' /\ TenantsExist'
    BY <1>1 DEF RowsInv, RolesComplete, TenantsExist
  <1>5. issued' = [issued EXCEPT ![r] = loc[r].grant]
    BY DEF IssueTokens
  <1>6. TokensWithinGrants'
    <2> SUFFICES ASSUME NEW i \in Id, issued'[i] # None
                 PROVE  /\ db.users[issued'[i].user] # None
                        /\ db.users[issued'[i].user].tenant = issued'[i].tenant
                        /\ issued'[i].perms \subseteq Grants(issued'[i].user)
      BY <1>1 DEF TokensWithinGrants, Grants
    <2>1. CASE i = r
      BY <1>1, <1>5, <2>1 DEF RequestBacked, TokenBacked, TypeInv, TypeOK
    <2>2. CASE i # r
      BY <1>5, <2>2 DEF RowsInv, TokensWithinGrants, TypeInv, TypeOK
    <2> QED
      BY <2>1, <2>2
  <1> QED
    BY <1>3, <1>4, <1>6 DEF RowsInv

LEMMA RowsUnchanged ==
    ASSUME RowsInv, UNCHANGED <<db, issued, pc, req, loc>> PROVE RowsInv'
  BY DEF RowsInv, RolesComplete, TenantsExist, TokensWithinGrants, RequestsBacked,
         RequestBacked, ListOf, TokenBacked, Grants

----------------------------------------------------------------------------
(* Names.  What a request has inserted is nowhere else: it waited for the  *)
(* others that had, and looked after them.                                 *)

\* A step of r after which it holds no more than before.
LEMMA NamesKept ==
    ASSUME NamesHeldApart, NEW r \in Req, Alone(r),
           db'.tenants = db.tenants, db'.roles = db.roles, db'.perms = db.perms,
           HoldsTenant(r)' => HoldsTenant(r) /\ req'[r].slug = req[r].slug,
           \A t \in Id, n \in RoleName : HoldsRole(r, t, n)' => HoldsRole(r, t, n),
           loc'[r].held \subseteq loc[r].held
    PROVE  NamesHeldApart'
  <1>1. \A v \in Req : /\ HoldsTenant(v)' => HoldsTenant(v) /\ req'[v].slug = req[v].slug
                       /\ \A t \in Id, n \in RoleName : HoldsRole(v, t, n)' => HoldsRole(v, t, n)
                       /\ loc'[v].held \subseteq loc[v].held
    BY DEF Alone, HoldsTenant, HoldsRole
  <1>2. \A s \in Slug : SlugTaken(s)' <=> SlugTaken(s)
    BY DEF SlugTaken
  <1>3. \A t \in Id, n \in RoleName : RoleTaken(t, n)' <=> RoleTaken(t, n)
    BY DEF RoleTaken
  <1>4. ASSUME NEW v \in Req, HoldsTenant(v)'
        PROVE  (~SlugTaken(req[v].slug) /\ \A w \in Req \ {v} : ~HoldsSlug(w, req[v].slug))'
    <2> DEFINE s == req[v].slug
    <2>1. HoldsTenant(v) /\ req'[v].slug = s /\ ~SlugTaken(s)
          /\ \A w \in Req \ {v} : ~HoldsSlug(w, s)
      BY <1>1, <1>4 DEF NamesHeldApart
    <2>2. (~SlugTaken(req[v].slug))'
      BY <2>1 DEF SlugTaken
    <2>3. \A w \in Req \ {v} : ~(HoldsTenant(w)' /\ req'[w].slug = req'[v].slug)
      BY <1>1, <2>1 DEF HoldsSlug
    <2> QED
      BY <2>2, <2>3 DEF HoldsSlug
  <1>5. ASSUME NEW v \in Req, NEW t \in Id, NEW n \in RoleName, HoldsRole(v, t, n)'
        PROVE  ~RoleTaken(t, n)' /\ \A w \in Req \ {v} : ~HoldsRole(w, t, n)'
    BY <1>1, <1>3, <1>5 DEF NamesHeldApart
  <1>6. ASSUME NEW v \in Req, NEW p \in loc'[v].held
        PROVE  p \notin db'.perms /\ \A w \in Req \ {v} : p \notin loc'[w].held
    BY <1>1, <1>6 DEF NamesHeldApart
  <1> QED
    BY <1>4, <1>5, <1>6 DEF NamesHeldApart

LEMMA NamesEnds ==
    ASSUME TypeInv, NamesHeldApart, NEW r \in Req, NEW how \in Ended, End(r, how),
           db'.tenants = db.tenants, db'.roles = db.roles, db'.perms = db.perms
    PROVE  NamesHeldApart'
  <1>1. req'[r] = None /\ loc'[r] = NoLocal
    BY DEF End, TypeInv, TypeOK
  <1>2. ~HoldsTenant(r)' /\ \A t \in Id, n \in RoleName : ~HoldsRole(r, t, n)'
    BY <1>1 DEF HoldsTenant, HoldsRole
  <1> QED
    BY <1>1, <1>2, EndsBacked, NoLocalTyped, NamesKept

\* A step of r that begins a call or goes on with it.
LEMMA NamesGoes ==
    ASSUME TypeInv, NamesHeldApart, NEW r \in Req, db' = db, NEW p, NEW c,
           pc' = [pc EXCEPT ![r] = p], req' = [req EXCEPT ![r] = c],
           \A v \in Req \ {r} : loc'[v] = loc[v], loc'[r].held \subseteq loc[r].held,
           \/ p \in Running \ {"select", "insert", "lookup"}
           \/ /\ c = req[r]
              /\ \/ p \in {"select", "insert"} /\ pc[r] \in {"select", "insert"}
                 \/ p \in {"lookup", "insert"} /\ pc[r] \in {"lookup", "insert"}
    PROVE  NamesHeldApart'
  <1>1. pc'[r] = p /\ req'[r] = c /\ Alone(r)
    BY DEF TypeInv, TypeOK, Alone
  <1>2. CASE p \in Running \ {"select", "insert", "lookup"}
    <2>1. ~HoldsTenant(r)' /\ \A t \in Id, n \in RoleName : ~HoldsRole(r, t, n)'
      BY <1>1, <1>2 DEF HoldsTenant, HoldsRole
    <2> QED
      BY <1>1, <2>1, NamesKept
  <1>3. CASE /\ c = req[r]
             /\ \/ p \in {"select", "insert"} /\ pc[r] \in {"select", "insert"}
                \/ p \in {"lookup", "insert"} /\ pc[r] \in {"lookup", "insert"}
    <2>1. PhaseOf(pc[r], req[r], loc[r])
      BY RequestTyped
    <2>2. HoldsTenant(r)' => HoldsTenant(r)
      BY <1>1, <1>3, <2>1 DEF HoldsTenant, PhaseOf, Serves
    <2>3. \A t \in Id, n \in RoleName : HoldsRole(r, t, n)' => HoldsRole(r, t, n)
      BY <1>1, <1>3, <2>1 DEF HoldsRole, PhaseOf, Serves
    <2> QED
      BY <1>1, <1>3, <2>2, <2>3, NamesKept
  <1> QED
    BY <1>2, <1>3

LEMMA NamesInsertTenant ==
    ASSUME TypeInv, NamesHeldApart, NEW r \in Req, InsertTenant(r) PROVE NamesHeldApart'
  <1>1. CASE End(r, "failed")
    BY <1>1, NamesEnds DEF InsertTenant, Ended
  <1>2. CASE ~SlugTaken(req[r].slug) /\ Goto(r, "select") /\ UNCHANGED loc
    <2> DEFINE s == req[r].slug
    <2>1. /\ pc'[r] = "select" /\ req' = req /\ loc' = loc /\ db' = db
          /\ \A v \in Req \ {r} : pc'[v] = pc[v]
      BY <1>2 DEF InsertTenant, Goto, TypeInv, TypeOK
    <2>2. \A v \in Req \ {r} : ~HoldsSlug(v, s)
      BY DEF InsertTenant, WaitsFor
    <2>3. req[r].op = "register" /\ req[r] # None
      BY RequestTyped, CallFields DEF InsertTenant, PhaseOf, Serves
    <2>4. \A v \in Req : (HoldsTenant(v)' <=> v = r \/ HoldsTenant(v))
      BY <2>1, <2>3 DEF HoldsTenant
    <2>5. \A v \in Req, t \in Id, n \in RoleName : HoldsRole(v, t, n)' <=> HoldsRole(v, t, n)
      BY <2>1, <2>3 DEF HoldsRole, InsertTenant
    <2>6. \A k \in Slug : SlugTaken(k)' <=> SlugTaken(k)
      BY <2>1 DEF SlugTaken
    <2>7. \A t \in Id, n \in RoleName : RoleTaken(t, n)' <=> RoleTaken(t, n)
      BY <2>1 DEF RoleTaken
    <2>8. ASSUME NEW v \in Req, HoldsTenant(v)'
          PROVE  (~SlugTaken(req[v].slug) /\ \A w \in Req \ {v} : ~HoldsSlug(w, req[v].slug))'
      <3>1. ~SlugTaken(req[v].slug)
        BY <1>2, <2>4, <2>8 DEF NamesHeldApart
      <3>2. (~SlugTaken(req[v].slug))'
        BY <2>1, <3>1 DEF SlugTaken
      <3>3. ASSUME NEW w \in Req \ {v}, HoldsTenant(w)', req[w].slug = req[v].slug PROVE FALSE
        <4>1. CASE v = r
          BY <2>2, <2>4, <3>3, <4>1 DEF HoldsSlug
        <4>2. CASE w = r
          BY <2>2, <2>4, <2>8, <3>3, <4>2 DEF HoldsSlug
        <4>3. CASE v # r /\ w # r
          BY <2>4, <2>8, <3>3, <4>3 DEF NamesHeldApart, HoldsSlug
        <4> QED
          BY <4>1, <4>2, <4>3
      <3> QED
        BY <2>1, <3>2, <3>3 DEF HoldsSlug
    <2>9. ASSUME NEW v \in Req, NEW t \in Id, NEW n \in RoleName, HoldsRole(v, t, n)'
          PROVE  ~RoleTaken(t, n)' /\ \A w \in Req \ {v} : ~HoldsRole(w, t, n)'
      BY <2>5, <2>7, <2>9 DEF NamesHeldApart
    <2>10. ASSUME NEW v \in Req, NEW p \in loc'[v].held
           PROVE  p \notin db'.perms /\ \A w \in Req \ {v} : p \notin loc'[w].held
      BY <2>1, <2>10 DEF NamesHeldApart
    <2> QED
      BY <2>8, <2>9, <2>10 DEF NamesHeldApart
  <1> QED
    BY <1>1, <1>2 DEF InsertTenant

LEMMA NamesInsertRole ==
    ASSUME TypeInv, NamesHeldApart, NEW r \in Req, InsertRole(r) PROVE NamesHeldApart'
  <1> DEFINE tr == req[r].tenant
             nr == req[r].name
  <1>1. CASE End(r, "failed")
    BY <1>1, NamesEnds DEF InsertRole, Ended
  <1>2. CASE /\ ~RoleTaken(tr, nr) /\ loc' = [loc EXCEPT ![r].todo = req[r].perms]
             /\ Goto(r, "lookup")
    <2>1. req[r] \in Call /\ req[r].op = "create_role" /\ loc[r] \in Local
      BY RequestTyped DEF InsertRole, PhaseOf, Serves
    <2>2. loc' = [loc EXCEPT ![r] = WithTodo(loc[r], req[r].perms)]
      BY <1>2 DEF WithTodo
    <2>3. WithTodo(loc[r], req[r].perms).held = loc[r].held
      BY <2>1, CallFields, InputsTyped, SetTodo
    <2>4. /\ pc'[r] = "lookup" /\ req' = req /\ db' = db
          /\ \A v \in Req : loc'[v].held = loc[v].held
          /\ \A v \in Req \ {r} : pc'[v] = pc[v]
      BY <1>2, <2>2, <2>3 DEF InsertRole, Goto, TypeInv, TypeOK
    <2>5. \A v \in Req \ {r} : ~HoldsRole(v, tr, nr)
      BY DEF InsertRole, WaitsFor
    <2>6. \A v \in Req : HoldsTenant(v)' <=> HoldsTenant(v)
      BY <2>1, <2>4 DEF HoldsTenant
    <2>7. \A v \in Req, t \in Id, n \in RoleName :
             HoldsRole(v, t, n)' <=> (v = r /\ t = tr /\ n = nr) \/ HoldsRole(v, t, n)
      BY <2>1, <2>4, CallFields, NoneIsNoRow DEF HoldsRole, InsertRole
    <2>8. \A t \in Id, n \in RoleName : RoleTaken(t, n)' <=> RoleTaken(t, n)
      BY <2>4 DEF RoleTaken
    <2>9. ASSUME NEW v \in Req, HoldsTenant(v)'
          PROVE  (~SlugTaken(req[v].slug) /\ \A w \in Req \ {v} : ~HoldsSlug(w, req[v].slug))'
      <3>1. ~SlugTaken(req[v].slug) /\ \A w \in Req \ {v} : ~HoldsSlug(w, req[v].slug)
        BY <2>6, <2>9 DEF NamesHeldApart
      <3> QED
        BY <2>4, <2>6, <3>1 DEF SlugTaken, HoldsSlug
    <2>10. ASSUME NEW v \in Req, NEW t \in Id, NEW n \in RoleName, HoldsRole(v, t, n)'
          PROVE  ~RoleTaken(t, n)' /\ \A w \in Req \ {v} : ~HoldsRole(w, t, n)'
      <3>1. ~RoleTaken(t, n)'
        BY <1>2, <2>7, <2>8, <2>10 DEF NamesHeldApart
      <3>2. ASSUME NEW w \in Req \ {v}, HoldsRole(w, t, n)' PROVE FALSE
        <4>1. CASE v = r /\ t = tr /\ n = nr
          BY <2>5, <2>7, <3>2, <4>1
        <4>2. CASE w = r /\ t = tr /\ n = nr
          BY <2>5, <2>7, <2>10, <4>2
        <4>3. CASE HoldsRole(v, t, n) /\ HoldsRole(w, t, n)
          BY <4>3 DEF NamesHeldApart
        <4> QED
          BY <2>7, <2>10, <3>2, <4>1, <4>2, <4>3
      <3> QED
        BY <3>1, <3>2
    <2>11. ASSUME NEW v \in Req, NEW p \in loc'[v].held
           PROVE  p \notin db'.perms /\ \A w \in Req \ {v} : p \notin loc'[w].held
      BY <2>4, <2>11 DEF NamesHeldApart
    <2> QED
      BY <2>9, <2>10, <2>11 DEF NamesHeldApart
  <1> QED
    BY <1>1, <1>2 DEF InsertRole

LEMMA NamesInsertPermission ==
    ASSUME TypeInv, NamesHeldApart, NEW r \in Req, InsertPermission(r) PROVE NamesHeldApart'
  <1> DEFINE p == Head(loc[r].todo)
  <1>1. CASE p \in db.perms
    BY <1>1, NamesEnds DEF InsertPermission, Ended
  <1>2. CASE p \notin db.perms
    <2> DEFINE h == loc[r].held \cup {p}
               l == WithHeld(loc[r], h, Tail(loc[r].todo))
               to == IF req[r].op = "register" THEN "insert" ELSE "lookup"
    <2>1. /\ loc[r] \in Local /\ Tail(loc[r].todo) \in Seq(Permission)
          /\ h \in SUBSET Permission /\ PhaseOf(pc[r], req[r], loc[r]) /\ pc[r] = "insert"
      BY RequestTyped, LocalFields, TailTyped DEF InsertPermission
    <2>2. l.held = h
      <3> HIDE DEF h
      <3> QED
        BY <2>1, SetHeld
    <2>3. /\ loc' = [loc EXCEPT ![r] = l] /\ Goto(r, to) /\ db' = db
      BY <1>2 DEF InsertPermission, WithHeld
    <2> HIDE DEF l
    <2>4. /\ pc'[r] = to /\ req' = req /\ loc'[r].held = h
          /\ \A v \in Req \ {r} : pc'[v] = pc[v] /\ loc'[v] = loc[v]
      BY <2>2, <2>3 DEF Goto, TypeInv, TypeOK
    <2>5. \A v \in Req \ {r} : p \notin loc[v].held
      BY DEF InsertPermission, WaitsFor, HoldsPermission
    <2>6. \A v \in Req : HoldsTenant(v)' <=> HoldsTenant(v)
      BY <2>1, <2>4 DEF HoldsTenant, PhaseOf, Serves
    <2>7. \A v \in Req, t \in Id, n \in RoleName : HoldsRole(v, t, n)' <=> HoldsRole(v, t, n)
      BY <2>1, <2>4 DEF HoldsRole, PhaseOf, Serves
    <2>8. \A t \in Id, n \in RoleName : RoleTaken(t, n)' <=> RoleTaken(t, n)
      BY <2>3 DEF RoleTaken
    <2>9. ASSUME NEW v \in Req, HoldsTenant(v)'
          PROVE  (~SlugTaken(req[v].slug) /\ \A w \in Req \ {v} : ~HoldsSlug(w, req[v].slug))'
      <3>1. ~SlugTaken(req[v].slug) /\ \A w \in Req \ {v} : ~HoldsSlug(w, req[v].slug)
        BY <2>6, <2>9 DEF NamesHeldApart
      <3> QED
        BY <2>3, <2>4, <2>6, <3>1 DEF SlugTaken, HoldsSlug
    <2>10. ASSUME NEW v \in Req, NEW t \in Id, NEW n \in RoleName, HoldsRole(v, t, n)'
          PROVE  ~RoleTaken(t, n)' /\ \A w \in Req \ {v} : ~HoldsRole(w, t, n)'
      BY <2>7, <2>8, <2>10 DEF NamesHeldApart
    <2>11. ASSUME NEW v \in Req, NEW q \in loc'[v].held
           PROVE  q \notin db'.perms /\ \A w \in Req \ {v} : q \notin loc'[w].held
      BY <1>2, <2>3, <2>4, <2>5, <2>11 DEF NamesHeldApart
    <2> QED
      BY <2>9, <2>10, <2>11 DEF NamesHeldApart
  <1> QED
    BY <1>1, <1>2

LEMMA NamesCommitRegistration ==
    ASSUME TypeInv, RowsInv, NamesHeldApart, NEW r \in Req, CommitRegistration(r)
    PROVE  NamesHeldApart'
  <1> DEFINE s == req[r].slug
  <1>1. /\ req[r] \in Call /\ req[r].op = "register" /\ r \in Id /\ RequestBacked(r)
        /\ pc[r] = "insert"
    BY RequestTyped, Backed DEF CommitRegistration, PhaseOf, Serves
  <1>2. /\ db'.tenants = [db.tenants EXCEPT ![r] = [slug |-> s]]
        /\ db'.roles = [db.roles EXCEPT ![r] = [tenant |-> r, name |-> "Owner"]]
        /\ db'.perms = db.perms \cup loc[r].held
    BY DEF CommitRegistration, Registered, TypeInv, TypeOK, Db
  <1>3. /\ pc'[r] = "issue" /\ req' = req
        /\ \A v \in Req \ {r} : pc'[v] = pc[v] /\ loc'[v] = loc[v]
    BY DEF CommitRegistration, Goto, TypeInv, TypeOK
  <1>4. loc'[r].held = {}
    <2> DEFINE g == [user |-> r, tenant |-> r, perms |-> OwnerSet]
    <2>1. loc'[r] = WithGrant(NoLocal, g)
      BY DEF CommitRegistration, WithGrant, TypeInv, TypeOK
    <2>2. g \in Claims
      BY <1>1, OwnerSetTyped DEF Claims
    <2> HIDE DEF g
    <2> QED
      BY <2>1, <2>2, SetGrant, NoLocalTyped
  <1>5. \A v \in Req : HoldsTenant(v)' <=> v # r /\ HoldsTenant(v)
    BY <1>3 DEF HoldsTenant
  <1>6. \A v \in Req, t \in Id, n \in RoleName :
           HoldsRole(v, t, n)' <=> v # r /\ HoldsRole(v, t, n)
    BY <1>3 DEF HoldsRole
  <1>7. HoldsTenant(r) /\ db.tenants[r] = None
    BY <1>1, CallFields DEF HoldsTenant, RequestBacked, Unborn
  <1>8. ASSUME NEW v \in Req, HoldsTenant(v)'
        PROVE  (~SlugTaken(req[v].slug) /\ \A w \in Req \ {v} : ~HoldsSlug(w, req[v].slug))'
    <2>1. /\ v # r /\ HoldsTenant(v) /\ ~SlugTaken(req[v].slug)
          /\ \A w \in Req \ {v} : ~HoldsSlug(w, req[v].slug)
      BY <1>5, <1>8 DEF NamesHeldApart
    <2>2. req[v].slug # s
      BY <1>7, <2>1 DEF HoldsSlug
    <2>3. \A i \in Id : db'.tenants[i] # None => db'.tenants[i].slug # req[v].slug
      BY <1>2, <2>1, <2>2, Tables DEF SlugTaken
    <2> QED
      BY <1>3, <1>5, <2>1, <2>3 DEF SlugTaken, HoldsSlug
  <1>9. ASSUME NEW v \in Req, NEW t \in Id, NEW n \in RoleName, HoldsRole(v, t, n)'
        PROVE  ~RoleTaken(t, n)' /\ \A w \in Req \ {v} : ~HoldsRole(w, t, n)'
    <2>1. /\ v # r /\ HoldsRole(v, t, n) /\ ~RoleTaken(t, n)
          /\ \A w \in Req \ {v} : ~HoldsRole(w, t, n)
      BY <1>6, <1>9 DEF NamesHeldApart
    <2>2. db.tenants[t] # None
      BY <2>1, Backed DEF HoldsRole, RequestBacked, Running
    <2>3. t # r
      BY <1>7, <2>2
    <2>4. \A i \in Id : db'.roles[i] # [tenant |-> t, name |-> n]
      BY <1>2, <2>1, <2>3, Tables DEF RoleTaken
    <2> QED
      BY <1>6, <2>1, <2>4 DEF RoleTaken
  <1>10. ASSUME NEW v \in Req, NEW q \in loc'[v].held
         PROVE  q \notin db'.perms /\ \A w \in Req \ {v} : q \notin loc'[w].held
    BY <1>2, <1>3, <1>4, <1>10 DEF NamesHeldApart
  <1> QED
    BY <1>8, <1>9, <1>10 DEF NamesHeldApart

LEMMA NamesCommitRole ==
    ASSUME TypeInv, NamesHeldApart, NEW r \in Req, CommitRole(r) PROVE NamesHeldApart'
  <1> DEFINE tr == req[r].tenant
             nr == req[r].name
  <1>1. CASE UNCHANGED db /\ End(r, "failed")
    BY <1>1, NamesEnds DEF Ended
  <1>2. CASE /\ db' = [db EXCEPT
                    !.roles[r] = [tenant |-> req[r].tenant, name |-> req[r].name],
                    !.perms = @ \cup loc[r].held,
                    !.rolePerms = @ \cup ({r} \X Names(req[r].perms))]
             /\ End(r, "done")
    <2>1. /\ req[r] \in Call /\ req[r].op = "create_role" /\ pc[r] = "lookup"
          /\ tr \in Id /\ nr \in RoleName /\ req[r] # None
      BY RequestTyped, CallFields DEF CommitRole, PhaseOf, Serves
    <2>2. /\ db'.tenants = db.tenants
          /\ db'.roles = [db.roles EXCEPT ![r] = [tenant |-> tr, name |-> nr]]
          /\ db'.perms = db.perms \cup loc[r].held
      BY <1>2 DEF TypeInv, TypeOK, Db
    <2>3. /\ pc'[r] = "done" /\ loc'[r] = NoLocal
          /\ \A v \in Req \ {r} : pc'[v] = pc[v] /\ req'[v] = req[v] /\ loc'[v] = loc[v]
      BY <1>2 DEF End, TypeInv, TypeOK
    <2>4. \A v \in Req : HoldsTenant(v)' <=> v # r /\ HoldsTenant(v)
      BY <2>3 DEF HoldsTenant
    <2>5. \A v \in Req, t \in Id, n \in RoleName :
             HoldsRole(v, t, n)' <=> v # r /\ HoldsRole(v, t, n)
      BY <2>3 DEF HoldsRole
    <2>6. HoldsRole(r, tr, nr)
      BY <2>1 DEF HoldsRole
    <2>7. ASSUME NEW v \in Req, HoldsTenant(v)'
          PROVE  (~SlugTaken(req[v].slug) /\ \A w \in Req \ {v} : ~HoldsSlug(w, req[v].slug))'
      <3>1. /\ v # r /\ ~SlugTaken(req[v].slug)
            /\ \A w \in Req \ {v} : ~HoldsSlug(w, req[v].slug)
        BY <2>4, <2>7 DEF NamesHeldApart
      <3> QED
        BY <2>2, <2>3, <2>4, <3>1 DEF SlugTaken, HoldsSlug
    <2>8. ASSUME NEW v \in Req, NEW t \in Id, NEW n \in RoleName, HoldsRole(v, t, n)'
          PROVE  ~RoleTaken(t, n)' /\ \A w \in Req \ {v} : ~HoldsRole(w, t, n)'
      <3>1. /\ v # r /\ HoldsRole(v, t, n) /\ ~RoleTaken(t, n)
            /\ \A w \in Req \ {v} : ~HoldsRole(w, t, n)
        BY <2>5, <2>8 DEF NamesHeldApart
      <3>2. ~(t = tr /\ n = nr)
        BY <2>6, <3>1
      <3>3. \A i \in Id : db'.roles[i] # [tenant |-> t, name |-> n]
        BY <2>2, <3>1, <3>2, Tables DEF RoleTaken
      <3> QED
        BY <2>5, <3>1, <3>3 DEF RoleTaken
    <2>9. ASSUME NEW v \in Req, NEW q \in loc'[v].held
          PROVE  q \notin db'.perms /\ \A w \in Req \ {v} : q \notin loc'[w].held
      BY <2>2, <2>3, <2>9, NoLocalTyped DEF NamesHeldApart
    <2> QED
      BY <2>7, <2>8, <2>9 DEF NamesHeldApart
  <1> QED
    BY <1>1, <1>2 DEF CommitRole

LEMMA NamesInit == Init => NamesHeldApart
  <1> SUFFICES ASSUME Init PROVE NamesHeldApart
    OBVIOUS
  <1>1. \A r \in Req : req[r] = None /\ loc[r] = NoLocal
    BY DEF Init
  <1> QED
    BY <1>1, NoLocalTyped DEF NamesHeldApart, HoldsTenant, HoldsRole

\* The tables a unique index is on, as they are when nothing is committed.
LEMMA NamesQuiet ==
    ASSUME TypeInv, NamesHeldApart, NEW r \in Req, NEW p, NEW c, NEW l, Moves(r, p, c, l),
           db' = db, l.held \subseteq loc[r].held,
           \/ p \in Running \ {"select", "insert", "lookup"}
           \/ /\ c = req[r]
              /\ \/ p \in {"select", "insert"} /\ pc[r] \in {"select", "insert"}
                 \/ p \in {"lookup", "insert"} /\ pc[r] \in {"lookup", "insert"}
    PROVE  NamesHeldApart'
  <1>1. /\ loc'[r] = l /\ \A v \in Req \ {r} : loc'[v] = loc[v]
        /\ pc' = [pc EXCEPT ![r] = p] /\ req' = [req EXCEPT ![r] = c]
    BY DEF Moves, TypeInv, TypeOK
  <1> QED
    BY <1>1, NamesGoes

LEMMA NamesBegin == ASSUME TypeInv, NamesHeldApart, NEW r \in Req, Begin(r) PROVE NamesHeldApart'
  <1>1. ASSUME NEW p \in Running \ {"select", "insert", "lookup"}, NEW c,
               pc' = [pc EXCEPT ![r] = p], req' = [req EXCEPT ![r] = c],
               UNCHANGED <<db, loc>>
        PROVE  NamesHeldApart'
    BY <1>1, NamesGoes
  <1>2. CASE CheckSlug(r)
    <2> PICK s \in Slug : req' = [req EXCEPT ![r] = [op |-> "register", slug |-> s]]
      BY <1>2 DEF CheckSlug
    <2> QED
      BY <1>1, <1>2 DEF CheckSlug, Running
  <1>3. CASE StartRole(r)
    <2> PICK c : req' = [req EXCEPT ![r] = c]
      BY <1>3 DEF StartRole
    <2> QED
      BY <1>1, <1>3 DEF StartRole, Running
  <1>4. CASE AssignRole(r)
    <2>1. db'.tenants = db.tenants /\ db'.roles = db.roles /\ db'.perms = db.perms
      BY <1>4 DEF AssignRole, TypeInv, TypeOK, Db
    <2> QED
      BY <1>4, <2>1, NamesEnds DEF AssignRole, Ended
  <1>5. CASE CreateUser(r)
    <2>1. db'.tenants = db.tenants /\ db'.roles = db.roles /\ db'.perms = db.perms
      BY <1>5 DEF CreateUser, TypeInv, TypeOK, Db
    <2> QED
      BY <1>5, <2>1, NamesEnds DEF CreateUser, Ended
  <1>6. ASSUME NEW op, NEW u \in Id, NEW code \in Code \cup {None}, Load(r, op, u, code)
        PROVE  NamesHeldApart'
    <2> DEFINE c == [op |-> op, user |-> u]
               s == SpentBy(mfa[u], code)
               f == mfa[u]
               l == WithRow(loc[r], f, s)
    <2>1. s \in Code \cup {None} /\ f \in Factor /\ loc[r] \in Local
      BY <1>6, RequestTyped DEF SpentBy, TypeInv, TypeOK, Load
    <2>2. Moves(r, "save", c, l) /\ db' = db
      BY <1>6 DEF Load, WithRow, Moves
    <2> HIDE DEF c, s, f
    <2>3. l.held = loc[r].held
      BY <2>1, SetRow
    <2> HIDE DEF l
    <2> QED
      BY <2>2, <2>3, NamesQuiet DEF Running
  <1>7. CASE Login(r) \/ SetupMfa(r) \/ EnableMfa(r) \/ DisableMfa(r)
    BY <1>6, <1>7, KnownCode DEF Login, SetupMfa, EnableMfa, DisableMfa
  <1>8. CASE RefreshGet(r)
    <2> PICK t \in live :
        /\ req' = [req EXCEPT ![r] = [op |-> "refresh", token |-> t]]
        /\ loc' = [loc EXCEPT ![r].grant = issued[t]]
      BY <1>8 DEF RefreshGet
    <2> DEFINE c == [op |-> "refresh", token |-> t]
               g == issued[t]
               l == WithGrant(loc[r], g)
    <2>1. g \in Claims \cup {None} /\ loc[r] \in Local
      BY RequestTyped DEF TypeInv, TypeOK
    <2>2. Moves(r, "delete", c, l) /\ db' = db
      BY <1>8 DEF Moves, WithGrant, RefreshGet
    <2> HIDE DEF c, g
    <2>3. l.held = loc[r].held
      BY <2>1, SetGrant
    <2> HIDE DEF l
    <2> QED
      BY <2>2, <2>3, NamesQuiet DEF Running
  <1>9. CASE Refused(r)
    BY <1>9, NamesEnds DEF Refused, Ended
  <1> QED
    BY <1>2, <1>3, <1>4, <1>5, <1>7, <1>8, <1>9 DEF Begin

LEMMA NamesProceed ==
    ASSUME TypeInv, RowsInv, NamesHeldApart, NEW r \in Req, Proceed(r) PROVE NamesHeldApart'
  <1>1. CASE SelectPermissions(r)
    <2> DEFINE l == WithFound(loc[r], OwnerPermissions, db.perms)
               c == req[r]
    <2>1. l.held = loc[r].held
      BY SetFound, RequestTyped, InputsTyped DEF TypeInv, TypeOK, Db
    <2>2. Moves(r, "insert", c, l) /\ db' = db /\ pc[r] = "select"
      BY <1>1 DEF SelectPermissions, InsertOrder, WithFound, Moves, Goto, TypeInv, TypeOK
    <2> HIDE DEF l
    <2> QED
      BY <2>1, <2>2, NamesQuiet
  <1>2. CASE SkipFound(r)
    <2> DEFINE l == WithTodo(loc[r], Tail(loc[r].todo))
               p == pc[r]
    <2>1. l.held = loc[r].held
      BY <1>2, RequestTyped, LocalFields, TailTyped, SetTodo DEF SkipFound
    <2>2. Moves(r, p, req[r], l) /\ p = "insert" /\ pc[r] = "insert" /\ db' = db
      BY <1>2 DEF SkipFound, WithTodo, Moves, TypeInv, TypeOK
    <2> HIDE DEF l, p
    <2> QED
      BY <2>1, <2>2, NamesQuiet
  <1>3. CASE LookupPermission(r) /\ Head(loc[r].todo) \in db.perms \cup loc[r].held
    <2> DEFINE l == WithTodo(loc[r], Tail(loc[r].todo))
               p == pc[r]
    <2>1. l.held = loc[r].held
      BY <1>3, RequestTyped, LocalFields, TailTyped, SetTodo DEF LookupPermission
    <2>2. Moves(r, p, req[r], l) /\ p = "lookup" /\ pc[r] = "lookup" /\ db' = db
      BY <1>3 DEF LookupPermission, WithTodo, Moves, TypeInv, TypeOK
    <2> HIDE DEF l, p
    <2> QED
      BY <2>1, <2>2, NamesQuiet
  <1>4. CASE LookupPermission(r) /\ Head(loc[r].todo) \notin db.perms \cup loc[r].held
    <2>1. /\ pc' = [pc EXCEPT ![r] = "insert"] /\ req' = [req EXCEPT ![r] = req[r]]
          /\ loc' = loc /\ db' = db /\ pc[r] = "lookup"
      BY <1>4 DEF LookupPermission, Goto, TypeInv, TypeOK
    <2> QED
      BY <2>1, NamesGoes
  <1>5. CASE LoginCommit(r)
    <2>1. Moves(r, "grants", req[r], NoLocal) /\ db' = db
      BY <1>5 DEF LoginCommit, Goto, Moves, TypeInv, TypeOK
    <2> QED
      BY <2>1, NoLocalTyped, NamesQuiet DEF Running
  <1>6. CASE LoadGrants(r)
    <2> DEFINE u == req[r].user
               g == [user |-> u, tenant |-> db.users[u].tenant, perms |-> Grants(u)]
               l == WithGrant(loc[r], g)
    <2>1. u \in Id /\ db.users[u] # None /\ loc[r] \in Local
      BY <1>6, RequestTyped, CallFields, Backed DEF LoadGrants, PhaseOf, Serves, RequestBacked
    <2>2. g \in Claims
      <3>1. db.users[u] \in User /\ db.perms \subseteq Permission
        BY <2>1 DEF TypeInv, TypeOK, Db
      <3> QED
        BY <2>1, <3>1 DEF Claims, User, Grants
    <2>3. Moves(r, "issue", req[r], l) /\ db' = db
      BY <1>6 DEF LoadGrants, WithGrant, Goto, Moves, TypeInv, TypeOK
    <2> HIDE DEF g
    <2>4. l.held = loc[r].held
      BY <2>1, <2>2, SetGrant
    <2> HIDE DEF l
    <2> QED
      BY <2>3, <2>4, NamesQuiet DEF Running
  <1>7. CASE RefreshDelete(r)
    <2>1. /\ pc' = [pc EXCEPT ![r] = "issue"] /\ req' = [req EXCEPT ![r] = req[r]]
          /\ loc' = loc /\ db' = db
      BY <1>7 DEF RefreshDelete, Goto, TypeInv, TypeOK
    <2> QED
      BY <2>1, NamesGoes DEF Running
  <1>8. CASE MfaCommit(r) \/ IssueTokens(r) \/ DeadlockVictim(r)
    BY <1>8, NamesEnds DEF MfaCommit, IssueTokens, DeadlockVictim, Ended
  <1> QED
    BY <1>1, <1>2, <1>3, <1>4, <1>5, <1>6, <1>7, <1>8, NamesInsertTenant, NamesInsertRole,
       NamesInsertPermission, NamesCommitRegistration, NamesCommitRole DEF Proceed

----------------------------------------------------------------------------
AccountsInv == TypeInv /\ RowsInv /\ NamesHeldApart

LEMMA AccountsInit == Init => AccountsInv
  BY TypeInit, RowsInit, NamesInit DEF AccountsInv

LEMMA AccountsBegin ==
    ASSUME AccountsInv, NEW r \in Req, Begin(r) PROVE AccountsInv'
  <1> USE DEF AccountsInv
  <1>1. NamesHeldApart'
    BY NamesBegin
  <1>2. CASE Refused(r)
    BY <1>1, <1>2, TypeStops, RowsEnds DEF Refused, Ended, redis
  <1>3. CASE Login(r) \/ SetupMfa(r) \/ EnableMfa(r) \/ DisableMfa(r)
    BY <1>1, <1>3, TypeLoads, RowsLoads
  <1>4. CASE CheckSlug(r)
    BY <1>1, <1>4, TypeCheckSlug, RowsCheckSlug
  <1>5. CASE StartRole(r)
    BY <1>1, <1>5, TypeStartRole, RowsStartRole
  <1>6. CASE AssignRole(r)
    BY <1>1, <1>6, TypeAssignRole, RowsAssignRole
  <1>7. CASE CreateUser(r)
    BY <1>1, <1>7, TypeCreateUser, RowsCreateUser
  <1>8. CASE RefreshGet(r)
    BY <1>1, <1>8, TypeRefreshGet, RowsRefreshGet
  <1> QED
    BY <1>2, <1>3, <1>4, <1>5, <1>6, <1>7, <1>8 DEF Begin

LEMMA AccountsProceed ==
    ASSUME AccountsInv, NEW r \in Req, Proceed(r) PROVE AccountsInv'
  <1> USE DEF AccountsInv
  <1>1. NamesHeldApart'
    BY NamesProceed
  <1>2. CASE InsertTenant(r)
    BY <1>1, <1>2, TypeInsertTenant, RowsInsertTenant
  <1>3. CASE SelectPermissions(r)
    BY <1>1, <1>3, TypeSelectPermissions, RowsSelectPermissions
  <1>4. CASE SkipFound(r)
    BY <1>1, <1>4, TypeSkipFound, RowsSkipFound
  <1>5. CASE InsertPermission(r)
    BY <1>1, <1>5, TypeInsertPermission, RowsInsertPermission
  <1>6. CASE CommitRegistration(r)
    BY <1>1, <1>6, TypeCommitRegistration, RowsCommitRegistration
  <1>7. CASE InsertRole(r)
    BY <1>1, <1>7, TypeInsertRole, RowsInsertRole
  <1>8. CASE LookupPermission(r)
    BY <1>1, <1>8, TypeLookupPermission, RowsLookupPermission
  <1>9. CASE CommitRole(r)
    BY <1>1, <1>9, TypeCommitRole, RowsCommitRole
  <1>10. CASE LoginCommit(r)
    BY <1>1, <1>10, TypeLoginCommit, RowsLoginCommit
  <1>11. CASE LoadGrants(r)
    <2>1. db.users[req[r].user] # None
      BY <1>11, Backed DEF LoadGrants, RequestBacked
    <2> QED
      BY <1>1, <1>11, <2>1, TypeLoadGrants, RowsLoadGrants
  <1>12. CASE MfaCommit(r)
    BY <1>1, <1>12, TypeMfaCommit, RowsMfaCommit
  <1>13. CASE RefreshDelete(r)
    BY <1>1, <1>13, TypeRefreshDelete, RowsRefreshDelete
  <1>14. CASE IssueTokens(r)
    BY <1>1, <1>14, TypeIssueTokens, RowsIssueTokens
  <1>15. CASE DeadlockVictim(r)
    BY <1>1, <1>15, TypeStops, RowsEnds DEF DeadlockVictim, Ended, redis
  <1> QED
    BY <1>2, <1>3, <1>4, <1>5, <1>6, <1>7, <1>8, <1>9, <1>10, <1>11, <1>12, <1>13,
       <1>14, <1>15 DEF Proceed

\* When no row and no request changes, what was held apart stays apart.
LEMMA NamesUnchanged ==
    ASSUME NamesHeldApart, UNCHANGED <<db, pc, req, loc>> PROVE NamesHeldApart'
  BY DEF NamesHeldApart, HoldsTenant, HoldsSlug, HoldsRole, SlugTaken, RoleTaken

LEMMA AccountsStep == AccountsInv /\ [Next]_vars => AccountsInv'
  <1> SUFFICES ASSUME AccountsInv, [Next]_vars PROVE AccountsInv'
    OBVIOUS
  <1>1. CASE \E r \in Req : Begin(r) \/ Proceed(r)
    BY <1>1, AccountsBegin, AccountsProceed
  <1>2. ASSUME NEW r \in Req, Abort(r) PROVE AccountsInv'
    BY <1>2, TypeStops, RowsEnds, NamesEnds DEF Abort, Ended, redis, AccountsInv
  <1>3. ASSUME NEW t \in Id, Expire(t) PROVE AccountsInv'
    BY <1>3, TypeExpire, RowsUnchanged, NamesUnchanged DEF Expire, AccountsInv
  <1>4. CASE UNCHANGED vars
    <2>1. TypeInv'
      BY <1>4 DEF vars, AccountsInv, TypeInv, TypeOK, Phases
    <2> QED
      BY <1>4, <2>1, RowsUnchanged, NamesUnchanged DEF vars, AccountsInv
  <1> QED
    BY <1>1, <1>2, <1>3, <1>4 DEF Next

LEMMA AccountsAlways == Spec => []AccountsInv
  BY AccountsInit, AccountsStep, PTL DEF Spec

\* Tables, Redis and requests keep their types whatever interleaves.
THEOREM TypesKept == Spec => []TypeOK
  <1>1. AccountsInv => TypeOK
    BY DEF AccountsInv, TypeInv
  <1> QED
    BY <1>1, AccountsAlways, PTL

\* What an open transaction has inserted is in no table and in no other open
\* transaction, for any number of registrations and new roles (models.py).
THEOREM NamesApart == Spec => []NamesHeldApart
  <1>1. AccountsInv => NamesHeldApart
    BY DEF AccountsInv
  <1> QED
    BY <1>1, AccountsAlways, PTL

\* Registration is all or nothing, links lead to rows and no role crosses
\* tenants (auth.py:188-199, roles.py:59).
THEOREM RolesKept == Spec => []RolesComplete
  <1>1. AccountsInv => RolesComplete
    BY DEF AccountsInv, RowsInv
  <1> QED
    BY <1>1, AccountsAlways, PTL

\* No token, however often refreshed, carries a permission that the roles of
\* its user do not grant (auth.py:269-286).
THEOREM TokensKept == Spec => []TokensWithinGrants
  <1>1. AccountsInv => TokensWithinGrants
    BY DEF AccountsInv, RowsInv
  <1> QED
    BY <1>1, AccountsAlways, PTL

----------------------------------------------------------------------------
(* Deadlocks.  A request works through its list of permissions from the    *)
(* front: what it has flushed comes before what it is going to write.  On  *)
(* a circle of waits each request wants what the next one has flushed, so  *)
(* that along one common order of the names the circle could only go up.   *)

InOrder(list, todo, held) ==
    /\ Len(todo) <= Len(list)
    /\ \A i \in 1 .. Len(todo) : todo[i] = list[Len(list) - Len(todo) + i]
    /\ \A p \in held : \E i \in 1 .. Len(list) - Len(todo) : p = list[i]

WritesInOrder ==
    \A r \in Req : pc[r] \in {"insert", "lookup"} =>
        InOrder(OrderOf(r), loc[r].todo, loc[r].held)

LEMMA OrderBegins ==
    ASSUME NEW list \in Seq(Permission) PROVE InOrder(list, list, {})
BY DEF InOrder

\* The next name is taken, and flushed or not.
LEMMA OrderGoesOn ==
    ASSUME NEW list \in Seq(Permission), NEW todo \in Seq(Permission), todo # <<>>, NEW held,
           InOrder(list, todo, held)
    PROVE  /\ InOrder(list, Tail(todo), held)
           /\ InOrder(list, Tail(todo), held \cup {Head(todo)})
<1> DEFINE n == Len(list)
           k == Len(todo)
           rest == Tail(todo)
<1>1. /\ n \in Nat /\ k \in Nat /\ k > 0 /\ Len(rest) = k - 1 /\ Head(todo) = todo[1]
      /\ \A i \in 1 .. k - 1 : rest[i] = todo[i + 1]
  OBVIOUS
<1>2. /\ k <= n /\ \A i \in 1 .. k : todo[i] = list[n - k + i]
      /\ \A p \in held : \E i \in 1 .. n - k : p = list[i]
  BY DEF InOrder
<1> HIDE DEF n, k, rest
<1>3. Len(rest) <= n
  BY <1>1, <1>2
<1>4. ASSUME NEW i \in 1 .. Len(rest) PROVE rest[i] = list[n - Len(rest) + i]
  <2>1. i + 1 \in 1 .. k /\ n - k + (i + 1) = n - Len(rest) + i
    BY <1>1
  <2> QED BY <1>1, <1>2, <2>1
<1>5. n - k + 1 \in 1 .. n - Len(rest) /\ Head(todo) = list[n - k + 1]
  BY <1>1, <1>2
<1>6. \A i \in 1 .. n - k : i \in 1 .. n - Len(rest)
  BY <1>1
<1>7. \A p \in held \cup {Head(todo)} : \E i \in 1 .. n - Len(rest) : p = list[i]
  BY <1>2, <1>5, <1>6
<1> QED BY <1>3, <1>4, <1>7 DEF InOrder, n, rest

\* A step of one request, which leaves the others alone.
LEMMA OrderKept ==
    ASSUME WritesInOrder, NEW r \in Req, Alone(r),
           pc'[r] \in {"insert", "lookup"} =>
              InOrder(OrderOf(r)', loc'[r].todo, loc'[r].held)
    PROVE  WritesInOrder'
<1> SUFFICES ASSUME NEW v \in Req, pc'[v] \in {"insert", "lookup"}
             PROVE  InOrder(OrderOf(v)', loc'[v].todo, loc'[v].held)
  BY DEF WritesInOrder
<1>1. CASE v = r
  BY <1>1
<1>2. CASE v # r
  BY <1>2 DEF Alone, WritesInOrder, OrderOf
<1> QED BY <1>1, <1>2

LEMMA OrderAway ==
    ASSUME TypeInv, WritesInOrder, NEW r \in Req, NEW how, how \notin {"insert", "lookup"},
           pc' = [pc EXCEPT ![r] = how],
           req' = req \/ \E c : req' = [req EXCEPT ![r] = c],
           loc' = loc \/ \E l : loc' = [loc EXCEPT ![r] = l]
    PROVE  WritesInOrder'
<1>1. RequestsTyped
  BY DEF TypeInv, TypeOK, RequestsTyped
<1>2. pc'[r] = how /\ \A v \in Req \ {r} : pc'[v] = pc[v] /\ req'[v] = req[v] /\ loc'[v] = loc[v]
  BY <1>1 DEF RequestsTyped
<1> QED BY <1>2, OrderKept DEF Alone

LEMMA OrderEnds ==
    ASSUME TypeInv, WritesInOrder, NEW r \in Req, NEW how \in Ended, End(r, how)
    PROVE  WritesInOrder'
<1>1. how \notin {"insert", "lookup"}
  BY DEF Ended
<1> QED BY <1>1, OrderAway DEF End

LEMMA OrderInit == Init => WritesInOrder
BY DEF Init, WritesInOrder

LEMMA OrderBegin ==
    ASSUME TypeInv, WritesInOrder, NEW r \in Req, Begin(r) PROVE WritesInOrder'
<1>1. CASE AssignRole(r) \/ CreateUser(r) \/ Refused(r)
  BY <1>1, OrderEnds DEF AssignRole, CreateUser, Refused, Ended
<1>2. CASE CheckSlug(r)
  BY <1>2, OrderAway DEF CheckSlug
<1>3. CASE StartRole(r)
  BY <1>3, OrderAway DEF StartRole
<1>4. CASE RefreshGet(r)
  BY <1>4, OrderAway DEF RefreshGet
<1>5. ASSUME NEW op, NEW u, NEW code, Load(r, op, u, code) PROVE WritesInOrder'
  BY <1>5, OrderAway DEF Load
<1>6. CASE Login(r) \/ SetupMfa(r) \/ EnableMfa(r) \/ DisableMfa(r)
  BY <1>5, <1>6 DEF Login, SetupMfa, EnableMfa, DisableMfa
<1> QED BY <1>1, <1>2, <1>3, <1>4, <1>6 DEF Begin

\* What is known of a request that works through a list.
LEMMA Working ==
    ASSUME TypeInv, NEW r \in Req
    PROVE  /\ loc[r] \in Local /\ loc[r].todo \in Seq(Permission)
           /\ pc[r] \in {"select", "insert", "lookup", "role"} => OrderOf(r) \in Seq(Permission)
           /\ pc[r] = "select" => req[r].op = "register"
           /\ pc[r] \in {"role", "lookup"} => req[r].op = "create_role"
           /\ loc[r].held # {} => pc[r] \in {"insert", "lookup"}
<1>1. loc[r] \in Local /\ loc[r].todo \in Seq(Permission)
  BY DEF TypeInv, TypeOK, Local
<1>2. PhaseOf(pc[r], req[r], loc[r])
  BY DEF TypeInv, Phases
<1>3. pc[r] \in {"select", "insert", "lookup", "role"} => Serves(req[r], {"register", "create_role"})
  BY <1>2 DEF PhaseOf, Serves
<1>4. Serves(req[r], {"register", "create_role"}) => OrderOf(r) \in Seq(Permission)
  BY CallFields, InputsTyped DEF Serves, OrderOf
<1> QED BY <1>1, <1>2, <1>3, <1>4 DEF PhaseOf, Serves

LEMMA OrderProceed ==
    ASSUME TypeInv, WritesInOrder, NEW r \in Req, Proceed(r) PROVE WritesInOrder'
<1>0. RequestsTyped
  BY DEF TypeInv, TypeOK, RequestsTyped
<1>w. /\ loc[r] \in Local /\ loc[r].todo \in Seq(Permission)
      /\ pc[r] \in {"select", "insert", "lookup", "role"} => OrderOf(r) \in Seq(Permission)
      /\ pc[r] = "select" => req[r].op = "register"
      /\ pc[r] \in {"role", "lookup"} => req[r].op = "create_role"
      /\ loc[r].held # {} => pc[r] \in {"insert", "lookup"}
  BY Working
<1>o. pc[r] \in {"insert", "lookup"} => InOrder(OrderOf(r), loc[r].todo, loc[r].held)
  BY DEF WritesInOrder
<1>1. CASE InsertTenant(r)
  BY <1>1, OrderEnds, OrderAway DEF InsertTenant, Goto, Ended
<1>2. CASE SelectPermissions(r)
  <2>1. pc[r] = "select" /\ loc[r].held = {} /\ OrderOf(r) = OwnerPermissions
    BY <1>2, <1>w DEF SelectPermissions, OrderOf
  <2>2. /\ loc' = [loc EXCEPT ![r].todo = OwnerPermissions, ![r].found = db.perms]
        /\ req' = req /\ pc' = [pc EXCEPT ![r] = "insert"]
    BY <1>2 DEF SelectPermissions, InsertOrder, Goto
  <2>3. loc'[r].todo = OwnerPermissions /\ loc'[r].held = {} /\ Alone(r)
    BY <1>0, <1>w, <2>1, <2>2 DEF Alone, RequestsTyped, Local
  <2>4. InOrder(OwnerPermissions, OwnerPermissions, {})
    BY <1>w, <2>1, OrderBegins
  <2>5. OrderOf(r)' = OwnerPermissions
    BY <2>1, <2>2 DEF OrderOf
  <2> QED BY <2>3, <2>4, <2>5, OrderKept
<1>3. CASE SkipFound(r)
  <2>1. /\ pc[r] = "insert" /\ loc[r].todo # <<>> /\ pc' = pc /\ req' = req
        /\ loc' = [loc EXCEPT ![r].todo = Tail(@)]
    BY <1>3 DEF SkipFound
  <2> QED BY <1>0, <1>w, <1>o, <2>1, OrderGoesOn, OrderKept DEF Alone, RequestsTyped, Local, OrderOf
<1>4. CASE InsertPermission(r)
  <2>1. CASE End(r, "failed")
    BY <2>1, OrderEnds DEF Ended
  <2>2. CASE ~End(r, "failed")
    <3>1. PICK where \in {"insert", "lookup"} :
          /\ pc[r] = "insert" /\ loc[r].todo # <<>> /\ req' = req
          /\ pc' = [pc EXCEPT ![r] = where]
          /\ loc' = [loc EXCEPT ![r].held = @ \cup {Head(loc[r].todo)}, ![r].todo = Tail(@)]
      BY <1>4, <2>2 DEF InsertPermission, Goto
    <3>2. /\ loc'[r].todo = Tail(loc[r].todo) /\ Alone(r)
          /\ loc'[r].held = loc[r].held \cup {Head(loc[r].todo)}
      BY <1>0, <1>w, <3>1 DEF Alone, RequestsTyped, Local
    <3>3. OrderOf(r)' = OrderOf(r)
      BY <3>1 DEF OrderOf
    <3>4. InOrder(OrderOf(r), Tail(loc[r].todo), loc[r].held \cup {Head(loc[r].todo)})
      BY <1>w, <1>o, <3>1, OrderGoesOn
    <3> QED BY <3>2, <3>3, <3>4, OrderKept
  <2> QED BY <2>1, <2>2
<1>5. CASE CommitRegistration(r)
  BY <1>5, OrderAway DEF CommitRegistration, Goto
<1>6. CASE InsertRole(r)
  <2>1. CASE End(r, "failed")
    BY <2>1, OrderEnds DEF Ended
  <2>2. CASE ~End(r, "failed")
    <3>1. /\ pc[r] = "role" /\ req' = req /\ pc' = [pc EXCEPT ![r] = "lookup"]
          /\ loc' = [loc EXCEPT ![r].todo = req[r].perms]
      BY <1>6, <2>2 DEF InsertRole, Goto
    <3>2. loc[r].held = {} /\ OrderOf(r) = req[r].perms /\ OrderOf(r)' = req[r].perms
      BY <1>w, <3>1 DEF OrderOf
    <3>3. loc'[r].todo = req[r].perms /\ loc'[r].held = {} /\ Alone(r)
      BY <1>0, <1>w, <3>1, <3>2 DEF Alone, RequestsTyped, Local
    <3>4. InOrder(req[r].perms, req[r].perms, {})
      BY <1>w, <3>1, <3>2, OrderBegins
    <3> QED BY <3>2, <3>3, <3>4, OrderKept
  <2> QED BY <2>1, <2>2
<1>7. CASE LookupPermission(r)
  <2>1. /\ pc[r] = "lookup" /\ loc[r].todo # <<>> /\ req' = req
        /\ \/ loc' = [loc EXCEPT ![r].todo = Tail(@)] /\ pc' = pc
           \/ loc' = loc /\ pc' = [pc EXCEPT ![r] = "insert"]
    BY <1>7 DEF LookupPermission, Goto
  <2>2. CASE loc' = [loc EXCEPT ![r].todo = Tail(@)] /\ pc' = pc
    BY <1>0, <1>w, <1>o, <2>1, <2>2, OrderGoesOn, OrderKept DEF Alone, RequestsTyped, Local, OrderOf
  <2>3. CASE loc' = loc /\ pc' = [pc EXCEPT ![r] = "insert"]
    <3>1. Alone(r) /\ OrderOf(r)' = OrderOf(r)
      BY <1>0, <2>1, <2>3 DEF Alone, RequestsTyped, OrderOf
    <3> QED BY <1>o, <2>1, <2>3, <3>1, OrderKept
  <2> QED BY <2>1, <2>2, <2>3
<1>8. CASE CommitRole(r)
  BY <1>8, OrderEnds DEF CommitRole, Ended
<1>9. CASE LoginCommit(r)
  BY <1>9, OrderAway DEF LoginCommit, Goto
<1>10. CASE LoadGrants(r)
  <2>1. \E l : loc' = [loc EXCEPT ![r] = l]
    BY <1>10 DEF LoadGrants
  <2> QED BY <1>10, <2>1, OrderAway DEF LoadGrants, Goto
<1>11. CASE MfaCommit(r)
  BY <1>11, OrderEnds DEF MfaCommit, Ended
<1>12. CASE RefreshDelete(r)
  BY <1>12, OrderAway DEF RefreshDelete, Goto
<1>13. CASE IssueTokens(r)
  BY <1>13, OrderEnds DEF IssueTokens, Ended
<1>14. CASE DeadlockVictim(r)
  BY <1>14, OrderEnds DEF DeadlockVictim, Ended
<1> QED
  BY <1>1, <1>2, <1>3, <1>4, <1>5, <1>6, <1>7, <1>8, <1>9, <1>10, <1>11, <1>12,
     <1>13, <1>14 DEF Proceed

LEMMA OrderStep == TypeInv /\ WritesInOrder /\ [Next]_vars => WritesInOrder'
<1> SUFFICES ASSUME TypeInv, WritesInOrder, [Next]_vars PROVE WritesInOrder'
  OBVIOUS
<1>1. CASE \E r \in Req : Begin(r) \/ Proceed(r)
  BY <1>1, OrderBegin, OrderProceed
<1>2. ASSUME NEW r \in Req, Abort(r) PROVE WritesInOrder'
  BY <1>2, OrderEnds DEF Abort, Ended
<1>3. CASE UNCHANGED <<pc, req, loc>>
  BY <1>3 DEF WritesInOrder, OrderOf
<1> QED BY <1>1, <1>2, <1>3 DEF Next, Expire, vars

\* One that waits on a circle is about to write a name; the one it waits for
\* has flushed that name, and comes to its own next name after it.
LEMMA CircleGoesUp ==
    ASSUME TypeInv, WritesInOrder, NamesHeldApart, NEW S \in SUBSET Req,
           \A x \in S : \E y \in S : y \in WaitsFor(x),
           \A x \in S : \E y \in S : x \in WaitsFor(y),
           NEW place \in Orders, \A x \in S : Follows(OrderOf(x), place)
    PROVE  /\ \A x \in S : loc[x].todo # <<>> /\ Head(loc[x].todo) \in Permission
           /\ \A x \in S : \E y \in S :
                place[Head(loc[x].todo)] < place[Head(loc[y].todo)]
<1> DEFINE Next1(x) == Head(loc[x].todo)
<1>1. ASSUME NEW x \in S PROVE pc[x] \in {"insert", "lookup"}
  <2>1. PICK y \in S : x \in WaitsFor(y)
    OBVIOUS
  <2>2. PICK z \in S : z \in WaitsFor(x)
    OBVIOUS
  <2>3. HoldsTenant(x) \/ pc[x] \in {"lookup", "insert"} \/ loc[x].held # {}
    BY <2>1 DEF WaitsFor, HoldsSlug, HoldsRole, HoldsPermission
  <2>4. pc[x] \in {"tenant", "role", "insert"}
    BY <2>2 DEF WaitsFor
  <2> QED BY <2>3, <2>4, Working DEF HoldsTenant
<1>2. ASSUME NEW x \in S, NEW y \in S, y \in WaitsFor(x)
      PROVE  /\ x # y /\ loc[x].todo # <<>> /\ Next1(x) \in Permission
             /\ Next1(x) \in loc[y].held
  <2>1. /\ x # y /\ loc[x].todo # <<>> /\ HoldsPermission(y, Head(loc[x].todo))
    BY <1>1, <1>2 DEF WaitsFor
  <2> QED BY <2>1, Working DEF HoldsPermission
<1>3. ASSUME NEW x \in S PROVE loc[x].todo # <<>> /\ Next1(x) \in Permission
  BY <1>2
<1>4. ASSUME NEW x \in S, NEW y \in S, y \in WaitsFor(x)
      PROVE  place[Next1(x)] < place[Next1(y)]
  <2> DEFINE list == OrderOf(y)
             todo == loc[y].todo
             p == Next1(x)
             q == Next1(y)
             n == Len(list)
             k == Len(todo)
  <2>1. PICK z \in S : z \in WaitsFor(y)
    OBVIOUS
  <2>2. p \in loc[y].held /\ q \in loc[z].held /\ y # z /\ p \in Permission /\ q \in Permission
    BY <1>2, <1>4, <2>1
  <2>3. p # q
    BY <2>2 DEF NamesHeldApart
  <2>4. list \in Seq(Permission) /\ todo \in Seq(Permission) /\ todo # <<>>
    BY <1>1, <1>3, Working
  <2>5. InOrder(list, todo, loc[y].held)
    BY <1>1 DEF WritesInOrder
  <2>6. n \in Nat /\ k \in Nat /\ k > 0 /\ q = todo[1] /\ DOMAIN list = 1 .. n
    BY <2>4
  <2>7. k <= n /\ todo[1] = list[n - k + 1] /\ \E i \in 1 .. n - k : p = list[i]
    <3>1. /\ k <= n /\ \A i \in 1 .. k : todo[i] = list[n - k + i]
          /\ \E i \in 1 .. n - k : p = list[i]
      BY <2>2, <2>5 DEF InOrder
    <3>2. 1 \in 1 .. k
      BY <2>6
    <3> HIDE DEF n, k, list, todo, p
    <3> QED BY <3>1, <3>2
  <2>8. PICK i \in 1 .. n - k : p = list[i]
    BY <2>7
  <2>9. place[p] <= place[q]
    <3>1. Follows(list, place)
      OBVIOUS
    <3> HIDE DEF n, k, list, todo, p, q
    <3>2. i \in 1 .. n /\ n - k + 1 \in 1 .. n /\ i < n - k + 1
      BY <2>6, <2>7
    <3> QED BY <2>6, <2>7, <2>8, <3>1, <3>2 DEF Follows
  <2>10. place[p] # place[q] /\ place[p] \in Int /\ place[q] \in Int
    <3> HIDE DEF p, q
    <3> QED BY <2>2, <2>3 DEF Orders
  <2> HIDE DEF p, q
  <2> QED BY <2>9, <2>10 DEF p, q
<1> QED BY <1>3, <1>4

\* No circle of waits forms, however many registrations and new roles run at
\* once, unless two lists of permissions disagree about the order of two names
\* (auth.py:157, roles.py:59).
THEOREM DeadlocksNeedDisorder == Spec => []DeadlockNeedsDisorder
<1>1. ASSUME TypeInv, WritesInOrder, NamesHeldApart PROVE DeadlockNeedsDisorder
  <2> SUFFICES ASSUME NEW r \in Req, OnCycle(r), NEW place \in Orders,
                      \A x \in Req : OnCycle(x) => Follows(OrderOf(x), place)
               PROVE  FALSE
    BY DEF DeadlockNeedsDisorder
  <2>1. PICK S \in SUBSET Req : /\ r \in S
                                /\ \A x \in S : \E y \in S : y \in WaitsFor(x)
                                /\ \A x \in S : \E y \in S : x \in WaitsFor(y)
    BY DEF OnCycle
  <2>2. \A x \in S : OnCycle(x)
    BY <2>1 DEF OnCycle
  <2>3. /\ \A x \in S : loc[x].todo # <<>> /\ Head(loc[x].todo) \in Permission
        /\ \A x \in S : \E y \in S : place[Head(loc[x].todo)] < place[Head(loc[y].todo)]
    BY <1>1, <2>1, <2>2, CircleGoesUp
  <2> DEFINE c == Cardinality(Permission)
             At(x) == place[Head(loc[x].todo)]
             T == {c - At(x) : x \in S}
  <2>4. c \in Nat
    BY PermissionsFinite, FS_CardinalityType
  <2> HIDE DEF c
  <2>5. \A x \in S : At(x) \in 1 .. c
    BY <2>3 DEF Orders, c
  <2> HIDE DEF At
  <2>6. T \subseteq Nat /\ T # {}
    BY <2>1, <2>4, <2>5
  <2>7. PICK m \in T : \A k \in T : m <= k
    <3> HIDE DEF T
    <3> QED BY <2>6, LeastElement
  <2>8. PICK x \in S : m = c - At(x)
    OBVIOUS
  <2>9. PICK y \in S : At(x) < At(y)
    BY <2>3 DEF At
  <2>10. c - At(x) <= c - At(y)
    BY <2>7, <2>8
  <2> QED BY <2>4, <2>5, <2>9, <2>10
<1>2. AccountsInv => TypeInv /\ NamesHeldApart
  BY DEF AccountsInv
<1>3. Spec => []WritesInOrder
  BY <1>2, OrderInit, OrderStep, AccountsAlways, PTL DEF Spec
<1> QED BY <1>1, <1>2, <1>3, AccountsAlways, PTL
=============================================================================
