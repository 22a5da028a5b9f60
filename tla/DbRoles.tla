------------------------------- MODULE DbRoles -------------------------------
(***************************************************************************)
(* The end-user context of dso_api/dbroles.py: one WSGI worker thread that  *)
(* serves requests one after the other, the thread-local current user, the  *)
(* Django connection wrappers of that thread (the default database and the  *)
(* read replicas of dso_api/router.py) and the PostgreSQL session behind    *)
(* each open connection.                                                    *)
(*                                                                          *)
(* Every handler of dbroles.py is an operator from the context to the       *)
(* context after the call, so that a handler that calls another one (as     *)
(* activate_end_user calls deactivate_end_user) is composed as in the code. *)
(* The field "raised" of the result tells whether the call raised.          *)
(*                                                                          *)
(* The feature flag DATABASE_SET_ROLE is on, as on the deployed platform.   *)
(***************************************************************************)

CONSTANTS
  Accounts,       \* account ids (email addresses) found in access tokens
  WithRole,       \* the accounts that have a database role of their own
  Internal,       \* the accounts for which is_internal() holds
  UserRole,       \* USER_ROLE.format(user_email=u), as a function of u
  LoginRole,      \* the role a session has after LOGIN
  AnonymousRole,  \* settings.ANONYMOUS_ROLE
  InternalRole,   \* settings.INTERNAL_ROLE
  NoRole,         \* Python's None, for roles
  ANONYMOUS,      \* DatabaseRoles.ANONYMOUS
  NoUser,         \* Python's None, for the current user's email
  Default,        \* the "default" database alias
  Replicas        \* the "replica_<n>" aliases that settings.py may configure

ASSUME AccountsAssumption ==
  /\ WithRole \subseteq Accounts
  /\ Internal \subseteq Accounts
  /\ {ANONYMOUS, NoUser} \cap Accounts = {}
  /\ ANONYMOUS # NoUser

\* Distinct accounts have distinct roles, none of which is a shared one.
ASSUME RolesAssumption ==
  /\ DOMAIN UserRole = Accounts
  /\ \A u, v \in Accounts : UserRole[u] = UserRole[v] => u = v
  /\ \A u \in Accounts :
       UserRole[u] \notin {LoginRole, AnonymousRole, InternalRole, NoRole}
  /\ NoRole \notin {LoginRole, AnonymousRole, InternalRole}
  /\ LoginRole \notin {AnonymousRole, InternalRole}
  /\ AnonymousRole # InternalRole

ASSUME DatabasesAssumption == Default \notin Replicas

Databases == {Default} \cup Replicas

Roles == {LoginRole, AnonymousRole, InternalRole} \cup {UserRole[u] : u \in Accounts}

\* The roles that exist in PostgreSQL: SET ROLE to any other one is a DataError.
ExistingRoles ==
  {LoginRole, AnonymousRole, InternalRole} \cup {UserRole[u] : u \in WithRole}

\* What AuthMiddleware reads from a request: the account of the token and
\* whether Keycloak or Entra issued it. A request without token is anonymous.
Requests ==
  {r \in [user : Accounts \cup {ANONYMOUS}, federated : BOOLEAN] :
     r.user = ANONYMOUS => ~r.federated}

VARIABLES
  ctx,         \* the thread-local current_user, the wrappers and the sessions
  phase,       \* where the worker is in the life of a request
  request,     \* the request being served (what the context should be)
  replicas,    \* the replicas this deployment configures (never changes)
  persistent,  \* connections outlive a request: CONN_MAX_AGE is not 0 (never changes)
  outer        \* the default connection is inside a caller's transaction (never changes)

vars == <<ctx, phase, request, replicas, persistent, outer>>
deployment == <<replicas, persistent, outer>>

(***************************************************************************)
(* PostgreSQL sessions. "closed" says that the wrapper's connection is      *)
(* None; "bad" that the server is gone while the wrapper still holds it.    *)
(* role is the session's current_user, sp its value at the savepoint        *)
(* user_ctx, err the wrapper's errors_occurred.                             *)
(***************************************************************************)
TxnStates == {"closed", "idle", "intrans", "inerror", "bad"}

Closed == [txn |-> "closed", role |-> LoginRole, sp |-> NoRole, err |-> FALSE]
Fresh == [Closed EXCEPT !.txn = "idle"]

\* COMMIT and ROLLBACK both end SET LOCAL ROLE and drop the savepoints.
EndTransaction(s) == [s EXCEPT !.txn = "idle", !.role = LoginRole, !.sp = NoRole]

\* The connection holds a live session on which statements can run.
Usable(s) == s.txn \in {"idle", "intrans"}

(***************************************************************************)
(* DatabaseRoles._set_role, with _revert_role on the failing path.          *)
(***************************************************************************)
\* BEGIN fails on a lost connection, and so does the ROLLBACK TO that follows.
SetRoleLost(c, db) == [c EXCEPT !.sess[db].err = TRUE, !.raised = "DatabaseError"]

\* BEGIN fails inside an aborted transaction; without a savepoint so does ROLLBACK TO.
SetRoleAborted(c, db) ==
  LET s == c.sess[db] IN
  IF s.sp = NoRole
  THEN [c EXCEPT !.sess[db].err = TRUE, !.raised = "DatabaseError"]
  ELSE [c EXCEPT !.sess[db] = IF c.original = NoRole
                              THEN [EndTransaction(s) EXCEPT !.err = TRUE]
                              ELSE [s EXCEPT !.txn = "intrans", !.role = c.original,
                                             !.err = TRUE],
                 !.original = NoRole,
                 !.raised = "DatabaseError"]

\* Mutant: SET ROLE without BEGIN TRANSACTION when there is no transaction yet.
SetRoleWithoutBegin(c, db, role) ==
  IF role \in ExistingRoles
  THEN [c EXCEPT !.sess[db].sp = c.sess[db].role, !.sess[db].role = role,
                 !.original = IF c.sess[db].txn = "intrans" THEN c.sess[db].role
                                                            ELSE c.original,
                 !.active[db] = role]
  ELSE [c EXCEPT !.original = NoRole, !.raised = "DataError"]

\* Mutant: the original role of a caller's transaction is not remembered.
SetRoleForgetful(c, db, role) ==
  LET s == c.sess[db] IN
  IF role \in ExistingRoles
  THEN [c EXCEPT !.sess[db] = [s EXCEPT !.txn = "intrans", !.sp = s.role, !.role = role],
                 !.active[db] = role]
  ELSE [c EXCEPT !.sess[db] = EndTransaction(s), !.raised = "DataError"]

\* The original role is remembered only inside a transaction of the caller.
SetRoleLive(c, db, role) ==
  LET s == c.sess[db]
      original == IF s.txn = "intrans" THEN s.role ELSE c.original
  IN
  IF role \in ExistingRoles
  THEN [c EXCEPT !.sess[db] = [s EXCEPT !.txn = "intrans", !.sp = s.role, !.role = role],
                 !.original = original,
                 !.active[db] = role]
  ELSE [c EXCEPT !.sess[db] = IF original = NoRole
                              THEN EndTransaction(s)
                              ELSE [s EXCEPT !.sp = s.role, !.role = original],
                 !.original = NoRole,
                 !.raised = "DataError"]

SetRole(c, db, role) ==
  CASE c.sess[db].txn = "bad"     -> SetRoleLost(c, db)
    [] c.sess[db].txn = "inerror" -> SetRoleAborted(c, db)
    [] OTHER                      -> SetRoleLive(c, db, role)

\* Mutant of Deactivate: SET ROLE to the original role, also when there is none.
DeactivateUnchecked(c) ==
  IF c.active[Default] = NoRole \/ c.sess[Default].txn = "closed"
  THEN [c EXCEPT !.email = NoUser]
  ELSE [c EXCEPT !.email = NoUser, !.sess[Default].role = c.original,
                 !.original = NoRole, !.active[Default] = NoRole]

\* Mutant of Deactivate: the user is forgotten, the transaction is left open.
DeactivateNoCommit(c) ==
  IF c.active[Default] = NoRole \/ c.sess[Default].txn = "closed"
  THEN [c EXCEPT !.email = NoUser]
  ELSE [c EXCEPT !.email = NoUser, !.original = NoRole, !.active[Default] = NoRole]

(***************************************************************************)
(* DatabaseRoles.deactivate_end_user: it forgets the user first and then    *)
(* looks at the default connection only.                                    *)
(***************************************************************************)
Deactivate(c) ==
  LET s == c.sess[Default]
      forgotten == [c EXCEPT !.email = NoUser]
      fails == s.txn = "bad" \/ (s.txn = "inerror" /\ c.original # NoRole)
  IN
  IF c.active[Default] = NoRole \/ s.txn = "closed" THEN forgotten
  ELSE IF fails
  THEN [forgotten EXCEPT !.sess[Default].err = TRUE, !.raised = "DatabaseError"]
  ELSE [forgotten EXCEPT !.sess[Default] = IF c.original = NoRole
                                           THEN EndTransaction(s)
                                           ELSE [s EXCEPT !.role = c.original],
                         !.original = NoRole,
                         !.active[Default] = NoRole]

(***************************************************************************)
(* DatabaseRoles.activate_end_user.                                         *)
(***************************************************************************)
\* The role that is tried first.
FirstChoice(user, federated) ==
  CASE user = ANONYMOUS -> AnonymousRole
    [] user # ANONYMOUS /\ federated -> InternalRole
    [] OTHER -> UserRole[user]

\* Mutant: nobody is switched when the account's own role is missing.
FallbackSilent(c, user, db) == [c EXCEPT !.raised = "no"]

\* An internal employee without a role of their own falls back to the shared
\* role; anyone else gets a PermissionError.
Fallback(c, user, db) ==
  IF user \in Internal
  THEN SetRole([c EXCEPT !.raised = "no"], db, InternalRole)
  ELSE [c EXCEPT !.raised = "PermissionError"]

Activate(c, db) ==
  LET user == c.email
      clean == IF c.active[db] = NoRole THEN c ELSE Deactivate(c)
      first == SetRole(clean, db, FirstChoice(user, c.federated))
  IN
  IF user = NoUser THEN c
  ELSE IF clean.raised # "no" THEN clean
  ELSE IF first.raised = "DataError" THEN Fallback(first, user, db)
  ELSE first

\* Mutant: the switch is left to connection_created, also on an open connection.
SetEndUserLazy(c, req) == [c EXCEPT !.email = req.user, !.federated = req.federated]

\* DatabaseRoles.set_end_user: only the default connection is looked at.
SetEndUser(c, req) ==
  LET known == [c EXCEPT !.email = req.user, !.federated = req.federated] IN
  IF c.sess[Default].txn = "closed" THEN known ELSE Activate(known, Default)

\* Django's close_old_connections, which runs before the receivers of dbroles.py.
\* It leaves a connection in a caller's transaction alone. The wrapper object,
\* and with it _active_user_role, survives.
Stays(s, db) ==
  \/ outer /\ db = Default
  \/ persistent /\ ~(s.err /\ s.txn \in {"bad", "inerror"})

CloseOld(c) ==
  [c EXCEPT !.sess = [db \in Databases |->
     IF Stays(c.sess[db], db) THEN [c.sess[db] EXCEPT !.err = FALSE] ELSE Closed]]

(***************************************************************************)
(* The life of a request in the worker.                                     *)
(***************************************************************************)
Phases == {"boot", "warmup", "started", "serving", "streaming", "failing", "crashed",
           "broken", "responded", "idle", "dropped"}

Init ==
  /\ replicas \in SUBSET Replicas
  \* Only the development settings, which have no replicas, take CONN_MAX_AGE.
  /\ persistent \in IF replicas = {} THEN BOOLEAN ELSE {FALSE}
  \* A caller's transaction around a request: the test client in a test's transaction.
  /\ outer \in IF persistent THEN BOOLEAN ELSE {FALSE}
  /\ ctx = [email |-> NoUser, federated |-> FALSE, original |-> NoRole, raised |-> "no",
            active |-> [db \in Databases |-> NoRole],
            sess |-> [db \in Databases |->
                        IF outer /\ db = Default THEN [Fresh EXCEPT !.txn = "intrans"]
                                                 ELSE Closed]]
  /\ phase = "boot"
  /\ request = [user |-> ANONYMOUS, federated |-> FALSE]

Working == phase \in {"warmup", "serving", "streaming"}

\* The phase of a request whose code raised: in the warm-up request, while
\* streaming, or in the handler.
Failed ==
  CASE phase = "warmup"    -> "crashed"
    [] phase = "streaming" -> "broken"
    [] OTHER               -> "failing"

\* wsgi.py calls the application once as it is imported. It neither iterates
\* over the response nor closes it.
WarmUp ==
  /\ phase = "boot"
  /\ ~outer
  /\ request' = [user |-> ANONYMOUS, federated |-> FALSE]
  /\ ctx' = SetEndUser(CloseOld(ctx), request')
  /\ phase' = IF ctx'.raised = "no" THEN "warmup" ELSE "crashed"
  /\ UNCHANGED deployment

EndWarmUp ==
  /\ phase = "warmup"
  /\ phase' = "dropped"
  /\ UNCHANGED <<ctx, request, deployment>>

\* The signal request_started.
StartRequest ==
  /\ phase \in {"boot", "idle", "dropped"}
  /\ ctx' = CloseOld([ctx EXCEPT !.raised = "no"])
  /\ phase' = "started"
  /\ UNCHANGED <<request, deployment>>

\* authorization_django answers 401 before AuthMiddleware is called.
RejectToken ==
  /\ phase = "started"
  /\ phase' = "responded"
  /\ UNCHANGED <<ctx, request, deployment>>

\* AuthMiddleware.__call__
Authenticate(req) ==
  /\ phase = "started"
  /\ request' = req
  /\ ctx' = SetEndUser(ctx, req)
  /\ phase' = IF ctx'.raised = "no" THEN "serving" ELSE "failing"
  /\ UNCHANGED deployment

\* A query needs a connection that is not open yet: Django connects and sends
\* connection_created. At start-up this happens outside a request.
Connect(db) ==
  /\ phase = "boot" \/ Working
  /\ db \in {Default} \cup replicas
  /\ ctx.sess[db].txn = "closed"
  /\ ctx' = Activate([ctx EXCEPT !.sess[db] = Fresh], db)
  /\ phase' = IF ctx'.raised = "no" THEN phase ELSE Failed
  /\ UNCHANGED <<request, deployment>>

\* The session after a refused statement: a transaction is aborted by it.
Refused(s, err) ==
  [s EXCEPT !.txn = IF s.txn = "intrans" THEN "inerror" ELSE s.txn,
            !.err = s.err \/ err]

\* A query is refused. Only errors other than DataError set errors_occurred.
\* Inside a caller's transaction queries are taken to succeed.
QueryFails(db) ==
  /\ Working
  /\ ~outer
  /\ ctx.sess[db].txn \in {"idle", "intrans", "bad"}
  /\ \E err \in BOOLEAN :
       /\ ctx.sess[db].txn = "bad" => err
       /\ ctx' = [ctx EXCEPT !.sess[db] = Refused(@, err)]
  /\ phase' = Failed
  /\ UNCHANGED <<request, deployment>>

\* The server drops a connection; the wrapper does not notice yet.
LoseConnection(db) ==
  /\ ~outer
  /\ ctx.sess[db].txn \in {"idle", "intrans", "inerror"}
  /\ ctx' = [ctx EXCEPT !.sess[db].txn = "bad"]
  /\ UNCHANGED <<phase, request, deployment>>

\* The view returned a streaming response: the rest of the queries run while
\* the WSGI server iterates over it.
StartStreaming ==
  /\ phase = "serving"
  /\ phase' = "streaming"
  /\ UNCHANGED <<ctx, request, deployment>>

\* The signal got_request_exception: the exception left the view. When the
\* receiver raises too, so does the WSGI application and nothing closes the response.
RequestException ==
  /\ phase \in {"failing", "crashed"}
  /\ ctx' = Deactivate([ctx EXCEPT !.raised = "no"])
  /\ phase' = IF ctx'.raised = "no" /\ phase = "failing" THEN "responded" ELSE "dropped"
  /\ UNCHANGED <<request, deployment>>

\* The server calls response.close(), after the last chunk or when the client
\* is gone: the signal request_finished.
FinishRequest ==
  /\ phase \in {"serving", "streaming", "broken", "responded"}
  /\ ctx' = Deactivate(CloseOld([ctx EXCEPT !.raised = "no"]))
  /\ phase' = "idle"
  /\ UNCHANGED <<request, deployment>>

Next ==
  \/ WarmUp
  \/ EndWarmUp
  \/ StartRequest
  \/ RejectToken
  \/ \E req \in Requests : Authenticate(req)
  \/ \E db \in Databases : Connect(db)
  \/ \E db \in Databases : QueryFails(db)
  \/ \E db \in Databases : LoseConnection(db)
  \/ StartStreaming
  \/ RequestException
  \/ FinishRequest

Spec == Init /\ [][Next]_vars

(***************************************************************************)
(* Properties.                                                              *)
(***************************************************************************)
Contexts ==
  [email : Accounts \cup {ANONYMOUS, NoUser},
   federated : BOOLEAN,
   original : Roles \cup {NoRole},
   raised : {"no", "DataError", "DatabaseError", "PermissionError"},
   active : [Databases -> Roles \cup {NoRole}],
   sess : [Databases -> [txn : TxnStates, role : Roles, sp : Roles \cup {NoRole},
                         err : BOOLEAN]]]

\* The type of every variable.
TypeOK ==
  /\ ctx \in Contexts
  /\ phase \in Phases
  /\ request \in Requests
  /\ replicas \subseteq Replicas
  /\ persistent \in BOOLEAN
  /\ outer \in BOOLEAN

\* The role the queries of a request should run under, NoRole for none.
RoleFor(req) ==
  CASE req.user = ANONYMOUS -> AnonymousRole
    [] req.user # ANONYMOUS /\ req.federated -> InternalRole
    [] req.user \in WithRole /\ ~req.federated -> UserRole[req.user]
    [] req.user \in Internal \ WithRole /\ ~req.federated -> InternalRole
    [] OTHER -> NoRole

\* While a request is served, no session of the worker has a role of another
\* end user: it has the request's role or still the role it had after LOGIN
\* (activate_end_user and deactivate_end_user over many requests).
NoForeignRole ==
  Working => \A db \in Databases :
    Usable(ctx.sess[db]) => ctx.sess[db].role \in {LoginRole, RoleFor(request)}

\* "This catches any late initialized connections, after middleware ran"
\* (_connection_created): every live connection of a request being served has
\* been switched to the role of its end user.
LateConnectionsSwitched ==
  Working => \A db \in Databases :
    Usable(ctx.sess[db]) => ctx.sess[db].role = RoleFor(request)

\* The same promise for a deployment with the default database alone.
SwitchedOnDefault == replicas = {} => LateConnectionsSwitched

\* "Make sure the connection is reset on completion, so it can be reused for
\* another session" (_request_finished): once a request is finished, no live
\* session has a role or a transaction of its own left.
ResetOnCompletion ==
  phase = "idle" => \A db \in Databases :
    Usable(ctx.sess[db]) =>
      /\ ctx.sess[db].role = LoginRole
      /\ ctx.sess[db].txn = IF outer /\ db = Default THEN "intrans" ELSE "idle"

\* A switched role never outlives its transaction, so that a connection pool
\* cannot hand a switched session to another client (comment in _set_role).
RoleOnlyInTransaction ==
  \A db \in Databases :
    ctx.sess[db].txn \in {"idle", "closed"} => ctx.sess[db].role = LoginRole

\* Neither _set_role nor deactivate_end_user ends a transaction that the caller
\* opened: the original role is what tells the two cases apart.
CallersTransactionKept == outer => ctx.sess[Default].txn = "intrans"

(***************************************************************************)
(* The inductive invariant behind the safety properties.                    *)
(***************************************************************************)
\* What every handler of dbroles.py preserves: a session is switched only if
\* its wrapper says so and only inside a transaction, and the only role that
\* is ever remembered as the original one is the role after LOGIN.
Sound(c) ==
  /\ c \in Contexts
  /\ c.original \in {NoRole, LoginRole}
  /\ \A db \in Databases :
       \/ c.active[db] = NoRole
       \/ c.sess[db].txn \in {"idle", "closed"}
       => c.sess[db].role = LoginRole

\* A transaction of the default connection is either the caller's, whose role
\* is remembered while it is switched, or was begun by _set_role.
TransactionOwned(c) ==
  IF outer
  THEN /\ c.sess[Default].txn = "intrans"
       /\ c.active[Default] # NoRole => c.original # NoRole
  ELSE /\ c.active[Default] = NoRole => c.sess[Default].txn \notin {"intrans", "inerror"}
       /\ c.original = NoRole

DeploymentInv ==
  /\ replicas # {} => ~persistent
  /\ outer => persistent
  /\ \A db \in Replicas \ replicas : ctx.sess[db].txn = "closed"

PhaseInv ==
  /\ phase \in {"boot", "started"} \/ Working => ctx.raised = "no"
  /\ phase = "boot" => ctx.email = NoUser
  /\ phase = "started" => \A db \in Replicas : ctx.sess[db].txn = "closed"
  /\ Working => /\ ctx.email \in {NoUser, request.user}
                /\ ctx.federated = request.federated
                /\ replicas = {} /\ ctx.sess[Default].txn = "closed"
                     => ctx.email = request.user

IInv ==
  /\ TypeOK
  /\ Sound(ctx)
  /\ TransactionOwned(ctx)
  /\ DeploymentInv
  /\ PhaseInv
  /\ NoForeignRole
  /\ SwitchedOnDefault
  /\ ResetOnCompletion
=============================================================================
