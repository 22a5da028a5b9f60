---------------------------- MODULE DbRolesProofs ----------------------------
(***************************************************************************)
(* Proofs of the safety properties of DbRoles, for any set of accounts and  *)
(* any number of replicas.                                                  *)
(***************************************************************************)
EXTENDS DbRoles, TLAPS

Sessions == [txn : TxnStates, role : Roles, sp : Roles \cup {NoRole}, err : BOOLEAN]

\* The roles the shared handlers use are distinct from None, and each is a role.
LEMMA RoleFacts ==
  /\ LoginRole \in Roles /\ AnonymousRole \in Roles /\ InternalRole \in Roles
  /\ \A u \in Accounts : UserRole[u] \in Roles
  /\ NoRole \notin Roles
  /\ ExistingRoles \subseteq Roles
  /\ NoRole # LoginRole
BY RolesAssumption, AccountsAssumption DEF Roles, ExistingRoles

\* deactivate_end_user forgets the user, touches the default connection only,
\* and leaves it with the role after LOGIN unless it raises.
LEMMA DeactivateSound ==
  ASSUME NEW c, Sound(c), c.raised = "no"
  PROVE  LET d == Deactivate(c) IN
         /\ Sound(d)
         /\ d.email = NoUser /\ d.federated = c.federated
         /\ \A db \in Databases \ {Default} :
              d.sess[db] = c.sess[db] /\ d.active[db] = c.active[db]
         /\ d.raised = "no" /\ d.sess[Default].txn # "closed" =>
              /\ d.sess[Default].role = LoginRole
              /\ d.active[Default] = NoRole
         /\ d.sess[Default].txn = "closed" <=> c.sess[Default].txn = "closed"
         /\ d.raised # "no" => ~Usable(d.sess[Default])
<1> USE RoleFacts
<1>1. Default \in Databases
  BY DEF Databases
<1>2. /\ c \in Contexts
      /\ c.sess[Default] \in Sessions
      /\ c.original \in {NoRole, LoginRole}
  BY <1>1 DEF Sound, Contexts, Sessions
<1> DEFINE d == Deactivate(c)
<1>3. CASE c.active[Default] = NoRole \/ c.sess[Default].txn = "closed"
  BY <1>1, <1>2, <1>3 DEF Deactivate, Sound, Contexts, Usable
<1>4. CASE /\ ~(c.active[Default] = NoRole \/ c.sess[Default].txn = "closed")
           /\ \/ c.sess[Default].txn = "bad"
              \/ c.sess[Default].txn = "inerror" /\ c.original # NoRole
  BY <1>1, <1>2, <1>4 DEF Deactivate, Sound, Contexts, Usable, Sessions
<1>5. CASE /\ ~(c.active[Default] = NoRole \/ c.sess[Default].txn = "closed")
           /\ ~(\/ c.sess[Default].txn = "bad"
                \/ c.sess[Default].txn = "inerror" /\ c.original # NoRole)
  BY <1>1, <1>2, <1>5 DEF Deactivate, Sound, Contexts, Usable, Sessions, EndTransaction, TxnStates
<1>6. QED
  BY <1>3, <1>4, <1>5

\* _set_role either switches the session inside a transaction or leaves it with
\* the role after LOGIN, and it touches no other session.
LEMMA SetRoleSound ==
  ASSUME NEW c, Sound(c), c.raised = "no", NEW db \in Databases, NEW role \in Roles,
         c.sess[db].role = LoginRole, c.sess[db].txn # "closed"
  PROVE  LET r == SetRole(c, db, role) IN
         /\ Sound(r)
         /\ r.email = c.email /\ r.federated = c.federated
         /\ \A e \in Databases \ {db} :
              r.sess[e] = c.sess[e] /\ r.active[e] = c.active[e]
         /\ r.sess[db].txn # "closed"
         /\ r.raised = "no" =>
              /\ role \in ExistingRoles
              /\ r.sess[db].role = role
              /\ r.active[db] = role
              /\ r.sess[db].txn = "intrans"
         /\ r.raised # "no" =>
              r.sess[db].role = LoginRole /\ r.active[db] = c.active[db]
         /\ r.raised # "no" /\ c.sess[db].txn = "idle" /\ c.original = NoRole =>
              r.sess[db].txn = "idle"
         /\ r.raised = "DataError" => role \notin ExistingRoles
<1> USE RoleFacts
<1>1. /\ c \in Contexts
      /\ c.sess[db] \in Sessions
      /\ c.original \in {NoRole, LoginRole}
  BY DEF Sound, Contexts, Sessions
<1>2. CASE c.sess[db].txn = "bad"
  BY <1>1, <1>2 DEF SetRole, SetRoleLost, Sound, Contexts, Sessions
<1>3. CASE c.sess[db].txn = "inerror"
  BY <1>1, <1>3 DEF SetRole, SetRoleAborted, EndTransaction, Sound, Contexts, Sessions, TxnStates
<1>4. CASE c.sess[db].txn \in {"idle", "intrans"} /\ role \in ExistingRoles
  BY <1>1, <1>4 DEF SetRole, SetRoleLive, Sound, Contexts, Sessions, TxnStates
<1>5. CASE c.sess[db].txn \in {"idle", "intrans"} /\ role \notin ExistingRoles
  BY <1>1, <1>5 DEF SetRole, SetRoleLive, EndTransaction, Sound, Contexts, Sessions, TxnStates
<1>6. QED
  BY <1>1, <1>2, <1>3, <1>4, <1>5 DEF Sessions, TxnStates

\* The role of a request is the one activate_end_user arrives at.
LEMMA RoleForChoice ==
  ASSUME NEW user \in Accounts \cup {ANONYMOUS}, NEW federated \in BOOLEAN
  PROVE  LET first == FirstChoice(user, federated)
             want == RoleFor([user |-> user, federated |-> federated])
         IN
         /\ first \in Roles
         /\ first \in ExistingRoles => want = first
         /\ first \notin ExistingRoles /\ user \in Internal => want = InternalRole
<1> USE RoleFacts, AccountsAssumption, RolesAssumption
<1>1. CASE user = ANONYMOUS
  BY <1>1 DEF FirstChoice, RoleFor, ExistingRoles
<1>2. CASE user # ANONYMOUS /\ federated
  BY <1>2 DEF FirstChoice, RoleFor, ExistingRoles
<1>3. CASE user # ANONYMOUS /\ ~federated /\ user \in WithRole
  BY <1>3 DEF FirstChoice, RoleFor, ExistingRoles
<1>4. CASE user # ANONYMOUS /\ ~federated /\ user \notin WithRole
  BY <1>4 DEF FirstChoice, RoleFor, ExistingRoles
<1>5. QED
  BY <1>1, <1>2, <1>3, <1>4

\* activate_end_user, when it is called for a connection that is open and that
\* is either the default one or not switched: it does not raise without having
\* switched the session to the role of the current user.
LEMMA ActivateSound ==
  ASSUME NEW c, Sound(c), c.raised = "no", NEW db \in Databases,
         c.sess[db].txn # "closed",
         db = Default \/ c.sess[db].role = LoginRole
  PROVE  LET a == Activate(c, db) IN
         /\ Sound(a)
         /\ a.federated = c.federated
         /\ a.email \in {c.email, NoUser}
         /\ \A e \in Databases \ {db, Default} : a.sess[e] = c.sess[e]
         /\ a.sess[db].txn # "closed"
         /\ a.sess[Default].txn = "closed" <=> c.sess[Default].txn = "closed"
         /\ Default # db /\ a.raised = "no" /\ Usable(a.sess[Default]) =>
              a.sess[Default] = c.sess[Default] \/ a.sess[Default].role = LoginRole
         /\ a.raised = "no" /\ c.email # NoUser =>
              a.sess[db].role = RoleFor([user |-> c.email, federated |-> c.federated])
         /\ c.email = NoUser => a = c
<1> DEFINE clean == IF c.active[db] = NoRole THEN c ELSE Deactivate(c)
           want == FirstChoice(c.email, c.federated)
           first == SetRole(clean, db, want)
<1>1. /\ c \in Contexts /\ Default \in Databases
      /\ c.email \in Accounts \cup {ANONYMOUS, NoUser} /\ c.federated \in BOOLEAN
  BY DEF Sound, Contexts, Databases
<1>2. CASE c.email = NoUser
  BY <1>1, <1>2 DEF Activate
<1>3. CASE c.email # NoUser
  <2> USE <1>1, <1>3
  <2>1. /\ Sound(clean)
        /\ clean.federated = c.federated /\ clean.email \in {c.email, NoUser}
        /\ \A e \in Databases \ {Default} : clean.sess[e] = c.sess[e]
        /\ clean.sess[db].txn # "closed"
        /\ clean.sess[Default].txn = "closed" <=> c.sess[Default].txn = "closed"
        /\ clean.raised = "no" => clean.sess[db].role = LoginRole
        /\ clean.raised = "no" /\ Usable(clean.sess[Default]) =>
             clean.sess[Default] = c.sess[Default] \/ clean.sess[Default].role = LoginRole
    <3>1. CASE c.active[db] = NoRole
      BY <3>1 DEF Sound
    <3>2. CASE c.active[db] # NoRole
      BY <3>2, DeactivateSound DEF Usable
    <3>3. QED
      BY <3>1, <3>2
  <2>2. CASE clean.raised # "no"
    BY <2>1, <2>2 DEF Activate
  <2>3. CASE clean.raised = "no"
    <3>1. /\ want \in Roles
          /\ want \in ExistingRoles =>
               RoleFor([user |-> c.email, federated |-> c.federated]) = want
          /\ want \notin ExistingRoles /\ c.email \in Internal =>
               RoleFor([user |-> c.email, federated |-> c.federated]) = InternalRole
      BY RoleForChoice
    <3> HIDE DEF want, clean
    <3>2. /\ Sound(first)
          /\ first.email = clean.email /\ first.federated = clean.federated
          /\ \A e \in Databases \ {db} : first.sess[e] = clean.sess[e]
          /\ first.sess[db].txn # "closed"
          /\ first.raised = "no" => want \in ExistingRoles /\ first.sess[db].role = want
          /\ first.raised # "no" => first.sess[db].role = LoginRole
          /\ first.raised = "DataError" => want \notin ExistingRoles
      BY <2>1, <2>3, <3>1, SetRoleSound
    <3> HIDE DEF first
    <3>3. CASE first.raised # "DataError"
      <4>1. Activate(c, db) = first
        BY <2>3, <3>3 DEF Activate, first, clean, want
      <4>2. QED
        BY <2>1, <2>3, <3>1, <3>2, <3>3, <4>1
    <3>4. CASE first.raised = "DataError" /\ c.email \in Internal
      <4> DEFINE again == [first EXCEPT !.raised = "no"]
                 last == SetRole(again, db, InternalRole)
      <4>1. Activate(c, db) = last
        BY <2>3, <3>4 DEF Activate, Fallback, first, clean, want
      <4>2. /\ Sound(again) /\ again.raised = "no"
            /\ again.sess = first.sess /\ again.email = first.email
            /\ again.federated = first.federated /\ again.active = first.active
        BY <3>2 DEF Sound, Contexts
      <4> HIDE DEF again
      <4>3. /\ Sound(last)
            /\ last.email = again.email /\ last.federated = again.federated
            /\ \A e \in Databases \ {db} : last.sess[e] = again.sess[e]
            /\ last.sess[db].txn # "closed"
            /\ last.raised = "no" => last.sess[db].role = InternalRole
        BY <3>2, <3>4, <4>2, RoleFacts, SetRoleSound
      <4> HIDE DEF last
      <4>4. QED
        BY <2>1, <2>3, <3>1, <3>2, <3>4, <4>1, <4>2, <4>3
    <3>5. CASE first.raised = "DataError" /\ c.email \notin Internal
      <4>1. Activate(c, db) = [first EXCEPT !.raised = "PermissionError"]
        BY <2>3, <3>5 DEF Activate, Fallback, first, clean, want
      <4>2. LET p == [first EXCEPT !.raised = "PermissionError"] IN
            /\ Sound(p) /\ p.raised = "PermissionError" /\ p.sess = first.sess
            /\ p.email = first.email /\ p.federated = first.federated
        BY <3>2 DEF Sound, Contexts
      <4>3. QED
        BY <2>1, <2>3, <3>2, <4>1, <4>2
    <3>6. QED
      BY <3>3, <3>4, <3>5
  <2>4. QED
    BY <2>2, <2>3
<1>4. QED
  BY <1>2, <1>3

\* deactivate_end_user keeps the owner of the default connection's transaction.
LEMMA DeactivateOwned ==
  ASSUME NEW c, Sound(c), TransactionOwned(c), c.raised = "no"
  PROVE  LET d == Deactivate(c) IN
         /\ TransactionOwned(d)
         /\ d.raised = "no" /\ ~outer /\ d.sess[Default].txn # "closed" =>
              d.sess[Default].txn \in {"idle", "bad"}
<1> USE RoleFacts
<1>1. /\ c \in Contexts /\ Default \in Databases
      /\ c.sess[Default] \in Sessions
  BY DEF Sound, Contexts, Sessions, Databases
<1>2. CASE outer
  BY <1>1, <1>2 DEF TransactionOwned, Deactivate, Sound, Contexts, Sessions, EndTransaction
<1>3. CASE ~outer
  BY <1>1, <1>3 DEF TransactionOwned, Deactivate, Sound, Contexts, Sessions, EndTransaction,
                    TxnStates
<1>4. QED
  BY <1>2, <1>3

\* _set_role keeps the owner of the default connection's transaction.
LEMMA SetRoleOwned ==
  ASSUME NEW c, Sound(c), TransactionOwned(c), c.raised = "no",
         NEW db \in Databases, NEW role \in Roles,
         \/ db = Default /\ c.active[Default] = NoRole
         \/ db # Default /\ ~outer /\ c.sess[db].txn = "idle",
         c.sess[db].txn # "closed"
  PROVE  TransactionOwned(SetRole(c, db, role))
<1> USE RoleFacts
<1>1. /\ c \in Contexts /\ Default \in Databases
      /\ c.sess[db] \in Sessions /\ c.sess[Default] \in Sessions
      /\ c.original \in {NoRole, LoginRole}
  BY DEF Sound, Contexts, Sessions, Databases
<1>2. CASE db # Default
  BY <1>1, <1>2 DEF TransactionOwned, SetRole, SetRoleLive, EndTransaction, Contexts
<1>3. CASE db = Default /\ outer
  BY <1>1, <1>3 DEF TransactionOwned, SetRole, SetRoleLive, Sessions, Contexts
<1>4. CASE db = Default /\ ~outer
  BY <1>1, <1>4 DEF TransactionOwned, SetRole, SetRoleLive, SetRoleLost, EndTransaction,
                    Sessions, Contexts, TxnStates
<1>5. QED
  BY <1>2, <1>3, <1>4

\* activate_end_user keeps the owner of the default connection's transaction.
LEMMA ActivateOwned ==
  ASSUME NEW c, Sound(c), TransactionOwned(c), c.raised = "no", NEW db \in Databases,
         db = Default \/ (~outer /\ c.sess[db] = Fresh),
         c.sess[db].txn # "closed"
  PROVE  TransactionOwned(Activate(c, db))
<1> DEFINE clean == IF c.active[db] = NoRole THEN c ELSE Deactivate(c)
           want == FirstChoice(c.email, c.federated)
           first == SetRole(clean, db, want)
           again == [first EXCEPT !.raised = "no"]
           last == SetRole(again, db, InternalRole)
<1>1. /\ c \in Contexts /\ Default \in Databases
      /\ c.email \in Accounts \cup {ANONYMOUS, NoUser} /\ c.federated \in BOOLEAN
  BY DEF Sound, Contexts, Databases
<1>2. CASE c.email = NoUser
  BY <1>2 DEF Activate
<1>3. CASE c.email # NoUser
  <2>1. /\ Sound(clean) /\ TransactionOwned(clean)
        /\ clean.sess[db].txn # "closed"
        /\ clean.raised = "no" => clean.sess[db].role = LoginRole
        /\ db = Default /\ clean.raised = "no" => clean.active[Default] = NoRole
        /\ db # Default => clean.sess[db] = c.sess[db]
    <3>1. CASE c.active[db] = NoRole
      BY <1>1, <3>1 DEF Sound
    <3>2. CASE c.active[db] # NoRole
      BY <1>1, <3>2, DeactivateSound, DeactivateOwned DEF Fresh, Closed
    <3>3. QED
      BY <3>1, <3>2
  <2>2. want \in Roles
    BY <1>1, <1>3, RoleForChoice
  <2>3. CASE clean.raised # "no"
    BY <1>3, <2>1, <2>3 DEF Activate
  <2>4. CASE clean.raised = "no"
    <3> HIDE DEF clean, want
    <3>1. \/ db = Default /\ clean.active[Default] = NoRole
          \/ db # Default /\ ~outer /\ clean.sess[db].txn = "idle"
      BY <2>1, <2>4 DEF Fresh, Closed
    <3>2. /\ Sound(first) /\ TransactionOwned(first)
          /\ first.sess[db].txn # "closed"
          /\ first.raised # "no" =>
               /\ first.sess[db].role = LoginRole
               /\ first.active[db] = clean.active[db]
               /\ clean.sess[db].txn = "idle" /\ clean.original = NoRole =>
                    first.sess[db].txn = "idle"
      BY <2>1, <2>2, <2>4, <3>1, SetRoleSound, SetRoleOwned
    <3> HIDE DEF first
    <3>3. CASE first.raised # "DataError"
      BY <1>3, <2>4, <3>2, <3>3 DEF Activate, first, clean, want
    <3>4. CASE first.raised = "DataError" /\ c.email \notin Internal
      <4>1. Activate(c, db) = [first EXCEPT !.raised = "PermissionError"]
        BY <1>3, <2>4, <3>4 DEF Activate, Fallback, first, clean, want
      <4>2. LET p == [first EXCEPT !.raised = "PermissionError"] IN
            p.sess = first.sess /\ p.original = first.original /\ p.active = first.active
        BY <3>2 DEF Sound, Contexts
      <4>3. QED
        BY <3>2, <4>1, <4>2 DEF TransactionOwned
    <3>5. CASE first.raised = "DataError" /\ c.email \in Internal
      <4>1. Activate(c, db) = last
        BY <1>3, <2>4, <3>5 DEF Activate, Fallback, first, clean, want
      <4>2. /\ Sound(again) /\ again.raised = "no" /\ again.sess = first.sess
            /\ again.active = first.active /\ again.original = first.original
        BY <3>2 DEF Sound, Contexts
      <4> HIDE DEF again
      <4>3. TransactionOwned(again)
        BY <3>2, <4>2 DEF TransactionOwned
      <4>4. \/ db = Default /\ again.active[Default] = NoRole
            \/ db # Default /\ ~outer /\ again.sess[db].txn = "idle"
        BY <2>1, <3>1, <3>2, <3>5, <4>2 DEF TransactionOwned
      <4>5. QED
        BY <3>2, <4>1, <4>2, <4>3, <4>4, RoleFacts, SetRoleOwned
    <3>6. QED
      BY <3>3, <3>4, <3>5
  <2>5. QED
    BY <2>3, <2>4
<1>4. QED
  BY <1>2, <1>3

\* close_old_connections only closes sessions or clears errors_occurred.
LEMMA CloseOldSound ==
  ASSUME NEW c, Sound(c), TransactionOwned(c), c.raised = "no",
         replicas # {} => ~persistent,
         \A db \in Replicas \ replicas : c.sess[db].txn = "closed"
  PROVE  LET o == CloseOld(c) IN
         /\ Sound(o) /\ TransactionOwned(o)
         /\ o.raised = "no" /\ o.email = c.email /\ o.federated = c.federated
         /\ \A db \in Replicas : o.sess[db].txn = "closed"
         /\ outer => o.sess[Default].txn # "closed"
<1> USE RoleFacts
<1>1. /\ c \in Contexts /\ Default \in Databases /\ Replicas \subseteq Databases
      /\ Default \notin Replicas
      /\ \A db \in Databases : c.sess[db] \in Sessions
  BY DatabasesAssumption DEF Sound, Contexts, Sessions, Databases
<1> DEFINE left == [db \in Databases |->
                      IF Stays(c.sess[db], db) THEN [c.sess[db] EXCEPT !.err = FALSE]
                                                 ELSE Closed]
           o == CloseOld(c)
<1>2. /\ o = [c EXCEPT !.sess = left]
      /\ left \in [Databases -> Sessions]
  BY <1>1 DEF CloseOld, Sessions, Closed, TxnStates
<1>3. \A db \in Databases :
        \/ left[db] = Closed /\ ~(outer /\ db = Default)
        \/ /\ left[db] = [c.sess[db] EXCEPT !.err = FALSE]
           /\ persistent \/ (outer /\ db = Default)
  BY DEF Stays
<1> HIDE DEF left
<1>4. /\ o \in Contexts /\ o.raised = "no" /\ o.email = c.email
      /\ o.federated = c.federated /\ o.original = c.original
      /\ o.active = c.active /\ o.sess = left
  BY <1>1, <1>2 DEF Contexts, Sessions
<1> HIDE DEF o
<1>5. \A db \in Databases :
        \/ /\ o.sess[db].txn = "closed" /\ o.sess[db].role = LoginRole
           /\ ~(outer /\ db = Default)
        \/ /\ o.sess[db].txn = c.sess[db].txn /\ o.sess[db].role = c.sess[db].role
           /\ persistent \/ (outer /\ db = Default)
  <2> TAKE db \in Databases
  <2>1. CASE left[db] = Closed /\ ~(outer /\ db = Default)
    BY <1>4, <2>1 DEF Closed
  <2>2. CASE /\ left[db] = [c.sess[db] EXCEPT !.err = FALSE]
             /\ persistent \/ (outer /\ db = Default)
    BY <1>1, <1>4, <2>2 DEF Sessions
  <2>3. QED
    BY <1>3, <2>1, <2>2
<1>6. Sound(o)
  BY <1>1, <1>4, <1>5 DEF Sound
<1>7. TransactionOwned(o)
  BY <1>1, <1>4, <1>5 DEF TransactionOwned
<1>8. \A db \in Replicas : o.sess[db].txn = "closed"
  <2>1. CASE replicas = {}
    BY <1>1, <1>5, <2>1
  <2>2. CASE replicas # {}
    BY <1>1, <1>5, <2>2
  <2>3. QED
    BY <2>1, <2>2
<1>9. outer => o.sess[Default].txn # "closed"
  BY <1>7 DEF TransactionOwned
<1>10. QED
  BY <1>6, <1>7, <1>8, <1>9, <1>4 DEF o

\* set_end_user, called while no replica is connected, does not return without
\* having switched an open default connection to the role of the request.
LEMMA SetEndUserSound ==
  ASSUME NEW c, Sound(c), TransactionOwned(c), c.raised = "no", NEW req \in Requests
  PROVE  LET a == SetEndUser(c, req) IN
         /\ Sound(a) /\ TransactionOwned(a)
         /\ a.federated = req.federated /\ a.email \in {req.user, NoUser}
         /\ \A db \in Databases \ {Default} : a.sess[db] = c.sess[db]
         /\ a.sess[Default].txn = "closed" => a.email = req.user
         /\ a.raised = "no" /\ a.sess[Default].txn # "closed" =>
              a.sess[Default].role = RoleFor(req)
<1> DEFINE known == [c EXCEPT !.email = req.user, !.federated = req.federated]
<1>1. /\ c \in Contexts /\ Default \in Databases
      /\ req = [user |-> req.user, federated |-> req.federated]
      /\ req.user \in Accounts \cup {ANONYMOUS} /\ req.federated \in BOOLEAN
      /\ req.user # NoUser
  BY AccountsAssumption DEF Sound, Contexts, Databases, Requests
<1>2. /\ Sound(known) /\ TransactionOwned(known) /\ known.raised = "no"
      /\ known.email = req.user /\ known.federated = req.federated
      /\ known.sess = c.sess
  BY <1>1 DEF Sound, Contexts, TransactionOwned
<1>3. CASE c.sess[Default].txn = "closed"
  <2>1. SetEndUser(c, req) = known
    BY <1>3 DEF SetEndUser
  <2> HIDE DEF known
  <2>2. QED
    BY <1>1, <1>2, <1>3, <2>1
<1>4. CASE c.sess[Default].txn # "closed"
  <2>1. SetEndUser(c, req) = Activate(known, Default)
    BY <1>4 DEF SetEndUser
  <2> HIDE DEF known
  <2>2. QED
    BY <1>1, <1>2, <1>4, <2>1, ActivateSound, ActivateOwned
<1>5. QED
  BY <1>3, <1>4

LEMMA InitInv == Init => IInv
<1> SUFFICES ASSUME Init PROVE IInv
  OBVIOUS
<1> USE RoleFacts DEF Init
<1>1. /\ ctx \in Contexts /\ request \in Requests
  BY DEF Contexts, Requests, Closed, Fresh, TxnStates
<1>2. Sound(ctx)
  BY <1>1 DEF Sound, Closed, Fresh
<1>3. TransactionOwned(ctx)
  BY DEF TransactionOwned, Databases, Closed, Fresh
<1>4. DeploymentInv /\ PhaseInv
  BY DatabasesAssumption DEF DeploymentInv, PhaseInv, Databases, Closed, Fresh, Working
<1>5. QED
  BY <1>1, <1>2, <1>3, <1>4
  DEF IInv, TypeOK, Phases, NoForeignRole, SwitchedOnDefault, LateConnectionsSwitched,
      ResetOnCompletion, Working

\* Clearing the record of an earlier exception changes nothing else.
LEMMA ClearedSound ==
  ASSUME NEW c, Sound(c), TransactionOwned(c)
  PROVE  LET d == [c EXCEPT !.raised = "no"] IN
         /\ Sound(d) /\ TransactionOwned(d)
         /\ d.raised = "no" /\ d.sess = c.sess /\ d.email = c.email
         /\ d.federated = c.federated
BY DEF Sound, Contexts, TransactionOwned

\* The state after AuthMiddleware or the warm-up request has set the end user.
LEMMA EnteredInv ==
  ASSUME NEW c, Sound(c), TransactionOwned(c), c.raised = "no",
         \A db \in Replicas : c.sess[db].txn = "closed",
         IInv, UNCHANGED deployment, request' \in Requests,
         ctx' = SetEndUser(c, request'),
         phase' \in Phases \ {"boot", "started", "idle"},
         Working' => ctx'.raised = "no"
  PROVE  IInv'
<1>1. /\ Sound(ctx') /\ TransactionOwned(ctx')
      /\ ctx'.federated = request'.federated /\ ctx'.email \in {request'.user, NoUser}
      /\ \A db \in Databases \ {Default} : ctx'.sess[db] = c.sess[db]
      /\ ctx'.sess[Default].txn = "closed" => ctx'.email = request'.user
      /\ ctx'.raised = "no" /\ ctx'.sess[Default].txn # "closed" =>
           ctx'.sess[Default].role = RoleFor(request')
  BY SetEndUserSound
<1>2. \A db \in Replicas : ctx'.sess[db].txn = "closed"
  BY <1>1, DatabasesAssumption DEF Databases
<1>3. Sound(ctx)' /\ TransactionOwned(ctx)'
  BY <1>1 DEF deployment, Sound, Contexts, TransactionOwned
<1>4. TypeOK'
  BY <1>1 DEF IInv, TypeOK, deployment, Sound
<1>5. DeploymentInv' /\ PhaseInv'
  BY <1>1, <1>2 DEF IInv, DeploymentInv, PhaseInv, deployment, Phases, Working
<1>6. NoForeignRole' /\ SwitchedOnDefault' /\ ResetOnCompletion'
  BY <1>1, <1>2 DEF NoForeignRole, SwitchedOnDefault, LateConnectionsSwitched,
                    ResetOnCompletion, Databases, Usable, Phases
<1>7. QED
  BY <1>3, <1>4, <1>5, <1>6 DEF IInv

\* No step that leaves the context alone, and enters neither the start of a
\* request nor its end, breaks the invariant.
LEMMA SameContextInv ==
  ASSUME IInv, UNCHANGED <<ctx, request, deployment>>,
         phase' \in Phases \ {"boot", "started", "idle"}, Working' => Working
  PROVE  IInv'
BY DEF IInv, TypeOK, Sound, TransactionOwned, DeploymentInv, PhaseInv, NoForeignRole,
       SwitchedOnDefault, LateConnectionsSwitched, ResetOnCompletion, Working, deployment,
       Phases, Contexts

LEMMA NextInv == IInv /\ [Next]_vars => IInv'
<1> SUFFICES ASSUME IInv, [Next]_vars PROVE IInv'
  OBVIOUS
<1>1. /\ Sound(ctx) /\ TransactionOwned(ctx) /\ TypeOK /\ DeploymentInv /\ PhaseInv
      /\ ctx \in Contexts /\ Default \in Databases /\ Replicas \subseteq Databases
      /\ Default \notin Replicas
      /\ \A db \in Databases : ctx.sess[db] \in Sessions
  BY DatabasesAssumption DEF IInv, Sound, Contexts, Sessions, Databases
<1> DEFINE cleared == [ctx EXCEPT !.raised = "no"]
<1>2. /\ Sound(cleared) /\ TransactionOwned(cleared) /\ cleared.raised = "no"
      /\ cleared.sess = ctx.sess /\ cleared.email = ctx.email
      /\ cleared.federated = ctx.federated
  BY <1>1, ClearedSound
<1> HIDE DEF cleared
<1>3. CASE WarmUp
  <2>1. ctx.raised = "no"
    BY <1>1, <1>3 DEF WarmUp, PhaseInv
  <2>2. /\ Sound(CloseOld(ctx)) /\ TransactionOwned(CloseOld(ctx))
        /\ CloseOld(ctx).raised = "no"
        /\ \A db \in Replicas : CloseOld(ctx).sess[db].txn = "closed"
    BY <1>1, <2>1, CloseOldSound DEF DeploymentInv
  <2>3. /\ UNCHANGED deployment /\ request' \in Requests
        /\ ctx' = SetEndUser(CloseOld(ctx), request')
        /\ phase' \in Phases \ {"boot", "started", "idle"}
        /\ Working' => ctx'.raised = "no"
    BY <1>3 DEF WarmUp, Requests, Phases, Working
  <2>4. QED
    BY <2>2, <2>3, EnteredInv
<1>4. CASE EndWarmUp
  BY <1>4, SameContextInv DEF EndWarmUp, Phases, Working
<1>5. CASE StartRequest
  <2>1. ctx' = CloseOld(cleared) /\ phase' = "started" /\ UNCHANGED <<request, deployment>>
    BY <1>5 DEF StartRequest, cleared
  <2>2. /\ Sound(ctx') /\ TransactionOwned(ctx') /\ ctx'.raised = "no"
        /\ \A db \in Replicas : ctx'.sess[db].txn = "closed"
    BY <1>1, <1>2, <2>1, CloseOldSound DEF DeploymentInv
  <2>3. Sound(ctx)' /\ TransactionOwned(ctx)' /\ TypeOK'
    BY <1>1, <2>1, <2>2 DEF Sound, TransactionOwned, deployment, Contexts, TypeOK, Phases
  <2>4. QED
    BY <1>1, <2>1, <2>2, <2>3
    DEF IInv, DeploymentInv, PhaseInv, NoForeignRole, SwitchedOnDefault,
        LateConnectionsSwitched, ResetOnCompletion, Working, deployment
<1>6. CASE RejectToken
  BY <1>6, SameContextInv DEF RejectToken, Phases, Working
<1>7. ASSUME NEW req \in Requests, Authenticate(req)
      PROVE  IInv'
  <2>1. /\ ctx.raised = "no"
        /\ \A db \in Replicas : ctx.sess[db].txn = "closed"
    BY <1>1, <1>7 DEF Authenticate, PhaseInv
  <2>2. /\ UNCHANGED deployment /\ request' \in Requests
        /\ ctx' = SetEndUser(ctx, request')
        /\ phase' \in Phases \ {"boot", "started", "idle"}
        /\ Working' => ctx'.raised = "no"
    BY <1>7 DEF Authenticate, Phases, Working
  <2>3. QED
    BY <1>1, <2>1, <2>2, EnteredInv
<1>8. ASSUME NEW db \in Databases, Connect(db)
      PROVE  IInv'
  <2> DEFINE opened == [ctx EXCEPT !.sess[db] = Fresh]
  <2>1. /\ phase = "boot" \/ Working
        /\ db \in {Default} \cup replicas /\ ctx.sess[db].txn = "closed"
        /\ ctx' = Activate(opened, db) /\ UNCHANGED <<request, deployment>>
        /\ phase' = IF ctx'.raised = "no" THEN phase ELSE Failed
    BY <1>8 DEF Connect
  <2>2. ctx.raised = "no" /\ (db # Default => ~outer)
    BY <1>1, <2>1 DEF PhaseInv, DeploymentInv
  <2>3. /\ opened \in Contexts /\ opened.raised = "no"
        /\ opened.email = ctx.email /\ opened.federated = ctx.federated
        /\ opened.sess[db] = Fresh /\ opened.active = ctx.active
        /\ opened.original = ctx.original
        /\ \A e \in Databases \ {db} : opened.sess[e] = ctx.sess[e]
    BY <1>1, <2>2, RoleFacts DEF Contexts, Sessions, Fresh, Closed, TxnStates
  <2> HIDE DEF opened
  <2>4. Sound(opened)
    BY <1>1, <2>3 DEF Sound, Fresh, Closed
  <2>5. TransactionOwned(opened)
    BY <1>1, <2>1, <2>3 DEF TransactionOwned, Fresh, Closed
  <2>6. /\ opened.sess[db].txn # "closed" /\ opened.sess[db].role = LoginRole
    BY <2>3 DEF Fresh, Closed
  <2>7. /\ Sound(ctx')
        /\ ctx'.federated = ctx.federated
        /\ ctx'.email \in {ctx.email, NoUser}
        /\ \A e \in Databases \ {db, Default} : ctx'.sess[e] = ctx.sess[e]
        /\ ctx'.sess[db].txn # "closed"
        /\ Default # db => (ctx'.sess[Default].txn = "closed" <=> ctx.sess[Default].txn = "closed")
        /\ Default # db /\ ctx'.raised = "no" /\ Usable(ctx'.sess[Default]) =>
             ctx'.sess[Default] = ctx.sess[Default] \/ ctx'.sess[Default].role = LoginRole
        /\ ctx'.raised = "no" /\ ctx.email # NoUser =>
             ctx'.sess[db].role = RoleFor([user |-> ctx.email, federated |-> ctx.federated])
        /\ ctx.email = NoUser => ctx'.raised = "no" /\ ctx'.sess[db].role = LoginRole
    BY <1>1, <2>1, <2>3, <2>4, <2>6, ActivateSound
  <2>8. TransactionOwned(ctx')
    BY <1>1, <2>1, <2>2, <2>3, <2>4, <2>5, <2>6, ActivateOwned
  <2>9. Sound(ctx)' /\ TransactionOwned(ctx)'
    BY <2>1, <2>7, <2>8 DEF deployment, Sound, Contexts, TransactionOwned
  <2>10. phase' \in Phases \ {"started", "idle"} /\ (phase' = "boot" => phase = "boot")
         /\ (phase' = "boot" \/ Working' => ctx'.raised = "no" /\ (Working' => Working))
    BY <2>1 DEF Failed, Phases, Working
  <2>11. TypeOK' /\ DeploymentInv'
    BY <1>1, <2>1, <2>7, <2>10 DEF TypeOK, DeploymentInv, deployment, Sound
  <2>12. Working => request = [user |-> request.user, federated |-> ctx.federated]
    BY <1>1 DEF TypeOK, PhaseInv, Requests
  <2>13. PhaseInv'
    BY <1>1, <2>1, <2>7, <2>10 DEF PhaseInv, deployment
  <2>14. NoForeignRole'
    <3> SUFFICES ASSUME Working', NEW e \in Databases, Usable(ctx'.sess[e])
                 PROVE  ctx'.sess[e].role \in {LoginRole, RoleFor(request)}
      BY <2>1 DEF NoForeignRole
    <3>1. CASE e = db
      BY <1>1, <2>1, <2>7, <2>10, <2>12, <3>1 DEF PhaseInv
    <3>2. CASE e = Default /\ e # db
      BY <1>1, <2>7, <2>10, <3>2 DEF IInv, NoForeignRole
    <3>3. CASE e \notin {Default, db}
      BY <1>1, <2>7, <2>10, <3>3 DEF IInv, NoForeignRole
    <3>4. QED
      BY <3>1, <3>2, <3>3
  <2>15. SwitchedOnDefault'
    <3> SUFFICES ASSUME replicas = {}, Working', NEW e \in Databases, Usable(ctx'.sess[e])
                 PROVE  ctx'.sess[e].role = RoleFor(request)
      BY <2>1 DEF SwitchedOnDefault, LateConnectionsSwitched, deployment
    <3>1. db = Default /\ (e # Default => ctx'.sess[e].txn = "closed")
      BY <1>1, <2>1, <2>11 DEF DeploymentInv, deployment, Databases
    <3>2. ctx.email = request.user /\ ctx.email # NoUser
      BY <1>1, <2>1, <2>10, <3>1, AccountsAssumption DEF PhaseInv, TypeOK, Requests
    <3>3. QED
      BY <2>7, <2>10, <2>12, <3>1, <3>2 DEF Usable
  <2>16. ResetOnCompletion'
    BY <2>10 DEF ResetOnCompletion
  <2>17. QED
    BY <2>9, <2>11, <2>13, <2>14, <2>15, <2>16 DEF IInv
<1>9. ASSUME NEW db \in Databases, QueryFails(db)
      PROVE  IInv'
  <2>1. /\ ~outer /\ ctx.sess[db].txn # "closed" /\ UNCHANGED <<request, deployment>>
        /\ phase' \in {"crashed", "broken", "failing"}
    BY <1>9 DEF QueryFails, Failed
  <2>2. /\ ctx' \in Contexts /\ ctx'.active = ctx.active /\ ctx'.original = ctx.original
        /\ \A e \in Databases :
             /\ ctx'.sess[e].role = ctx.sess[e].role
             /\ \/ ctx'.sess[e].txn = ctx.sess[e].txn
                \/ ctx.sess[e].txn = "intrans" /\ ctx'.sess[e].txn = "inerror"
    <3>1. PICK err \in BOOLEAN : ctx' = [ctx EXCEPT !.sess[db] = Refused(@, err)]
      BY <1>9 DEF QueryFails
    <3> DEFINE r == Refused(ctx.sess[db], err)
    <3>2. /\ r \in Sessions /\ r.role = ctx.sess[db].role
          /\ \/ r.txn = ctx.sess[db].txn
             \/ ctx.sess[db].txn = "intrans" /\ r.txn = "inerror"
      BY <1>1 DEF Refused, Sessions, TxnStates
    <3>3. ctx' = [ctx EXCEPT !.sess[db] = r]
      BY <3>1
    <3> HIDE DEF r
    <3>4. QED
      BY <1>1, <3>2, <3>3 DEF Contexts, Sessions
  <2>3. Sound(ctx)' /\ TransactionOwned(ctx)' /\ TypeOK'
    BY <1>1, <2>1, <2>2 DEF Sound, TransactionOwned, deployment, Contexts, TypeOK, Phases
  <2>4. QED
    BY <1>1, <2>1, <2>2, <2>3
    DEF IInv, DeploymentInv, PhaseInv, NoForeignRole, SwitchedOnDefault,
        LateConnectionsSwitched, ResetOnCompletion, Working, deployment
<1>10. ASSUME NEW db \in Databases, LoseConnection(db)
       PROVE  IInv'
  <2>1. /\ ~outer /\ ctx.sess[db].txn # "closed" /\ UNCHANGED <<phase, request, deployment>>
    BY <1>10 DEF LoseConnection
  <2>2. /\ ctx' \in Contexts /\ ctx'.active = ctx.active /\ ctx'.original = ctx.original
        /\ ctx'.email = ctx.email /\ ctx'.federated = ctx.federated
        /\ ctx'.raised = ctx.raised
        /\ \A e \in Databases :
             /\ ctx'.sess[e].role = ctx.sess[e].role
             /\ \/ ctx'.sess[e].txn = ctx.sess[e].txn
                \/ ctx.sess[e].txn # "closed" /\ ctx'.sess[e].txn = "bad"
    BY <1>1, <1>10 DEF LoseConnection, Contexts, Sessions, TxnStates
  <2>3. Sound(ctx)' /\ TransactionOwned(ctx)' /\ TypeOK'
    BY <1>1, <2>1, <2>2 DEF Sound, TransactionOwned, deployment, Contexts, TypeOK, Phases
  <2>4. DeploymentInv' /\ PhaseInv'
    BY <1>1, <2>1, <2>2 DEF DeploymentInv, PhaseInv, Working, deployment
  <2>5. NoForeignRole' /\ SwitchedOnDefault' /\ ResetOnCompletion'
    BY <2>1, <2>2 DEF IInv, NoForeignRole, SwitchedOnDefault, LateConnectionsSwitched,
                      ResetOnCompletion, Working, deployment, Usable
  <2>6. QED
    BY <2>3, <2>4, <2>5 DEF IInv
<1>11. CASE StartStreaming
  BY <1>11, SameContextInv DEF StartStreaming, Phases, Working
<1>12. CASE RequestException
  <2>1. /\ ctx' = Deactivate(cleared) /\ UNCHANGED <<request, deployment>>
        /\ phase' \in {"responded", "dropped"}
    BY <1>12 DEF RequestException, cleared
  <2>2. /\ Sound(ctx') /\ TransactionOwned(ctx')
        /\ \A db \in Replicas : ctx'.sess[db] = ctx.sess[db]
    BY <1>1, <1>2, <2>1, DeactivateSound, DeactivateOwned
  <2>3. Sound(ctx)' /\ TransactionOwned(ctx)' /\ TypeOK'
    BY <1>1, <2>1, <2>2 DEF Sound, TransactionOwned, deployment, Contexts, TypeOK, Phases
  <2>4. QED
    BY <1>1, <2>1, <2>2, <2>3
    DEF IInv, DeploymentInv, PhaseInv, NoForeignRole, SwitchedOnDefault,
        LateConnectionsSwitched, ResetOnCompletion, Working, deployment
<1>13. CASE FinishRequest
  <2> DEFINE closed == CloseOld(cleared)
  <2>1. /\ ctx' = Deactivate(closed) /\ phase' = "idle" /\ UNCHANGED <<request, deployment>>
    BY <1>13 DEF FinishRequest, cleared
  <2>2. /\ Sound(closed) /\ TransactionOwned(closed) /\ closed.raised = "no"
        /\ \A db \in Replicas : closed.sess[db].txn = "closed"
    BY <1>1, <1>2, CloseOldSound DEF DeploymentInv
  <2> HIDE DEF closed
  <2>3. /\ Sound(ctx') /\ TransactionOwned(ctx')
        /\ \A db \in Replicas : ctx'.sess[db].txn = "closed"
        /\ ctx'.raised = "no" /\ ctx'.sess[Default].txn # "closed" =>
             ctx'.sess[Default].role = LoginRole
        /\ ctx'.raised # "no" => ~Usable(ctx'.sess[Default])
        /\ ctx'.raised = "no" /\ ~outer /\ ctx'.sess[Default].txn # "closed" =>
             ctx'.sess[Default].txn \in {"idle", "bad"}
    BY <1>1, <2>1, <2>2, DeactivateSound, DeactivateOwned
  <2>4. Sound(ctx)' /\ TransactionOwned(ctx)' /\ TypeOK'
    BY <1>1, <2>1, <2>3 DEF Sound, TransactionOwned, deployment, Contexts, TypeOK, Phases
  <2>5. ResetOnCompletion'
    BY <2>1, <2>3 DEF ResetOnCompletion, TransactionOwned, Usable, Databases, deployment
  <2>6. QED
    BY <1>1, <2>1, <2>3, <2>4, <2>5
    DEF IInv, DeploymentInv, PhaseInv, NoForeignRole, SwitchedOnDefault,
        LateConnectionsSwitched, Working, deployment
<1>14. CASE UNCHANGED vars
  BY <1>14
  DEF vars, deployment, IInv, TypeOK, Sound, TransactionOwned, DeploymentInv, PhaseInv,
      NoForeignRole, SwitchedOnDefault, LateConnectionsSwitched, ResetOnCompletion, Working,
      Contexts
<1>15. QED
  BY <1>3, <1>4, <1>5, <1>6, <1>7, <1>8, <1>9, <1>10, <1>11, <1>12, <1>13, <1>14 DEF Next

LEMMA SpecInv == Spec => []IInv
<1>1. QED
  BY InitInv, NextInv, PTL DEF Spec

\* Type correctness of the whole state.
THEOREM TypeCorrect == Spec => []TypeOK
<1>1. IInv => TypeOK
  BY DEF IInv
<1>2. QED
  BY <1>1, SpecInv, PTL

\* Whatever the accounts, the replicas and the failures, no session of a request
\* being served has the role of another end user (activate_end_user,
\* deactivate_end_user and the order in which Django calls them).
THEOREM NoForeignRoleHolds == Spec => []NoForeignRole
<1>1. IInv => NoForeignRole
  BY DEF IInv
<1>2. QED
  BY <1>1, SpecInv, PTL

\* Without replicas every live connection of a request being served has the role
\* of its end user, also one that is opened late (_connection_created).
THEOREM SwitchedOnDefaultHolds == Spec => []SwitchedOnDefault
<1>1. IInv => SwitchedOnDefault
  BY DEF IInv
<1>2. QED
  BY <1>1, SpecInv, PTL

\* The connections left after request_finished are reset (_request_finished).
THEOREM ResetOnCompletionHolds == Spec => []ResetOnCompletion
<1>1. IInv => ResetOnCompletion
  BY DEF IInv
<1>2. QED
  BY <1>1, SpecInv, PTL

\* A switched role never outlives its transaction (_set_role).
THEOREM RoleOnlyInTransactionHolds == Spec => []RoleOnlyInTransaction
<1>1. IInv => RoleOnlyInTransaction
  BY DEF IInv, Sound, RoleOnlyInTransaction
<1>2. QED
  BY <1>1, SpecInv, PTL

\* A transaction opened by the caller of a request is neither committed nor
\* rolled back by dbroles.py.
THEOREM CallersTransactionHolds == Spec => []CallersTransactionKept
<1>1. IInv => CallersTransactionKept
  BY DEF IInv, TransactionOwned, CallersTransactionKept
<1>2. QED
  BY <1>1, SpecInv, PTL
=============================================================================
