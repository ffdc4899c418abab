---------------------------- MODULE Accounts_proofs ----------------------------
(***************************************************************************)
(* Proofs about what administrators edit, for any number of them and any      *)
(* bounds.  Accounts: its type invariant, that setup happens once, that an     *)
(* SSO token gives one session, that failed logins stay near their limit, and   *)
(* that somebody active keeps MANAGE_SECURITY as long as no two threads edit    *)
(* users, and no two edit roles.  CatalogRegistry: that catalogs connect with    *)
(* the passwords they were given.  AccessRules: that the rules a node is given    *)
(* limit users to what policies and tags say, as they were written.           *)
(***************************************************************************)
EXTENDS Accounts, AccessRules, CatalogRegistry, FiniteSetTheorems, WellFoundedInduction, TLAPS

\* A thread that moves on holds what it should at its new place.
LEMMA HoldType ==
  ASSUME TypeOK, NEW t \in Threads, NEW p \in Pcs, NEW r \in Requests(p), Hold(t, p, r)
  PROVE  /\ pc' \in [Threads -> Pcs] /\ DOMAIN req' = Threads
         /\ \A u \in Threads : req'[u] \in Requests(pc'[u])
BY DEF TypeOK, Hold

\* A handler that returns holds nothing.
LEMMA ReturnType ==
  ASSUME TypeOK, NEW t \in Threads, Return(t)
  PROVE  /\ pc' \in [Threads -> Pcs] /\ DOMAIN req' = Threads
         /\ \A u \in Threads : req'[u] \in Requests(pc'[u])
<1>1. "idle" \in Pcs /\ NoRequest \in Requests("idle")
  BY DEF Pcs, Requests
<1> QED BY <1>1, HoldType DEF Return

\* Requests at each place.
LEMMA RequestsAt ==
  /\ Requests("setup") = Users
  /\ Requests("user_write") = UserEdits
  /\ Requests("role_write") = RoleEdits
  /\ Requests("sso_read") = States
  /\ Requests("sso_write") = SignIns
  /\ Requests("verify") = Logins /\ Requests("record") = Logins
  /\ Requests("clear") = Logins /\ Requests("session") = Logins
BY DEF Requests

\* The admin role is a role, and a list of grants is a non-empty set of them.
LEMMA RoleFacts ==
  /\ Admin \in Roles /\ \A roles \in Grants : roles \in SUBSET Roles /\ roles # {}
BY RolesAssumption DEF Roles

LEMMA NewAccountType ==
  ASSUME NEW roles \in SUBSET Roles, NEW n \in Nat
  PROVE  NewAccount(roles, n) \in Account
BY DEF NewAccount, Account

LEMMA WithRolesType ==
  ASSUME NEW a \in Account, NEW roles \in SUBSET Roles
  PROVE  WithRoles(a, roles) \in Account
<1> DEFINE b == Admin \in roles
<1>1. b \in BOOLEAN
  OBVIOUS
<1> HIDE DEF b
<1>2. [a EXCEPT !.roles = roles, !.legacy = b] \in Account
  BY <1>1 DEF Account
<1> QED BY <1>2 DEF WithRoles, b

\* An edit of a user that exists leaves an account.
LEMMA EditedType ==
  ASSUME TypeOK, NEW e \in UserEdits, account[e.user] # NoAccount
  PROVE  Edited(e) \in [Users -> Account \union {NoAccount}]
<1> DEFINE a == [account[e.user] EXCEPT !.active = e.active,
                                        !.password = IF e.reset THEN @ + 1 ELSE @]
<1>1. e.user \in Users /\ account[e.user] \in Account /\ e.roles \in SUBSET Roles
  BY DEF TypeOK, UserEdits
<1>2. a \in Account
  <2> DEFINE n == IF e.reset THEN account[e.user].password + 1 ELSE account[e.user].password
  <2>1. n \in Nat /\ e.active \in BOOLEAN
    BY <1>1 DEF Account, UserEdits
  <2>2. a = [account[e.user] EXCEPT !.active = e.active, !.password = n]
    BY <1>1 DEF Account
  <2> HIDE DEF n, a
  <2> QED BY <1>1, <2>1, <2>2 DEF Account
<1>3. (IF e.roles = {} THEN a ELSE WithRoles(a, e.roles)) \in Account
  BY <1>1, <1>2, WithRolesType
<1> HIDE DEF a
<1>4. Edited(e) = [account EXCEPT ![e.user] = IF e.roles = {} THEN a ELSE WithRoles(a, e.roles)]
  BY DEF Edited, a
<1> QED BY <1>1, <1>3, <1>4 DEF TypeOK

\* A user being edited exists: accounts are never removed.
EditsExist == \A t \in Threads : pc[t] = "user_write" => account[req[t].user] # NoAccount

Typing == TypeOK /\ EditsExist

LEMMA SetupType ==
  ASSUME Typing, NEW t \in Threads, SetupRead(t) \/ SetupWrite(t)
  PROVE  TypeOK'
<1> USE DEF Typing, rows, sso
<1>1. CASE SetupRead(t)
  <2>1. PICK u \in Users : Hold(t, "setup", u)
    BY <1>1 DEF SetupRead
  <2>2. "setup" \in Pcs /\ u \in Requests("setup")
    BY <2>1, RequestsAt DEF Pcs
  <2> QED BY <1>1, <2>1, <2>2, HoldType DEF SetupRead, TypeOK
<1>2. CASE SetupWrite(t)
  <2>1. req[t] \in Users
    BY <1>2, RequestsAt DEF SetupWrite, TypeOK
  <2>2. NewAccount({Admin}, 1) \in Account
    BY RoleFacts, NewAccountType
  <2>3. /\ setups' \in Nat /\ account' \in [Users -> Account \union {NoAccount}]
        /\ sessions' \subseteq Users \X Nat
    BY <1>2, <2>1, <2>2 DEF SetupWrite, TypeOK
  <2> QED BY <1>2, <2>3, ReturnType DEF SetupWrite, TypeOK
<1> QED BY <1>1, <1>2

LEMMA UserType ==
  ASSUME Typing, NEW t \in Threads, CreateUser(t) \/ UserRead(t) \/ UserWrite(t)
  PROVE  TypeOK'
<1> USE DEF Typing, rows, sso
<1>1. CASE CreateUser(t)
  <2>1. PICK u \in Users, roles \in Grants, password \in {0, 1} :
          account' = [account EXCEPT ![u] = NewAccount(roles, password)]
    BY <1>1 DEF CreateUser
  <2>2. NewAccount(roles, password) \in Account
    BY <2>1, RoleFacts, NewAccountType
  <2> QED BY <1>1, <2>1, <2>2 DEF CreateUser, TypeOK
<1>2. CASE UserRead(t)
  <2>1. PICK u \in Users, active \in BOOLEAN, reset \in BOOLEAN, roles \in Grants \union {{}} :
          /\ account[u] # NoAccount
          /\ reset => account[u].password < MaxPassword
          /\ roles # {} => roles # account[u].roles
          /\ Hold(t, "user_write",
               [user |-> u, active |-> active, roles |-> roles, reset |-> reset,
                guarded |-> roles # {} \/ active # account[u].active])
    BY <1>2 DEF UserRead
  <2> DEFINE g == roles # {} \/ active # account[u].active
  <2>2. g \in BOOLEAN /\ roles \in SUBSET Roles
    BY RoleFacts
  <2> HIDE DEF g
  <2>3. "user_write" \in Pcs
        /\ [user |-> u, active |-> active, roles |-> roles, reset |-> reset, guarded |-> g]
             \in Requests("user_write")
    BY <2>2, RequestsAt DEF Pcs, UserEdits
  <2>4. Hold(t, "user_write",
          [user |-> u, active |-> active, roles |-> roles, reset |-> reset, guarded |-> g])
    BY <2>1 DEF g
  <2> QED BY <1>2, <2>3, <2>4, HoldType DEF UserRead, TypeOK
<1>3. CASE UserWrite(t)
  <2>1. req[t] \in UserEdits /\ account[req[t].user] # NoAccount
    BY <1>3, RequestsAt DEF UserWrite, TypeOK, EditsExist
  <2>2. Edited(req[t]) \in [Users -> Account \union {NoAccount}]
    BY <2>1, EditedType
  <2>3. /\ account' \in [Users -> Account \union {NoAccount}]
        /\ sessions' \subseteq Users \X Nat
    BY <1>3, <2>2 DEF UserWrite, TypeOK
  <2> QED BY <1>3, <2>3, ReturnType DEF UserWrite, TypeOK
<1> QED BY <1>1, <1>2, <1>3

LEMMA RoleType ==
  ASSUME Typing, NEW t \in Threads, CreateRole(t) \/ RoleRead(t) \/ RoleWrite(t) \/ DeleteRole(t)
  PROVE  TypeOK'
<1> USE DEF Typing, rows, sso
<1>1. CASE CreateRole(t)
  BY <1>1 DEF CreateRole, TypeOK
<1>2. CASE RoleRead(t)
  <2>1. PICK r \in Roles, security \in BOOLEAN :
          Hold(t, "role_write", [role |-> r, security |-> security,
                                 guarded |-> security # (role[r] = "security")])
    BY <1>2 DEF RoleRead
  <2> DEFINE g == security # (role[r] = "security")
  <2>2. g \in BOOLEAN
    OBVIOUS
  <2> HIDE DEF g
  <2>3. "role_write" \in Pcs
        /\ [role |-> r, security |-> security, guarded |-> g] \in Requests("role_write")
    BY <2>2, RequestsAt DEF Pcs, RoleEdits
  <2>4. Hold(t, "role_write", [role |-> r, security |-> security, guarded |-> g])
    BY <2>1 DEF g
  <2> QED BY <1>2, <2>3, <2>4, HoldType DEF RoleRead, TypeOK
<1>3. CASE RoleWrite(t)
  <2>1. req[t] \in RoleEdits
    BY <1>3, RequestsAt DEF RoleWrite, TypeOK
  <2>2. role' \in [Roles -> {"new", "plain", "security", "deleted"}]
    BY <1>3, <2>1 DEF RoleWrite, TypeOK, RoleEdits
  <2> QED BY <1>3, <2>2, ReturnType DEF RoleWrite, TypeOK
<1>4. CASE DeleteRole(t)
  <2>1. PICK r \in CustomRoles :
          /\ account' = [u \in Users |-> IF account[u] = NoAccount THEN NoAccount
                                         ELSE [account[u] EXCEPT !.roles = @ \ {r}]]
          /\ role' = [role EXCEPT ![r] = "deleted"]
    BY <1>4 DEF DeleteRole
  <2>2. ASSUME NEW u \in Users
        PROVE  account'[u] \in Account \union {NoAccount}
    BY <2>1 DEF TypeOK, Account
  <2>3. account' \in [Users -> Account \union {NoAccount}]
    BY <2>1, <2>2
  <2>4. role' \in [Roles -> {"new", "plain", "security", "deleted"}]
    BY <2>1 DEF TypeOK
  <2> QED BY <1>4, <2>3, <2>4 DEF DeleteRole, TypeOK
<1> QED BY <1>1, <1>2, <1>3, <1>4

LEMMA SsoType ==
  ASSUME Typing, NEW t \in Threads, SsoTake(t) \/ SsoRead(t) \/ SsoWrite(t)
  PROVE  TypeOK'
<1> USE DEF Typing, rows, sso
<1>1. CASE SsoTake(t)
  <2>1. PICK s \in pending : pending' = pending \ {s} /\ Hold(t, "sso_read", s)
    BY <1>1 DEF SsoTake
  <2>2. "sso_read" \in Pcs /\ s \in Requests("sso_read")
    BY <2>1, RequestsAt DEF Pcs, TypeOK
  <2> QED BY <1>1, <2>1, <2>2, HoldType DEF SsoTake, TypeOK
<1>2. CASE SsoRead(t)
  <2>1. CASE Return(t)
    BY <1>2, <2>1, ReturnType DEF SsoRead, TypeOK
  <2>2. CASE ~Return(t)
    <3>1. PICK u \in Users, roles \in Grants :
            Hold(t, "sso_write", [state |-> req[t], user |-> u, roles |-> roles,
                                  new |-> account[u] = NoAccount])
      BY <1>2, <2>2 DEF SsoRead
    <3> DEFINE n == account[u] = NoAccount
    <3>2. n \in BOOLEAN /\ roles \in SUBSET Roles /\ req[t] \in States
      BY <1>2, RoleFacts, RequestsAt DEF SsoRead, TypeOK
    <3> HIDE DEF n
    <3>3. "sso_write" \in Pcs
          /\ [state |-> req[t], user |-> u, roles |-> roles, new |-> n]
               \in Requests("sso_write")
      BY <3>2, RequestsAt DEF Pcs, SignIns
    <3>4. Hold(t, "sso_write", [state |-> req[t], user |-> u, roles |-> roles, new |-> n])
      BY <3>1 DEF n
    <3> QED BY <1>2, <3>3, <3>4, HoldType DEF SsoRead, TypeOK
  <2> QED BY <2>1, <2>2
<1>3. CASE SsoWrite(t)
  <2> DEFINE c == req[t]
             given == [account EXCEPT ![c.user] =
                         IF c.new THEN NewAccount(c.roles, 0) ELSE WithRoles(@, c.roles)]
  <2>1. c \in SignIns
    BY <1>3, RequestsAt DEF SsoWrite, TypeOK
  <2>2. c.user \in Users /\ c.roles \in SUBSET Roles /\ c.state \in States
    BY <2>1 DEF SignIns
  <2>3. CASE (c.new <=> account[c.user] = NoAccount)
    <3>1. (IF c.new THEN NewAccount(c.roles, 0) ELSE WithRoles(account[c.user], c.roles)) \in Account
      BY <2>2, <2>3, NewAccountType, WithRolesType DEF TypeOK
    <3>2. given \in [Users -> Account \union {NoAccount}] /\ given[c.user].password \in Nat
      BY <2>2, <3>1 DEF TypeOK, Account
    <3>3. /\ account' = given \/ account' = account
          /\ sessions' = sessions \union {<<c.user, given[c.user].password>>} \/ sessions' = sessions
          /\ signins' = [signins EXCEPT ![c.state] = @ + 1] \/ signins' = signins
      BY <1>3 DEF SsoWrite
    <3> HIDE DEF given, c
    <3>4. /\ account' \in [Users -> Account \union {NoAccount}]
          /\ sessions' \subseteq Users \X Nat /\ signins' \in [States -> Nat]
      BY <2>2, <3>2, <3>3 DEF TypeOK
    <3> QED BY <1>3, <3>4, ReturnType DEF SsoWrite, TypeOK
  <2>4. CASE ~(c.new <=> account[c.user] = NoAccount)
    <3>1. UNCHANGED <<account, sessions, signins>>
      BY <1>3, <2>4 DEF SsoWrite
    <3> QED BY <1>3, <3>1, ReturnType DEF SsoWrite, TypeOK
  <2> QED BY <2>3, <2>4
<1> QED BY <1>1, <1>2, <1>3

LEMMA LoginType ==
  ASSUME Typing, NEW t \in Threads,
         LoginCheck(t) \/ LoginVerify(t) \/ LoginRecord(t) \/ LoginClear(t) \/ LoginSession(t)
  PROVE  TypeOK'
<1> USE DEF Typing, rows, sso
<1>0. /\ {"verify", "record", "clear", "session"} \subseteq Pcs
      /\ pc[t] \in {"verify", "record", "clear", "session"} =>
           req[t] \in Logins /\ req[t].user \in Users /\ req[t].password \in Nat
  <2>1. {"verify", "record", "clear", "session"} \subseteq Pcs
    BY DEF Pcs
  <2>2. pc[t] \in {"verify", "record", "clear", "session"} => Requests(pc[t]) = Logins
    BY RequestsAt
  <2>3. ASSUME pc[t] \in {"verify", "record", "clear", "session"}
        PROVE  req[t] \in Logins
    BY <2>2, <2>3 DEF TypeOK
  <2> QED BY <2>1, <2>3 DEF Logins
<1>1. CASE LoginCheck(t)
  <2>1. PICK u \in Users : Hold(t, "verify", [user |-> u, password |-> 0])
    BY <1>1, TypedAssumption DEF LoginCheck
  <2>2. [user |-> u, password |-> 0] \in Requests("verify")
    BY RequestsAt DEF Logins
  <2> QED BY <1>0, <1>1, <2>1, <2>2, HoldType DEF LoginCheck, TypeOK
<1>2. CASE LoginVerify(t)
  <2> DEFINE u == req[t].user
  <2>1. req[t] \in Logins /\ u \in Users
    BY <1>0, <1>2 DEF LoginVerify
  <2>2. CASE Hold(t, "record", req[t])
    <3>1. req[t] \in Requests("record")
      BY <2>1, RequestsAt
    <3> QED BY <1>0, <1>2, <2>2, <3>1, HoldType DEF LoginVerify, TypeOK
  <2>3. CASE account[u] # NoAccount /\ Hold(t, "clear", [user |-> u, password |-> account[u].password])
    <3>1. [user |-> u, password |-> account[u].password] \in Requests("clear")
      BY <2>1, <2>3, RequestsAt DEF Logins, TypeOK, Account
    <3> QED BY <1>0, <1>2, <2>3, <3>1, HoldType DEF LoginVerify, TypeOK
  <2> QED BY <1>2, <2>2, <2>3 DEF LoginVerify
<1>3. CASE LoginRecord(t)
  BY <1>0, <1>3, ReturnType DEF LoginRecord, TypeOK
<1>4. CASE LoginClear(t)
  <2>1. CASE Return(t)
    BY <1>4, <2>1, ReturnType DEF LoginClear, TypeOK
  <2>2. CASE Hold(t, "session", req[t])
    <3>1. req[t] \in Requests("session")
      BY <1>0, <1>4, RequestsAt DEF LoginClear
    <3> QED BY <1>0, <1>4, <2>2, <3>1, HoldType DEF LoginClear, TypeOK
  <2> QED BY <1>4, <2>1, <2>2 DEF LoginClear
<1>5. CASE LoginSession(t)
  <2>1. sessions' \subseteq Users \X Nat
    BY <1>0, <1>5 DEF LoginSession, TypeOK
  <2> QED BY <1>5, <2>1, ReturnType DEF LoginSession, TypeOK
<1> QED BY <1>1, <1>2, <1>3, <1>4, <1>5

\* The steps that are no handler's.
LEMMA OtherType ==
  ASSUME Typing,
         \/ \E s \in sessions : Logout(s)
         \/ \E u \in Users : WindowMoves(u)
         \/ SsoStart \/ (\E s \in States : SsoExpire(s))
         \/ Restart
  PROVE  TypeOK'
<1> USE DEF Typing, rows, sso
<1>1. CASE \E s \in sessions : Logout(s)
  BY <1>1 DEF Logout, TypeOK
<1>2. CASE \E u \in Users : WindowMoves(u)
  BY <1>2 DEF WindowMoves, TypeOK
<1>3. CASE SsoStart
  BY <1>3 DEF SsoStart, TypeOK
<1>4. CASE \E s \in States : SsoExpire(s)
  BY <1>4 DEF SsoExpire, TypeOK
<1>5. CASE Restart
  <2>1. PICK plain \in SystemRoles :
          account' = [u \in Users |->
            IF account[u] = NoAccount THEN NoAccount
            ELSE [account[u] EXCEPT !.roles = IF @ # {} THEN @
                    ELSE IF account[u].legacy THEN {Admin} ELSE {plain}]]
    BY <1>5 DEF Restart
  <2>2. {Admin} \in SUBSET Roles /\ {plain} \in SUBSET Roles
    BY RoleFacts DEF Roles
  <2>3. ASSUME NEW u \in Users
        PROVE  account'[u] \in Account \union {NoAccount}
    BY <2>1, <2>2 DEF TypeOK, Account
  <2>4. account' \in [Users -> Account \union {NoAccount}]
    BY <2>1, <2>3
  <2>5. "idle" \in Pcs /\ NoRequest \in Requests("idle")
    BY DEF Pcs, Requests
  <2> QED BY <1>5, <2>4, <2>5 DEF Restart, TypeOK
<1> QED BY <1>1, <1>2, <1>3, <1>4, <1>5


\* No step removes a user, and an edit is of a user that was there.
LEMMA AccountsStay ==
  ASSUME Typing, [Next]_vars
  PROVE  \A u \in Users : account[u] # NoAccount => account'[u] # NoAccount
<1> SUFFICES ASSUME NEW u \in Users, account[u] # NoAccount
             PROVE  account'[u] # NoAccount
  OBVIOUS
<1> USE DEF Typing, rows, sso
<1>1. ASSUME NEW t \in Threads, ThreadStep(t)
      PROVE  account'[u] # NoAccount
  <2>1. CASE SetupWrite(t)
    BY <2>1 DEF SetupWrite, TypeOK
  <2>2. CASE CreateUser(t)
    BY <2>2 DEF CreateUser, TypeOK
  <2>3. CASE UserWrite(t)
    <3>1. req[t] \in UserEdits /\ account[req[t].user] # NoAccount
      BY <2>3, RequestsAt DEF UserWrite, TypeOK, EditsExist
    <3>2. Edited(req[t]) \in [Users -> Account \union {NoAccount}]
      BY <3>1, EditedType
    <3>3. Edited(req[t])[u] # NoAccount
      <4>1. CASE u = req[t].user
        <5> DEFINE e == req[t]
                   a == [account[e.user] EXCEPT !.active = e.active,
                                                !.password = IF e.reset THEN @ + 1 ELSE @]
        <5>1. Edited(req[t])[u] = (IF e.roles = {} THEN a ELSE WithRoles(a, e.roles))
          BY <4>1 DEF Edited, TypeOK
        <5>2. a \in Account /\ e.roles \in SUBSET Roles
          <6> DEFINE n == IF e.reset THEN account[e.user].password + 1 ELSE account[e.user].password
          <6>1. n \in Nat /\ e.active \in BOOLEAN /\ account[e.user] \in Account /\ e.roles \in SUBSET Roles
            BY <3>1 DEF TypeOK, Account, UserEdits
          <6>2. a = [account[e.user] EXCEPT !.active = e.active, !.password = n]
            BY <6>1 DEF Account
          <6> HIDE DEF n, a, e
          <6> QED BY <6>1, <6>2 DEF Account
        <5> HIDE DEF a
        <5> QED BY <5>1, <5>2, WithRolesType, NoAccountAssumption
      <4>2. CASE u # req[t].user
        BY <4>2 DEF Edited, TypeOK
      <4> QED BY <4>1, <4>2
    <3> QED BY <2>3, <3>3 DEF UserWrite
  <2>4. CASE DeleteRole(t)
    BY <2>4, NoAccountAssumption DEF DeleteRole, TypeOK, Account
  <2>5. CASE SsoWrite(t)
    <3>1. req[t] \in SignIns
      BY <2>5, RequestsAt DEF SsoWrite, TypeOK
    <3>2. req[t].user \in Users /\ req[t].roles \in SUBSET Roles
      BY <3>1 DEF SignIns
    <3>3. NewAccount(req[t].roles, 0) \in Account /\ WithRoles(account[u], req[t].roles) \in Account
      BY <3>2, NewAccountType, WithRolesType DEF TypeOK
    <3> QED BY <2>5, <3>2, <3>3, NoAccountAssumption DEF SsoWrite, TypeOK
  <2>6. CASE account' = account
    BY <2>6
  <2> QED BY <1>1, <2>1, <2>2, <2>3, <2>4, <2>5, <2>6
          DEF ThreadStep, SetupRead, UserRead, CreateRole, RoleRead, RoleWrite, SsoTake, SsoRead,
              LoginCheck, LoginVerify, LoginRecord, LoginClear, LoginSession
<1>2. CASE Restart
  <2>1. PICK plain \in SystemRoles :
          account' = [v \in Users |->
            IF account[v] = NoAccount THEN NoAccount
            ELSE [account[v] EXCEPT !.roles = IF @ # {} THEN @
                    ELSE IF account[v].legacy THEN {Admin} ELSE {plain}]]
    BY <1>2 DEF Restart
  <2>2. {Admin} \in SUBSET Roles /\ {plain} \in SUBSET Roles
    BY RoleFacts DEF Roles
  <2>3. account[u] \in Account
    BY DEF TypeOK
  <2>4. account'[u] \in Account
    BY <2>1, <2>2, <2>3 DEF Account
  <2> QED BY <2>4, NoAccountAssumption
<1> QED BY <1>1, <1>2 DEF Next, vars, Logout, WindowMoves, SsoStart, SsoExpire

\* Which step brings a thread to a place where its request is an edit of a user.
LEMMA EditsBegin ==
  ASSUME Typing, [Next]_vars, NEW t \in Threads, pc'[t] = "user_write"
  PROVE  \/ pc[t] = "user_write" /\ req'[t] = req[t]
         \/ UserRead(t)
<1> USE DEF Typing, rows, sso, Hold, Return
<1>1. ASSUME NEW d \in Threads, ThreadStep(d)
      PROVE  (pc[t] = "user_write" /\ req'[t] = req[t]) \/ UserRead(t)
  <2>1. CASE UserRead(d)
    <3>1. d = t => UserRead(t)
      BY <2>1
    <3>2. d # t => pc'[t] = pc[t] /\ req'[t] = req[t]
      BY <2>1 DEF UserRead, TypeOK
    <3> QED BY <3>1, <3>2
  <2>2. CASE SetupRead(d) \/ SetupWrite(d) \/ CreateUser(d) \/ UserWrite(d)
    BY <2>2 DEF SetupRead, SetupWrite, CreateUser, UserWrite, TypeOK
  <2>3. CASE CreateRole(d) \/ RoleRead(d) \/ RoleWrite(d) \/ DeleteRole(d)
    BY <2>3 DEF CreateRole, RoleRead, RoleWrite, DeleteRole, TypeOK
  <2>4. CASE SsoTake(d) \/ SsoRead(d) \/ SsoWrite(d)
    BY <2>4 DEF SsoTake, SsoRead, SsoWrite, TypeOK
  <2>5. CASE LoginCheck(d) \/ LoginVerify(d) \/ LoginRecord(d) \/ LoginClear(d) \/ LoginSession(d)
    BY <2>5 DEF LoginCheck, LoginVerify, LoginRecord, LoginClear, LoginSession, TypeOK
  <2> QED BY <1>1, <2>1, <2>2, <2>3, <2>4, <2>5 DEF ThreadStep
<1>2. CASE Restart
  BY <1>2 DEF Restart
<1> QED BY <1>1, <1>2 DEF Next, vars, Logout, WindowMoves, SsoStart, SsoExpire

LEMMA TypingStep ==
  ASSUME Typing, [Next]_vars
  PROVE  Typing'
<1>1. TypeOK'
  <2>1. CASE UNCHANGED vars
    BY <2>1 DEF Typing, vars, rows, sso, TypeOK
  <2> QED BY <2>1, SetupType, UserType, RoleType, SsoType, LoginType, OtherType
          DEF Next, ThreadStep
<1>2. EditsExist'
  <2> SUFFICES ASSUME NEW t \in Threads, pc'[t] = "user_write"
               PROVE  account'[req'[t].user] # NoAccount
    BY DEF EditsExist
  <2>1. CASE pc[t] = "user_write" /\ req'[t] = req[t]
    <3>0. req[t] \in UserEdits
      BY <2>1, RequestsAt DEF Typing, TypeOK
    <3>1. req[t].user \in Users /\ account[req[t].user] # NoAccount
      BY <2>1, <3>0 DEF Typing, EditsExist, UserEdits
    <3> QED BY <2>1, <3>1, AccountsStay
  <2>2. CASE UserRead(t)
    <3>1. PICK u \in Users : account[u] # NoAccount /\ req'[t].user = u
      BY <2>2 DEF UserRead, Hold, Typing, TypeOK
    <3> QED BY <3>1, AccountsStay
  <2> QED BY <2>1, <2>2, EditsBegin
<1> QED BY <1>1, <1>2 DEF Typing

LEMMA TypingInit == Init => Typing
<1> SUFFICES ASSUME Init PROVE Typing
  OBVIOUS
<1>1. EditsExist
  BY DEF Init, EditsExist
<1>2. TypeOK
  BY DEF Init, TypeOK, Pcs, Requests
<1> QED BY <1>1, <1>2 DEF Typing

\* Every value of the rows, the counters and the threads' locals is of its type.
THEOREM TypeCorrect == Spec => []TypeOK
<1>1. Typing => TypeOK
  BY DEF Typing
<1> QED BY <1>1, TypingInit, TypingStep, PTL DEF Spec


-------------------------------------------------------------------------------
\* The settings have one row whoever races for the setup.
THEOREM SetUpOnceAlways == Spec => []SetUpOnce
<1>1. Init => SetUpOnce
  BY DEF Init, SetUpOnce
<1>2. SetUpOnce /\ [Next]_vars => SetUpOnce'
  <2> SUFFICES ASSUME SetUpOnce, [Next]_vars PROVE SetUpOnce'
    OBVIOUS
  <2>1. \A t \in Threads : SetupWrite(t) => setups' = 1 \/ setups' = setups
    BY DEF SetupWrite
  <2>2. setups' = 1 \/ setups' = setups
    BY <2>1 DEF Next, ThreadStep, vars, rows, SetupRead, CreateUser, UserRead, UserWrite, CreateRole,
        RoleRead, RoleWrite, DeleteRole, SsoTake, SsoRead, SsoWrite, LoginCheck, LoginVerify,
        LoginRecord, LoginClear, LoginSession, Logout, WindowMoves, SsoStart, SsoExpire, Restart
  <2> QED BY <2>2 DEF SetUpOnce
<1> QED BY <1>1, <1>2, PTL DEF Spec

-------------------------------------------------------------------------------
\* The token a callback in progress has taken.
Token(t) == IF pc[t] = "sso_read" THEN req[t] ELSE req[t].state
InCallback(t) == pc[t] \in {"sso_read", "sso_write"}

\* Where a token is: fresh, pending, with one callback, or spent on a session.
OneUse ==
  /\ \A s \in States :
       /\ s \in pending \/ s \notin minted => signins[s] = 0
       /\ signins[s] <= 1
  /\ \A t \in Threads : InCallback(t) =>
       /\ Token(t) \in minted /\ Token(t) \notin pending /\ signins[Token(t)] = 0
       /\ \A d \in Threads : InCallback(d) /\ Token(d) = Token(t) => d = t

\* A thread in a callback took its token in this step, or had it already.
LEMMA CallbackBegins ==
  ASSUME Typing, [Next]_vars, NEW t \in Threads, InCallback(t)'
  PROVE  \/ InCallback(t) /\ Token(t)' = Token(t)
         \/ SsoTake(t)
<1> USE DEF Typing, rows, sso, Hold, Return, InCallback, Token
<1>1. ASSUME NEW d \in Threads, ThreadStep(d)
      PROVE  (InCallback(t) /\ Token(t)' = Token(t)) \/ SsoTake(t)
  <2>1. CASE SetupRead(d) \/ SetupWrite(d) \/ CreateUser(d) \/ UserRead(d) \/ UserWrite(d)
    BY <2>1 DEF SetupRead, SetupWrite, CreateUser, UserRead, UserWrite, TypeOK
  <2>2. CASE CreateRole(d) \/ RoleRead(d) \/ RoleWrite(d) \/ DeleteRole(d)
    BY <2>2 DEF CreateRole, RoleRead, RoleWrite, DeleteRole, TypeOK
  <2>3. CASE SsoTake(d)
    BY <2>3 DEF SsoTake, TypeOK
  <2>4. CASE SsoRead(d)
    BY <2>4 DEF SsoRead, TypeOK
  <2>5. CASE SsoWrite(d)
    BY <2>5 DEF SsoWrite, TypeOK
  <2>6. CASE LoginCheck(d) \/ LoginVerify(d) \/ LoginRecord(d) \/ LoginClear(d) \/ LoginSession(d)
    BY <2>6 DEF LoginCheck, LoginVerify, LoginRecord, LoginClear, LoginSession, TypeOK
  <2> QED BY <1>1, <2>1, <2>2, <2>3, <2>4, <2>5, <2>6 DEF ThreadStep
<1>2. CASE Restart
  BY <1>2 DEF Restart
<1> QED BY <1>1, <1>2 DEF Next, vars, Logout, WindowMoves, SsoStart, SsoExpire

\* What a step does to the tokens.
LEMMA TokenSteps ==
  ASSUME Typing, [Next]_vars
  PROVE  \/ UNCHANGED sso
         \/ SsoStart
         \/ pending' \subseteq pending /\ UNCHANGED <<minted, signins>>
         \/ \E t \in Threads : SsoWrite(t)
<1> USE DEF rows, sso
<1>1. ASSUME NEW t \in Threads, ThreadStep(t)
      PROVE  \/ UNCHANGED sso
             \/ pending' \subseteq pending /\ UNCHANGED <<minted, signins>>
             \/ SsoWrite(t)
  BY <1>1 DEF ThreadStep, SetupRead, SetupWrite, CreateUser, UserRead, UserWrite, CreateRole, RoleRead,
      RoleWrite, DeleteRole, SsoTake, SsoRead, LoginCheck, LoginVerify, LoginRecord, LoginClear,
      LoginSession
<1>2. CASE Restart
  BY <1>2 DEF Restart
<1> QED BY <1>1, <1>2 DEF Next, vars, Logout, WindowMoves, SsoExpire

LEMMA OneUseStep ==
  ASSUME Typing, OneUse, [Next]_vars
  PROVE  OneUse'
<1> USE DEF Typing
<1>0. ASSUME NEW t \in Threads, InCallback(t) PROVE Token(t) \in States
  <2>1. CASE pc[t] = "sso_read"
    BY <2>1, RequestsAt DEF TypeOK, Token
  <2>2. CASE pc[t] = "sso_write"
    <3>1. req[t] \in SignIns
      BY <2>2, RequestsAt DEF TypeOK
    <3> QED BY <2>2, <3>1 DEF Token, SignIns
  <2> QED BY <1>0, <2>1, <2>2 DEF InCallback
<1>1. CASE \E w \in Threads : SsoWrite(w)
  <2>1. PICK w \in Threads : SsoWrite(w)
    BY <1>1
  <2>2. InCallback(w) /\ Token(w) = req[w].state /\ ~InCallback(w)'
    BY <2>1 DEF SsoWrite, InCallback, Token, Return, Hold, TypeOK
  <2>3. /\ \A t \in Threads : InCallback(t)' => t # w /\ InCallback(t) /\ Token(t)' = Token(t)
        /\ UNCHANGED <<minted, pending>>
    BY <2>1 DEF SsoWrite, InCallback, Token, Return, Hold, TypeOK
  <2>4. signins' = signins \/ signins' = [signins EXCEPT ![Token(w)] = @ + 1]
    BY <2>1, <2>2 DEF SsoWrite
  <2>5. Token(w) \in States /\ signins[Token(w)] = 0 /\ Token(w) \in minted /\ Token(w) \notin pending
    BY <1>0, <2>2 DEF OneUse
  <2>6. \A s \in States : signins'[s] = signins[s] \/ (s = Token(w) /\ signins'[s] = 1)
    BY <2>4, <2>5 DEF TypeOK
  <2>7. \A t \in Threads : InCallback(t)' => Token(t) # Token(w) /\ Token(t) \in States
    BY <1>0, <2>2, <2>3 DEF OneUse
  <2>8. ASSUME NEW s \in States
        PROVE  (s \in pending' \/ s \notin minted' => signins'[s] = 0) /\ signins'[s] <= 1
    BY <2>3, <2>5, <2>6 DEF OneUse
  <2>9. ASSUME NEW t \in Threads, InCallback(t)'
        PROVE  /\ Token(t)' \in minted' /\ Token(t)' \notin pending' /\ signins'[Token(t)'] = 0
               /\ \A d \in Threads : InCallback(d)' /\ Token(d)' = Token(t)' => d = t
    BY <2>3, <2>6, <2>7, <2>9 DEF OneUse
  <2> QED BY <2>8, <2>9 DEF OneUse
<1>2. CASE ~\E w \in Threads : SsoWrite(w)
  <2>1. /\ signins' = signins /\ minted \subseteq minted'
        /\ \A s \in pending' : s \in pending \/ s \notin minted
    BY <1>2, TokenSteps DEF SsoStart, sso
  <2>2. \A t \in Threads : SsoTake(t) => /\ Token(t)' \in pending /\ Token(t)' \notin pending'
                                         /\ UNCHANGED minted
                                         /\ \A d \in Threads \ {t} : ~SsoTake(d)
    <3> SUFFICES ASSUME NEW t \in Threads, SsoTake(t)
                 PROVE  /\ Token(t)' \in pending /\ Token(t)' \notin pending' /\ UNCHANGED minted
                        /\ \A d \in Threads \ {t} : ~SsoTake(d)
      OBVIOUS
    <3>1. Token(t)' \in pending /\ Token(t)' \notin pending' /\ UNCHANGED minted
      BY DEF SsoTake, Token, Hold, TypeOK
    <3>2. ASSUME NEW d \in Threads \ {t}, SsoTake(d) PROVE FALSE
      BY <3>2 DEF SsoTake, Hold, TypeOK, May
    <3> QED BY <3>1, <3>2
  <2>3. ASSUME NEW s \in States
        PROVE  (s \in pending' \/ s \notin minted' => signins'[s] = 0) /\ signins'[s] <= 1
    BY <2>1 DEF OneUse
  <2>4. ASSUME NEW t \in Threads, InCallback(t)'
        PROVE  /\ Token(t)' \in minted' /\ Token(t)' \notin pending' /\ signins'[Token(t)'] = 0
               /\ \A d \in Threads : InCallback(d)' /\ Token(d)' = Token(t)' => d = t
    <3>1. CASE InCallback(t) /\ Token(t)' = Token(t)
      <4>1. Token(t)' \in minted' /\ Token(t)' \notin pending' /\ signins'[Token(t)'] = 0
        BY <2>1, <3>1 DEF OneUse
      <4>2. ASSUME NEW d \in Threads, InCallback(d)', Token(d)' = Token(t)'
            PROVE  d = t
        <5>1. CASE InCallback(d) /\ Token(d)' = Token(d)
          BY <3>1, <4>2, <5>1 DEF OneUse
        <5>2. CASE SsoTake(d)
          BY <2>2, <3>1, <4>2, <5>2 DEF OneUse
        <5> QED BY <4>2, <5>1, <5>2, CallbackBegins
      <4> QED BY <4>1, <4>2
    <3>2. CASE SsoTake(t)
      <4>1. /\ Token(t)' \in pending /\ Token(t)' \notin pending' /\ UNCHANGED minted
            /\ Token(t)' \in minted /\ Token(t)' \in States
        BY <2>2, <3>2 DEF TypeOK
      <4>2. signins'[Token(t)'] = 0
        BY <2>1, <4>1 DEF OneUse
      <4>3. ASSUME NEW d \in Threads, InCallback(d)', Token(d)' = Token(t)'
            PROVE  d = t
        <5>1. CASE InCallback(d) /\ Token(d)' = Token(d)
          BY <4>1, <4>3, <5>1 DEF OneUse
        <5>2. CASE SsoTake(d)
          BY <2>2, <3>2, <5>2
        <5> QED BY <4>3, <5>1, <5>2, CallbackBegins
      <4> QED BY <4>1, <4>2, <4>3
    <3> QED BY <2>4, <3>1, <3>2, CallbackBegins
  <2> QED BY <2>3, <2>4 DEF OneUse
<1> QED BY <1>1, <1>2

\* A token gives at most one session, whatever callbacks race for it.
THEOREM SignsInOnceAlways == Spec => []SignsInOnce
<1>1. Init => Typing /\ OneUse
  <2>1. Init => OneUse
    BY DEF Init, OneUse, InCallback
  <2> QED BY <2>1, TypingInit
<1>2. Typing /\ OneUse /\ [Next]_vars => (Typing /\ OneUse)'
  BY TypingStep, OneUseStep
<1>3. Typing /\ OneUse => SignsInOnce
  BY DEF OneUse, SignsInOnce
<1> QED BY <1>1, <1>2, <1>3, PTL DEF Spec


-------------------------------------------------------------------------------
\* One thread at most edits users, and one at most edits roles.
OneEditor ==
  \A s, t \in Threads :
    s # t => /\ ~("edit_user" \in Ops[s] /\ "edit_user" \in Ops[t])
             /\ ~("edit_role" \in Ops[s] /\ "edit_role" \in Ops[t])

\* A request to edit a user says what the row read had where it is not guarded.
UserEditFresh(t) ==
  pc[t] = "user_write" =>
    /\ "edit_user" \in Ops[t]
    /\ ~req[t].guarded => /\ req[t].roles = {}
                          /\ req[t].active <=> account[req[t].user].active

\* So does one to edit a role, unless the role has been deleted; and the admin
\* role keeps its privileges.
RoleEditFresh(t) ==
  pc[t] = "role_write" =>
    /\ "edit_role" \in Ops[t]
    /\ role[req[t].role] # "new"
    /\ req[t].role = Admin => req[t].security
    /\ ~req[t].guarded /\ Exists(req[t].role) =>
         (req[t].security <=> role[req[t].role] = "security")

Fresh ==
  /\ role[Admin] = "security"
  /\ \A t \in Threads : UserEditFresh(t) /\ RoleEditFresh(t)

\* A holder is one for as long as its row and the privileges of its roles stay.
LEMMA HolderKept ==
  ASSUME NEW a1, NEW a2, NEW r1, NEW r2, HasHolder(a1, r1),
         \A u \in Users : a1[u] # NoAccount /\ a1[u].active =>
           /\ a2[u] # NoAccount /\ a2[u].active
           /\ a2[u].roles = a1[u].roles /\ a2[u].legacy = a1[u].legacy,
         \A u \in Users : a1[u] # NoAccount => a1[u].roles \in SUBSET Roles,
         \A r \in Roles : r1[r] = "security" => r2[r] = "security"
  PROVE  HasHolder(a2, r2)
BY DEF HasHolder

\* What a step can do to a user who was there: only update_user changes active.
LEMMA ActiveStays ==
  ASSUME Typing, [Next]_vars, ~\E t \in Threads : UserWrite(t), NEW u \in Users,
         account[u] # NoAccount
  PROVE  account'[u].active <=> account[u].active
<1> USE DEF Typing, rows, sso
<1>0. account[u] \in Account
  BY DEF TypeOK
<1>1. ASSUME NEW t \in Threads, ThreadStep(t)
      PROVE  account'[u].active <=> account[u].active
  <2>1. CASE SetupWrite(t)
    BY <2>1 DEF SetupWrite, TypeOK
  <2>2. CASE CreateUser(t)
    BY <2>2 DEF CreateUser, TypeOK
  <2>3. CASE DeleteRole(t)
    <3>1. PICK r \in CustomRoles : account'[u] = [account[u] EXCEPT !.roles = @ \ {r}]
      BY <2>3 DEF DeleteRole
    <3> QED BY <1>0, <3>1 DEF Account
  <2>4. CASE SsoWrite(t)
    <3>1. account'[u] = account[u] \/ account'[u] = WithRoles(account[u], req[t].roles)
      BY <2>4 DEF SsoWrite, TypeOK
    <3> QED BY <1>0, <3>1 DEF WithRoles, Account
  <2>5. CASE account' = account
    BY <2>5
  <2> QED BY <1>1, <2>1, <2>2, <2>3, <2>4, <2>5
          DEF ThreadStep, SetupRead, UserRead, CreateRole, RoleRead, RoleWrite, SsoTake, SsoRead,
              LoginCheck, LoginVerify, LoginRecord, LoginClear, LoginSession
<1>2. CASE Restart
  <2>1. PICK plain : account'[u] = [account[u] EXCEPT !.roles = IF @ # {} THEN @
                       ELSE IF account[u].legacy THEN {Admin} ELSE {plain}]
    BY <1>2 DEF Restart
  <2> QED BY <1>0, <2>1 DEF Account
<1> QED BY <1>1, <1>2 DEF Next, vars, Logout, WindowMoves, SsoStart, SsoExpire

\* What a step can do to a role that stays: only update_role changes it.
LEMMA RoleStays ==
  ASSUME Typing, [Next]_vars, ~\E t \in Threads : RoleWrite(t), NEW r \in Roles,
         Exists(r), Exists(r)'
  PROVE  role'[r] = role[r]
<1> USE DEF Typing, rows, sso, Exists
<1>1. ASSUME NEW t \in Threads, ThreadStep(t)
      PROVE  role'[r] = role[r]
  <2>1. CASE CreateRole(t)
    BY <2>1 DEF CreateRole, TypeOK
  <2>2. CASE DeleteRole(t)
    BY <2>2 DEF DeleteRole, TypeOK
  <2>3. CASE role' = role
    BY <2>3
  <2> QED BY <1>1, <2>1, <2>2, <2>3
          DEF ThreadStep, SetupRead, SetupWrite, CreateUser, UserRead, UserWrite, RoleRead, SsoTake,
              SsoRead, SsoWrite, LoginCheck, LoginVerify, LoginRecord, LoginClear, LoginSession
<1> QED BY <1>1 DEF Next, vars, Logout, WindowMoves, SsoStart, SsoExpire, Restart


\* Which step brings a thread to a place where its request is an edit of a role.
LEMMA RoleEditsBegin ==
  ASSUME Typing, [Next]_vars, NEW t \in Threads, pc'[t] = "role_write"
  PROVE  \/ pc[t] = "role_write" /\ req'[t] = req[t]
         \/ RoleRead(t)
<1> USE DEF Typing, rows, sso, Hold, Return
<1>1. ASSUME NEW d \in Threads, ThreadStep(d)
      PROVE  (pc[t] = "role_write" /\ req'[t] = req[t]) \/ RoleRead(t)
  <2>1. CASE RoleRead(d)
    <3>1. d = t => RoleRead(t)
      BY <2>1
    <3>2. d # t => pc'[t] = pc[t] /\ req'[t] = req[t]
      BY <2>1 DEF RoleRead, TypeOK
    <3> QED BY <3>1, <3>2
  <2>2. CASE SetupRead(d) \/ SetupWrite(d) \/ CreateUser(d) \/ UserRead(d) \/ UserWrite(d)
    BY <2>2 DEF SetupRead, SetupWrite, CreateUser, UserRead, UserWrite, TypeOK
  <2>3. CASE CreateRole(d) \/ RoleWrite(d) \/ DeleteRole(d)
    BY <2>3 DEF CreateRole, RoleWrite, DeleteRole, TypeOK
  <2>4. CASE SsoTake(d) \/ SsoRead(d) \/ SsoWrite(d)
    BY <2>4 DEF SsoTake, SsoRead, SsoWrite, TypeOK
  <2>5. CASE LoginCheck(d) \/ LoginVerify(d) \/ LoginRecord(d) \/ LoginClear(d) \/ LoginSession(d)
    BY <2>5 DEF LoginCheck, LoginVerify, LoginRecord, LoginClear, LoginSession, TypeOK
  <2> QED BY <1>1, <2>1, <2>2, <2>3, <2>4, <2>5 DEF ThreadStep
<1>2. CASE Restart
  BY <1>2 DEF Restart
<1> QED BY <1>1, <1>2 DEF Next, vars, Logout, WindowMoves, SsoStart, SsoExpire

LEMMA UserEditStep ==
  ASSUME OneEditor, Typing, Fresh, [Next]_vars, NEW t \in Threads
  PROVE  UserEditFresh(t)'
<1> SUFFICES ASSUME pc'[t] = "user_write"
             PROVE  /\ "edit_user" \in Ops[t]
                    /\ ~req'[t].guarded => /\ req'[t].roles = {}
                                           /\ req'[t].active <=> account'[req'[t].user].active
  BY DEF UserEditFresh
<1>1. CASE pc[t] = "user_write" /\ req'[t] = req[t]
  <2>1. /\ "edit_user" \in Ops[t]
        /\ ~req[t].guarded => req[t].roles = {} /\ (req[t].active <=> account[req[t].user].active)
    BY <1>1 DEF Fresh, UserEditFresh
  <2>2. req[t] \in UserEdits
    BY <1>1, RequestsAt DEF Typing, TypeOK
  <2>3. req[t].user \in Users /\ account[req[t].user] # NoAccount
    BY <1>1, <2>2 DEF Typing, EditsExist, UserEdits
  <2>4. ~\E d \in Threads : UserWrite(d)
    <3> SUFFICES ASSUME NEW d \in Threads, UserWrite(d) PROVE FALSE
      OBVIOUS
    <3>1. "edit_user" \in Ops[d]
      BY DEF UserWrite, Fresh, UserEditFresh
    <3>2. d = t
      BY <2>1, <3>1 DEF OneEditor
    <3>3. pc'[d] = "idle"
      BY DEF UserWrite, Return, Hold, Typing, TypeOK
    <3> QED BY <3>2, <3>3
  <2>5. account'[req[t].user].active <=> account[req[t].user].active
    BY <2>3, <2>4, ActiveStays
  <2> QED BY <1>1, <2>1, <2>5
<1>2. CASE UserRead(t)
  <2>1. PICK u \in Users, active \in BOOLEAN, reset \in BOOLEAN, roles \in Grants \union {{}} :
          /\ account[u] # NoAccount
          /\ reset => account[u].password < MaxPassword
          /\ roles # {} => roles # account[u].roles
          /\ Hold(t, "user_write",
               [user |-> u, active |-> active, roles |-> roles, reset |-> reset,
                guarded |-> roles # {} \/ active # account[u].active])
    BY <1>2 DEF UserRead
  <2>2. req'[t] = [user |-> u, active |-> active, roles |-> roles, reset |-> reset,
                   guarded |-> roles # {} \/ active # account[u].active]
    BY <2>1 DEF Hold, Typing, TypeOK
  <2>3. /\ req'[t].user = u /\ req'[t].roles = roles /\ req'[t].active = active
        /\ req'[t].guarded = (roles # {} \/ active # account[u].active)
    BY <2>2
  <2>4. "edit_user" \in Ops[t] /\ account' = account
    BY <1>2 DEF UserRead, May, rows
  <2>5. ~(roles # {} \/ active # account[u].active) => roles = {} /\ active = account[u].active
    OBVIOUS
  <2> QED BY <2>3, <2>4, <2>5
<1> QED BY <1>1, <1>2, EditsBegin

LEMMA RoleEditStep ==
  ASSUME OneEditor, Typing, Fresh, [Next]_vars, NEW t \in Threads
  PROVE  RoleEditFresh(t)'
<1> SUFFICES ASSUME pc'[t] = "role_write"
             PROVE  /\ "edit_role" \in Ops[t]
                    /\ role'[req'[t].role] # "new"
                    /\ req'[t].role = Admin => req'[t].security
                    /\ ~req'[t].guarded /\ role'[req'[t].role] \in {"plain", "security"} =>
                         (req'[t].security <=> role'[req'[t].role] = "security")
  BY DEF RoleEditFresh, Exists
<1>1. CASE pc[t] = "role_write" /\ req'[t] = req[t]
  <2>1. RoleEditFresh(t)
    BY DEF Fresh
  <2>2. req[t] \in RoleEdits
    BY <1>1, RequestsAt DEF Typing, TypeOK
  <2>3. req[t].role \in Roles
    BY <2>2 DEF RoleEdits
  <2>4. ~\E d \in Threads : RoleWrite(d)
    <3> SUFFICES ASSUME NEW d \in Threads, RoleWrite(d) PROVE FALSE
      OBVIOUS
    <3>1. "edit_role" \in Ops[d]
      BY DEF RoleWrite, Fresh, RoleEditFresh
    <3>2. d = t
      BY <1>1, <2>1, <3>1 DEF OneEditor, RoleEditFresh
    <3>3. pc'[d] = "idle"
      BY DEF RoleWrite, Return, Hold, Typing, TypeOK
    <3> QED BY <3>2, <3>3
  <2>5. ASSUME NEW r \in Roles PROVE role[r] # "new" => role'[r] # "new"
    <3>1. ASSUME NEW d \in Threads, CreateRole(d) \/ DeleteRole(d) PROVE role[r] # "new" => role'[r] # "new"
      BY <3>1 DEF CreateRole, DeleteRole, Typing, TypeOK
    <3> QED BY <2>4, <3>1 DEF Next, ThreadStep, vars, rows, sso, SetupRead, SetupWrite, CreateUser,
          UserRead, UserWrite, RoleRead, SsoTake, SsoRead, SsoWrite, LoginCheck, LoginVerify,
          LoginRecord, LoginClear, LoginSession, Logout, WindowMoves, SsoStart, SsoExpire, Restart
  <2>6. ASSUME NEW r \in Roles PROVE role[r] = "deleted" => role'[r] = "deleted"
    <3>1. ASSUME NEW d \in Threads, CreateRole(d) \/ DeleteRole(d)
          PROVE  role[r] = "deleted" => role'[r] = "deleted"
      BY <3>1 DEF CreateRole, DeleteRole, Exists, Typing, TypeOK
    <3> QED BY <2>4, <3>1 DEF Next, ThreadStep, vars, rows, sso, SetupRead, SetupWrite, CreateUser,
          UserRead, UserWrite, RoleRead, SsoTake, SsoRead, SsoWrite, LoginCheck, LoginVerify,
          LoginRecord, LoginClear, LoginSession, Logout, WindowMoves, SsoStart, SsoExpire, Restart
  <2>7. role'[req[t].role] \in {"plain", "security"} => Exists(req[t].role)
    BY <1>1, <2>1, <2>3, <2>6 DEF RoleEditFresh, Exists, Typing, TypeOK
  <2>8. role'[req[t].role] \in {"plain", "security"} => role'[req[t].role] = role[req[t].role]
    BY <2>3, <2>4, <2>7, RoleStays DEF Exists
  <2> QED BY <1>1, <2>1, <2>3, <2>5, <2>7, <2>8 DEF RoleEditFresh
<1>2. CASE RoleRead(t)
  <2>1. PICK r \in Roles, security \in BOOLEAN :
          /\ Exists(r) /\ (r = Admin => security)
          /\ Hold(t, "role_write", [role |-> r, security |-> security,
                                    guarded |-> security # (role[r] = "security")])
    BY <1>2 DEF RoleRead
  <2>2. req'[t] = [role |-> r, security |-> security, guarded |-> security # (role[r] = "security")]
    BY <2>1 DEF Hold, Typing, TypeOK
  <2>3. /\ req'[t].role = r /\ req'[t].security = security
        /\ req'[t].guarded = (security # (role[r] = "security"))
    BY <2>2
  <2>4. "edit_role" \in Ops[t] /\ role' = role
    BY <1>2 DEF RoleRead, May, rows
  <2>5. ~(security # (role[r] = "security")) => (security <=> role[r] = "security")
    OBVIOUS
  <2> QED BY <2>1, <2>3, <2>4, <2>5 DEF Exists
<1> QED BY <1>1, <1>2, RoleEditsBegin

LEMMA FreshStep ==
  ASSUME OneEditor, Typing, Fresh, [Next]_vars
  PROVE  Fresh'
<1>1. role'[Admin] = "security"
  <2>0. Admin \in Roles /\ Admin \notin CustomRoles /\ role[Admin] = "security"
    BY RolesAssumption DEF Roles, Fresh
  <2>1. ASSUME NEW d \in Threads, CreateRole(d) \/ DeleteRole(d) PROVE role'[Admin] = "security"
    BY <2>0, <2>1 DEF CreateRole, DeleteRole, Typing, TypeOK
  <2>2. ASSUME NEW d \in Threads, RoleWrite(d) PROVE role'[Admin] = "security"
    <3>1. req[d] \in RoleEdits
      BY <2>2, RequestsAt DEF RoleWrite, Typing, TypeOK
    <3>2. req[d].role \in Roles
      BY <3>1 DEF RoleEdits
    <3>3. req[d].role = Admin => req[d].security
      BY <2>2 DEF RoleWrite, Fresh, RoleEditFresh
    <3>4. \/ role' = role
          \/ role' = [role EXCEPT ![req[d].role] = IF req[d].security THEN "security" ELSE "plain"]
      BY <2>2 DEF RoleWrite
    <3> QED BY <2>0, <3>2, <3>3, <3>4 DEF Typing, TypeOK
  <2> QED BY <2>0, <2>1, <2>2 DEF Next, ThreadStep, vars, rows, sso, SetupRead, SetupWrite, CreateUser,
        UserRead, UserWrite, RoleRead, SsoTake, SsoRead, SsoWrite, LoginCheck, LoginVerify,
        LoginRecord, LoginClear, LoginSession, Logout, WindowMoves, SsoStart, SsoExpire, Restart
<1>2. \A t \in Threads : UserEditFresh(t)' /\ RoleEditFresh(t)'
  BY UserEditStep, RoleEditStep
<1> QED BY <1>1, <1>2 DEF Fresh


\* An unguarded edit of a user changes nothing a holder needs.
LEMMA EditKeepsHolders ==
  ASSUME Typing, NEW e \in UserEdits, account[e.user] # NoAccount, e.roles = {},
         e.active <=> account[e.user].active, HasHolder(account, role)
  PROVE  HasHolder(Edited(e), role)
<1> DEFINE a == [account[e.user] EXCEPT !.active = e.active,
                                        !.password = IF e.reset THEN @ + 1 ELSE @]
           n == IF e.reset THEN account[e.user].password + 1 ELSE account[e.user].password
<1>1. e.user \in Users /\ account[e.user] \in Account /\ e.active \in BOOLEAN
  BY DEF Typing, TypeOK, UserEdits
<1>2. n \in Nat
  BY <1>1 DEF Account
<1>3. a = [account[e.user] EXCEPT !.active = e.active, !.password = n]
  BY <1>1 DEF Account
<1>4. Edited(e) = [account EXCEPT ![e.user] = a]
  BY DEF Edited
<1> HIDE DEF a, n
<1>5. a \in Account /\ a.roles = account[e.user].roles /\ a.legacy = account[e.user].legacy
      /\ a.active = e.active
  BY <1>1, <1>2, <1>3 DEF Account
<1>6. ASSUME NEW u \in Users, account[u] # NoAccount, account[u].active
      PROVE  /\ Edited(e)[u] # NoAccount /\ Edited(e)[u].active
             /\ Edited(e)[u].roles = account[u].roles /\ Edited(e)[u].legacy = account[u].legacy
  <2>1. CASE u = e.user
    BY <1>1, <1>4, <1>5, <1>6, <2>1, NoAccountAssumption DEF Typing, TypeOK
  <2>2. CASE u # e.user
    BY <1>4, <1>6, <2>2 DEF Typing, TypeOK
  <2> QED BY <2>1, <2>2
<1>7. \A u \in Users : account[u] # NoAccount => account[u].roles \in SUBSET Roles
  BY DEF Typing, TypeOK, Account
<1> QED BY <1>6, <1>7, HolderKept

LEMMA HolderStep ==
  ASSUME Typing, Fresh, HolderRemains, [Next]_vars
  PROVE  HolderRemains'
<1> SUFFICES ASSUME setups' > 0 PROVE HasHolder(account', role')
  BY DEF HolderRemains
<1> USE DEF Typing, rows, sso
<1>0. role[Admin] = "security" /\ Admin \in Roles
  BY RoleFacts DEF Fresh
<1>4. \A u \in Users : account[u] # NoAccount => account[u].roles \in SUBSET Roles
  BY DEF TypeOK, Account
<1>1. ASSUME NEW t \in Threads, ThreadStep(t)
      PROVE  HasHolder(account', role')
  <2>1. CASE SetupWrite(t)
    <3>1. CASE setups = 0 /\ account[req[t]] = NoAccount
      <4>1. req[t] \in Users
        BY <2>1, RequestsAt DEF SetupWrite, TypeOK
      <4>2. account'[req[t]] = NewAccount({Admin}, 1) /\ role' = role
        BY <2>1, <3>1, <4>1 DEF SetupWrite, TypeOK
      <4>3. NewAccount({Admin}, 1) \in Account
        BY RoleFacts, NewAccountType
      <4>4. NewAccount({Admin}, 1).active /\ NewAccount({Admin}, 1).roles = {Admin}
        <5> DEFINE b == Admin \in {Admin}
        <5> HIDE DEF b
        <5>1. NewAccount({Admin}, 1) = [active |-> TRUE, roles |-> {Admin}, legacy |-> b, password |-> 1]
          BY DEF NewAccount, b
        <5> QED BY <5>1
      <4>5. account'[req[t]] # NoAccount /\ account'[req[t]].active /\ account'[req[t]].roles = {Admin}
        BY <4>2, <4>3, <4>4, NoAccountAssumption
      <4> QED BY <1>0, <4>1, <4>2, <4>5 DEF HasHolder
    <3>2. CASE ~(setups = 0 /\ account[req[t]] = NoAccount)
      <4>1. UNCHANGED <<setups, account, role>>
        BY <2>1, <3>2 DEF SetupWrite
      <4> QED BY <4>1 DEF HolderRemains
    <3> QED BY <3>1, <3>2
  <2>2. CASE CreateUser(t)
    <3>1. HasHolder(account, role) /\ role' = role
      BY <2>2 DEF CreateUser, HolderRemains
    <3>2. \A u \in Users : account[u] # NoAccount => account'[u] = account[u]
      BY <2>2 DEF CreateUser, TypeOK
    <3> QED BY <1>4, <3>1, <3>2, HolderKept
  <2>3. CASE UserWrite(t)
    <3>1. req[t] \in UserEdits /\ account[req[t].user] # NoAccount
      BY <2>3, RequestsAt DEF UserWrite, TypeOK, EditsExist
    <3>2. HasHolder(account, role) /\ role' = role
      BY <2>3 DEF UserWrite, HolderRemains
    <3>3. CASE account' = account
      BY <3>2, <3>3
    <3>4. CASE account' = Edited(req[t]) /\ (req[t].guarded => HasHolder(Edited(req[t]), role))
      <4>1. CASE req[t].guarded
        BY <3>2, <3>4, <4>1
      <4>2. CASE ~req[t].guarded
        <5>1. req[t].roles = {} /\ (req[t].active <=> account[req[t].user].active)
          BY <2>3, <4>2 DEF UserWrite, Fresh, UserEditFresh
        <5> QED BY <3>1, <3>2, <3>4, <5>1, EditKeepsHolders
      <4> QED BY <4>1, <4>2
    <3> QED BY <2>3, <3>3, <3>4 DEF UserWrite
  <2>4. CASE CreateRole(t)
    <3>1. HasHolder(account, role) /\ account' = account
      BY <2>4 DEF CreateRole, HolderRemains
    <3>2. PICK r \in CustomRoles, kind \in {"plain", "security"} :
            role[r] = "new" /\ role' = [role EXCEPT ![r] = kind]
      BY <2>4 DEF CreateRole
    <3>3. \A x \in Roles : role[x] = "security" => role'[x] = "security"
      BY <3>2 DEF TypeOK
    <3> QED BY <1>4, <3>1, <3>3, HolderKept
  <2>5. CASE RoleWrite(t)
    <3>1. HasHolder(account, role) /\ account' = account
      BY <2>5 DEF RoleWrite, HolderRemains
    <3> DEFINE edited == [role EXCEPT ![req[t].role] = IF req[t].security THEN "security" ELSE "plain"]
    <3>2. CASE role' = role
      BY <3>1, <3>2
    <3>3. CASE role' # role
      <4>1. Exists(req[t].role) /\ role' = edited /\ (req[t].guarded => HasHolder(account, edited))
        BY <2>5, <3>3 DEF RoleWrite
      <4>2. CASE req[t].guarded
        BY <3>1, <4>1, <4>2
      <4>3. CASE ~req[t].guarded
        <5>1. req[t] \in RoleEdits
          BY <2>5, RequestsAt DEF RoleWrite, TypeOK
        <5>2. req[t].role \in Roles /\ (req[t].security <=> role[req[t].role] = "security")
          BY <2>5, <4>1, <4>3, <5>1 DEF RoleWrite, Fresh, RoleEditFresh, RoleEdits
        <5>3. edited = role
          BY <4>1, <5>2 DEF TypeOK, Exists
        <5> QED BY <3>3, <4>1, <5>3
      <4> QED BY <4>2, <4>3
    <3> QED BY <3>2, <3>3
  <2>6. CASE DeleteRole(t)
    BY <2>6 DEF DeleteRole
  <2>7. CASE SsoWrite(t)
    <3>1. role' = role /\ setups' = setups
      BY <2>7 DEF SsoWrite
    <3>2. account' = account \/ HasHolder(account', role)
      BY <2>7 DEF SsoWrite
    <3> QED BY <3>1, <3>2 DEF HolderRemains
  <2>8. CASE UNCHANGED <<setups, account, role>>
    BY <2>8 DEF HolderRemains
  <2> QED BY <1>1, <2>1, <2>2, <2>3, <2>4, <2>5, <2>6, <2>7, <2>8
          DEF ThreadStep, SetupRead, UserRead, RoleRead, SsoTake, SsoRead, LoginCheck, LoginVerify,
              LoginRecord, LoginClear, LoginSession
<1>2. CASE Restart
  <2>1. HasHolder(account, role) /\ role' = role
    BY <1>2 DEF Restart, HolderRemains
  <2>2. PICK u \in Users :
          /\ account[u] # NoAccount /\ account[u].active
          /\ IF account[u].roles = {} THEN account[u].legacy
             ELSE \E r \in account[u].roles : role[r] = "security"
    BY <2>1 DEF HasHolder
  <2>3. PICK plain : account'[u] = [account[u] EXCEPT !.roles = IF @ # {} THEN @
                       ELSE IF account[u].legacy THEN {Admin} ELSE {plain}]
    BY <1>2, <2>2 DEF Restart
  <2>4. account[u] \in Account /\ account'[u] # NoAccount
    BY <2>2, AccountsStay DEF TypeOK
  <2>5. /\ account'[u].active
        /\ account'[u].roles = IF account[u].roles # {} THEN account[u].roles ELSE {Admin}
    BY <2>2, <2>3, <2>4 DEF Account
  <2> QED BY <1>0, <2>1, <2>2, <2>4, <2>5 DEF HasHolder
<1>3. CASE UNCHANGED <<setups, account, role>>
  BY <1>3 DEF HolderRemains
<1> QED BY <1>1, <1>2, <1>3 DEF Next, vars, Logout, WindowMoves, SsoStart, SsoExpire

\* While no two threads edit users and no two edit roles, no sequence of edits,
\* deletions, sign-ins and restarts leaves the installation without an active user
\* who holds MANAGE_SECURITY.  Two editors of users can: one edit writes back an
\* activation that was read before the other one took it away.
THEOREM HolderRemainsAlways ==
  ASSUME OneEditor
  PROVE  Spec => []HolderRemains
<1>1. Init => Typing /\ Fresh /\ HolderRemains
  <2>1. Init => Fresh /\ HolderRemains
    BY RoleFacts DEF Init, Fresh, UserEditFresh, RoleEditFresh, HolderRemains
  <2> QED BY <2>1, TypingInit
<1>2. Typing /\ Fresh /\ HolderRemains /\ [Next]_vars => (Typing /\ Fresh /\ HolderRemains)'
  BY TypingStep, FreshStep, HolderStep
<1> QED BY <1>1, <1>2, PTL DEF Spec


-------------------------------------------------------------------------------
\* The logins past the check of the limit that have not recorded a failure yet.
InFlight(u) == {t \in Threads : pc[t] \in {"verify", "record"} /\ req[t].user = u}

LimitInv ==
  \A u \in Users :
    failures[u] + Cardinality(InFlight(u)) < LoginMaxFailures + Cardinality(Threads)

\* Threads are finitely many.
LEMMA InFlightFinite ==
  ASSUME NEW u
  PROVE  /\ IsFiniteSet(InFlight(u)) /\ Cardinality(InFlight(u)) \in Nat
         /\ Cardinality(Threads) \in Nat /\ Cardinality(InFlight(u)) <= Cardinality(Threads)
<1>1. InFlight(u) \subseteq Threads
  BY DEF InFlight
<1> QED BY <1>1, ThreadsAssumption, FS_Subset, FS_CardinalityType

\* A login that joins was below the limit; one that records a failure leaves.
LEMMA InFlightSteps ==
  ASSUME Typing, [Next]_vars, NEW u \in Users
  PROVE  \/ failures'[u] <= failures[u] /\ InFlight(u)' \subseteq InFlight(u)
         \/ failures'[u] = failures[u] /\ failures[u] < LoginMaxFailures
         \/ \E t \in InFlight(u) :
              failures'[u] = failures[u] + 1 /\ InFlight(u)' = InFlight(u) \ {t}
<1> USE DEF Typing, rows, sso, InFlight, Hold, Return
<1>1. ASSUME NEW t \in Threads, ThreadStep(t)
      PROVE  \/ failures'[u] <= failures[u] /\ InFlight(u)' \subseteq InFlight(u)
             \/ failures'[u] = failures[u] /\ failures[u] < LoginMaxFailures
             \/ \E d \in InFlight(u) :
                  failures'[u] = failures[u] + 1 /\ InFlight(u)' = InFlight(u) \ {d}
  <2>1. CASE SetupRead(t) \/ SetupWrite(t) \/ CreateUser(t) \/ UserRead(t) \/ UserWrite(t)
    BY <2>1 DEF SetupRead, SetupWrite, CreateUser, UserRead, UserWrite, TypeOK
  <2>2. CASE CreateRole(t) \/ RoleRead(t) \/ RoleWrite(t) \/ DeleteRole(t)
    BY <2>2 DEF CreateRole, RoleRead, RoleWrite, DeleteRole, TypeOK
  <2>3. CASE SsoTake(t) \/ SsoRead(t) \/ SsoWrite(t)
    BY <2>3 DEF SsoTake, SsoRead, SsoWrite, TypeOK
  <2>4. CASE LoginCheck(t)
    <3>1. PICK v \in Users : failures[v] < LoginMaxFailures /\ Hold(t, "verify", [user |-> v, password |-> 0])
      BY <2>4, TypedAssumption DEF LoginCheck
    <3>2. failures' = failures
      BY <2>4 DEF LoginCheck
    <3>3. CASE v = u
      BY <3>1, <3>2, <3>3
    <3>4. CASE v # u
      BY <3>1, <3>2, <3>4 DEF TypeOK
    <3> QED BY <3>3, <3>4
  <2>5. CASE LoginVerify(t)
    BY <2>5 DEF LoginVerify, TypeOK
  <2>6. CASE LoginRecord(t)
    <3>0. req[t] \in Logins
      BY <2>6, RequestsAt DEF LoginRecord, TypeOK
    <3>1. CASE req[t].user = u
      <4>1. t \in InFlight(u) /\ failures'[u] = failures[u] + 1
        BY <2>6, <3>1 DEF LoginRecord, TypeOK
      <4>2. InFlight(u)' = InFlight(u) \ {t}
        BY <2>6, <3>1 DEF LoginRecord, TypeOK
      <4> QED BY <4>1, <4>2
    <3>2. CASE req[t].user # u
      BY <2>6, <3>0, <3>2 DEF LoginRecord, TypeOK, Logins
    <3> QED BY <3>1, <3>2
  <2>7. CASE LoginClear(t)
    <3>0. req[t] \in Logins
      BY <2>7, RequestsAt DEF LoginClear, TypeOK
    <3>1. failures'[u] <= failures[u]
      BY <2>7, <3>0 DEF LoginClear, TypeOK, Logins
    <3>2. InFlight(u)' \subseteq InFlight(u)
      BY <2>7 DEF LoginClear, TypeOK
    <3> QED BY <3>1, <3>2
  <2>8. CASE LoginSession(t)
    BY <2>8 DEF LoginSession, TypeOK
  <2> QED BY <1>1, <2>1, <2>2, <2>3, <2>4, <2>5, <2>6, <2>7, <2>8 DEF ThreadStep
<1>2. CASE \E v \in Users : WindowMoves(v)
  <2>1. failures'[u] <= failures[u]
    BY <1>2 DEF WindowMoves, TypeOK
  <2> QED BY <1>2, <2>1 DEF WindowMoves
<1>3. CASE Restart
  BY <1>3 DEF Restart, TypeOK
<1>4. CASE UNCHANGED <<failures, pc, req>>
  BY <1>4 DEF TypeOK
<1> QED BY <1>1, <1>2, <1>3, <1>4 DEF Next, vars, Logout, SsoStart, SsoExpire

LEMMA LimitStep ==
  ASSUME Typing, LimitInv, [Next]_vars
  PROVE  LimitInv'
<1> SUFFICES ASSUME NEW u \in Users
             PROVE  failures'[u] + Cardinality(InFlight(u)') < LoginMaxFailures + Cardinality(Threads)
  BY DEF LimitInv
<1>1. /\ failures[u] \in Nat /\ failures'[u] \in Nat /\ LoginMaxFailures \in Nat
      /\ failures[u] + Cardinality(InFlight(u)) < LoginMaxFailures + Cardinality(Threads)
  BY TypingStep, BoundsAssumption DEF Typing, TypeOK, LimitInv
<1>2. /\ IsFiniteSet(InFlight(u)) /\ Cardinality(InFlight(u)) \in Nat /\ Cardinality(Threads) \in Nat
      /\ Cardinality(InFlight(u)') \in Nat /\ Cardinality(InFlight(u)') <= Cardinality(Threads)
  <2>1. InFlight(u)' \subseteq Threads
    BY DEF InFlight
  <2> QED BY <2>1, InFlightFinite, ThreadsAssumption, FS_Subset, FS_CardinalityType
<1>3. CASE failures'[u] <= failures[u] /\ InFlight(u)' \subseteq InFlight(u)
  <2>1. Cardinality(InFlight(u)') <= Cardinality(InFlight(u))
    BY <1>2, <1>3, FS_Subset
  <2> QED BY <1>1, <1>2, <1>3, <2>1
<1>4. CASE failures'[u] = failures[u] /\ failures[u] < LoginMaxFailures
  BY <1>1, <1>2, <1>4
<1>5. ASSUME NEW t \in InFlight(u), failures'[u] = failures[u] + 1, InFlight(u)' = InFlight(u) \ {t}
      PROVE  failures'[u] + Cardinality(InFlight(u)') < LoginMaxFailures + Cardinality(Threads)
  <2>1. Cardinality(InFlight(u)') = Cardinality(InFlight(u)) - 1
    BY <1>2, <1>5, FS_RemoveElement
  <2> QED BY <1>1, <1>2, <1>5, <2>1
<1> QED BY <1>3, <1>4, <1>5, InFlightSteps

\* Logins that race exceed the limit on failures by less than their number.
THEOREM LoginLimitAlways ==
  ASSUME Threads # {}
  PROVE  Spec => []LoginLimit
<1>1. Init => Typing /\ LimitInv
  <2> SUFFICES ASSUME Init PROVE LimitInv
    BY TypingInit
  <2>1. \A u \in Users : InFlight(u) = {}
    BY DEF Init, InFlight
  <2>2. Cardinality(Threads) \in Nat /\ Cardinality({}) = 0
    BY ThreadsAssumption, FS_CardinalityType, FS_EmptySet
  <2> QED BY SMTT(30), <2>1, <2>2, BoundsAssumption DEF Init, LimitInv
<1>2. Typing /\ LimitInv /\ [Next]_vars => (Typing /\ LimitInv)'
  BY TypingStep, LimitStep
<1>3. Typing /\ LimitInv => LoginLimit
  <2> SUFFICES ASSUME Typing, LimitInv, NEW u \in Users
               PROVE  failures[u] < LoginMaxFailures + Cardinality(Threads)
    BY DEF LoginLimit
  <2>1. failures[u] \in Nat /\ Cardinality(InFlight(u)) \in Nat /\ Cardinality(Threads) \in Nat
        /\ LoginMaxFailures \in Nat
    BY InFlightFinite, BoundsAssumption DEF Typing, TypeOK
  <2> QED BY <2>1 DEF LimitInv
<1> QED BY <1>1, <1>2, <1>3, PTL DEF Spec

-------------------------------------------------------------------------------
(* CatalogRegistry: whose passwords the catalogs use. *)

Refs == CatalogNames \union {None}
Givens == Passwords \union {None}

\* What a request may ask of the registry, and how far it may be.
Creates == [do : {"create"}, at : {"put", "write"}, id : Nat, name : CatalogNames, password : Givens, ref : Refs, old : {None}]
Edits == [do : {"edit"}, at : {"put", "drop", "write"}, id : Nat, name : CatalogNames, password : Givens, ref : Refs, old : Refs]
Deletes == [do : {"delete"}, at : {"erase", "drop", "write"}, id : Nat, ref : {None}, old : Refs]

RegistryOps == {Idle} \union Creates \union Edits \union Deletes

\* What an operation refers to: a password it was given is kept under its name.
Sound(o) ==
  /\ o \in Creates => /\ o.ref # None => o.ref = o.name /\ o.password # None
                      /\ o.at = "put" => o.ref # None
  /\ o \in Edits => /\ o.password # None => o.ref = o.name
                    /\ o.at = "put" => o.password # None
                    /\ o.password = None => o.ref \in {o.old, None}

RegistryTyping ==
  /\ catalogs = [i \in Id |-> catalogs[i]] /\ gave = [i \in Id |-> gave[i]] /\ Id \subseteq 1 .. begun
  /\ \A i \in Id : catalogs[i] \in [name : CatalogNames, ref : Refs] /\ gave[i] \in Givens
  /\ secrets \in [CatalogNames -> Givens]
  /\ op \in [Operators -> RegistryOps]
  /\ \A t \in Operators : Sound(op[t])
  /\ unsure \subseteq CatalogNames /\ begun \in Nat /\ failed \in Nat

\* An operation has the id of a row, or one of its own; a new catalog's id is nobody else's.
FreshIds ==
  \A t \in Operators : op[t] # Idle =>
    /\ op[t].id \in 1 .. begun
    /\ op[t].do = "create" => op[t].id \notin Id /\ \A s \in Operators \ {t} : op[s] # Idle => op[s].id # op[t].id


\* Operations under way that meet at a name have its secrets in dispute.
MeetingsKnown ==
  \A s, t \in Operators : s # t /\ Meet(op[s], op[t]) => Keys(op[s]) \union Keys(op[t]) \subseteq unsure

Disputed(o) == Keys(o) \subseteq unsure
Sure(i) == catalogs[i].ref \in unsure \union {None}

\* The row an edit or a removal has read still stands, unless its secrets are in dispute.
RowsStand ==
  \A t \in Operators : op[t].do \in {"edit", "delete"} =>
    \/ op[t].id \in Id /\ catalogs[op[t].id].ref = op[t].old
    \/ Disputed(op[t]) /\ (op[t].id \in Id => Sure(op[t].id))

\* A name that an operation found free still is.
NamesStand ==
  \A t \in Operators : op[t].do \in {"create", "edit"} => Disputed(op[t]) \/ Named(op[t].name) \subseteq {op[t].id}

\* No two rows use one secret, nor will they.
RefsApart ==
  /\ \A k \in CatalogNames \ unsure : \A i, j \in Holders(k) : i = j
  /\ \A t \in Operators : op[t].do \in {"create", "edit"} => \A k \in {op[t].ref} \ (unsure \union {None}) : Holders(k) \subseteq {op[t].id}

\* What the store holds of a secret while operations are under way: what its row was given, what an operation has
\* put there, or nothing once it was dropped.
Kept(k) == (\A i \in Holders(k) : secrets[k] = gave[i]) /\ (secrets[k] # None => Holders(k) # {})
Given(o, k) == k = o.ref /\ o.at # "put" /\ o.password # None
Gone(o, k) == k = o.old /\ k # o.ref /\ o.at = "write"
Follows(o, k) ==
  /\ Given(o, k) => secrets[k] = o.password
  /\ ~Given(o, k) /\ Gone(o, k) => secrets[k] = None
  /\ ~Given(o, k) /\ ~Gone(o, k) => Kept(k)
StoreFollows == \A t \in Operators : \A k \in Keys(op[t]) \ unsure : Follows(op[t], k)

\* The inductive invariant: passwords are their rows' because rows, names and secrets that are not in dispute stay apart
\* under every operation's feet, and the store follows each operation step by step.
RegistryInv ==
  /\ RegistryTyping /\ FreshIds /\ MeetingsKnown /\ RowsStand /\ NamesStand /\ RefsApart
  /\ StoreFollows /\ PasswordsAreTheirOwn

-------------------------------------------------------------------------------
LEMMA OpFields ==
  ASSUME NEW o \in RegistryOps
  PROVE  /\ o.do \in {"idle", "create", "edit", "delete"} /\ (o.do = "idle" <=> o = Idle)
         /\ o.do = "idle" => Keys(o) = {}
         /\ o.do # "idle" => o.ref \in Refs /\ o.old \in Refs /\ o.id \in Nat /\ Keys(o) = {o.ref, o.old} \ {None}
         /\ o.do = "create" => o.old = None /\ o.at \in {"put", "write"}
         /\ o.do = "edit" => o.at \in {"put", "drop", "write"}
         /\ o.do \in {"create", "edit"} => o.name \in CatalogNames /\ o.password \in Givens
         /\ o.do = "delete" => o.ref = None /\ o.at \in {"erase", "drop", "write"}
         /\ Keys(o) \subseteq CatalogNames
         /\ o.do = "create" <=> o \in Creates
         /\ o.do = "edit" <=> o \in Edits
         /\ o.do = "delete" <=> o \in Deletes
<1>1. CASE o = Idle
  BY <1>1 DEF Idle, Keys, Creates, Edits, Deletes
<1>2. CASE o \in Creates
  <2>1. o.do = "create" /\ o.do # Idle.do /\ o \notin Edits /\ o \notin Deletes
    BY <1>2 DEF Creates, Edits, Deletes, Idle
  <2>2. o # Idle
    BY <2>1
  <2> QED BY <1>2, <2>1, <2>2 DEF Creates, Keys, Refs, None
<1>3. CASE o \in Edits
  <2>1. o.do = "edit" /\ o.do # Idle.do /\ o \notin Creates /\ o \notin Deletes
    BY <1>3 DEF Creates, Edits, Deletes, Idle
  <2>2. o # Idle
    BY <2>1
  <2> QED BY <1>3, <2>1, <2>2 DEF Edits, Keys, Refs, None
<1>4. CASE o \in Deletes
  <2>1. o.do = "delete" /\ o.do # Idle.do /\ o \notin Edits /\ o \notin Creates
    BY <1>4 DEF Creates, Edits, Deletes, Idle
  <2>2. o # Idle
    BY <2>1
  <2> QED BY <1>4, <2>1, <2>2 DEF Deletes, Keys, Refs, None
<1> QED BY <1>1, <1>2, <1>3, <1>4 DEF RegistryOps

\* q is o, further on.
Alike(o, q) ==
  /\ q.do = o.do /\ q.ref = o.ref /\ q.old = o.old /\ q.id = o.id
  /\ o.do # "delete" => q.name = o.name /\ q.password = o.password

LEMMA Moved ==
  ASSUME NEW o \in RegistryOps, NEW a \in {"put", "erase", "drop", "write"}, Sound(o), o.do # "idle",
         o.do = "create" => a = "write", o.do = "edit" => a \in {"drop", "write"}, o.do = "delete" => a \in {"drop", "write"}
  PROVE  /\ [o EXCEPT !.at = a] \in RegistryOps /\ [o EXCEPT !.at = a].at = a /\ Sound([o EXCEPT !.at = a])
         /\ Alike(o, [o EXCEPT !.at = a]) /\ Keys([o EXCEPT !.at = a]) = Keys(o)
<1> DEFINE q == [o EXCEPT !.at = a]
<1>1. CASE o \in Creates
  <2>1. a = "write" /\ o.do = "create"
    BY <1>1 DEF Creates
  <2>2. q \in Creates /\ q.at = a /\ Alike(o, q)
    BY <1>1, <2>1 DEF Creates, Alike
  <2> HIDE DEF q
  <2>3. q \in RegistryOps /\ q.do = "create"
    BY <2>1, <2>2 DEF RegistryOps, Alike
  <2>4. Keys(q) = Keys(o)
    BY <2>1, <2>2, <2>3, OpFields DEF Alike
  <2>5. q \notin Edits
    BY <2>3, OpFields
  <2>6. Sound(q)
    BY <1>1, <2>1, <2>2, <2>5 DEF Sound, Alike
  <2> QED BY <2>2, <2>3, <2>4, <2>6 DEF q
<1>2. CASE o \in Edits
  <2>1. a \in {"drop", "write"} /\ o.do = "edit"
    BY <1>2 DEF Edits
  <2>2. q \in Edits /\ q.at = a /\ Alike(o, q)
    BY <1>2, <2>1 DEF Edits, Alike
  <2> HIDE DEF q
  <2>3. q \in RegistryOps /\ q.do = "edit"
    BY <2>1, <2>2 DEF RegistryOps, Alike
  <2>4. Keys(q) = Keys(o)
    BY <2>1, <2>2, <2>3, OpFields DEF Alike
  <2>5. q \notin Creates
    BY <2>3, OpFields
  <2>6. Sound(q)
    BY <1>2, <2>1, <2>2, <2>5 DEF Sound, Alike
  <2> QED BY <2>2, <2>3, <2>4, <2>6 DEF q
<1>3. CASE o \in Deletes
  <2>1. a \in {"drop", "write"} /\ o.do = "delete"
    BY <1>3 DEF Deletes
  <2>2. q \in Deletes /\ q.at = a /\ Alike(o, q)
    BY <1>3, <2>1 DEF Deletes, Alike
  <2> HIDE DEF q
  <2>3. q \in RegistryOps /\ q.do = "delete"
    BY <2>1, <2>2 DEF RegistryOps, Alike
  <2>4. Keys(q) = Keys(o)
    BY <2>1, <2>2, <2>3, OpFields DEF Alike
  <2>5. q \notin Creates /\ q \notin Edits
    BY <2>3, OpFields
  <2>6. Sound(q)
    BY <2>5 DEF Sound
  <2> QED BY <2>2, <2>3, <2>4, <2>6 DEF q
<1>4. o # Idle
  BY DEF Idle
<1> QED BY <1>1, <1>2, <1>3, <1>4 DEF RegistryOps

\* Two operations further on meet where they did.
LEMMA MeetAlike ==
  ASSUME NEW o \in RegistryOps, NEW p \in RegistryOps, NEW q \in RegistryOps, NEW r \in RegistryOps,
         (q = Idle \/ (o # Idle /\ Alike(o, q))), (r = Idle \/ (p # Idle /\ Alike(p, r))),
         Meet(q, r)
  PROVE  Meet(o, p) /\ Keys(q) = Keys(o) /\ Keys(r) = Keys(p)
<1>1. q.do # "idle" /\ r.do # "idle"
  BY OpFields DEF Meet
<1>2. Alike(o, q) /\ Alike(p, r) /\ o.do # "idle" /\ p.do # "idle"
  BY <1>1, OpFields
<1>3. Keys(q) = Keys(o) /\ Keys(r) = Keys(p)
  BY ZenonT(40), <1>1, <1>2, OpFields DEF Alike
<1> QED BY <1>1, <1>2, <1>3 DEF Meet, Alike

LEMMA MeetBack ==
  ASSUME NEW o, NEW p PROVE Meet(o, p) <=> Meet(p, o)
BY DEF Meet

Statics == FreshIds /\ MeetingsKnown /\ RowsStand /\ NamesStand /\ RefsApart

\* An operation that goes on or ends without writing its row leaves what holds of rows and requests.
LEMMA StaticsHold ==
  ASSUME RegistryTyping, Statics, RegistryTyping', catalogs' = catalogs, begun' = begun, unsure \subseteq unsure',
         \A t \in Operators : op'[t] = Idle \/ (op[t] # Idle /\ Alike(op[t], op'[t]))
  PROVE  Statics'
<1>1. ASSUME NEW t \in Operators
      PROVE  /\ op[t] \in RegistryOps /\ op'[t] \in RegistryOps
             /\ op'[t].do # "idle" => Alike(op[t], op'[t]) /\ op[t].do # "idle" /\ op[t] # Idle /\ Keys(op'[t]) = Keys(op[t])
             /\ op'[t].do = "idle" <=> op'[t] = Idle
  <2>1. op[t] \in RegistryOps /\ op'[t] \in RegistryOps
    BY DEF RegistryTyping
  <2>2. (op'[t].do = "idle" <=> op'[t] = Idle) /\ (op[t].do = "idle" <=> op[t] = Idle)
    BY <2>1, OpFields
  <2>3. ASSUME op'[t].do # "idle"
        PROVE  Alike(op[t], op'[t]) /\ op[t].do # "idle" /\ op[t] # Idle /\ Keys(op'[t]) = Keys(op[t])
    <3>1. Alike(op[t], op'[t]) /\ op[t].do # "idle" /\ op[t] # Idle
      BY <2>2, <2>3
    <3>2. op'[t].ref = op[t].ref /\ op'[t].old = op[t].old
      BY <3>1 DEF Alike
    <3>3. Keys(op'[t]) = {op'[t].ref, op'[t].old} \ {None} /\ Keys(op[t]) = {op[t].ref, op[t].old} \ {None}
      BY <2>1, <2>3, <3>1, OpFields
    <3> QED BY <3>1, <3>2, <3>3
  <2> QED BY <2>1, <2>2, <2>3
<1>2. Id' = Id /\ \A i \in Id : catalogs'[i] = catalogs[i]
  BY DEF Id
<1>3. (\A n : Named(n)' = Named(n)) /\ (\A k : Holders(k)' = Holders(k))
  BY DEF Id, Named, Holders
<1>4. FreshIds'
  BY <1>1, <1>2 DEF Statics, FreshIds, Alike
<1>5. MeetingsKnown'
  <2> SUFFICES ASSUME NEW s \in Operators, NEW t \in Operators, s # t, Meet(op'[s], op'[t])
               PROVE  Keys(op'[s]) \union Keys(op'[t]) \subseteq unsure'
    BY DEF MeetingsKnown
  <2>1. Meet(op[s], op[t]) /\ Keys(op'[s]) = Keys(op[s]) /\ Keys(op'[t]) = Keys(op[t])
    BY <1>1, MeetAlike
  <2> QED BY <2>1 DEF Statics, MeetingsKnown
<1>6. RowsStand'
  <2> SUFFICES ASSUME NEW t \in Operators, op'[t].do \in {"edit", "delete"}
               PROVE  \/ op'[t].id \in Id /\ catalogs[op'[t].id].ref = op'[t].old
                      \/ Keys(op'[t]) \subseteq unsure' /\ (op'[t].id \in Id => catalogs[op'[t].id].ref \in unsure' \union {None})
    BY <1>2 DEF RowsStand, Disputed, Sure
  <2>1. op[t].do \in {"edit", "delete"} /\ op[t].id = op'[t].id /\ op[t].old = op'[t].old /\ Keys(op'[t]) = Keys(op[t])
    BY <1>1 DEF Alike
  <2> QED BY <2>1 DEF Statics, RowsStand, Disputed, Sure
<1>7. NamesStand'
  <2> SUFFICES ASSUME NEW t \in Operators, op'[t].do \in {"create", "edit"}
               PROVE  Keys(op'[t]) \subseteq unsure' \/ {i \in Id : catalogs[i].name = op'[t].name} \subseteq {op'[t].id}
    BY <1>2 DEF NamesStand, Disputed, Named
  <2>1. op[t].do \in {"create", "edit"} /\ op[t].id = op'[t].id /\ op[t].name = op'[t].name /\ Keys(op'[t]) = Keys(op[t])
    BY <1>1 DEF Alike
  <2> QED BY <2>1 DEF Statics, NamesStand, Disputed, Named
<1>8. RefsApart'
  <2>1. \A k \in CatalogNames \ unsure' : \A i, j \in Holders(k)' : i = j
    BY <1>3 DEF Statics, RefsApart
  <2>2. ASSUME NEW t \in Operators, op'[t].do \in {"create", "edit"}, NEW k \in {op'[t].ref} \ (unsure' \union {None})
        PROVE  Holders(k)' \subseteq {op'[t].id}
    <3>1. op[t].do \in {"create", "edit"} /\ op[t].id = op'[t].id /\ op[t].ref = op'[t].ref
      BY <1>1, <2>2 DEF Alike
    <3> QED BY <1>3, <2>2, <3>1 DEF Statics, RefsApart
  <2> QED BY <2>1, <2>2 DEF RefsApart
<1> QED BY <1>4, <1>5, <1>6, <1>7, <1>8 DEF Statics

KeptKeys == \A k \in CatalogNames \ unsure : Quiet(k) => Kept(k)

LEMMA KeptIs == KeptKeys <=> PasswordsAreTheirOwn
BY DEF KeptKeys, Kept, PasswordsAreTheirOwn

\* One thread moves: what it leaves alone is as it was, and of its own keys it knows.
LEMMA OneMoves ==
  ASSUME RegistryTyping, Statics, StoreFollows, KeptKeys, NEW t \in Operators,
         \A s \in Operators \ {t} : op'[s] = op[s],
         unsure \subseteq unsure',
         Keys(op[t])' = {} \/ Keys(op[t])' = Keys(op[t]),
         \A k \in CatalogNames \ (Keys(op[t]) \union unsure') :
           secrets'[k] = secrets[k] /\ (Kept(k) => Kept(k)'),
         \A k \in Keys(op[t]) \ unsure' : Keys(op[t])' = {} => Kept(k)',
         \A k \in Keys(op[t]) \ unsure' : Keys(op[t])' = Keys(op[t]) => Follows(op[t], k)'
  PROVE  StoreFollows' /\ KeptKeys'
<1>1. ASSUME NEW s \in Operators, NEW k \in Keys(op[s])' \ unsure'
      PROVE  Follows(op[s], k)'
  <2>1. CASE s = t
    <3>1. Keys(op[t])' = Keys(op[t]) /\ k \in Keys(op[t]) \ unsure'
      BY <1>1, <2>1
    <3> QED BY <2>1, <3>1
  <2>2. CASE s # t
    <3>1. op'[s] = op[s] /\ k \in Keys(op[s]) \ unsure
      BY <1>1, <2>2 DEF Keys
    <3>2. op[s] \in RegistryOps
      BY DEF RegistryTyping
    <3>3. k \in CatalogNames
      BY <3>1, <3>2, OpFields
    <3>4. k \notin Keys(op[t])
      BY <1>1, <2>2, <3>1 DEF Statics, MeetingsKnown, Meet
    <3>5. secrets'[k] = secrets[k] /\ (Kept(k) => Kept(k)')
      BY <1>1, <3>3, <3>4
    <3>6. Follows(op[s], k)
      BY <3>1 DEF StoreFollows
    <3> QED BY <3>1, <3>5, <3>6 DEF Follows, Given, Gone
  <2> QED BY <2>1, <2>2
<1>2. ASSUME NEW k \in CatalogNames \ unsure', Quiet(k)'
      PROVE  Kept(k)'
  <2>1. k \notin Keys(op[t])'
    BY <1>2 DEF Quiet, Keys
  <2>2. CASE k \in Keys(op[t])
    <3>1. Keys(op[t])' = {}
      BY <2>1, <2>2
    <3> QED BY <1>2, <2>2, <3>1
  <2>3. CASE k \notin Keys(op[t])
    <3>1. ASSUME NEW s \in Operators PROVE k \notin Keys(op[s])
      <4>1. CASE s = t
        BY <2>3, <4>1
      <4>2. CASE s # t
        <5>1. op'[s] = op[s]
          BY <4>2
        <5> QED BY <1>2, <5>1 DEF Quiet, Keys
      <4> QED BY <4>1, <4>2
    <3>2. Kept(k)
      BY <1>2, <3>1 DEF Quiet, KeptKeys
    <3> QED BY <1>2, <2>3, <3>2
  <2> QED BY <2>2, <2>3
<1> QED BY <1>1, <1>2 DEF StoreFollows, KeptKeys

\* A thread that goes on is where it goes, with what it had; the others stay.
LEMMA GoesOn ==
  ASSUME RegistryTyping, NEW t \in Operators, NEW a \in {"put", "erase", "drop", "write"}, Goes(t, a), op[t].do # "idle",
         op[t].do = "create" => a = "write", op[t].do = "edit" => a \in {"drop", "write"},
         op[t].do = "delete" => a \in {"drop", "write"}
  PROVE  /\ op' \in [Operators -> RegistryOps] /\ \A s \in Operators : Sound(op'[s])
         /\ op'[t].at = a /\ Alike(op[t], op'[t]) /\ op[t] # Idle
         /\ Keys(op[t])' = Keys(op[t])
         /\ \A s \in Operators \ {t} : op'[s] = op[s]
<1> DEFINE q == [op[t] EXCEPT !.at = a]
<1>1. op[t] \in RegistryOps /\ Sound(op[t]) /\ op \in [Operators -> RegistryOps]
  BY DEF RegistryTyping
<1>2. q \in RegistryOps /\ q.at = a /\ Sound(q) /\ Alike(op[t], q) /\ Keys(q) = Keys(op[t])
  BY <1>1, Moved
<1> HIDE DEF q
<1>3. op' = [op EXCEPT ![t] = q]
  BY DEF Goes, q
<1>4. op'[t] = q /\ \A s \in Operators \ {t} : op'[s] = op[s]
  BY <1>1, <1>3
<1>5. op' \in [Operators -> RegistryOps] /\ \A s \in Operators : Sound(op'[s])
  <2>1. \A s \in Operators : op'[s] \in RegistryOps /\ Sound(op'[s])
    BY <1>1, <1>2, <1>4 DEF RegistryTyping
  <2> QED BY <1>1, <1>3, <2>1
<1>6. op[t] # Idle
  BY DEF Idle
<1>7. Keys(op[t])' = Keys(op[t])
  BY <1>2, <1>4 DEF Keys
<1> QED BY <1>2, <1>4, <1>5, <1>6, <1>7

LEMMA EndsIdle ==
  ASSUME RegistryTyping, NEW t \in Operators, Ends(t)
  PROVE  /\ op' \in [Operators -> RegistryOps] /\ \A s \in Operators : Sound(op'[s])
         /\ op'[t] = Idle /\ Keys(op[t])' = {}
         /\ \A s \in Operators \ {t} : op'[s] = op[s]
<1>1. op \in [Operators -> RegistryOps] /\ op' = [op EXCEPT ![t] = Idle]
  BY DEF RegistryTyping, Ends
<1>2. op' \in [Operators -> RegistryOps] /\ op'[t] = Idle /\ \A s \in Operators \ {t} : op'[s] = op[s]
  BY <1>1 DEF RegistryOps
<1>3. Sound(Idle)
  <2>1. Idle \notin Creates /\ Idle \notin Edits
    BY DEF Idle, Creates, Edits
  <2> QED BY <2>1 DEF Sound
<1> QED BY <1>2, <1>3 DEF RegistryTyping, Keys

\* Rows, and what they were given, that do not change.
LEMMA RowsSame ==
  ASSUME catalogs' = catalogs, gave' = gave
  PROVE  \A k : (secrets'[k] = secrets[k] => (Kept(k)' <=> Kept(k))) /\ Holders(k)' = Holders(k)
BY DEF Kept, Holders, Id

LEMMA PutHolds ==
  ASSUME RegistryTyping, Statics, StoreFollows, KeptKeys, NEW t \in Operators, Put(t)
  PROVE  RegistryTyping' /\ Statics' /\ StoreFollows' /\ KeptKeys'
<1>1. op[t] \in RegistryOps /\ Sound(op[t]) /\ op[t].at = "put"
  BY DEF RegistryTyping, Put
<1>2. op[t].do \in {"create", "edit"} /\ op[t] \in Creates \union Edits
  <2>1. op[t].do # "idle" /\ op[t].do # "delete"
    BY <1>1, OpFields DEF Idle
  <2> QED BY <1>1, <2>1, OpFields
<1>3. op[t].ref \in CatalogNames /\ op[t].password \in Passwords /\ op[t].ref \in Keys(op[t])
  <2>1. op[t].password # None /\ op[t].ref = op[t].name /\ op[t].name \in CatalogNames /\ op[t].password \in Givens
    BY <1>1, <1>2, OpFields DEF Sound
  <2> QED BY <1>1, <1>2, <2>1, OpFields, RegistryAssumption DEF Givens, None
<1>4. UNCHANGED <<catalogs, gave, begun>>
  BY DEF Put
<1>5. CASE /\ secrets' = [secrets EXCEPT ![op[t].ref] = op[t].password]
           /\ Goes(t, IF op[t].do = "create" THEN "write" ELSE "drop") /\ UNCHANGED <<unsure, failed>>
  <2> DEFINE a == IF op[t].do = "create" THEN "write" ELSE "drop"
  <2>1. a \in {"put", "erase", "drop", "write"} /\ Goes(t, a) /\ a # "put"
    BY <1>5
  <2>2. (op[t].do = "create" => a = "write") /\ (op[t].do = "edit" => a \in {"drop", "write"}) /\ op[t].do # "idle" /\ op[t].do # "delete"
        /\ (a = "write" => op[t].do = "create")
    BY <1>2
  <2> HIDE DEF a
  <2>3. /\ op' \in [Operators -> RegistryOps] /\ \A s \in Operators : Sound(op'[s])
        /\ op'[t].at = a /\ Alike(op[t], op'[t]) /\ op[t] # Idle
        /\ Keys(op[t])' = Keys(op[t])
        /\ \A s \in Operators \ {t} : op'[s] = op[s]
    BY <2>1, <2>2, GoesOn
  <2>4. secrets' \in [CatalogNames -> Givens] /\ secrets'[op[t].ref] = op[t].password
        /\ \A k \in CatalogNames \ {op[t].ref} : secrets'[k] = secrets[k]
    BY <1>3, <1>5 DEF RegistryTyping, Givens
  <2>5. RegistryTyping'
    BY <1>4, <1>5, <2>3, <2>4 DEF RegistryTyping, Id
  <2>6. \A s \in Operators : op'[s] = Idle \/ (op[s] # Idle /\ Alike(op[s], op'[s]))
    BY <2>3 DEF Alike
  <2>7. Statics'
    BY <1>4, <1>5, <2>5, <2>6, StaticsHold
  <2>8. ASSUME NEW k \in CatalogNames \ (Keys(op[t]) \union unsure')
        PROVE  secrets'[k] = secrets[k] /\ (Kept(k) => Kept(k)')
    BY <1>3, <1>4, <1>5, <2>4, RowsSame
  <2>9. ASSUME NEW k \in Keys(op[t]) \ unsure' PROVE Follows(op[t], k)'
    <3>1. k \in CatalogNames /\ (k = op[t].ref \/ k = op[t].old)
      BY <1>1, <2>2, OpFields
    <3>2. op'[t].ref = op[t].ref /\ op'[t].old = op[t].old /\ op'[t].password = op[t].password
      BY <2>2, <2>3 DEF Alike
    <3>3. Given(op[t], k)' <=> k = op[t].ref
      BY <1>3, <2>1, <2>3, <3>2, RegistryAssumption DEF Given, None
    <3>4. k # op[t].ref => ~Gone(op[t], k)' /\ Kept(k)
      <4>1. SUFFICES ASSUME k # op[t].ref PROVE ~Gone(op[t], k)' /\ Kept(k)
        OBVIOUS
      <4>2. op[t].do # "create"
        BY <1>1, <2>2, <3>1, <2>9, <4>1, OpFields
      <4>3. op'[t].at # "write"
        BY <2>2, <2>3, <4>2
      <4>4. ~Given(op[t], k) /\ ~Gone(op[t], k) /\ k \notin unsure
        BY <1>1, <1>5, <2>9, <4>1 DEF Given, Gone
      <4> QED BY <2>9, <4>3, <4>4 DEF Gone, StoreFollows, Follows
    <3>5. CASE k = op[t].ref
      BY <2>4, <3>2, <3>3, <3>5 DEF Follows
    <3>6. CASE k # op[t].ref
      <4>1. Kept(k)'
        BY <1>4, <1>5, <2>4, <3>1, <3>4, <3>6, RowsSame
      <4> QED BY <3>3, <3>4, <3>6, <4>1 DEF Follows
    <3> QED BY <3>5, <3>6
  <2>10. Keys(op[t])' = {} => \A k \in Keys(op[t]) \ unsure' : Kept(k)'
    BY <2>3
  <2>11. StoreFollows' /\ KeptKeys'
    BY <1>4, <1>5, <2>3, <2>8, <2>9, <2>10, OneMoves
  <2> QED BY <2>5, <2>7, <2>11
<1>6. CASE /\ Mishap /\ Ends(t)
           /\ \/ UNCHANGED <<secrets, unsure>>
              \/ unsure' = unsure \union {op[t].ref} /\ secrets' = [secrets EXCEPT ![op[t].ref] = op[t].password]
  <2>1. /\ op' \in [Operators -> RegistryOps] /\ \A s \in Operators : Sound(op'[s])
        /\ op'[t] = Idle /\ Keys(op[t])' = {}
        /\ \A s \in Operators \ {t} : op'[s] = op[s]
    BY <1>6, EndsIdle
  <2>2. /\ secrets' \in [CatalogNames -> Givens] /\ unsure \subseteq unsure' /\ unsure' \subseteq CatalogNames /\ failed' \in Nat
        /\ \A k \in CatalogNames \ unsure' : secrets'[k] = secrets[k]
    BY <1>3, <1>6 DEF RegistryTyping, Mishap, Givens
  <2>3. RegistryTyping'
    BY <1>4, <2>1, <2>2 DEF RegistryTyping, Id
  <2>4. \A s \in Operators : op'[s] = Idle \/ (op[s] # Idle /\ Alike(op[s], op'[s]))
    BY <2>1 DEF Alike
  <2>5. Statics'
    BY <1>4, <2>2, <2>3, <2>4, StaticsHold
  <2>6. \A k \in CatalogNames \ unsure' : secrets'[k] = secrets[k] /\ (Kept(k) => Kept(k)')
    BY <1>4, <2>2, RowsSame
  <2>7. ASSUME NEW k \in Keys(op[t]) \ unsure' PROVE Kept(k)'
    <3>1. k \in CatalogNames
      BY <1>1, OpFields
    <3>2. ~Given(op[t], k) /\ ~Gone(op[t], k)
      BY <1>1 DEF Given, Gone
    <3>3. Kept(k)
      BY <2>2, <2>7, <3>2 DEF StoreFollows, Follows
    <3> QED BY <2>6, <2>7, <3>1, <3>3
  <2>8. Keys(op[t])' = Keys(op[t]) => \A k \in Keys(op[t]) \ unsure' : Follows(op[t], k)'
    BY <2>1
  <2>9. StoreFollows' /\ KeptKeys'
    BY <2>1, <2>2, <2>6, <2>7, <2>8, OneMoves
  <2> QED BY <2>3, <2>5, <2>9
<1> QED BY <1>5, <1>6 DEF Put

LEMMA EraseHolds ==
  ASSUME RegistryTyping, Statics, StoreFollows, KeptKeys, NEW t \in Operators, Erase(t)
  PROVE  RegistryTyping' /\ Statics' /\ StoreFollows' /\ KeptKeys'
<1>1. op[t] \in RegistryOps /\ op[t].do = "delete" /\ op[t].at = "erase"
  <2>1. op[t] \in RegistryOps /\ op[t].at = "erase"
    BY DEF RegistryTyping, Erase
  <2> QED BY <2>1, OpFields DEF Idle
<1>2. UNCHANGED <<catalogs, gave, secrets, unsure, begun, failed>> /\ Goes(t, "drop")
  BY DEF Erase
<1>3. /\ op' \in [Operators -> RegistryOps] /\ \A s \in Operators : Sound(op'[s])
      /\ op'[t].at = "drop" /\ Alike(op[t], op'[t]) /\ op[t] # Idle
      /\ Keys(op[t])' = Keys(op[t])
      /\ \A s \in Operators \ {t} : op'[s] = op[s]
  BY <1>1, <1>2, GoesOn
<1>4. RegistryTyping'
  BY <1>2, <1>3 DEF RegistryTyping, Id
<1>5. \A s \in Operators : op'[s] = Idle \/ (op[s] # Idle /\ Alike(op[s], op'[s]))
  BY <1>3 DEF Alike
<1>6. Statics'
  BY <1>2, <1>4, <1>5, StaticsHold
<1>7. \A k \in CatalogNames : secrets'[k] = secrets[k] /\ (Kept(k) => Kept(k)')
  BY <1>2, RowsSame
<1>8. ASSUME NEW k \in Keys(op[t]) \ unsure' PROVE Follows(op[t], k)'
  <2>1. k \in CatalogNames /\ k # op[t].ref /\ op'[t].ref = op[t].ref
    BY <1>1, <1>3, OpFields DEF Alike
  <2>2. ~Given(op[t], k) /\ ~Gone(op[t], k) /\ ~Given(op[t], k)' /\ ~Gone(op[t], k)'
    BY <1>1, <1>3, <2>1 DEF Given, Gone
  <2>3. Kept(k)
    BY <1>2, <1>8, <2>2 DEF StoreFollows, Follows
  <2> QED BY <1>7, <2>1, <2>2, <2>3 DEF Follows
<1>9. Keys(op[t])' = {} => \A k \in Keys(op[t]) \ unsure' : Kept(k)'
  BY <1>3
<1>10. StoreFollows' /\ KeptKeys'
  BY <1>2, <1>3, <1>7, <1>8, <1>9, OneMoves
<1> QED BY <1>4, <1>6, <1>10

LEMMA DropHolds ==
  ASSUME RegistryTyping, Statics, StoreFollows, KeptKeys, NEW t \in Operators, Drop(t)
  PROVE  RegistryTyping' /\ Statics' /\ StoreFollows' /\ KeptKeys'
<1>1. op[t] \in RegistryOps /\ op[t].do \in {"edit", "delete"} /\ op[t].at = "drop"
  <2>1. op[t] \in RegistryOps /\ op[t].at = "drop"
    BY DEF RegistryTyping, Drop
  <2> QED BY <2>1, OpFields DEF Idle
<1>2. UNCHANGED <<catalogs, gave, begun>> /\ Goes(t, "write")
  BY DEF Drop
<1>3. /\ op' \in [Operators -> RegistryOps] /\ \A s \in Operators : Sound(op'[s])
      /\ op'[t].at = "write" /\ Alike(op[t], op'[t]) /\ op[t] # Idle
      /\ Keys(op[t])' = Keys(op[t])
      /\ \A s \in Operators \ {t} : op'[s] = op[s]
  BY <1>1, <1>2, GoesOn
<1>4. Drops(op[t]) => op[t].old \in CatalogNames /\ op[t].old \in Keys(op[t])
  BY <1>1, OpFields DEF Drops, Refs
<1>5. /\ secrets' \in [CatalogNames -> Givens] /\ unsure \subseteq unsure' /\ unsure' \subseteq CatalogNames /\ failed' \in Nat
      /\ \A k \in CatalogNames : (Drops(op[t]) /\ k = op[t].old) \/ secrets'[k] = secrets[k]
      /\ Drops(op[t]) => secrets'[op[t].old] = None \/ op[t].old \in unsure'
  <2>1. CASE ~Drops(op[t])
    BY <2>1 DEF Drop, RegistryTyping
  <2>2. CASE Drops(op[t]) /\ secrets' = [secrets EXCEPT ![op[t].old] = None] /\ UNCHANGED <<unsure, failed>>
    BY <1>4, <2>2 DEF RegistryTyping, Givens
  <2>3. CASE /\ Drops(op[t]) /\ Mishap /\ unsure' = unsure \union {op[t].old}
             /\ secrets' \in {secrets, [secrets EXCEPT ![op[t].old] = None]}
    BY <1>4, <2>3 DEF RegistryTyping, Mishap, Givens
  <2> QED BY <2>1, <2>2, <2>3 DEF Drop
<1>6. RegistryTyping'
  BY <1>2, <1>3, <1>5 DEF RegistryTyping, Id
<1>7. \A s \in Operators : op'[s] = Idle \/ (op[s] # Idle /\ Alike(op[s], op'[s]))
  BY <1>3 DEF Alike
<1>8. Statics'
  BY <1>2, <1>5, <1>6, <1>7, StaticsHold
<1>9. \A k \in CatalogNames \ (Keys(op[t]) \union unsure') : secrets'[k] = secrets[k] /\ (Kept(k) => Kept(k)')
  BY <1>2, <1>4, <1>5, RowsSame
<1>10. ASSUME NEW k \in Keys(op[t]) \ unsure' PROVE Follows(op[t], k)'
  <2>1. k \in CatalogNames /\ (k = op[t].ref \/ k = op[t].old) /\ k # None
    BY <1>1, <1>10, OpFields
  <2>2. /\ op'[t].ref = op[t].ref /\ op'[t].old = op[t].old
        /\ op[t].do = "edit" => op'[t].password = op[t].password
    BY <1>1, <1>3 DEF Alike
  <2>3. op[t].do = "delete" => k # op[t].ref
    BY <1>1, <2>1, OpFields
  <2>4. (Given(op[t], k)' <=> Given(op[t], k)) /\ (Gone(op[t], k)' <=> k = op[t].old /\ k # op[t].ref) /\ ~Gone(op[t], k)
    BY <1>1, <1>3, <2>2, <2>3 DEF Given, Gone
  <2>5. Follows(op[t], k)
    BY <1>5, <1>10 DEF StoreFollows
  <2>6. CASE k = op[t].old /\ k # op[t].ref
    <3>1. secrets'[k] = None
      BY <1>5, <1>10, <2>1, <2>6 DEF Drops
    <3> QED BY <2>4, <2>6, <3>1 DEF Follows, Given
  <2>7. CASE k = op[t].ref
    <3>1. secrets'[k] = secrets[k] /\ (Kept(k) => Kept(k)')
      BY <1>2, <1>5, <2>1, <2>7, RowsSame DEF Drops
    <3> QED BY <2>2, <2>3, <2>4, <2>5, <2>7, <1>1, <3>1 DEF Follows, Given
  <2> QED BY <2>1, <2>6, <2>7
<1>11. Keys(op[t])' = {} => \A k \in Keys(op[t]) \ unsure' : Kept(k)'
  BY <1>3
<1>12. StoreFollows' /\ KeptKeys'
  BY <1>3, <1>5, <1>9, <1>10, <1>11, OneMoves
<1> QED BY <1>6, <1>8, <1>12

LEMMA CrashHolds ==
  ASSUME RegistryTyping, Statics, StoreFollows, KeptKeys, CrashStore
  PROVE  RegistryTyping' /\ Statics' /\ StoreFollows' /\ KeptKeys'
<1>1. op' = [t \in Operators |-> Idle] /\ UNCHANGED <<catalogs, gave, secrets, begun>> /\ failed' = failed + 1
  BY DEF CrashStore, Mishap
<1>2. \A t \in Operators : op'[t] = Idle
  BY <1>1
<1>3. op' \in [Operators -> RegistryOps]
  BY <1>1 DEF RegistryOps
<1>4. Sound(Idle) /\ Keys(Idle) = {}
  <2>1. Idle \notin Creates /\ Idle \notin Edits
    BY DEF Idle, Creates, Edits
  <2> QED BY <2>1 DEF Sound, Keys
<1>5. ASSUME NEW t \in Operators
      PROVE  op[t] \in RegistryOps /\ Keys(op[t]) \subseteq CatalogNames
  BY OpFields DEF RegistryTyping
<1>6. unsure \subseteq unsure' /\ unsure' \subseteq CatalogNames
  BY <1>5 DEF CrashStore, RegistryTyping
<1>7. RegistryTyping'
  BY <1>1, <1>2, <1>3, <1>4, <1>6 DEF RegistryTyping, Id
<1>8. Statics'
  BY <1>1, <1>2, <1>6, <1>7, StaticsHold
<1>9. StoreFollows'
  BY <1>2, <1>4 DEF StoreFollows, Keys
<1>10. ASSUME NEW k \in CatalogNames \ unsure' PROVE Kept(k)
  <2>1. CASE Quiet(k)
    BY <1>6, <1>10, <2>1 DEF KeptKeys
  <2>2. CASE ~Quiet(k)
    <3>1. PICK t \in Operators : k \in Keys(op[t])
      BY <2>2 DEF Quiet
    <3>2. op[t].do # "idle" /\ op[t] \in RegistryOps
      BY <1>5, <3>1, OpFields
    <3>3. op[t].at \notin {"drop", "write"}
      BY <1>10, <3>1, <3>2 DEF CrashStore
    <3>4. op[t].at \in {"put", "erase"} /\ (op[t].do = "delete" => k # op[t].ref) /\ (op[t].at = "erase" => op[t].do = "delete")
      <4>1. op[t].do = "delete" => op[t].ref = None /\ k # None
        BY <3>1, <3>2, OpFields
      <4> QED BY <3>2, <3>3, <4>1, OpFields
    <3>5. ~Given(op[t], k) /\ ~Gone(op[t], k)
      BY <3>4 DEF Given, Gone
    <3> QED BY <1>6, <1>10, <3>1, <3>5 DEF StoreFollows, Follows
  <2> QED BY <2>1, <2>2
<1>11. KeptKeys'
  BY <1>1, <1>10, RowsSame DEF KeptKeys
<1> QED BY <1>7, <1>8, <1>9, <1>11

\* A row that is there is the one the operation was given, or its keys are in dispute.
LEMMA RowOfKey ==
  ASSUME Statics, NEW t \in Operators, op[t].do \in {"edit", "delete"}, NEW k \in Keys(op[t]) \ unsure
  PROVE  op[t].id \in Id /\ catalogs[op[t].id].ref = op[t].old
BY DEF Statics, RowsStand, Disputed

\* The row is written, for a create or an edit.
RowWritten(o) ==
  /\ o.do \in {"create", "edit"} /\ Named(o.name) \subseteq {o.id} /\ (o.do = "edit" => o.id \in Id)
  /\ catalogs' = [i \in Id \union {o.id} |-> IF i = o.id THEN Row(o.name, o.ref) ELSE catalogs[i]]
  /\ gave' = [i \in Id \union {o.id} |-> IF i # o.id \/ (o.do = "edit" /\ o.password = None) THEN gave[i] ELSE o.password]

LEMMA RowWrittenHolds ==
  ASSUME RegistryTyping, Statics, StoreFollows, KeptKeys, NEW t \in Operators,
         RowWritten(op[t]), op[t].at = "write", Ends(t), UNCHANGED <<unsure, secrets, begun, failed>>
  PROVE  RegistryTyping' /\ Statics' /\ StoreFollows' /\ KeptKeys'
<1> DEFINE i0 == op[t].id
           r0 == op[t].ref
<1>1. op[t] \in RegistryOps /\ op[t].do \in {"create", "edit"} /\ Sound(op[t])
  BY DEF RegistryTyping, RowWritten
<1>2. i0 \in 1 .. begun /\ r0 \in Refs /\ op[t].name \in CatalogNames /\ op[t].password \in Givens /\ op[t].old \in Refs
  <2>1. op[t] # Idle
    BY <1>1, OpFields
  <2> QED BY <1>1, <2>1, OpFields DEF Statics, FreshIds
<1>3. Id' = Id \union {i0} /\ DOMAIN gave' = Id \union {i0}
  BY DEF RowWritten, Id
<1>4. catalogs'[i0] = [name |-> op[t].name, ref |-> r0] /\ \A i \in Id \ {i0} : catalogs'[i] = catalogs[i]
  BY DEF RowWritten, Row
<1>5. (op[t].do = "edit" /\ op[t].password = None => i0 \in Id /\ gave'[i0] = gave[i0])
      /\ (~(op[t].do = "edit" /\ op[t].password = None) => gave'[i0] = op[t].password)
      /\ (\A i \in Id \ {i0} : gave'[i] = gave[i])
  BY DEF RowWritten
<1>6. /\ op' \in [Operators -> RegistryOps] /\ \A s \in Operators : Sound(op'[s])
      /\ op'[t] = Idle /\ Keys(op[t])' = {}
      /\ \A s \in Operators \ {t} : op'[s] = op[s]
  BY EndsIdle
<1>7. /\ catalogs'[i0].name = op[t].name /\ catalogs'[i0].ref = r0
      /\ catalogs'[i0] \in [name : CatalogNames, ref : Refs] /\ gave'[i0] \in Givens
  <2>1. gave'[i0] \in Givens
    BY <1>2, <1>5 DEF RegistryTyping
  <2> QED BY <1>2, <1>4, <2>1
<1>8. RegistryTyping'
  <2>1. catalogs' = [i \in Id' |-> catalogs'[i]] /\ gave' = [i \in Id' |-> gave'[i]]
    BY <1>3 DEF RowWritten
  <2>2. \A i \in Id' : catalogs'[i] \in [name : CatalogNames, ref : Refs] /\ gave'[i] \in Givens
    BY <1>3, <1>4, <1>5, <1>7 DEF RegistryTyping
  <2>3. Id' \subseteq 1 .. begun'
    BY <1>2, <1>3 DEF RegistryTyping
  <2> QED BY <1>6, <2>1, <2>2, <2>3 DEF RegistryTyping
<1> HIDE DEF i0, r0
<1>9. \A k : Holders(k)' = (Holders(k) \ {i0}) \union (IF k = r0 THEN {i0} ELSE {})
  BY <1>3, <1>4, <1>7 DEF Holders
<1>10. \A n : n # op[t].name => {i \in Id' : catalogs'[i].name = n} \subseteq Named(n)
  BY <1>3, <1>4, <1>7 DEF Named
<1>11. ASSUME NEW s \in Operators \ {t}, op[s].do \in {"create", "edit", "delete"}
       PROVE  /\ op'[s] = op[s] /\ op[s] \in RegistryOps
              /\ op[s].do = "create" => op[s].id # i0
              /\ op[s].do \in {"edit", "delete"} /\ op[s].id = i0 =>
                   Keys(op[s]) \union Keys(op[t]) \subseteq unsure /\ i0 \in Id
              /\ op[s].do \in {"create", "edit"} /\ op[s].name = op[t].name => Keys(op[s]) \union Keys(op[t]) \subseteq unsure
  <2>1. op'[s] = op[s] /\ op[s] \in RegistryOps /\ op[s] # Idle /\ op[t] # Idle
    BY <1>1, <1>6, <1>11, OpFields DEF RegistryTyping
  <2>2. op[s].do = "create" => op[s].id # i0
    BY <2>1 DEF Statics, FreshIds, i0
  <2>3. op[s].do \in {"edit", "delete"} /\ op[s].id = i0 => op[t].do = "edit" /\ Meet(op[s], op[t])
    BY <1>1, <2>1 DEF Statics, FreshIds, i0, Meet
  <2>4. op[s].do \in {"create", "edit"} /\ op[s].name = op[t].name => Meet(op[s], op[t])
    BY <1>1 DEF Meet
  <2> QED BY <2>1, <2>2, <2>3, <2>4 DEF Statics, MeetingsKnown, RowWritten, i0
<1>12. FreshIds'
  BY <1>3, <1>6, <1>11 DEF Statics, FreshIds, Idle, RegistryTyping, RegistryOps
<1>13. MeetingsKnown'
  <2> SUFFICES ASSUME NEW s \in Operators, NEW u \in Operators, s # u, Meet(op'[s], op'[u])
               PROVE  Keys(op'[s]) \union Keys(op'[u]) \subseteq unsure'
    BY DEF MeetingsKnown
  <2>1. s # t /\ u # t
    BY <1>6 DEF Meet, Keys, Idle
  <2> QED BY <1>6, <2>1 DEF Statics, MeetingsKnown
<1>14. RowsStand'
  <2> SUFFICES ASSUME NEW s \in Operators, op'[s].do \in {"edit", "delete"}
               PROVE  \/ op'[s].id \in Id' /\ catalogs'[op'[s].id].ref = op'[s].old
                      \/ Keys(op'[s]) \subseteq unsure /\ (op'[s].id \in Id' => catalogs'[op'[s].id].ref \in unsure \union {None})
    BY DEF RowsStand, Disputed, Sure
  <2>1. s # t /\ op'[s] = op[s]
    BY <1>6 DEF Idle
  <2>2. CASE op[s].id = i0
    <3>1. Keys(op[s]) \union Keys(op[t]) \subseteq unsure
      BY <1>11, <2>1, <2>2
    <3>2. r0 \in unsure \union {None}
      BY <1>1, <3>1, OpFields DEF r0
    <3> QED BY <1>7, <2>1, <2>2, <3>1, <3>2 DEF i0, r0
  <2>3. CASE op[s].id # i0
    BY <1>3, <1>4, <2>1, <2>3 DEF Statics, RowsStand, Disputed, Sure
  <2> QED BY <2>2, <2>3
<1>15. NamesStand'
  <2> SUFFICES ASSUME NEW s \in Operators, op'[s].do \in {"create", "edit"}
               PROVE  Keys(op'[s]) \subseteq unsure \/ {i \in Id' : catalogs'[i].name = op'[s].name} \subseteq {op'[s].id}
    BY DEF NamesStand, Disputed, Named
  <2>1. s # t /\ op'[s] = op[s]
    BY <1>6 DEF Idle
  <2>2. CASE op[s].name = op[t].name
    BY <1>11, <2>1, <2>2
  <2>3. CASE op[s].name # op[t].name
    BY <1>10, <2>1, <2>3 DEF Statics, NamesStand, Disputed
  <2> QED BY <2>2, <2>3
<1>16. RefsApart'
  <2>1. ASSUME NEW k \in CatalogNames \ unsure' PROVE \A i, j \in Holders(k)' : i = j
    <3>1. CASE k = r0
      <4>1. Holders(k) \subseteq {i0}
        BY <1>1, <2>1, <3>1, RegistryAssumption DEF Statics, RefsApart, r0, i0, None
      <4> QED BY <1>9, <3>1, <4>1
    <3>2. CASE k # r0
      BY <1>9, <2>1, <3>2 DEF Statics, RefsApart
    <3> QED BY <3>1, <3>2
  <2>2. ASSUME NEW s \in Operators, op'[s].do \in {"create", "edit"}, NEW k \in {op'[s].ref} \ (unsure' \union {None})
        PROVE  Holders(k)' \subseteq {op'[s].id}
    <3>1. s # t /\ op'[s] = op[s] /\ op[s] \in RegistryOps
      BY <1>6, <2>2 DEF Idle, RegistryTyping
    <3>2. k \in Keys(op[s])
      BY <2>2, <3>1, OpFields
    <3>3. k # r0
      <4>1. SUFFICES ASSUME k = r0 PROVE FALSE
        OBVIOUS
      <4>2. k \in Keys(op[t])
        BY <1>1, <2>2, <4>1, OpFields DEF r0
      <4> QED BY <2>2, <3>1, <3>2, <4>2 DEF Meet, Statics, MeetingsKnown
    <3>4. Holders(k) \subseteq {op[s].id}
      BY <2>2, <3>1 DEF Statics, RefsApart
    <3> QED BY <1>9, <3>1, <3>3, <3>4
  <2> QED BY <2>1, <2>2 DEF RefsApart
<1>17. Statics'
  BY <1>12, <1>13, <1>14, <1>15, <1>16 DEF Statics
<1>18. ASSUME NEW k \in CatalogNames \ (Keys(op[t]) \union unsure')
       PROVE  secrets'[k] = secrets[k] /\ (Kept(k) => Kept(k)')
  <2>1. k # r0 /\ k # op[t].old /\ k # None /\ k \notin unsure
    BY <1>1, <1>18, OpFields, RegistryAssumption DEF r0, None
  <2>2. i0 \notin Holders(k)
    <3>1. CASE op[t].do = "create"
      <4>1. i0 \notin Id
        BY <1>1, <3>1, OpFields DEF Statics, FreshIds, i0
      <4> QED BY <4>1 DEF Holders
    <3>2. CASE op[t].do = "edit"
      <4>1. i0 \in Id => catalogs[i0].ref \in {op[t].old} \union unsure \union {None}
        BY <3>2 DEF Statics, RowsStand, Sure, i0
      <4> QED BY <2>1, <4>1 DEF Holders
    <3> QED BY <1>1, <3>1, <3>2
  <2>3. Holders(k)' = Holders(k) /\ \A i \in Holders(k) : gave'[i] = gave[i]
    BY <1>5, <1>9, <2>1, <2>2 DEF Holders
  <2> QED BY <2>3 DEF Kept
<1>19. ASSUME NEW k \in Keys(op[t]) \ unsure' PROVE Kept(k)'
  <2>1. k \in CatalogNames /\ k # None /\ (k = r0 \/ k = op[t].old)
    BY <1>1, <1>19, OpFields DEF r0
  <2>2. Follows(op[t], k)
    BY <1>19 DEF StoreFollows
  <2>3. op[t].do = "edit" => i0 \in Id /\ catalogs[i0].ref = op[t].old
    BY <1>19, RowOfKey DEF i0
  <2>4. CASE k = r0 /\ op[t].password # None
    <3>1. secrets'[k] = op[t].password
      BY <2>2, <2>4 DEF Follows, Given, r0
    <3>2. Holders(k) \subseteq {i0}
      BY <1>1, <1>19, <2>1, <2>4 DEF Statics, RefsApart, r0, i0
    <3>3. Holders(k)' = {i0} /\ gave'[i0] = op[t].password
      BY <1>5, <1>9, <2>4, <3>2
    <3> QED BY <3>1, <3>3 DEF Kept
  <2>5. CASE k = r0 /\ op[t].password = None
    <3>1. op[t].do = "edit" /\ r0 = op[t].old
      BY <1>1, <2>1, <2>5, OpFields DEF Sound, r0
    <3>2. Kept(k)
      BY <2>2, <2>5, <3>1 DEF Follows, Given, Gone, r0
    <3>3. i0 \in Holders(k) /\ Holders(k) \subseteq {i0}
      BY <1>19, <2>1, <2>3, <2>5, <3>1 DEF Holders, Statics, RefsApart
    <3>4. Holders(k)' = {i0} /\ gave'[i0] = gave[i0]
      BY <1>5, <1>9, <2>5, <3>1, <3>3
    <3> QED BY <3>2, <3>3, <3>4 DEF Kept
  <2>6. CASE k # r0
    <3>1. secrets'[k] = None
      BY <2>1, <2>2, <2>6 DEF Follows, Given, Gone, r0
    <3>2. op[t].do = "edit"
      BY <1>1, <2>1, <2>6, OpFields
    <3>3. i0 \in Holders(k) /\ Holders(k) \subseteq {i0}
      BY <1>19, <2>1, <2>3, <2>6, <3>2 DEF Holders, Statics, RefsApart
    <3>4. Holders(k)' = {}
      BY <1>9, <2>6, <3>3
    <3> QED BY <3>1, <3>4 DEF Kept
  <2> QED BY <2>4, <2>5, <2>6
<1>20. Keys(op[t])' = Keys(op[t]) => \A k \in Keys(op[t]) \ unsure' : Follows(op[t], k)'
  BY <1>6
<1>21. StoreFollows' /\ KeptKeys'
  BY <1>6, <1>18, <1>19, <1>20, OneMoves
<1> QED BY <1>8, <1>17, <1>21

\* The row is gone, if it was there.
LEMMA RowErasedHolds ==
  ASSUME RegistryTyping, Statics, StoreFollows, KeptKeys, NEW t \in Operators,
         op[t].do = "delete", op[t].at = "write", Ends(t), UNCHANGED <<unsure, secrets, begun, failed>>,
         catalogs' = [i \in Id \ {op[t].id} |-> catalogs[i]], gave' = [i \in Id \ {op[t].id} |-> gave[i]]
  PROVE  RegistryTyping' /\ Statics' /\ StoreFollows' /\ KeptKeys'
<1> DEFINE i0 == op[t].id
<1>1. op[t] \in RegistryOps
  BY DEF RegistryTyping
<1>2. Id' = Id \ {i0} /\ DOMAIN gave' = Id \ {i0} /\ \A i \in Id \ {i0} : catalogs'[i] = catalogs[i] /\ gave'[i] = gave[i]
  BY DEF Id
<1>3. /\ op' \in [Operators -> RegistryOps] /\ \A s \in Operators : Sound(op'[s])
      /\ op'[t] = Idle /\ Keys(op[t])' = {}
      /\ \A s \in Operators \ {t} : op'[s] = op[s]
  BY EndsIdle
<1>4. RegistryTyping'
  <2>1. catalogs' = [i \in Id' |-> catalogs'[i]] /\ gave' = [i \in Id' |-> gave'[i]]
    BY <1>2
  <2> QED BY <1>2, <1>3, <2>1 DEF RegistryTyping
<1> HIDE DEF i0
<1>5. (\A k : Holders(k)' = Holders(k) \ {i0}) /\ \A n : {i \in Id' : catalogs'[i].name = n} \subseteq Named(n)
  BY <1>2 DEF Holders, Named
<1>6. FreshIds'
  BY <1>2, <1>3 DEF Statics, FreshIds
<1>7. MeetingsKnown'
  <2> SUFFICES ASSUME NEW s \in Operators, NEW u \in Operators, s # u, Meet(op'[s], op'[u])
               PROVE  Keys(op'[s]) \union Keys(op'[u]) \subseteq unsure'
    BY DEF MeetingsKnown
  <2>1. s # t /\ u # t
    BY <1>3 DEF Meet, Keys, Idle
  <2> QED BY <1>3, <2>1 DEF Statics, MeetingsKnown
<1>8. RowsStand'
  <2> SUFFICES ASSUME NEW s \in Operators, op'[s].do \in {"edit", "delete"}
               PROVE  \/ op'[s].id \in Id' /\ catalogs'[op'[s].id].ref = op'[s].old
                      \/ Keys(op'[s]) \subseteq unsure /\ (op'[s].id \in Id' => catalogs'[op'[s].id].ref \in unsure \union {None})
    BY DEF RowsStand, Disputed, Sure
  <2>1. s # t /\ op'[s] = op[s]
    BY <1>3 DEF Idle
  <2>2. CASE op[s].id = i0
    <3>1. Meet(op[s], op[t])
      BY <2>1, <2>2 DEF Meet, i0
    <3>2. Keys(op[s]) \subseteq unsure
      BY <2>1, <3>1 DEF Statics, MeetingsKnown
    <3> QED BY <1>2, <2>1, <2>2, <3>2
  <2>3. CASE op[s].id # i0
    BY <1>2, <2>1, <2>3 DEF Statics, RowsStand, Disputed, Sure
  <2> QED BY <2>2, <2>3
<1>9. NamesStand'
  <2> SUFFICES ASSUME NEW s \in Operators, op'[s].do \in {"create", "edit"}
               PROVE  Keys(op'[s]) \subseteq unsure \/ {i \in Id' : catalogs'[i].name = op'[s].name} \subseteq {op'[s].id}
    BY DEF NamesStand, Disputed, Named
  <2>1. s # t /\ op'[s] = op[s]
    BY <1>3 DEF Idle
  <2> QED BY <1>5, <2>1 DEF Statics, NamesStand, Disputed
<1>10. RefsApart'
  <2>1. \A k \in CatalogNames \ unsure' : \A i, j \in Holders(k)' : i = j
    BY <1>5 DEF Statics, RefsApart
  <2>2. ASSUME NEW s \in Operators, op'[s].do \in {"create", "edit"}, NEW k \in {op'[s].ref} \ (unsure' \union {None})
        PROVE  Holders(k)' \subseteq {op'[s].id}
    <3>1. s # t /\ op'[s] = op[s]
      BY <1>3, <2>2 DEF Idle
    <3> QED BY <1>5, <2>2, <3>1 DEF Statics, RefsApart
  <2> QED BY <2>1, <2>2 DEF RefsApart
<1>11. Statics'
  BY <1>6, <1>7, <1>8, <1>9, <1>10 DEF Statics
<1>12. ASSUME NEW k \in CatalogNames \ (Keys(op[t]) \union unsure')
       PROVE  secrets'[k] = secrets[k] /\ (Kept(k) => Kept(k)')
  <2>1. k # op[t].old /\ k # None /\ k \notin unsure
    BY <1>1, <1>12, OpFields, RegistryAssumption DEF None
  <2>2. i0 \notin Holders(k)
    <3>1. i0 \in Id => catalogs[i0].ref \in {op[t].old} \union unsure \union {None}
      BY DEF Statics, RowsStand, Sure, i0
    <3> QED BY <2>1, <3>1 DEF Holders
  <2>3. Holders(k)' = Holders(k) /\ \A i \in Holders(k) : gave'[i] = gave[i]
    BY <1>2, <1>5, <2>2 DEF Holders
  <2> QED BY <2>3 DEF Kept
<1>13. ASSUME NEW k \in Keys(op[t]) \ unsure' PROVE Kept(k)'
  <2>1. k \in CatalogNames /\ k = op[t].old /\ k # op[t].ref
    BY <1>1, <1>13, OpFields
  <2>2. Follows(op[t], k)
    BY <1>13 DEF StoreFollows
  <2>3. secrets'[k] = None
    BY <2>1, <2>2 DEF Follows, Given, Gone
  <2>4. i0 \in Id /\ catalogs[i0].ref = op[t].old
    BY <1>13, RowOfKey DEF i0
  <2>5. i0 \in Holders(k) /\ Holders(k) \subseteq {i0}
    BY <1>13, <2>1, <2>4 DEF Holders, Statics, RefsApart
  <2>6. Holders(k)' = {}
    BY <1>5, <2>5
  <2> QED BY <2>3, <2>6 DEF Kept
<1>14. Keys(op[t])' = Keys(op[t]) => \A k \in Keys(op[t]) \ unsure' : Follows(op[t], k)'
  BY <1>3
<1>15. StoreFollows' /\ KeptKeys'
  BY <1>3, <1>12, <1>13, <1>14, OneMoves
<1> QED BY <1>4, <1>11, <1>15

\* The row is not written: the name is taken by now, or the row is gone.
LEMMA RowRefusedHolds ==
  ASSUME RegistryTyping, Statics, StoreFollows, KeptKeys, NEW t \in Operators,
         op[t].do \in {"create", "edit"}, Ends(t), UNCHANGED <<catalogs, gave, unsure, secrets, begun, failed>>,
         ~(Named(op[t].name) \subseteq {op[t].id} /\ (op[t].do = "edit" => op[t].id \in Id))
  PROVE  RegistryTyping' /\ Statics' /\ StoreFollows' /\ KeptKeys'
<1>1. /\ op' \in [Operators -> RegistryOps] /\ \A s \in Operators : Sound(op'[s])
      /\ op'[t] = Idle /\ Keys(op[t])' = {}
      /\ \A s \in Operators \ {t} : op'[s] = op[s]
  BY EndsIdle
<1>2. RegistryTyping'
  BY <1>1 DEF RegistryTyping, Id
<1>3. \A s \in Operators : op'[s] = Idle \/ (op[s] # Idle /\ Alike(op[s], op'[s]))
  BY <1>1 DEF Alike
<1>4. Statics'
  BY <1>2, <1>3, StaticsHold
<1>5. \A k \in CatalogNames : secrets'[k] = secrets[k] /\ (Kept(k) => Kept(k)')
  BY RowsSame
<1>6. Keys(op[t]) \subseteq unsure
  BY DEF Statics, NamesStand, RowsStand, Disputed
<1>7. StoreFollows' /\ KeptKeys'
  BY <1>1, <1>5, <1>6, OneMoves
<1> QED BY <1>2, <1>4, <1>7

LEMMA WriteHolds ==
  ASSUME RegistryTyping, Statics, StoreFollows, KeptKeys, NEW t \in Operators, Write(t)
  PROVE  RegistryTyping' /\ Statics' /\ StoreFollows' /\ KeptKeys'
<1>1. op[t].at = "write" /\ Ends(t) /\ UNCHANGED <<secrets, begun, failed>>
  BY DEF Write
<1>2. CASE RowWritten(op[t]) /\ UNCHANGED unsure
  BY <1>1, <1>2, RowWrittenHolds
<1>3. CASE /\ op[t].do \in {"create", "edit"} /\ ~(Named(op[t].name) \subseteq {op[t].id} /\ (op[t].do = "edit" => op[t].id \in Id))
           /\ UNCHANGED <<catalogs, gave, unsure>>
  BY <1>1, <1>3, RowRefusedHolds
<1>4. CASE /\ op[t].do = "delete" /\ UNCHANGED unsure
           /\ catalogs' = [i \in Id \ {op[t].id} |-> catalogs[i]] /\ gave' = [i \in Id \ {op[t].id} |-> gave[i]]
  BY <1>1, <1>4, RowErasedHolds
<1> QED BY <1>2, <1>3, <1>4 DEF Write, RowWritten

\* An operation begins: what it shares with another under way, or with a row that is not its own, is in dispute.
LEMMA BeginsHold ==
  ASSUME RegistryTyping, Statics, StoreFollows, KeptKeys, NEW t \in Operators,
         NEW o \in Creates \union Edits \union Deletes, Sound(o), NEW disputed \in SUBSET CatalogNames, Begins(t, o, disputed),
         o.do = "create" => o.id = begun + 1,
         o.do \in {"edit", "delete"} => o.id \in Id /\ catalogs[o.id].ref = o.old,
         o.do \in {"create", "edit"} => Keys(o) \subseteq disputed \/ Named(o.name) \subseteq {o.id},
         o.do \in {"create", "edit"} => \A k \in {o.ref} \ (disputed \union unsure \union {None}) : Holders(k) \subseteq {o.id},
         \A k \in Keys(o) : ~Given(o, k) /\ ~Gone(o, k)
  PROVE  RegistryTyping' /\ Statics' /\ StoreFollows' /\ KeptKeys'
<1>1. o \in RegistryOps /\ o.do \in {"create", "edit", "delete"} /\ o # Idle /\ o.id \in Nat /\ Keys(o) \subseteq CatalogNames
  <2>1. o \in RegistryOps /\ o.do \in {"create", "edit", "delete"}
    BY DEF RegistryOps, Creates, Edits, Deletes
  <2> QED BY <2>1, OpFields DEF Idle
<1>2. /\ op \in [Operators -> RegistryOps] /\ op[t] = Idle /\ op' = [op EXCEPT ![t] = o] /\ begun' = begun + 1 /\ begun \in Nat
      /\ UNCHANGED <<catalogs, gave, secrets, failed>>
  BY DEF Begins, RegistryTyping
<1>3. op'[t] = o /\ op' \in [Operators -> RegistryOps] /\ \A s \in Operators \ {t} : op'[s] = op[s]
  BY <1>1, <1>2
<1>4. \A s \in Operators : op[s] \in RegistryOps /\ Keys(op[s]) \subseteq CatalogNames
  BY <1>2, OpFields
<1>5. /\ unsure \union disputed \subseteq unsure' /\ unsure' \subseteq CatalogNames
      /\ \A s \in Operators : Meet(o, op[s]) => Keys(o) \union Keys(op[s]) \subseteq unsure'
  BY <1>1, <1>4 DEF Begins, RegistryTyping
<1>6. Id' = Id /\ (\A i : catalogs'[i] = catalogs[i]) /\ (\A k : Holders(k)' = Holders(k)) /\ (\A n : Named(n)' = Named(n))
  BY <1>2 DEF Id, Holders, Named
<1>7. RegistryTyping'
  <2>1. \A s \in Operators : Sound(op'[s])
    BY <1>3 DEF RegistryTyping
  <2>2. Id' \subseteq 1 .. begun'
    BY <1>2, <1>6 DEF RegistryTyping
  <2> QED BY <1>2, <1>3, <1>5, <1>6, <2>1, <2>2 DEF RegistryTyping
<1>8. \A s \in Operators : op[s] # Idle => op[s].id \in 1 .. begun
  BY DEF Statics, FreshIds
<1>9. Id \subseteq 1 .. begun
  BY DEF RegistryTyping
<1>10. FreshIds'
  <2> SUFFICES ASSUME NEW s \in Operators, op'[s] # Idle
               PROVE  /\ op'[s].id \in 1 .. begun'
                      /\ op'[s].do = "create" => op'[s].id \notin Id /\ \A u \in Operators \ {s} : op'[u] # Idle => op'[u].id # op'[s].id
    BY <1>6 DEF FreshIds
  <2>1. CASE s = t
    <3>1. o.id \in 1 .. begun'
      BY <1>1, <1>2, <1>9
    <3>2. o.do = "create" => o.id \notin Id /\ \A u \in Operators \ {t} : op[u] # Idle => op[u].id # o.id
      BY <1>2, <1>8, <1>9
    <3> QED BY <1>3, <2>1, <3>1, <3>2
  <2>2. CASE s # t
    <3>1. op'[s] = op[s] /\ op[s].id \in 1 .. begun'
      BY <1>2, <1>3, <1>8, <2>2
    <3>2. op[s].do = "create" => op[s].id # o.id
      BY <1>1, <1>2, <1>3, <1>8, <2>2 DEF Statics, FreshIds
    <3> QED BY <1>3, <2>2, <3>1, <3>2 DEF Statics, FreshIds
  <2> QED BY <2>1, <2>2
<1>11. MeetingsKnown'
  <2> SUFFICES ASSUME NEW s \in Operators, NEW u \in Operators, s # u, Meet(op'[s], op'[u])
               PROVE  Keys(op'[s]) \union Keys(op'[u]) \subseteq unsure'
    BY DEF MeetingsKnown
  <2>1. CASE s = t
    BY <1>3, <1>5, <2>1
  <2>2. CASE u = t
    BY <1>3, <1>5, <2>2, MeetBack
  <2>3. CASE s # t /\ u # t
    BY <1>3, <1>5, <2>3 DEF Statics, MeetingsKnown
  <2> QED BY <2>1, <2>2, <2>3
<1>12. RowsStand'
  <2> SUFFICES ASSUME NEW s \in Operators, op'[s].do \in {"edit", "delete"}
               PROVE  \/ op'[s].id \in Id /\ catalogs[op'[s].id].ref = op'[s].old
                      \/ Keys(op'[s]) \subseteq unsure' /\ (op'[s].id \in Id => catalogs[op'[s].id].ref \in unsure' \union {None})
    BY <1>6 DEF RowsStand, Disputed, Sure
  <2>1. CASE s = t
    BY <1>3, <2>1
  <2>2. CASE s # t
    BY <1>3, <1>5, <2>2 DEF Statics, RowsStand, Disputed, Sure
  <2> QED BY <2>1, <2>2
<1>13. NamesStand'
  <2> SUFFICES ASSUME NEW s \in Operators, op'[s].do \in {"create", "edit"}
               PROVE  Keys(op'[s]) \subseteq unsure' \/ {i \in Id : catalogs[i].name = op'[s].name} \subseteq {op'[s].id}
    BY <1>6 DEF NamesStand, Disputed, Named
  <2>1. CASE s = t
    BY <1>3, <1>5, <2>1 DEF Named
  <2>2. CASE s # t
    BY <1>3, <1>5, <2>2 DEF Statics, NamesStand, Disputed, Named
  <2> QED BY <2>1, <2>2
<1>14. RefsApart'
  <2>1. \A k \in CatalogNames \ unsure' : \A i, j \in Holders(k)' : i = j
    BY <1>5, <1>6 DEF Statics, RefsApart
  <2>2. ASSUME NEW s \in Operators, op'[s].do \in {"create", "edit"}, NEW k \in {op'[s].ref} \ (unsure' \union {None})
        PROVE  Holders(k)' \subseteq {op'[s].id}
    <3>1. CASE s = t
      BY <1>3, <1>5, <1>6, <2>2, <3>1
    <3>2. CASE s # t
      BY <1>3, <1>5, <1>6, <2>2, <3>2 DEF Statics, RefsApart
    <3> QED BY <3>1, <3>2
  <2> QED BY <2>1, <2>2 DEF RefsApart
<1>15. Statics'
  BY <1>10, <1>11, <1>12, <1>13, <1>14 DEF Statics
<1>16. \A k : Kept(k)' <=> Kept(k)
  BY <1>2 DEF Kept, Holders, Id
<1>17. ASSUME NEW s \in Operators, NEW k \in Keys(op[s])' \ unsure' PROVE Follows(op[s], k)'
  <2>1. CASE s = t
    <3>1. k \in Keys(o) /\ k \in CatalogNames
      BY <1>1, <1>3, <1>17, <2>1 DEF Keys
    <3>2. Quiet(k)
      BY <1>5, <1>17, <3>1 DEF Quiet, Meet
    <3>3. Kept(k)'
      BY <1>5, <1>16, <1>17, <3>1, <3>2 DEF KeptKeys
    <3>4. ~Given(op[s], k)' /\ ~Gone(op[s], k)'
      BY <1>3, <2>1, <3>1 DEF Given, Gone
    <3> QED BY <3>3, <3>4 DEF Follows
  <2>2. CASE s # t
    <3>1. op'[s] = op[s] /\ k \in Keys(op[s]) \ unsure
      BY <1>3, <1>5, <1>17, <2>2 DEF Keys
    <3>2. Follows(op[s], k)
      BY <3>1 DEF StoreFollows
    <3> QED BY <1>2, <1>16, <3>1, <3>2 DEF Follows, Given, Gone
  <2> QED BY <2>1, <2>2
<1>18. ASSUME NEW k \in CatalogNames \ unsure', Quiet(k)' PROVE Kept(k)'
  <2>1. Quiet(k)
    <3>1. ASSUME NEW s \in Operators PROVE k \notin Keys(op[s])
      <4>1. CASE s = t
        BY <1>2, <4>1 DEF Keys
      <4>2. CASE s # t
        <5>1. op'[s] = op[s]
          BY <1>3, <4>2
        <5> QED BY <1>18, <5>1 DEF Quiet, Keys
      <4> QED BY <4>1, <4>2
    <3> QED BY <3>1 DEF Quiet
  <2> QED BY <1>5, <1>16, <1>18, <2>1 DEF KeptKeys
<1> QED BY <1>7, <1>15, <1>17, <1>18 DEF StoreFollows, KeptKeys

LEMMA CreateHolds ==
  ASSUME RegistryTyping, Statics, StoreFollows, KeptKeys, NEW t \in Operators, CreateCatalog(t)
  PROVE  RegistryTyping' /\ Statics' /\ StoreFollows' /\ KeptKeys'
<1>1. PICK name \in CatalogNames, password \in Passwords \union {None} :
        LET ref == IF password = None THEN None ELSE name IN
        /\ Free(name)
        /\ Begins(t, [do |-> "create", at |-> IF ref = None THEN "write" ELSE "put", id |-> begun + 1, name |-> name,
                      password |-> password, ref |-> ref, old |-> None],
                  ({ref} \ {None}) \intersect {catalogs[i].ref : i \in Id \ Named(name)})
  BY DEF CreateCatalog
<1> DEFINE ref == IF password = None THEN None ELSE name
           at == IF ref = None THEN "write" ELSE "put"
           id == begun + 1
           o == [do |-> "create", at |-> at, id |-> id, name |-> name, password |-> password, ref |-> ref, old |-> None]
           disputed == ({ref} \ {None}) \intersect {catalogs[i].ref : i \in Id \ Named(name)}
<1>2. Free(name) /\ Begins(t, o, disputed)
  BY <1>1
<1>3. name # None /\ ref \in Refs /\ (ref = None <=> password = None) /\ (ref # None => ref = name) /\ password \in Givens
      /\ at \in {"put", "write"} /\ (at = "put" <=> ref # None) /\ id \in Nat
  BY RegistryAssumption DEF None, Refs, Givens, RegistryTyping
<1>4. disputed \in SUBSET CatalogNames
  BY <1>3 DEF Refs
<1>5. \A k \in {ref} \ (disputed \union {None}) : Holders(k) = {}
  BY <1>2 DEF Free, Holders
<1> HIDE DEF ref, at, disputed, id
<1>6. /\ o \in Creates /\ o.do = "create" /\ o.at = at /\ o.id = id /\ o.name = name /\ o.password = password
      /\ o.ref = ref /\ o.old = None
  BY <1>3 DEF Creates
<1> HIDE DEF o
<1>7. o \in RegistryOps /\ o \notin Edits
  BY <1>6, OpFields DEF RegistryOps
<1>8. Sound(o)
  BY <1>3, <1>6, <1>7 DEF Sound
<1>9. \A k \in Keys(o) : ~Given(o, k) /\ ~Gone(o, k)
  <2>1. Keys(o) = {ref, None} \ {None}
    BY <1>6, <1>7, OpFields
  <2> QED BY <1>3, <1>6, <2>1 DEF Given, Gone
<1>10. Named(o.name) \subseteq {o.id} /\ \A k \in {o.ref} \ (disputed \union unsure \union {None}) : Holders(k) \subseteq {o.id}
  BY <1>2, <1>5, <1>6 DEF Free
<1>11. o.id = begun + 1
  BY <1>6 DEF id
<1> QED BY <1>2, <1>4, <1>6, <1>8, <1>9, <1>10, <1>11, BeginsHold

LEMMA UpdateHolds ==
  ASSUME RegistryTyping, Statics, StoreFollows, KeptKeys, NEW t \in Operators, NEW i \in Id, UpdateCatalog(t, i)
  PROVE  RegistryTyping' /\ Statics' /\ StoreFollows' /\ KeptKeys'
<1>1. PICK name \in CatalogNames, kind \in {"secret", "plain"}, password \in Passwords \union {None} :
        LET old == catalogs[i].ref
            ref == IF kind = "plain" THEN None ELSE IF password # None THEN name ELSE old
        IN /\ IF kind = "plain" THEN password = None ELSE ref # None
           /\ Begins(t, [do |-> "edit", at |-> IF password # None THEN "put" ELSE "drop", id |-> i, name |-> name,
                         password |-> password, ref |-> ref, old |-> old],
                     IF \E j \in Id \ {i} : name = catalogs[j].name \/ (password # None /\ name = catalogs[j].ref)
                     THEN {ref, old} \ {None} ELSE {})
  BY DEF UpdateCatalog
<1> DEFINE old == catalogs[i].ref
           ref == IF kind = "plain" THEN None ELSE IF password # None THEN name ELSE old
           at == IF password # None THEN "put" ELSE "drop"
           o == [do |-> "edit", at |-> at, id |-> i, name |-> name, password |-> password, ref |-> ref, old |-> old]
           Shared == \E j \in Id \ {i} : name = catalogs[j].name \/ (password # None /\ name = catalogs[j].ref)
           disputed == IF Shared THEN {ref, old} \ {None} ELSE {}
<1>2. (IF kind = "plain" THEN password = None ELSE ref # None) /\ Begins(t, o, disputed)
  BY <1>1
<1>3. old \in Refs /\ i \in Nat /\ password \in Givens /\ catalogs[i].name \in CatalogNames
  BY DEF RegistryTyping, Givens
<1>4. ref \in Refs /\ at \in {"put", "drop"} /\ (at = "put" <=> password # None)
      /\ (password # None => ref = name) /\ (password = None => ref \in {old, None})
  BY <1>2, <1>3 DEF Refs
<1>5. disputed \in SUBSET CatalogNames /\ (Shared => disputed = {ref, old} \ {None})
  BY <1>3, <1>4 DEF Refs
<1>6. ~Shared => Named(name) \subseteq {i}
  BY DEF Named
<1>7. \A k \in {ref} \ (disputed \union unsure \union {None}) : Holders(k) \subseteq {i}
  <2>1. CASE password # None
    BY <1>4, <1>5, <2>1 DEF Holders
  <2>2. CASE password = None
    <3> SUFFICES ASSUME NEW k \in {ref} \ (disputed \union unsure \union {None}) PROVE Holders(k) \subseteq {i}
      OBVIOUS
    <3>1. k = old /\ k \in CatalogNames \ unsure
      BY <1>3, <1>4, <2>2 DEF Refs
    <3>2. i \in Holders(k)
      BY <3>1 DEF Holders
    <3> QED BY <3>1, <3>2 DEF Statics, RefsApart
  <2> QED BY <2>1, <2>2
<1> HIDE DEF ref, at, disputed, old, Shared
<1>8. /\ o \in Edits /\ o.do = "edit" /\ o.at = at /\ o.id = i /\ o.name = name /\ o.password = password
      /\ o.ref = ref /\ o.old = old
  BY <1>3, <1>4 DEF Edits
<1> HIDE DEF o
<1>9. o \in RegistryOps /\ o \notin Creates
  BY <1>8, OpFields DEF RegistryOps
<1>10. Sound(o)
  BY <1>4, <1>8, <1>9 DEF Sound
<1>11. Keys(o) = {ref, old} \ {None}
  BY <1>8, <1>9, OpFields
<1>12. \A k \in Keys(o) : ~Given(o, k) /\ ~Gone(o, k)
  BY <1>4, <1>8 DEF Given, Gone
<1>13. Keys(o) \subseteq disputed \/ Named(o.name) \subseteq {o.id}
  BY <1>5, <1>6, <1>8, <1>11
<1>14. \A k \in {o.ref} \ (disputed \union unsure \union {None}) : Holders(k) \subseteq {o.id}
  BY <1>7, <1>8
<1>15. o.id \in Id /\ catalogs[o.id].ref = o.old
  BY <1>8 DEF old
<1> QED BY <1>2, <1>5, <1>8, <1>10, <1>12, <1>13, <1>14, <1>15, BeginsHold

LEMMA DeleteHolds ==
  ASSUME RegistryTyping, Statics, StoreFollows, KeptKeys, NEW t \in Operators, NEW i \in Id, DeleteCatalog(t, i)
  PROVE  RegistryTyping' /\ Statics' /\ StoreFollows' /\ KeptKeys'
<1> DEFINE old == catalogs[i].ref
           o == [do |-> "delete", at |-> "erase", id |-> i, ref |-> None, old |-> old]
<1>1. Begins(t, o, {})
  BY DEF DeleteCatalog
<1>2. old \in Refs /\ i \in Nat
  BY DEF RegistryTyping
<1> HIDE DEF old
<1>3. o \in Deletes /\ o.do = "delete" /\ o.at = "erase" /\ o.id = i /\ o.ref = None /\ o.old = old
  BY <1>2 DEF Deletes
<1> HIDE DEF o
<1>4. o \in RegistryOps /\ o \notin Creates /\ o \notin Edits
  BY <1>3, OpFields DEF RegistryOps
<1>5. Sound(o)
  BY <1>4 DEF Sound
<1>6. \A k \in Keys(o) : ~Given(o, k) /\ ~Gone(o, k)
  <2>1. Keys(o) = {o.ref, o.old} \ {None}
    BY <1>3, <1>4, OpFields
  <2> QED BY <1>3, <2>1 DEF Given, Gone
<1>7. o.id \in Id /\ catalogs[o.id].ref = o.old
  BY <1>3 DEF old
<1> QED BY <1>1, <1>3, <1>5, <1>6, <1>7, BeginsHold

\* What holds of the registry's rows, of the requests under way and of the store.
LEMMA RegistryParts ==
  RegistryInv <=> RegistryTyping /\ Statics /\ StoreFollows /\ KeptKeys
BY KeptIs DEF RegistryInv, Statics

LEMMA RegistryInit == CatalogsInit => RegistryInv
<1> SUFFICES ASSUME CatalogsInit PROVE RegistryTyping /\ Statics /\ StoreFollows /\ KeptKeys
  BY RegistryParts
<1>1. Id = {} /\ DOMAIN gave = {}
  BY DEF CatalogsInit, Id
<1>2. \A t \in Operators : op[t] = Idle /\ Keys(op[t]) = {}
  BY DEF CatalogsInit, Keys
<1>3. Sound(Idle) /\ Idle.do = "idle"
  <2>1. Idle \notin Creates /\ Idle \notin Edits
    BY DEF Idle, Creates, Edits
  <2> QED BY <2>1 DEF Sound, Idle
<1>4. RegistryTyping
  <2>1. catalogs = [i \in Id |-> catalogs[i]] /\ gave = [i \in Id |-> gave[i]]
    BY <1>1 DEF CatalogsInit
  <2>2. secrets \in [CatalogNames -> Givens] /\ op \in [Operators -> RegistryOps]
    BY DEF CatalogsInit, Givens, RegistryOps
  <2>3. unsure \subseteq CatalogNames /\ begun \in Nat /\ failed \in Nat
    BY DEF CatalogsInit
  <2> QED BY <1>1, <1>2, <1>3, <2>1, <2>2, <2>3 DEF RegistryTyping
<1>5. Statics
  BY <1>1, <1>2, <1>3 DEF Statics, FreshIds, MeetingsKnown, RowsStand, NamesStand, RefsApart, Holders, Meet
<1>6. StoreFollows
  BY <1>2 DEF StoreFollows
<1>7. KeptKeys
  BY <1>1 DEF CatalogsInit, KeptKeys, Kept, Holders
<1> QED BY <1>4, <1>5, <1>6, <1>7

LEMMA RegistryNext == RegistryInv /\ [CatalogsNext]_registry => RegistryInv'
<1> SUFFICES ASSUME RegistryTyping, Statics, StoreFollows, KeptKeys, [CatalogsNext]_registry
             PROVE  RegistryTyping' /\ Statics' /\ StoreFollows' /\ KeptKeys'
  BY RegistryParts, KeptIs, PTL DEF RegistryInv, Statics
<1>1. ASSUME NEW t \in Operators, CreateCatalog(t) PROVE RegistryTyping' /\ Statics' /\ StoreFollows' /\ KeptKeys'
  BY <1>1, CreateHolds
<1>2. ASSUME NEW t \in Operators, NEW i \in Id, UpdateCatalog(t, i)
      PROVE  RegistryTyping' /\ Statics' /\ StoreFollows' /\ KeptKeys'
  BY <1>2, UpdateHolds
<1>3. ASSUME NEW t \in Operators, NEW i \in Id, DeleteCatalog(t, i)
      PROVE  RegistryTyping' /\ Statics' /\ StoreFollows' /\ KeptKeys'
  BY <1>3, DeleteHolds
<1>4. ASSUME NEW t \in Operators, Put(t) PROVE RegistryTyping' /\ Statics' /\ StoreFollows' /\ KeptKeys'
  BY <1>4, PutHolds
<1>5. ASSUME NEW t \in Operators, Erase(t) PROVE RegistryTyping' /\ Statics' /\ StoreFollows' /\ KeptKeys'
  BY <1>5, EraseHolds
<1>6. ASSUME NEW t \in Operators, Drop(t) PROVE RegistryTyping' /\ Statics' /\ StoreFollows' /\ KeptKeys'
  BY <1>6, DropHolds
<1>7. ASSUME NEW t \in Operators, Write(t) PROVE RegistryTyping' /\ Statics' /\ StoreFollows' /\ KeptKeys'
  BY <1>7, WriteHolds
<1>8. CASE CrashStore
  BY <1>8, CrashHolds
<1>9. CASE UNCHANGED registry
  <2>1. UNCHANGED <<catalogs, gave, secrets, op, unsure, begun, failed>>
    BY <1>9 DEF registry
  <2>2. RegistryTyping'
    BY <2>1 DEF RegistryTyping, Id
  <2>3. \A t \in Operators : op'[t] = Idle \/ (op[t] # Idle /\ Alike(op[t], op'[t]))
    BY <2>1 DEF Alike
  <2>4. Statics'
    BY <2>1, <2>2, <2>3, StaticsHold
  <2>5. (\A k : Kept(k)' <=> Kept(k)) /\ \A k : Quiet(k)' <=> Quiet(k)
    BY <2>1 DEF Kept, Holders, Id, Quiet, Keys
  <2>6. StoreFollows' /\ KeptKeys'
    BY <2>1, <2>5 DEF StoreFollows, KeptKeys, Follows, Given, Gone, Keys
  <2> QED BY <2>2, <2>4, <2>6
<1>10. CASE \E t \in Operators :
              \/ CreateCatalog(t) \/ \E i \in Id : UpdateCatalog(t, i) \/ DeleteCatalog(t, i)
              \/ Put(t) \/ Erase(t) \/ Drop(t) \/ Write(t)
  BY <1>1, <1>2, <1>3, <1>4, <1>5, <1>6, <1>7, <1>10
<1> QED BY <1>8, <1>9, <1>10 DEF CatalogsNext

\* The invariant holds of every history of creates, edits, removals and crashes, by any number of operators.
THEOREM RegistryHolds == CatalogsSpec => []RegistryInv
BY RegistryInit, RegistryNext, PTL DEF CatalogsSpec

\* However creates, edits and removals interleave and wherever the server crashes: once nothing is under way on a secret,
\* its catalog connects with the password its operator gave it and no secret is left of a catalog that is gone, except
\* where two catalogs shared the secret or a crash came between the store and the row.
THEOREM PasswordsHold == CatalogsSpec => []PasswordsAreTheirOwn
<1>1. RegistryInv => PasswordsAreTheirOwn
  BY DEF RegistryInv
<1> QED BY <1>1, RegistryHolds, PTL

-------------------------------------------------------------------------------
(* AccessRules: what the rules of policies and tags let users do. *)

\* Every non-empty set of naturals has a least element.
LessRel == {pair \in Nat \X Nat : pair[1] < pair[2]}

LEMMA LessIsWellFounded == IsWellFoundedOn(LessRel, Nat)
BY NatLessThanWellFounded DEF OpToRel, LessRel

LEMMA LessIs == ASSUME NEW n \in Nat, NEW m \in Nat, n < m PROVE <<n, m>> \in LessRel
BY DEF LessRel

LEMMA LeastElement ==
  ASSUME NEW S, S \subseteq Nat, S # {} PROVE \E m \in S : \A n \in S : m <= n
<1>1. \E m \in S : \A n \in S : ~(<<n, m>> \in LessRel)
  BY LessIsWellFounded, WFMin
<1>2. PICK m \in S : \A n \in S : <<n, m>> \notin LessRel
  BY <1>1
<1>3. ASSUME NEW n \in S PROVE m <= n
  <2>1. n \in Nat /\ m \in Nat
    OBVIOUS
  <2>2. <<n, m>> \notin LessRel
    BY <1>2
  <2>3. ~(n < m)
    BY <2>1, <2>2, LessIs
  <2> QED BY <2>1, <2>3
<1> QED BY <1>3

\* A set that holds 0, and every other number up to N whose predecessor it holds, holds all of them.
LEMMA UpTo ==
  ASSUME NEW N \in Nat, NEW S, 0 \in S, \A n \in 1 .. N : n - 1 \in S => n \in S
  PROVE  0 .. N \subseteq S
<1> DEFINE bad == {n \in 0 .. N : n \notin S}
<1>1. ASSUME bad # {} PROVE FALSE
  <2>1. PICK m \in bad : \A n \in bad : m <= n
    <3>1. bad \subseteq Nat
      OBVIOUS
    <3> HIDE DEF bad
    <3> QED BY <1>1, <3>1, LeastElement
  <2>2. m \in 1 .. N /\ m \notin S
    OBVIOUS
  <2>3. m - 1 \in 0 .. N /\ ~(m <= m - 1)
    BY <2>2
  <2>4. m - 1 \in S
    BY <2>1, <2>3
  <2> QED BY <2>2, <2>4
<1> QED BY <1>1

\* A function that is defined by its value before exists.
Recursions(N, A) == [(1 .. N) \X A -> A]

LEMMA RecursionExists ==
  ASSUME NEW A, NEW base \in A, NEW N \in Nat, NEW g \in Recursions(N, A)
  PROVE  \E f \in [0 .. N -> A] : f[0] = base /\ \A n \in 1 .. N : f[n] = g[<<n, f[n - 1]>>]
<1> DEFINE Begun(k) == {f \in [0 .. k -> A] : f[0] = base /\ \A n \in 1 .. k : f[n] = g[<<n, f[n - 1]>>]}
           good == {k \in 0 .. N : Begun(k) # {}}
<1>0. g \in [(1 .. N) \X A -> A]
  BY DEF Recursions
<1>1. 0 \in good
  <2>1. [n \in 0 .. 0 |-> base] \in Begun(0)
    OBVIOUS
  <2> QED BY <2>1
<1>2. ASSUME NEW m \in 1 .. N, m - 1 \in good PROVE m \in good
  <2>1. PICK f \in Begun(m - 1) : TRUE
    BY <1>2
  <2> DEFINE h == [n \in 0 .. m |-> IF n = m THEN g[<<m, f[m - 1]>>] ELSE f[n]]
  <2>2. m \in Nat /\ m - 1 \in Nat /\ m - 1 \in 0 .. m - 1 /\ 0 \in 0 .. m - 1
    OBVIOUS
  <2>3. f \in [0 .. m - 1 -> A] /\ f[0] = base /\ \A n \in 1 .. m - 1 : f[n] = g[<<n, f[n - 1]>>]
    BY <2>1
  <2>4. <<m, f[m - 1]>> \in (1 .. N) \X A
    BY <2>2, <2>3
  <2>5. \A n \in 0 .. m : n # m => n \in 0 .. m - 1
    OBVIOUS
  <2>6. h \in [0 .. m -> A]
    BY <1>0, <2>3, <2>4, <2>5
  <2>7. \A n \in 1 .. m : h[n] = g[<<n, h[n - 1]>>]
    <3> SUFFICES ASSUME NEW n \in 1 .. m PROVE h[n] = g[<<n, h[n - 1]>>]
      OBVIOUS
    <3>1. n \in 0 .. m /\ n - 1 \in 0 .. m /\ n - 1 # m
      OBVIOUS
    <3>2. h[n - 1] = f[n - 1]
      BY <3>1
    <3>3. CASE n = m
      BY <3>1, <3>2, <3>3
    <3>4. CASE n # m
      <4>1. n \in 1 .. m - 1
        BY <3>4
      <4> QED BY <2>3, <3>1, <3>2, <3>4, <4>1
    <3> QED BY <3>3, <3>4
  <2>8. h[0] = base
    BY <2>2, <2>3
  <2> HIDE DEF h
  <2>9. Begun(m) # {} /\ m \in 0 .. N
    BY <2>6, <2>7, <2>8
  <2> QED BY <2>9
<1> HIDE DEF good
<1>3. N \in good
  <2>1. 0 .. N \subseteq good
    BY <1>1, <1>2, UpTo
  <2> QED BY <2>1
<1>4. PICK f \in Begun(N) : TRUE
  BY <1>3 DEF good
<1> QED BY <1>4

Made == {PolicyRule(policies[i]) : i \in DOMAIN policies}

LEMMA RulesOfFirstIs ==
  ASSUME policies \in Seq(Policy)
  PROVE  /\ RulesOfFirst \in [0 .. Len(policies) -> Seq(Made)]
         /\ RulesOfFirst[0] = <<>>
         /\ \A n \in 1 .. Len(policies) :
              RulesOfFirst[n] = IF Members(policies[n].role) = {} THEN RulesOfFirst[n - 1]
                                ELSE Append(RulesOfFirst[n - 1], PolicyRule(policies[n]))
<1> DEFINE N == Len(policies)
           A == Seq(Made)
           g == [x \in (1 .. N) \X A |-> IF Members(policies[x[1]].role) = {} THEN x[2]
                                         ELSE Append(x[2], PolicyRule(policies[x[1]]))]
<1>1. N \in Nat /\ DOMAIN policies = 1 .. N
  OBVIOUS
<1>2. \A n \in 1 .. N : PolicyRule(policies[n]) \in Made
  BY <1>1 DEF Made
<1> HIDE DEF N
<1>3. g \in [(1 .. N) \X A -> A] /\ <<>> \in A
  BY <1>2
<1>4. \A n \in 1 .. N : \A a \in A : g[<<n, a>>] = IF Members(policies[n].role) = {} THEN a ELSE Append(a, PolicyRule(policies[n]))
  OBVIOUS
<1> HIDE DEF g, A
<1>5. PICK f \in [0 .. N -> A] : f[0] = <<>> /\ \A n \in 1 .. N : f[n] = g[<<n, f[n - 1]>>]
  <2>1. g \in Recursions(N, A)
    BY <1>3 DEF Recursions
  <2> QED BY <1>1, <1>3, <2>1, RecursionExists
<1>6. \A n \in 1 .. N : f[n] = IF Members(policies[n].role) = {} THEN f[n - 1] ELSE Append(f[n - 1], PolicyRule(policies[n]))
  <2> SUFFICES ASSUME NEW n \in 1 .. N
               PROVE  f[n] = IF Members(policies[n].role) = {} THEN f[n - 1] ELSE Append(f[n - 1], PolicyRule(policies[n]))
    OBVIOUS
  <2>1. n - 1 \in 0 .. N
    BY <1>1
  <2>2. f[n - 1] \in A
    BY <2>1
  <2> QED BY <1>4, <1>5, <2>2
<1>7. f = [n \in 0 .. N |-> IF n = 0 THEN <<>> ELSE IF Members(policies[n].role) = {} THEN f[n - 1]
                                                      ELSE Append(f[n - 1], PolicyRule(policies[n]))]
  <2>1. \A n \in 0 .. N : n # 0 => n \in 1 .. N
    BY <1>1
  <2> QED BY <1>5, <1>6, <2>1
<1> DEFINE all == CHOOSE h : h = [n \in 0 .. N |-> IF n = 0 THEN <<>> ELSE IF Members(policies[n].role) = {} THEN h[n - 1]
                                                      ELSE Append(h[n - 1], PolicyRule(policies[n]))]
<1>8. RulesOfFirst = all
  BY DEF RulesOfFirst, N
<1>9. all = [n \in 0 .. N |-> IF n = 0 THEN <<>> ELSE IF Members(policies[n].role) = {} THEN all[n - 1]
                                                      ELSE Append(all[n - 1], PolicyRule(policies[n]))]
  BY <1>7
<1> HIDE DEF all
<1> DEFINE good == {n \in 0 .. N : all[n] \in A}
<1>10. 0 .. N \subseteq good
  <2>1. 0 \in good
    BY <1>1, <1>3, <1>9
  <2>2. ASSUME NEW n \in 1 .. N, n - 1 \in good PROVE n \in good
    <3>1. n \in 0 .. N /\ n # 0 /\ all[n - 1] \in A
      BY <1>1, <2>2
    <3>2. all[n] = IF Members(policies[n].role) = {} THEN all[n - 1] ELSE Append(all[n - 1], PolicyRule(policies[n]))
      BY <1>9, <3>1
    <3>3. PolicyRule(policies[n]) \in Made
      BY <1>2
    <3>4. all[n] \in A
      <4> HIDE DEF good
      <4> QED BY <3>1, <3>2, <3>3 DEF A
    <3> QED BY <3>1, <3>4
  <2> HIDE DEF good
  <2> QED BY <1>1, <2>1, <2>2, UpTo
<1>11. all \in [0 .. N -> A]
  BY <1>9, <1>10
<1>12. all[0] = <<>>
  BY <1>1, <1>9
<1>13. \A n \in 1 .. N : n \in 0 .. N /\ n # 0
  BY <1>1
<1>14. \A n \in 1 .. N : all[n] = IF Members(policies[n].role) = {} THEN all[n - 1] ELSE Append(all[n - 1], PolicyRule(policies[n]))
  BY <1>9, <1>13
<1> QED BY <1>8, <1>11, <1>12, <1>14 DEF N, A

\* Each policy for a role with members has its rule, and there are no others.
LEMMA PolicyRulesAre ==
  ASSUME policies \in Seq(Policy)
  PROVE  /\ PolicyRules \in Seq(Made)
         /\ \A i \in DOMAIN policies : Members(policies[i].role) # {} =>
              \E k \in DOMAIN PolicyRules : PolicyRules[k] = PolicyRule(policies[i])
         /\ \A k \in DOMAIN PolicyRules : \E i \in DOMAIN policies :
              Members(policies[i].role) # {} /\ PolicyRules[k] = PolicyRule(policies[i])
<1> DEFINE N == Len(policies)
           all == RulesOfFirst
           Right(n) == /\ \A i \in 1 .. n : Members(policies[i].role) # {} => \E k \in DOMAIN all[n] : all[n][k] = PolicyRule(policies[i])
                       /\ \A k \in DOMAIN all[n] : \E i \in 1 .. n : Members(policies[i].role) # {} /\ all[n][k] = PolicyRule(policies[i])
           good == {n \in 0 .. N : Right(n)}
<1>1. N \in Nat /\ DOMAIN policies = 1 .. N
  OBVIOUS
<1>2. /\ all \in [0 .. N -> Seq(Made)] /\ all[0] = <<>>
      /\ \A n \in 1 .. N : all[n] = IF Members(policies[n].role) = {} THEN all[n - 1] ELSE Append(all[n - 1], PolicyRule(policies[n]))
  BY RulesOfFirstIs
<1>3. PolicyRules = all[N]
  BY DEF PolicyRules
<1> HIDE DEF N, all
<1>4. 0 .. N \subseteq good
  <2>1. 0 \in good
    BY <1>1, <1>2
  <2>2. ASSUME NEW n \in 1 .. N, n - 1 \in good PROVE n \in good
    <3>1. Right(n - 1) /\ all[n - 1] \in Seq(Made) /\ n \in 0 .. N
      <4>1. n - 1 \in 0 .. N /\ n \in 0 .. N
        BY <1>1
      <4>2. Right(n - 1)
        BY <2>2
      <4> HIDE DEF good, Right
      <4> QED BY <1>2, <4>1, <4>2
    <3>2. CASE Members(policies[n].role) = {}
      <4>1. all[n] = all[n - 1]
        BY <1>2, <3>2
      <4>2. \A i \in 1 .. n : i = n \/ i \in 1 .. n - 1
        OBVIOUS
      <4>3. \A i \in 1 .. n - 1 : i \in 1 .. n
        OBVIOUS
      <4>4. Right(n)
        BY <3>1, <3>2, <4>1, <4>2, <4>3
      <4> QED BY <3>1, <4>4
    <3>3. CASE Members(policies[n].role) # {}
      <4> DEFINE old == all[n - 1]
                 rule == PolicyRule(policies[n])
      <4>1. all[n] = Append(old, rule)
        BY <1>2, <3>3
      <4>2. rule \in Made
        BY <1>1 DEF Made
      <4> HIDE DEF rule
      <4>3. old \in Seq(Made)
        BY <3>1
      <4>4. /\ DOMAIN all[n] = 1 .. Len(old) + 1 /\ all[n][Len(old) + 1] = rule
            /\ \A k \in DOMAIN old : k \in DOMAIN all[n] /\ all[n][k] = old[k]
            /\ \A k \in DOMAIN all[n] : k = Len(old) + 1 \/ k \in DOMAIN old
            /\ Len(old) + 1 \in DOMAIN all[n]
        BY <4>1, <4>2, <4>3
      <4>5. ASSUME NEW i \in 1 .. n, Members(policies[i].role) # {} PROVE \E k \in DOMAIN all[n] : all[n][k] = PolicyRule(policies[i])
        <5>1. CASE i = n
          BY <4>4, <5>1 DEF rule
        <5>2. CASE i # n
          <6>1. i \in 1 .. n - 1
            BY <5>2
          <6>2. PICK k \in DOMAIN old : old[k] = PolicyRule(policies[i])
            BY <3>1, <4>5, <6>1
          <6> QED BY <4>4, <6>2
        <5> QED BY <5>1, <5>2
      <4>6. ASSUME NEW k \in DOMAIN all[n] PROVE \E i \in 1 .. n : Members(policies[i].role) # {} /\ all[n][k] = PolicyRule(policies[i])
        <5>1. CASE k = Len(old) + 1
          <6>1. n \in 1 .. n
            OBVIOUS
          <6>2. all[n][k] = PolicyRule(policies[n])
            BY <4>4, <5>1 DEF rule
          <6> QED BY <3>3, <6>1, <6>2
        <5>2. CASE k \in DOMAIN old
          <6>1. PICK i \in 1 .. n - 1 : Members(policies[i].role) # {} /\ old[k] = PolicyRule(policies[i])
            BY <3>1, <5>2
          <6>2. i \in 1 .. n
            OBVIOUS
          <6> QED BY <4>4, <5>2, <6>1, <6>2
        <5> QED BY <4>4, <5>1, <5>2
      <4> QED BY <3>1, <4>5, <4>6
    <3> QED BY <3>2, <3>3
  <2> HIDE DEF good
  <2> QED BY <1>1, <2>1, <2>2, UpTo
<1>5. N \in 0 .. N
  BY <1>1
<1>6. Right(N) /\ all[N] \in Seq(Made)
  BY <1>2, <1>4, <1>5
<1> QED BY <1>1, <1>3, <1>6

\* What the tables hold.
Tag == [table : Tables, column : Columns \union {Wild}, status : {"proposed", "accepted"}]
AccessTyping ==
  /\ policies \in Seq(Policy)
  /\ tags \subseteq Tag /\ IsFiniteSet(tags)
  /\ tagPolicies \subseteq TagPolicy /\ IsFiniteSet(tagPolicies)

LEMMA Lists ==
  /\ Piis \subseteq Columns /\ Policy \subseteq PolicyRow
  /\ IsFiniteSet(Catalogs) /\ IsFiniteSet(Names) /\ IsFiniteSet(Columns) /\ Wild \notin Catalogs /\ Wild \notin Names
BY ListsAssumption DEF Wild

\* As many tags at most as there are tables and columns to tag.
LEMMA PiiFinite ==
  ASSUME NEW found, found \subseteq Tables \X Piis
  PROVE  IsFiniteSet({[table |-> t[1], column |-> t[2], status |-> "proposed"] : t \in found})
<1> DEFINE made == {[table |-> t[1], column |-> t[2], status |-> "proposed"] : t \in found}
           f == [t \in found |-> [table |-> t[1], column |-> t[2], status |-> "proposed"]]
<1>1. IsFiniteSet(Tables)
  BY Lists, FS_Product DEF Tables
<1>2. IsFiniteSet(Piis)
  <2>1. Piis \in SUBSET Columns
    BY Lists
  <2> QED BY <2>1, Lists, FS_Subset
<1>3. IsFiniteSet(found)
  <2>1. IsFiniteSet(Tables \X Piis)
    BY <1>1, <1>2, FS_Product
  <2>2. found \in SUBSET (Tables \X Piis)
    OBVIOUS
  <2> QED BY <2>1, <2>2, FS_Subset
<1>4. f \in Surjection(found, made)
  BY DEF Surjection
<1> HIDE DEF f, made
<1>5. IsFiniteSet(made)
  BY <1>3, <1>4, FS_Surjection
<1> QED BY <1>5 DEF made

LEMMA AccessTypes == AccessSpec => []AccessTyping
<1>1. AccessInit => AccessTyping
  BY FS_EmptySet DEF AccessInit, AccessTyping
<1>2. AccessTyping /\ [AccessNext]_stored => AccessTyping'
  <2> SUFFICES ASSUME AccessTyping, [AccessNext]_stored PROVE AccessTyping'
    OBVIOUS
  <2> USE DEF AccessTyping
  <2>1. CASE UNCHANGED stored
    BY <2>1 DEF stored
  <2>2. CASE CreateDataPolicy
    BY <2>2 DEF CreateDataPolicy
  <2>3. CASE \E i \in DOMAIN policies : DeleteDataPolicy(i)
    BY <2>3 DEF DeleteDataPolicy, RemoveAt
  <2>4. CASE CreateEntityTag
    <3>1. PICK t \in Tables, c \in Columns \union {Wild} :
            tags' = (tags \ {[table |-> t, column |-> c, status |-> "proposed"]})
                      \union {[table |-> t, column |-> c, status |-> "accepted"]}
      BY <2>4 DEF CreateEntityTag
    <3> DEFINE old == [table |-> t, column |-> c, status |-> "proposed"]
               new == [table |-> t, column |-> c, status |-> "accepted"]
    <3>2. new \in Tag
      BY DEF Tag
    <3> HIDE DEF new, old
    <3>3. IsFiniteSet(tags \ {old})
      BY FS_RemoveElement
    <3>4. IsFiniteSet((tags \ {old}) \union {new})
      BY <3>3, FS_AddElement
    <3>5. tags' = (tags \ {old}) \union {new}
      BY <3>1 DEF new, old
    <3> QED BY <2>4, <3>2, <3>4, <3>5 DEF CreateEntityTag
  <2>5. CASE \E t \in tags : ResolveEntityTag(t)
    <3> PICK t \in tags : ResolveEntityTag(t)
      BY <2>5
    <3> DEFINE new == [t EXCEPT !.status = "accepted"]
    <3>1. new \in Tag
      BY DEF Tag
    <3> HIDE DEF new
    <3>2. IsFiniteSet(tags \ {t})
      BY FS_RemoveElement
    <3>3. IsFiniteSet((tags \ {t}) \union {new})
      BY <3>2, FS_AddElement
    <3>4. tags' = (tags \ {t}) \union {new} \/ tags' = tags \ {t}
      BY DEF ResolveEntityTag, new
    <3> QED BY <3>1, <3>2, <3>3, <3>4 DEF ResolveEntityTag
  <2>6. CASE CreateTagPolicy
    <3> PICK p \in TagPolicy : tagPolicies' = tagPolicies \union {p}
      BY <2>6 DEF CreateTagPolicy
    <3> QED BY <2>6, FS_AddElement DEF CreateTagPolicy
  <2>7. CASE \E p \in tagPolicies : DeleteTagPolicy(p)
    BY <2>7, FS_RemoveElement DEF DeleteTagPolicy
  <2>8. CASE RunPiiClassifier
    <3> DEFINE found == {t \in {t \in Tables : cached[t] # "unknown"} \X Piis : \A s \in tags : <<s.table, s.column>> # t}
               new == {[table |-> t[1], column |-> t[2], status |-> "proposed"] : t \in found}
    <3>1. tags' = tags \union new /\ UNCHANGED <<policies, tagPolicies>>
      BY <2>8 DEF RunPiiClassifier
    <3>2. found \subseteq Tables \X Piis
      OBVIOUS
    <3> HIDE DEF found
    <3>3. IsFiniteSet(new)
      BY <3>2, PiiFinite
    <3>4. new \subseteq Tag
      BY <3>2, Lists DEF Tag
    <3> HIDE DEF new
    <3>5. IsFiniteSet(tags \union new)
      BY <3>3, FS_Union
    <3> QED BY <3>1, <3>4, <3>5
  <2>9. CASE CacheColumns \/ \E t \in Tables : CacheTables(t)
    BY <2>9 DEF CacheColumns, CacheTables
  <2> QED BY <2>1, <2>2, <2>3, <2>4, <2>5, <2>6, <2>7, <2>8, <2>9 DEF AccessNext
<1> QED BY <1>1, <1>2, PTL DEF AccessSpec

\* What an accepted tag and a tag policy for a role with members write.
TagRule(p, t) == [users |-> Members(p.role), catalog |-> t.table[1], table |-> t.table[2], privileges |-> {"SELECT"},
                  hidden |-> IF p.effect = "deny" THEN {t.column} ELSE {}, masked |-> IF p.effect = "mask" THEN {t.column} ELSE {}]
Acting == {x \in tags \X tagPolicies : x[1].status = "accepted" /\ x[1].column # Wild /\ Members(x[2].role) # {}}

LEMMA TagRulesAre ==
  /\ \A r \in TagRules : \E x \in Acting : r = TagRule(x[2], x[1])
  /\ \A x \in Acting : TagRule(x[2], x[1]) \in TagRules
<1>1. ASSUME NEW r \in TagRules PROVE \E x \in Acting : r = TagRule(x[2], x[1])
  <2>1. PICK p \in {q \in tagPolicies : Members(q.role) # {}}, t \in {s \in tags : s.status = "accepted" /\ s.column # Wild} :
          r = TagRule(p, t)
    BY DEF TagRules, TagRule
  <2>2. <<t, p>> \in Acting
    BY DEF Acting
  <2> QED BY <2>1, <2>2
<1>2. ASSUME NEW x \in Acting PROVE TagRule(x[2], x[1]) \in TagRules
  <2>1. x[1] \in {t \in tags : t.status = "accepted" /\ t.column # Wild} /\ x[2] \in {q \in tagPolicies : Members(q.role) # {}}
    BY DEF Acting
  <2> DEFINE p == x[2]
             t == x[1]
  <2> HIDE DEF p, t
  <2>2. p \in {q \in tagPolicies : Members(q.role) # {}} /\ t \in {q \in tags : q.status = "accepted" /\ q.column # Wild}
    BY <2>1 DEF p, t
  <2>3. TagRules = {TagRule(q, s) : q \in {q \in tagPolicies : Members(q.role) # {}},
                                    s \in {s \in tags : s.status = "accepted" /\ s.column # Wild}}
    BY DEF TagRules, TagRule
  <2>4. TagRule(p, t) \in TagRules
    BY <2>2, <2>3
  <2> QED BY <2>4 DEF p, t
<1> QED BY <1>1, <1>2

LEMMA TagRulesFinite ==
  ASSUME AccessTyping PROVE IsFiniteSet(TagRules)
<1> DEFINE f == [x \in Acting |-> TagRule(x[2], x[1])]
<1>1. IsFiniteSet(Acting)
  <2>1. IsFiniteSet(tags \X tagPolicies)
    BY FS_Product DEF AccessTyping
  <2>2. Acting \in SUBSET (tags \X tagPolicies)
    BY DEF Acting
  <2> QED BY <2>1, <2>2, FS_Subset
<1>2. f \in Surjection(Acting, TagRules)
  BY TagRulesAre DEF Surjection
<1> HIDE DEF f
<1> QED BY <1>1, <1>2, FS_Surjection

\* A sequence of a finite set holds its members and nothing else.
LEMMA SeqsOfSet ==
  ASSUME NEW S, IsFiniteSet(S), NEW s \in SetToSeqs(S)
  PROVE  /\ s \in Seq(S) /\ Len(s) = Cardinality(S)
         /\ \A x \in S : \E i \in DOMAIN s : s[i] = x
<1> DEFINE D == 1 .. Cardinality(S)
<1>1. Cardinality(S) \in Nat
  BY FS_CardinalityType
<1>2. s \in [D -> S] /\ \A i, j \in D : i # j => s[i] # s[j]
  BY DEF SetToSeqs
<1>3. s \in Seq(S) /\ Len(s) = Cardinality(S) /\ DOMAIN s = D
  BY <1>1, <1>2
<1>4. s \in Injection(D, S)
  BY <1>2 DEF Injection, IsInjective
<1>5. Cardinality(D) = Cardinality(S)
  BY <1>1, FS_Interval
<1> HIDE DEF D
<1>6. s \in Surjection(D, S)
  BY <1>4, <1>5, FS_Injection
<1>7. \A x \in S : \E i \in D : s[i] = x
  BY <1>6 DEF Surjection
<1> QED BY <1>3, <1>7

\* The lists that may be written: a rule for each policy, then for each accepted tag of a role with members, and at the
\* end the rule for everybody whose roles carry no policy.
LEMMA TableRulesAre ==
  ASSUME AccessTyping, NEW rules \in TableRules
  PROVE  /\ Len(rules) \in Nat /\ Len(rules) >= 1 /\ DOMAIN rules = 1 .. Len(rules)
         /\ \E m \in 0 .. Len(rules) - 1 :
              /\ \A k \in 1 .. m : \E i \in DOMAIN policies : rules[k] = PolicyRule(policies[i])
              /\ \A k \in m + 1 .. Len(rules) - 1 : \E x \in Acting : rules[k] = TagRule(x[2], x[1])
              /\ \A i \in DOMAIN policies : Members(policies[i].role) # {} =>
                   \E k \in 1 .. m : rules[k] = PolicyRule(policies[i])
         /\ \A x \in Acting : \E k \in 1 .. Len(rules) - 1 : rules[k] = TagRule(x[2], x[1])
         /\ rules[Len(rules)] = [users |-> {u \in ActiveUsers : Own(u) = {}}, catalog |-> Wild, table |-> Wild,
                                 privileges |-> Everything, hidden |-> {}, masked |-> {}]
<1> DEFINE own == PolicyRules
           rest == Rest(own)
<1>1. policies \in Seq(Policy)
  BY DEF AccessTyping
<1>2. /\ own \in Seq(Made)
      /\ \A i \in DOMAIN policies : Members(policies[i].role) # {} => \E k \in DOMAIN own : own[k] = PolicyRule(policies[i])
      /\ \A k \in DOMAIN own : \E i \in DOMAIN policies : Members(policies[i].role) # {} /\ own[k] = PolicyRule(policies[i])
  BY <1>1, PolicyRulesAre
<1>3. rest = [users |-> {u \in ActiveUsers : Own(u) = {}}, catalog |-> Wild, table |-> Wild,
              privileges |-> Everything, hidden |-> {}, masked |-> {}]
  <2>1. ASSUME NEW u \in ActiveUsers PROVE u \in Restricted(own) <=> Own(u) # {}
    <3>1. ASSUME u \in Restricted(own) PROVE Own(u) # {}
      <4>1. PICK k \in DOMAIN own : u \in own[k].users
        BY <3>1 DEF Restricted
      <4>2. PICK i \in DOMAIN policies : own[k] = PolicyRule(policies[i])
        BY <1>2
      <4>3. i \in Own(u)
        BY <4>1, <4>2 DEF PolicyRule, Members, Own
      <4> QED BY <4>3
    <3>2. ASSUME Own(u) # {} PROVE u \in Restricted(own)
      <4>1. PICK i \in DOMAIN policies : policies[i].role \in userRoles[u]
        BY <3>2 DEF Own
      <4>2. u \in Members(policies[i].role)
        BY <4>1 DEF Members
      <4>3. PICK k \in DOMAIN own : own[k] = PolicyRule(policies[i])
        BY <1>2, <4>2
      <4>4. u \in own[k].users
        BY <4>2, <4>3 DEF PolicyRule
      <4> QED BY <4>4 DEF Restricted
    <3> QED BY <3>1, <3>2
  <2>2. ActiveUsers \ Restricted(own) = {u \in ActiveUsers : Own(u) = {}}
    BY <2>1
  <2> HIDE DEF own
  <2> QED BY <2>2 DEF Rest
<1>4. PICK s \in SetToSeqs(TagRules) : rules = Append(own \o s, rest)
  BY DEF TableRules
<1>5. s \in Seq(TagRules) /\ \A r \in TagRules : \E i \in DOMAIN s : s[i] = r
  BY TagRulesFinite, SeqsOfSet
<1> HIDE DEF own, rest
<1> DEFINE m == Len(own)
           n == Len(s)
<1>6. /\ m \in Nat /\ n \in Nat /\ DOMAIN own = 1 .. m /\ DOMAIN s = 1 .. n
      /\ Len(rules) = m + n + 1 /\ DOMAIN rules = 1 .. m + n + 1
      /\ \A k \in 1 .. m : rules[k] = own[k]
      /\ \A k \in 1 .. n : rules[m + k] = s[k]
      /\ rules[m + n + 1] = rest
  <2> DEFINE A == Made \union TagRules \union {rest}
             both == own \o s
  <2>1. own \in Seq(A) /\ s \in Seq(A) /\ rest \in A
    BY <1>2, <1>5
  <2> HIDE DEF A
  <2>2. /\ m \in Nat /\ n \in Nat /\ DOMAIN own = 1 .. m /\ DOMAIN s = 1 .. n
        /\ both \in Seq(A) /\ Len(both) = m + n
        /\ \A k \in 1 .. m : both[k] = own[k]
        /\ \A k \in 1 .. n : both[m + k] = s[k]
    BY <2>1
  <2> HIDE DEF both, m, n
  <2>3. /\ Len(rules) = m + n + 1 /\ DOMAIN rules = 1 .. m + n + 1 /\ rules[m + n + 1] = rest
        /\ \A k \in 1 .. m + n : rules[k] = both[k]
    <3>1. rules = Append(both, rest)
      BY <1>4 DEF both
    <3>2. Len(rules) = Len(both) + 1 /\ DOMAIN rules = 1 .. Len(both) + 1 /\ rules[Len(both) + 1] = rest
      BY <2>1, <2>2, <3>1
    <3>3. \A k \in 1 .. Len(both) : rules[k] = both[k]
      BY <2>1, <2>2, <3>1
    <3> QED BY <2>2, <3>2, <3>3
  <2>4. \A k \in 1 .. m : k \in 1 .. m + n
    BY <2>2
  <2>5. \A k \in 1 .. n : m + k \in 1 .. m + n
    BY <2>2
  <2> QED BY <2>2, <2>3, <2>4, <2>5
<1> HIDE DEF m, n
<1>7. /\ \A k \in 1 .. m : \E i \in DOMAIN policies : rules[k] = PolicyRule(policies[i])
      /\ \A i \in DOMAIN policies : Members(policies[i].role) # {} => \E k \in 1 .. m : rules[k] = PolicyRule(policies[i])
  <2>1. \A k \in 1 .. m : rules[k] = own[k]
    BY <1>6
  <2>2. ASSUME NEW k \in 1 .. m PROVE \E i \in DOMAIN policies : rules[k] = PolicyRule(policies[i])
    BY <1>2, <1>6, <2>1
  <2>3. ASSUME NEW i \in DOMAIN policies, Members(policies[i].role) # {} PROVE \E k \in 1 .. m : rules[k] = PolicyRule(policies[i])
    <3>1. PICK k \in 1 .. m : own[k] = PolicyRule(policies[i])
      BY <1>2, <1>6, <2>3
    <3> QED BY <2>1, <3>1
  <2> QED BY <2>2, <2>3
<1>8. ASSUME NEW k \in m + 1 .. Len(rules) - 1 PROVE \E x \in Acting : rules[k] = TagRule(x[2], x[1])
  <2>1. k - m \in 1 .. n /\ k = m + (k - m)
    BY <1>6
  <2>2. s[k - m] \in TagRules /\ rules[k] = s[k - m]
    BY <1>5, <1>6, <2>1
  <2> QED BY <2>2, TagRulesAre
<1>9. ASSUME NEW x \in Acting PROVE \E k \in 1 .. Len(rules) - 1 : rules[k] = TagRule(x[2], x[1])
  <2>1. PICK j \in 1 .. n : s[j] = TagRule(x[2], x[1])
    BY <1>5, <1>6, TagRulesAre
  <2>2. m + j \in 1 .. Len(rules) - 1
    BY <1>6
  <2> QED BY <1>6, <2>1, <2>2
<1>10. /\ Len(rules) \in Nat /\ Len(rules) >= 1 /\ DOMAIN rules = 1 .. Len(rules) /\ rules[Len(rules)] = rest
       /\ m \in 0 .. Len(rules) - 1
  BY <1>6
<1> QED BY <1>3, <1>7, <1>8, <1>9, <1>10

\* Trino applies a rule that fits where no rule before it does.
LEMMA AccessIs ==
  ASSUME NEW rules, Len(rules) \in Nat, NEW u, NEW t
  PROVE  \/ /\ \A k \in 1 .. Len(rules) : ~Fits(rules[k], u, t)
            /\ Access(rules, u, t) = Nothing
         \/ \E k \in 1 .. Len(rules) :
              /\ Fits(rules[k], u, t) /\ \A j \in 1 .. k - 1 : ~Fits(rules[j], u, t)
              /\ Access(rules, u, t) = [privileges |-> rules[k].privileges, hidden |-> rules[k].hidden, masked |-> rules[k].masked]
<1> DEFINE fitting == {k \in 1 .. Len(rules) : Fits(rules[k], u, t)}
           first == CHOOSE k \in fitting : \A j \in fitting : k <= j
           n == IF fitting # {} THEN first ELSE 0
<1>1. Access(rules, u, t) = IF n = 0 THEN Nothing
                            ELSE [privileges |-> rules[n].privileges, hidden |-> rules[n].hidden, masked |-> rules[n].masked]
  BY DEF Access, SelectInSeq, Min
<1>2. CASE fitting = {}
  BY <1>1, <1>2
<1>3. CASE fitting # {}
  <2>1. fitting \subseteq Nat
    OBVIOUS
  <2>2. \E k \in fitting : \A j \in fitting : k <= j
    <3> HIDE DEF fitting
    <3> QED BY <1>3, <2>1, LeastElement
  <2>3. first \in fitting /\ \A j \in fitting : first <= j
    <3> HIDE DEF fitting
    <3> QED BY <2>2
  <2> HIDE DEF first
  <2>4. first \in 1 .. Len(rules) /\ Fits(rules[first], u, t)
    BY <2>3
  <2>5. ASSUME NEW j \in 1 .. first - 1 PROVE ~Fits(rules[j], u, t)
    <3>1. j \in 1 .. Len(rules) /\ ~(first <= j)
      BY <2>4
    <3> QED BY <2>3, <3>1
  <2>6. n = first /\ n # 0
    BY <1>3, <2>4
  <2> HIDE DEF n, fitting
  <2> QED BY <1>1, <2>4, <2>5, <2>6
<1> QED BY <1>2, <1>3

\* Which rules fit a user and a table.
LEMMA PolicyFits ==
  ASSUME AccessTyping, NEW u \in ActiveUsers, NEW t \in Tables, NEW i \in DOMAIN policies
  PROVE  Fits(PolicyRule(policies[i]), u, t) <=> i \in OwnOn(u, t)
<1> DEFINE p == policies[i]
<1>1. p \in PolicyRow
  BY Lists DEF AccessTyping
<1>2. p.catalog \in Catalogs /\ p.catalog # Wild
  BY <1>1, Lists DEF PolicyRow
<1> QED BY <1>2 DEF Fits, PolicyRule, Members, OwnOn, Own

LEMMA TagFits ==
  ASSUME AccessTyping, NEW u \in ActiveUsers, NEW t \in Tables, NEW x \in Acting
  PROVE  Fits(TagRule(x[2], x[1]), u, t) <=> x \in TagsOn(u, t)
<1> DEFINE p == x[2]
           s == x[1]
<1>1. s \in Tag /\ p \in TagPolicy /\ x \in tags \X tagPolicies /\ s.status = "accepted" /\ s.column # Wild
  BY DEF AccessTyping, Acting
<1>2. s.table \in Catalogs \X Names /\ t \in Catalogs \X Names
  BY <1>1 DEF Tag, Tables
<1>3. s.table[1] # Wild /\ s.table[2] # Wild /\ (s.table = t <=> s.table[1] = t[1] /\ s.table[2] = t[2])
  BY <1>2, Lists
<1>4. Fits(TagRule(p, s), u, t) <=> u \in Members(p.role) /\ s.table = t
  BY <1>3 DEF Fits, TagRule
<1> QED BY <1>1, <1>4 DEF TagsOn, Members

OfPolicy(p) == [privileges |-> p.privileges, hidden |-> Hidden(p), masked |-> p.masks]

\* What Trino decides is what a policy on the table says, or without one a tag policy; where there is neither, a user whose roles carry
\* policies has nothing, and any other user everything.
LEMMA Decided ==
  ASSUME AccessTyping, NEW u \in ActiveUsers, NEW t \in Tables, NEW rules \in TableRules
  PROVE  LET d == Access(rules, u, t) IN
         \/ \E i \in OwnOn(u, t) : d = OfPolicy(policies[i])
         \/ OwnOn(u, t) = {} /\ \E x \in TagsOn(u, t) : d = OfTag(x)
         \/ OwnOn(u, t) = {} /\ TagsOn(u, t) = {} /\ (Own(u) = {} => d = All) /\ (Own(u) # {} => d = Nothing)
<1> DEFINE d == Access(rules, u, t)
           n == Len(rules)
<1>0. PICK m \in 0 .. n - 1 :
        /\ \A k \in 1 .. m : \E i \in DOMAIN policies : rules[k] = PolicyRule(policies[i])
        /\ \A k \in m + 1 .. n - 1 : \E x \in Acting : rules[k] = TagRule(x[2], x[1])
        /\ \A i \in DOMAIN policies : Members(policies[i].role) # {} => \E k \in 1 .. m : rules[k] = PolicyRule(policies[i])
  BY TableRulesAre
<1>1. /\ n \in Nat /\ n >= 1 /\ m \in Nat /\ m <= n - 1
      /\ \A x \in Acting : \E k \in 1 .. n - 1 : rules[k] = TagRule(x[2], x[1])
      /\ rules[n] = [users |-> {v \in ActiveUsers : Own(v) = {}}, catalog |-> Wild, table |-> Wild,
                     privileges |-> Everything, hidden |-> {}, masked |-> {}]
  <2>1. n \in Nat /\ n >= 1
    BY TableRulesAre
  <2>2. m \in Nat /\ m <= n - 1
    BY <2>1
  <2> HIDE DEF n
  <2> QED BY <2>1, <2>2, TableRulesAre DEF n
<1>2. \/ (\A k \in 1 .. n : ~Fits(rules[k], u, t)) /\ d = Nothing
      \/ \E k \in 1 .. n : /\ Fits(rules[k], u, t) /\ \A j \in 1 .. k - 1 : ~Fits(rules[j], u, t)
                           /\ d = [privileges |-> rules[k].privileges, hidden |-> rules[k].hidden, masked |-> rules[k].masked]
  BY <1>1, AccessIs
<1>3. Fits(rules[n], u, t) <=> Own(u) = {}
  BY <1>1 DEF Fits
<1> HIDE DEF d, n
<1>4. ASSUME \A k \in 1 .. m : ~Fits(rules[k], u, t) PROVE OwnOn(u, t) = {}
  <2>1. ASSUME NEW i \in OwnOn(u, t) PROVE FALSE
    <3>1. i \in DOMAIN policies /\ u \in Members(policies[i].role)
      BY DEF OwnOn, Own, Members
    <3>2. PICK k \in 1 .. m : rules[k] = PolicyRule(policies[i])
      BY <1>0, <3>1
    <3> QED BY <1>4, <3>1, <3>2, PolicyFits
  <2> QED BY <2>1
<1>5. ASSUME \A k \in 1 .. n - 1 : ~Fits(rules[k], u, t) PROVE OwnOn(u, t) = {} /\ TagsOn(u, t) = {}
  <2>1. OwnOn(u, t) = {}
    <3>1. \A k \in 1 .. m : k \in 1 .. n - 1
      BY <1>1
    <3> QED BY <1>5, <1>4, <3>1
  <2>2. ASSUME NEW x \in TagsOn(u, t) PROVE FALSE
    <3>1. x \in Acting
      BY DEF TagsOn, Acting, Members
    <3>2. PICK k \in 1 .. n - 1 : rules[k] = TagRule(x[2], x[1])
      BY <1>1, <3>1
    <3> QED BY <1>5, <3>1, <3>2, TagFits
  <2> QED BY <2>1, <2>2
<1>6. ASSUME \A k \in 1 .. n : ~Fits(rules[k], u, t), d = Nothing
      PROVE  OwnOn(u, t) = {} /\ TagsOn(u, t) = {} /\ Own(u) # {} /\ d = Nothing
  <2>1. \A k \in 1 .. n - 1 : k \in 1 .. n
    BY <1>1
  <2>2. n \in 1 .. n
    BY <1>1
  <2> QED BY <1>3, <1>5, <1>6, <2>1, <2>2
<1>7. ASSUME NEW k \in 1 .. n, Fits(rules[k], u, t), \A j \in 1 .. k - 1 : ~Fits(rules[j], u, t),
             d = [privileges |-> rules[k].privileges, hidden |-> rules[k].hidden, masked |-> rules[k].masked]
      PROVE  \/ \E i \in OwnOn(u, t) : d = OfPolicy(policies[i])
             \/ OwnOn(u, t) = {} /\ \E x \in TagsOn(u, t) : d = OfTag(x)
             \/ OwnOn(u, t) = {} /\ TagsOn(u, t) = {} /\ Own(u) = {} /\ d = All
  <2>1. CASE k = n
    <3>1. Own(u) = {} /\ OwnOn(u, t) = {} /\ TagsOn(u, t) = {}
      BY <1>3, <1>5, <1>7, <2>1
    <3>2. rules[k].privileges = Everything /\ rules[k].hidden = {} /\ rules[k].masked = {}
      BY <1>1, <2>1
    <3>3. d = All
      BY <1>7, <3>2 DEF All
    <3> QED BY <3>1, <3>3
  <2>2. CASE k # n
    <3>1. k \in 1 .. n - 1
      BY <1>1, <2>2
    <3>2. CASE k \in 1 .. m
      <4>1. PICK i \in DOMAIN policies : rules[k] = PolicyRule(policies[i])
        BY <1>0, <3>2
      <4>2. i \in OwnOn(u, t)
        BY <1>7, <4>1, PolicyFits
      <4>3. d = OfPolicy(policies[i])
        BY <1>7, <4>1 DEF OfPolicy, PolicyRule
      <4> QED BY <4>2, <4>3
    <3>3. CASE k \notin 1 .. m
      <4>0. k \in m + 1 .. n - 1 /\ \A j \in 1 .. m : j \in 1 .. k - 1
        BY <1>1, <3>1, <3>3
      <4>1. PICK x \in Acting : rules[k] = TagRule(x[2], x[1])
        BY <1>0, <4>0
      <4>2. x \in TagsOn(u, t)
        BY <1>7, <4>1, TagFits
      <4>3. d = OfTag(x)
        BY <1>7, <4>1 DEF OfTag, TagRule
      <4>4. OwnOn(u, t) = {}
        BY <1>7, <1>4, <4>0
      <4> QED BY <4>2, <4>3, <4>4
    <3> QED BY <3>2, <3>3
  <2> QED BY <2>1, <2>2
<1>8. \/ \E i \in OwnOn(u, t) : d = OfPolicy(policies[i])
      \/ OwnOn(u, t) = {} /\ \E x \in TagsOn(u, t) : d = OfTag(x)
      \/ OwnOn(u, t) = {} /\ TagsOn(u, t) = {} /\ (Own(u) = {} => d = All) /\ (Own(u) # {} => d = Nothing)
  BY <1>2, <1>6, <1>7
<1> QED BY <1>8 DEF d

\* While nothing restricts anybody, no list is written, and there is nothing a user is limited to.
LEMMA Unrestricted ==
  ASSUME WideOpen, AccessTyping, NEW u, NEW t
  PROVE  Own(u) = {} /\ OwnOn(u, t) = {} /\ TagsOn(u, t) = {}
<1>1. policies = <<>> /\ DOMAIN policies = {}
  BY DEF WideOpen
<1>2. \A x \in TagsOn(u, t) : FALSE
  BY DEF TagsOn, WideOpen
<1> QED BY <1>1, <1>2 DEF Own, OwnOn

LEMMA DecidesBy ==
  ASSUME AccessTyping, NEW u \in ActiveUsers, NEW t \in Tables, NEW d \in Decisions(TableRules, u, t)
  PROVE  \/ \E i \in OwnOn(u, t) : d = OfPolicy(policies[i])
         \/ OwnOn(u, t) = {} /\ \E x \in TagsOn(u, t) : d = OfTag(x)
         \/ OwnOn(u, t) = {} /\ TagsOn(u, t) = {} /\ (Own(u) = {} => d = All) /\ (Own(u) # {} => d = Nothing)
<1>1. CASE WideOpen
  <2>1. d = All
    BY <1>1 DEF Decisions
  <2> QED BY <1>1, <2>1, Unrestricted
<1>2. CASE ~WideOpen
  <2>1. PICK rules \in TableRules : d = Access(rules, u, t)
    BY <1>2 DEF Decisions
  <2> QED BY <2>1, Decided
<1> QED BY <1>1, <1>2

\* The columns a policy's rule hides are those that the policy does not show.
LEMMA HiddenAre ==
  ASSUME AccessTyping, NEW u, NEW t \in Tables, NEW i \in OwnOn(u, t)
  PROVE  Hidden(policies[i]) = Columns \ Shown(policies[i], t)
<1> DEFINE p == policies[i]
<1>1. p \in PolicyRow /\ p.catalog = t[1] /\ p.table \in {Wild, t[2]} /\ t = <<t[1], t[2]>>
  BY Lists DEF AccessTyping, OwnOn, Own, Tables
<1> HIDE DEF p
<1>2. p.denied \subseteq Columns /\ (p.table # Wild => cached[<<p.catalog, p.table>>] = cached[t])
  BY <1>1 DEF PolicyRow
<1>3. Hidden(p) = Columns \ Shown(p, t)
  BY <1>2 DEF Hidden, Shown
<1> QED BY <1>3 DEF p

\* However many policies, tags and users there are, and in whatever order tags are written: where a user has policies on a
\* table, she has there no privilege, and reads in clear no column, that none of them gives; where only tags reach her, she
\* reads and no column that all of them withhold; with policies elsewhere she has nothing.
THEOREM LimitedToPoliciesAlways == AccessSpec => []LimitedToPolicies
<1>1. ASSUME AccessTyping PROVE LimitedToPolicies
  <2> SUFFICES ASSUME NEW u \in ActiveUsers, NEW t \in Tables, NEW d \in Decisions(TableRules, u, t)
               PROVE  LET own == {policies[i] : i \in OwnOn(u, t)}
                          reading == {p \in own : "SELECT" \in p.privileges} IN
                      IF Own(u) = {} /\ TagsOn(u, t) = {} THEN d = All
                      ELSE IF own # {} THEN /\ d.privileges # {} /\ d.privileges \subseteq UNION {p.privileges : p \in own}
                                            /\ InClear(d) \subseteq UNION {Shown(p, t) \ p.masks : p \in reading}
                      ELSE IF TagsOn(u, t) # {} THEN /\ d.privileges = {"SELECT"}
                                                     /\ InClear(d) \subseteq UNION {Columns \ {x[1].column} : x \in TagsOn(u, t)}
                      ELSE d.privileges = {}
    BY DEF LimitedToPolicies
  <2> DEFINE own == {policies[i] : i \in OwnOn(u, t)}
             reading == {p \in own : "SELECT" \in p.privileges}
  <2>1. OwnOn(u, t) \subseteq Own(u) /\ Own(u) \subseteq DOMAIN policies
    BY DEF OwnOn, Own
  <2>2. CASE \E i \in OwnOn(u, t) : d = OfPolicy(policies[i])
    <3>1. PICK i \in OwnOn(u, t) : d = OfPolicy(policies[i])
      BY <2>2
    <3> DEFINE p == policies[i]
    <3>2. p \in own /\ p \in PolicyRow
      BY <1>1, <2>1, Lists DEF AccessTyping
    <3>3. Hidden(p) = Columns \ Shown(p, t)
      BY <1>1, HiddenAre
    <3> HIDE DEF p
    <3>4. d.privileges = p.privileges /\ d.hidden = Columns \ Shown(p, t) /\ d.masked = p.masks
      BY <3>1, <3>3 DEF OfPolicy, p
    <3>5. p.privileges # {}
      <4>1. p.privileges \in (SUBSET Privileges) \ {{}}
        <5> HIDE DEF own
        <5> QED BY <3>2 DEF PolicyRow
      <4> HIDE DEF own
      <4> QED BY <4>1
    <3>6. own # {} /\ Own(u) # {}
      BY <2>1, <3>2
    <3>7. d.privileges # {} /\ d.privileges \subseteq UNION {q.privileges : q \in own}
      <4> HIDE DEF own
      <4> QED BY <3>2, <3>4, <3>5
    <3>8. InClear(d) \subseteq UNION {Shown(q, t) \ q.masks : q \in reading}
      <4>1. CASE "SELECT" \in p.privileges
        <5>1. p \in reading
          BY <3>2, <4>1
        <5>2. InClear(d) \subseteq Shown(p, t) \ p.masks
          BY <3>4, <4>1 DEF InClear
        <5> HIDE DEF reading
        <5> QED BY <5>1, <5>2
      <4>2. CASE "SELECT" \notin p.privileges
        BY <3>4, <4>2 DEF InClear
      <4> QED BY <4>1, <4>2
    <3> HIDE DEF own, reading
    <3> QED BY <3>6, <3>7, <3>8 DEF own, reading
  <2>3. CASE OwnOn(u, t) = {} /\ \E x \in TagsOn(u, t) : d = OfTag(x)
    <3>1. PICK x \in TagsOn(u, t) : d = OfTag(x)
      BY <2>3
    <3>2. x[2].effect \in {"deny", "mask"}
      BY <1>1 DEF AccessTyping, TagsOn, TagPolicy
    <3>3. d.privileges = {"SELECT"} /\ x[1].column \in d.hidden \union d.masked
      BY <3>1, <3>2 DEF OfTag
    <3>4. InClear(d) \subseteq Columns \ {x[1].column}
      BY <3>3 DEF InClear
    <3>5. InClear(d) \subseteq UNION {Columns \ {y[1].column} : y \in TagsOn(u, t)}
      BY <3>4
    <3>6. own = {}
      BY <2>3
    <3> QED BY <3>1, <3>3, <3>5, <3>6
  <2>4. CASE OwnOn(u, t) = {} /\ TagsOn(u, t) = {} /\ (Own(u) = {} => d = All) /\ (Own(u) # {} => d = Nothing)
    <3>1. own = {}
      BY <2>4
    <3> QED BY <2>4, <3>1 DEF Nothing
  <2> QED BY <1>1, <2>2, <2>3, <2>4, DecidesBy
<1> QED BY <1>1, AccessTypes, PTL

\* Where a user has one policy on a table, Trino applies what that one says of privileges, columns and masks, whatever
\* else is stored and in whatever order it is written; and so a lone tag policy where there is none.
THEOREM OneRuleIsKeptAlways == AccessSpec => []OneRuleIsKept
<1>1. ASSUME AccessTyping PROVE OneRuleIsKept
  <2> SUFFICES ASSUME NEW u \in ActiveUsers, NEW t \in Tables, NEW d \in Decisions(TableRules, u, t)
               PROVE  /\ \A i \in OwnOn(u, t) : OwnOn(u, t) = {i} =>
                           d = [privileges |-> policies[i].privileges, hidden |-> Columns \ Shown(policies[i], t),
                                masked |-> policies[i].masks]
                      /\ OwnOn(u, t) = {} => \A x \in TagsOn(u, t) : TagsOn(u, t) = {x} => d = OfTag(x)
    BY DEF OneRuleIsKept
  <2>1. ASSUME NEW i \in OwnOn(u, t), OwnOn(u, t) = {i}
        PROVE  d = [privileges |-> policies[i].privileges, hidden |-> Columns \ Shown(policies[i], t), masked |-> policies[i].masks]
    <3>1. d = OfPolicy(policies[i])
      BY <1>1, <2>1, DecidesBy
    <3>2. Hidden(policies[i]) = Columns \ Shown(policies[i], t)
      BY <1>1, HiddenAre
    <3> QED BY <3>1, <3>2 DEF OfPolicy
  <2>2. ASSUME OwnOn(u, t) = {}, NEW x \in TagsOn(u, t), TagsOn(u, t) = {x} PROVE d = OfTag(x)
    BY <1>1, <2>2, DecidesBy
  <2> QED BY <2>1, <2>2
<1> QED BY <1>1, AccessTypes, PTL
=============================================================================
