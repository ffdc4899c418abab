------------------------------- MODULE Accounts -------------------------------
(***************************************************************************)
(* Users, roles, sessions and the ways in: first-run setup, the password     *)
(* login with its limit on failures, single sign-on, and the administrators'  *)
(* edits of users and roles, under the rule that somebody active must keep    *)
(* MANAGE_SECURITY.                                                          *)
(*                                                                          *)
(* A handler is cut between the reads it decides from and its transaction,    *)
(* which begins at the first write; a handler that only checks what its       *)
(* transaction checks again, or what never changes, is one step.              *)
(*                                                                          *)
(* Left out: other privileges and the grants of roles, API tokens, the        *)
(* lifetime of sessions, the caller's own privileges, the setup's AWS checks.  *)
(***************************************************************************)
EXTENDS Naturals, FiniteSets

CONSTANTS
  Users,       \* usernames
  Typed,       \* those typed at the login form
  NoAccount,   \* what a username without a row of users has
  SystemRoles, \* the seeded roles; Admin is the one that has every privilege
  Admin,
  CustomRoles, \* each is created and deleted at most once
  Grants,      \* the role lists administrators and the provider's groups give
  Threads,
  Ops,         \* Ops[t]: the calls thread t may run
  States,      \* bound: tokens of SSO redirects
  LoginMaxFailures,
  MaxPassword  \* bound: passwords a user has had

Roles == SystemRoles \union CustomRoles

OpNames == {"setup", "create_user", "edit_user", "create_role", "edit_role", "delete_role",
            "sso", "login"}

ASSUME RolesAssumption ==
  /\ Admin \in SystemRoles /\ SystemRoles \intersect CustomRoles = {}
  /\ Grants \subseteq (SUBSET Roles) \ {{}}
ASSUME TypedAssumption == Typed \subseteq Users
ASSUME OpsAssumption == Ops \in [Threads -> SUBSET OpNames]
ASSUME ThreadsAssumption == IsFiniteSet(Threads)
ASSUME BoundsAssumption ==
  LoginMaxFailures \in Nat \ {0} /\ MaxPassword \in Nat \ {0}

VARIABLES
  setups,    \* rows of setup_settings, whose primary key admits one
  account,   \* account[u]: the row of users with its user_roles, or NoAccount
  role,      \* role[r]: whether the row exists, and has MANAGE_SECURITY
  sessions,  \* rows of sessions, with the password their user had at the login
  failures,  \* recent failures to log in with each username
  minted, pending, \* SSO tokens made, and not yet taken
  signins,   \* signins[s]: sessions token s has given
  pc, req    \* each thread's place and the locals of its handler

rows   == <<setups, account, role, sessions>>
sso    == <<minted, pending, signins>>
vars   == <<rows, failures, sso, pc, req>>

-------------------------------------------------------------------------------
NoRequest == "no request"

\* password is 0 where no password opens the account: '!', as services and SSO
\* users have it.  legacy is users.role = 'admin'.
Account == [active : BOOLEAN, roles : SUBSET Roles, legacy : BOOLEAN, password : Nat]

ASSUME NoAccountAssumption == NoAccount \notin Account

\* guarded: the edit changes what the row read had, so the handler checks holders.
\* roles = {} leaves the roles alone.
UserEdits == [user : Users, active : BOOLEAN, roles : SUBSET Roles, reset : BOOLEAN,
              guarded : BOOLEAN]
RoleEdits == [role : Roles, security : BOOLEAN, guarded : BOOLEAN]
SignIns   == [state : States, user : Users, roles : SUBSET Roles, new : BOOLEAN]
Logins    == [user : Users, password : Nat]

\* What a thread holds where it is.
Requests(p) ==
  CASE p = "setup"      -> Users
    [] p = "user_write" -> UserEdits
    [] p = "role_write" -> RoleEdits
    [] p = "sso_read"   -> States
    [] p = "sso_write"  -> SignIns
    [] p \in {"verify", "record", "clear", "session"} -> Logins
    [] OTHER            -> {NoRequest}

Pcs == {"idle", "setup", "user_write", "role_write", "sso_read", "sso_write", "verify",
        "record", "clear", "session"}

TypeOK ==
  /\ setups \in Nat
  /\ account \in [Users -> Account \union {NoAccount}]
  /\ role \in [Roles -> {"new", "plain", "security", "deleted"}]
  /\ sessions \subseteq Users \X Nat
  /\ failures \in [Users -> Nat]
  /\ minted \subseteq States /\ pending \subseteq minted /\ signins \in [States -> Nat]
  /\ pc \in [Threads -> Pcs]
  /\ DOMAIN req = Threads /\ \A t \in Threads : req[t] \in Requests(pc[t])

Init ==
  /\ setups = 0
  /\ account = [u \in Users |-> NoAccount]
  /\ role = [r \in Roles |-> IF r = Admin THEN "security" ELSE IF r \in SystemRoles THEN "plain" ELSE "new"]
  /\ sessions = {}
  /\ failures = [u \in Users |-> 0]
  /\ minted = {} /\ pending = {} /\ signins = [s \in States |-> 0]
  /\ pc = [t \in Threads |-> "idle"] /\ req = [t \in Threads |-> NoRequest]

-------------------------------------------------------------------------------
\* Before setup there is nobody to administer, and no provider.
May(t, call) ==
  pc[t] = "idle" /\ call \in Ops[t] /\ (call \in {"setup", "login"} \/ setups > 0)

Hold(t, p, r) == pc' = [pc EXCEPT ![t] = p] /\ req' = [req EXCEPT ![t] = r]
Return(t)     == Hold(t, "idle", NoRequest)

Exists(r) == role[r] \in {"plain", "security"}

\* _security_holder_count > 0, over the rows a transaction is about to leave.
HasHolder(accounts, roles) ==
  \E u \in Users :
    /\ accounts[u] # NoAccount /\ accounts[u].active
    /\ IF accounts[u].roles = {} THEN accounts[u].legacy
       ELSE \E r \in accounts[u].roles : roles[r] = "security"

\* _set_user_roles, which refuses an empty list and a role that does not exist.
Assignable(roles) == roles # {} /\ \A r \in roles : Exists(r)
WithRoles(a, roles) == [a EXCEPT !.roles = roles, !.legacy = Admin \in roles]

NewAccount(roles, password) ==
  [active |-> TRUE, roles |-> roles, legacy |-> Admin \in roles, password |-> password]

SessionsOf(u) == {s \in sessions : s[1] = u}

-------------------------------------------------------------------------------
(* complete_setup                                                              *)
SetupRead(t) ==
  /\ May(t, "setup") /\ setups = 0
  /\ \E u \in Users : Hold(t, "setup", u)
  /\ UNCHANGED <<rows, failures, sso>>

\* A second setup collides with the first one's settings, and is rolled back.
SetupWrite(t) ==
  /\ pc[t] = "setup"
  /\ IF setups = 0 /\ account[req[t]] = NoAccount
       THEN /\ setups' = 1
            /\ account' = [account EXCEPT ![req[t]] = NewAccount({Admin}, 1)]
            /\ sessions' = sessions \union {<<req[t], 1>>}
       ELSE UNCHANGED <<setups, account, sessions>>
  /\ Return(t)
  /\ UNCHANGED <<role, failures, sso>>

-------------------------------------------------------------------------------
(* Administrators: create_user, update_user, create_role, update_role and      *)
(* delete_role.                                                                *)
CreateUser(t) ==
  /\ May(t, "create_user")
  /\ \E u \in Users, roles \in Grants, password \in {0, 1} :
       /\ account[u] = NoAccount /\ Assignable(roles)
       /\ account' = [account EXCEPT ![u] = NewAccount(roles, password)]
  /\ UNCHANGED <<setups, role, sessions, failures, sso, pc, req>>

\* The row is read, and the request is compared with it.
UserRead(t) ==
  /\ May(t, "edit_user")
  /\ \E u \in Users, active \in BOOLEAN, reset \in BOOLEAN, roles \in Grants \union {{}} :
       /\ account[u] # NoAccount
       /\ reset => account[u].password < MaxPassword
       /\ roles # {} => roles # account[u].roles
       /\ Hold(t, "user_write",
            [user |-> u, active |-> active, roles |-> roles, reset |-> reset,
             guarded |-> roles # {} \/ active # account[u].active])
  /\ UNCHANGED <<rows, failures, sso>>

\* The row after the edit: every column, active with what was read if not asked for.
Edited(e) ==
  LET a == [account[e.user] EXCEPT !.active = e.active,
                                   !.password = IF e.reset THEN @ + 1 ELSE @]
  IN  [account EXCEPT ![e.user] = IF e.roles = {} THEN a ELSE WithRoles(a, e.roles)]

UserWrite(t) ==
  /\ pc[t] = "user_write"
  /\ LET e == req[t] IN
       IF (e.roles = {} \/ Assignable(e.roles)) /\ (e.guarded => HasHolder(Edited(e), role))
         THEN /\ account' = Edited(e)
              /\ sessions' = IF ~e.active \/ e.reset THEN sessions \ SessionsOf(e.user) ELSE sessions
         ELSE UNCHANGED <<account, sessions>>
  /\ Return(t)
  /\ UNCHANGED <<setups, role, failures, sso>>

CreateRole(t) ==
  /\ May(t, "create_role")
  /\ \E r \in CustomRoles, kind \in {"plain", "security"} :
       role[r] = "new" /\ role' = [role EXCEPT ![r] = kind]
  /\ UNCHANGED <<setups, account, sessions, failures, sso, pc, req>>

\* An edit of the description or the grants has the privileges as they were read.
RoleRead(t) ==
  /\ May(t, "edit_role")
  /\ \E r \in Roles, security \in BOOLEAN :
       /\ Exists(r)
       /\ r = Admin => security
       /\ Hold(t, "role_write", [role |-> r, security |-> security,
                                 guarded |-> security # (role[r] = "security")])
  /\ UNCHANGED <<rows, failures, sso>>

\* A role that is gone makes the transaction fail.
RoleWrite(t) ==
  /\ pc[t] = "role_write"
  /\ LET e == req[t]
         edited == [role EXCEPT ![e.role] = IF e.security THEN "security" ELSE "plain"]
     IN  IF Exists(e.role) /\ (e.guarded => HasHolder(account, edited))
           THEN role' = edited ELSE UNCHANGED role
  /\ Return(t)
  /\ UNCHANGED <<setups, account, sessions, failures, sso>>

\* The role's rows in user_roles go with it.
DeleteRole(t) ==
  /\ May(t, "delete_role")
  /\ \E r \in CustomRoles :
       LET without == [u \in Users |-> IF account[u] = NoAccount THEN NoAccount
                                       ELSE [account[u] EXCEPT !.roles = @ \ {r}]]
           fewer   == [role EXCEPT ![r] = "deleted"]
       IN  /\ Exists(r) /\ HasHolder(without, fewer)
           /\ account' = without /\ role' = fewer
  /\ UNCHANGED <<setups, sessions, failures, sso, pc, req>>

-------------------------------------------------------------------------------
(* Single sign-on: oidc_login_start and oidc_callback.                         *)

SsoStart ==
  /\ setups > 0
  /\ \E s \in States \ minted : minted' = minted \union {s} /\ pending' = pending \union {s}
  /\ UNCHANGED <<rows, failures, signins, pc, req>>

\* Mutant of SsoTake: the token is looked up and not popped.
SsoPeek(t) ==
  /\ May(t, "sso")
  /\ \E s \in pending : Hold(t, "sso_read", s)
  /\ UNCHANGED <<rows, failures, sso>>

SsoTake(t) ==
  /\ May(t, "sso")
  /\ \E s \in pending : pending' = pending \ {s} /\ Hold(t, "sso_read", s)
  /\ UNCHANGED <<rows, failures, minted, signins>>

\* The provider says who it is and in which groups, or the exchange fails; then
\* the user and the roles are looked up.
SsoRead(t) ==
  /\ pc[t] = "sso_read"
  /\ \/ \E u \in Users, roles \in Grants :
          /\ account[u] # NoAccount => account[u].active
          /\ Assignable(roles)
          /\ Hold(t, "sso_write", [state |-> req[t], user |-> u, roles |-> roles,
                                   new |-> account[u] = NoAccount])
     \/ Return(t)
  /\ UNCHANGED <<rows, failures, sso>>

\* Mutant of SsoWrite: the groups are applied without a look at the holders.
SsoWriteLax(t) ==
  /\ pc[t] = "sso_write"
  /\ LET c     == req[t]
         given == [account EXCEPT ![c.user] =
                    IF c.new THEN NewAccount(c.roles, 0) ELSE WithRoles(@, c.roles)]
     IN  IF (c.new <=> account[c.user] = NoAccount) /\ Assignable(c.roles)
           THEN /\ account' = given
                /\ sessions' = sessions \union {<<c.user, given[c.user].password>>}
                /\ signins' = [signins EXCEPT ![c.state] = @ + 1]
           ELSE UNCHANGED <<account, sessions, signins>>
  /\ Return(t)
  /\ UNCHANGED <<setups, role, failures, minted, pending>>

\* The user is provisioned, or exists, and gets the roles of the groups.
SsoWrite(t) ==
  /\ pc[t] = "sso_write"
  /\ LET c     == req[t]
         given == [account EXCEPT ![c.user] =
                    IF c.new THEN NewAccount(c.roles, 0) ELSE WithRoles(@, c.roles)]
     IN  IF /\ c.new <=> account[c.user] = NoAccount
            /\ Assignable(c.roles) /\ HasHolder(given, role)
           THEN /\ account' = given
                /\ sessions' = sessions \union {<<c.user, given[c.user].password>>}
                /\ signins' = [signins EXCEPT ![c.state] = @ + 1]
           ELSE UNCHANGED <<account, sessions, signins>>
  /\ Return(t)
  /\ UNCHANGED <<setups, role, failures, minted, pending>>

-------------------------------------------------------------------------------
(* login                                                                       *)
\* Mutant of LoginCheck: one failure too many.
LoginCheckLate(t) ==
  /\ May(t, "login")
  /\ \E u \in Typed :
       /\ failures[u] <= LoginMaxFailures
       /\ Hold(t, "verify", [user |-> u, password |-> 0])
  /\ UNCHANGED <<rows, failures, sso>>

LoginCheck(t) ==
  /\ May(t, "login")
  /\ \E u \in Typed :
       /\ failures[u] < LoginMaxFailures
       /\ Hold(t, "verify", [user |-> u, password |-> 0])
  /\ UNCHANGED <<rows, failures, sso>>

\* A service account, which no password opens, is a user that only fails.
LoginVerify(t) ==
  /\ pc[t] = "verify"
  /\ LET u == req[t].user IN
       \/ /\ account[u] # NoAccount /\ account[u].active /\ account[u].password > 0
          /\ Hold(t, "clear", [user |-> u, password |-> account[u].password])
       \/ Hold(t, "record", req[t])
  /\ UNCHANGED <<rows, failures, sso>>

LoginRecord(t) ==
  /\ pc[t] = "record"
  /\ failures' = [failures EXCEPT ![req[t].user] = @ + 1]
  /\ Return(t)
  /\ UNCHANGED <<rows, sso>>

\* Where only operators may use passwords, the handler may stop here.
LoginClear(t) ==
  /\ pc[t] = "clear"
  /\ failures' = [failures EXCEPT ![req[t].user] = 0]
  /\ Hold(t, "session", req[t]) \/ Return(t)
  /\ UNCHANGED <<rows, sso>>

LoginSession(t) ==
  /\ pc[t] = "session"
  /\ sessions' = sessions \union {<<req[t].user, req[t].password>>}
  /\ Return(t)
  /\ UNCHANGED <<setups, account, role, failures, sso>>

\* logout drops one session, revoke_user_sessions all of a user's.
Logout(s) ==
  /\ s \in sessions
  /\ sessions' = sessions \ {s} \/ sessions' = sessions \ SessionsOf(s[1])
  /\ UNCHANGED <<setups, account, role, failures, sso, pc, req>>

\* A failure leaves the window; a token is pruned.
WindowMoves(u) ==
  /\ failures[u] > 0
  /\ failures' = [failures EXCEPT ![u] = @ - 1]
  /\ UNCHANGED <<rows, sso, pc, req>>
SsoExpire(s) ==
  /\ s \in pending
  /\ pending' = pending \ {s}
  /\ UNCHANGED <<rows, failures, minted, signins, pc, req>>

\* A restart enrols users without roles in the seeded role of their old column.
Restart ==
  /\ \E plain \in SystemRoles \ {Admin} :
       account' = [u \in Users |->
         IF account[u] = NoAccount THEN NoAccount
         ELSE [account[u] EXCEPT !.roles = IF @ # {} THEN @
                 ELSE IF account[u].legacy THEN {Admin} ELSE {plain}]]
  /\ failures' = [u \in Users |-> 0] /\ pending' = {}
  /\ pc' = [t \in Threads |-> "idle"] /\ req' = [t \in Threads |-> NoRequest]
  /\ UNCHANGED <<setups, role, sessions, minted, signins>>

ThreadStep(t) ==
  \/ SetupRead(t) \/ SetupWrite(t) \/ CreateUser(t) \/ UserRead(t) \/ UserWrite(t)
  \/ CreateRole(t) \/ RoleRead(t) \/ RoleWrite(t) \/ DeleteRole(t)
  \/ SsoTake(t) \/ SsoRead(t) \/ SsoWrite(t)
  \/ LoginCheck(t) \/ LoginVerify(t) \/ LoginRecord(t) \/ LoginClear(t) \/ LoginSession(t)

Next ==
  \/ \E t \in Threads : ThreadStep(t)
  \/ \E s \in sessions : Logout(s)
  \/ \E u \in Users : WindowMoves(u)
  \/ SsoStart \/ \E s \in States : SsoExpire(s)
  \/ Restart

Spec == Init /\ [][Next]_vars

-------------------------------------------------------------------------------
(* Properties                                                                  *)

\* complete_setup makes one first administrator, whoever races for it.
SetUpOnce == setups <= 1

\* "any change [...] is rejected if it would leave no active user holding
\* MANAGE_SECURITY": once set up, the installation always has such a user.
HolderRemains == setups > 0 => HasHolder(account, role)

\* A token of an SSO redirect gives at most one session, however often and by how
\* many threads its callback is requested.
SignsInOnce == \A s \in States : signins[s] <= 1

\* check_login_rate_limit and record_login_failure take the lock separately, so
\* logins that race exceed the limit, but by no more than the threads there are.
LoginLimit == \A u \in Users : failures[u] < LoginMaxFailures + Cardinality(Threads)

=============================================================================
