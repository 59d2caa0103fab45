-------------------------------- MODULE Access --------------------------------
(***************************************************************************)
(* Who may act as which user of a company: sign-in on the web and by       *)
(* telephone, the generations of sessions, the binding of field employees  *)
(* to one telephone, push devices, and the changes by administrators that  *)
(* take access away, from src/lib/auth, src/lib/mobile, src/lib/push,      *)
(* src/lib/users and src/lib/employees.                                    *)
(*                                                                         *)
(* A transaction that holds the lock on the user's row reads and writes    *)
(* current rows, so it is one step; what a request reads before it takes   *)
(* the lock is a step of its own.  The reset of a telephone takes no lock  *)
(* on the user: its statements are separate steps, its writes appear when  *)
(* it commits, and the rows it has written stay locked until then.         *)
(*                                                                         *)
(* The company's edition is SALESPUNCH360.  Seats, account roles and       *)
(* telecallers are left out, and so is the expiry of sessions.  Of a       *)
(* user's branches the scope is kept.  The administrators' requests are    *)
(* taken as authorised when they begin, and the edit of an employee, which *)
(* takes no lock, as one step: a change of role between its reading and    *)
(* its writing is left out.                                                *)
(***************************************************************************)
EXTENDS Integers, Sequences, FiniteSets

CONSTANTS
    User, Phone,
    Owner,          \* the user who registered the company
    NoPhone,
    Scope,          \* the scopes of branches (branchAccessScope) in use
    MaxLogins,      \* bound on the sessions created
    MaxChanges,     \* bound on the changes of one user's access, save that
                    \* ownership may still be transferred to the user and
                    \* access that was taken away may be given back; no
                    \* edit of an employee comes after the last of them
    MaxPending      \* bound on the requests under way at one time

ASSUME AccessConstants ==
    /\ Owner \in User
    /\ NoPhone \notin Phone
    /\ "ALL_BRANCHES" \in Scope
    /\ Scope \subseteq {"ALL_BRANCHES", "SELECTED_BRANCHES"}
    /\ "WEB" \notin Phone /\ "PASSWORD" \notin Phone
    /\ {MaxLogins, MaxChanges, MaxPending} \subseteq Nat

VARIABLES
    users,          \* the users' rows
    logins,         \* all sessions ever created, on the web or by telephone
    bindings,       \* the telephone each user is bound to
    pushes,         \* for each telephone its push device's session, or 0
    requests,       \* requests that have checked a password, before the lock
    registrations,  \* sessions whose telephone is about to be registered
    resets,         \* the reset of each user's telephone, if one is under way
    transfers,      \* transfers of ownership with the rows they have read
    changes,        \* how often each user's password, activity, access to
                    \* the workspace, role or branches were replaced, but for
                    \* the edits of EditEmployee and for reactivation
    edited          \* the sessions whose user EditEmployee has changed since

\* kept for the properties, the program has neither
history == <<changes, edited>>

vars == <<users, logins, bindings, pushes, requests, registrations, resets,
          transfers, history>>

Role == {"PRIMARY_ADMIN", "ADMIN", "OFFICE_MANAGER", "FIELD_MANAGER", "SALES"}
Employee == {"OFFICE_MANAGER", "FIELD_MANAGER", "SALES"}

\* isFieldMobileOnlyRole: these sign in by telephone only, and by one only
FieldOnly(user) == user.role \in {"FIELD_MANAGER", "SALES"}

UserRow == [role: Role, isActive: BOOLEAN, salesAccessActive: BOOLEAN,
            branches: Scope,
            password: Nat,          \* the hash, a new one at every change
            version: Nat]           \* sessionVersion
\* row is LIVE, REVOKED (revokedAt is set, on mobile sessions) or GONE
Login == [user: User, on: Phone \cup {"WEB"}, version: Nat,
          row: {"LIVE", "REVOKED", "GONE"},
          \* what held when it was created
          password: Nat, role: Role, branches: Scope, changes: Nat]
Request == [user: User, on: Phone \cup {"WEB", "PASSWORD"}, password: Nat]
Reset == [at: {"none", "read", "push", "revoke", "unbind"},
          before: Nat,              \* the sessions created before it began
          seen: SUBSET Nat,         \* the sessions read
          pushes: SUBSET Phone,     \* the push devices deleted
          rows: SUBSET Nat]         \* the sessions revoked
NoReset == [at |-> "none", before |-> 0, seen |-> {}, pushes |-> {},
            rows |-> {}]
Transfer == [from: User, to: User, read: [User -> UserRow]]

TypeOK ==
    /\ users \in [User -> UserRow]
    /\ logins \in Seq(Login)
    /\ bindings \in [User -> Phone \cup {NoPhone}]
    /\ pushes \in [Phone -> 0..Len(logins)]
    /\ requests \in SUBSET Request
    /\ registrations \subseteq DOMAIN logins
    /\ resets \in [User -> Reset]
    /\ transfers \in SUBSET Transfer
    /\ changes \in [User -> Nat]
    /\ edited \subseteq DOMAIN logins

Init ==
    /\ users \in [User -> [role: Role, isActive: {TRUE},
                           salesAccessActive: {TRUE},
                           branches: {"ALL_BRANCHES"}, password: {0},
                           version: {0}]]
    /\ \A u \in User : users[u].role = "PRIMARY_ADMIN" <=> u = Owner
    /\ logins = <<>>
    /\ bindings = [u \in User |-> NoPhone]
    /\ pushes = [p \in Phone |-> 0]
    /\ requests = {}
    /\ registrations = {}
    /\ resets = [u \in User |-> NoReset]
    /\ transfers = {}
    /\ changes = [u \in User |-> 0]
    /\ edited = {}

\* requests that have read something they have yet to act on
Pending ==
    Cardinality(requests) + Cardinality(registrations)
    + Cardinality(transfers)
    + Cardinality({u \in User : resets[u].at # "none"})

-----------------------------------------------------------------------------
(* Which sessions are accepted. *)

OnPhone(login) == login.on \in Phone

\* canAuthenticate with canUseWebLogin, and isMobileEligible
Eligible(user, on) ==
    IF on \in Phone THEN user.isActive /\ user.salesAccessActive
                    ELSE user.isActive /\ ~FieldOnly(user)

\* getAuthenticatedUser and authenticateMobileToken
Authenticates(i) ==
    LET user == users[logins[i].user]
    IN  /\ logins[i].row = "LIVE"
        /\ logins[i].version = user.version
        /\ Eligible(user, logins[i].on)

DeliversToEveryRow(p) ==
    pushes[p] # 0 /\ Eligible(users[logins[pushes[p]].user], p)

\* resolvePushDevices: the version of the session is not compared
Delivers(p) ==
    LET i == pushes[p]
    IN  /\ i # 0
        /\ logins[i].row = "LIVE"
        /\ Eligible(users[logins[i].user], logins[i].on)

-----------------------------------------------------------------------------
(* The end of a session generation. *)

\* the reset of u's telephone has written rows it has not committed yet
Locked(u) == resets[u].rows # {} \/ resets[u].pushes # {}

ClearedBrowsers(S) ==
    [i \in DOMAIN logins |->
        IF logins[i].user \in S /\ ~OnPhone(logins[i])
        THEN [logins[i] EXCEPT !.row = "GONE"] ELSE logins[i]]

\* clearUserAuthentication, the sessions
Cleared(S) ==
    [i \in DOMAIN logins |->
        IF logins[i].user \in S THEN [logins[i] EXCEPT !.row = "GONE"]
                                ELSE logins[i]]

\* and the push devices
ClearedPushes(S) ==
    [p \in Phone |-> IF pushes[p] # 0 /\ logins[pushes[p]].user \in S
                     THEN 0 ELSE pushes[p]]

\* a change by an administrator: the users in S get the rows given, their
\* session versions go up and all their sessions are deleted
Rotate(S, rows) ==
    /\ \A u \in S : ~Locked(u)
    /\ users' = [u \in User |->
                    IF u \in S
                    THEN [rows[u] EXCEPT !.version = users[u].version + 1]
                    ELSE users[u]]
    /\ logins' = Cleared(S)
    /\ pushes' = ClearedPushes(S)
    /\ changes' = [u \in User |-> IF u \in S THEN changes[u] + 1
                                             ELSE changes[u]]
    /\ edited' = edited

-----------------------------------------------------------------------------
(* Signing in and out. *)

\* signIn, and createMobileSession before its transaction: the password and
\* the account are checked on a row that is not locked
SignIn(u, on) ==
    /\ Pending < MaxPending
    /\ Eligible(users[u], on)
    /\ requests' = requests \cup
            {[user |-> u, on |-> on, password |-> users[u].password]}
    /\ UNCHANGED <<users, logins, bindings, pushes, registrations, resets,
                   transfers, history>>

AcceptedAsChecked(r) ==
    /\ users[r.user].isActive
    /\ OnPhone(r) => users[r.user].salesAccessActive

\* createSession and createMobileSession once they hold the lock; on the web
\* the role is not looked at again
Accepted(r) ==
    /\ users[r.user].isActive
    /\ OnPhone(r) => users[r.user].salesAccessActive
    /\ users[r.user].password = r.password

BindAnyway(r) == TRUE

\* bindMobileDevice refuses a field employee any telephone but the bound one
BindingAllows(r) ==
    OnPhone(r) /\ FieldOnly(users[r.user]) =>
        bindings[r.user] \in {r.on, NoPhone}

\* the binding that bindMobileDevice leaves
Bound(r) ==
    IF ~OnPhone(r) THEN bindings[r.user]
    ELSE IF ~FieldOnly(users[r.user]) THEN NoPhone
    ELSE IF bindings[r.user] = NoPhone THEN r.on
    ELSE bindings[r.user]

\* The rest of a sign-in, under the lock on the user.  A reset that is just
\* revoking sessions may have been waiting for the rows this step deletes; it
\* then goes on without having seen the new one.
CreateSession(r) ==
    LET u == r.user
        version == users[u].version + 1
    IN  /\ r.on # "PASSWORD"
        /\ Len(logins) < MaxLogins
        /\ Accepted(r)
        /\ BindingAllows(r)
        /\ ~Locked(u)
        /\ bindings' = [bindings EXCEPT ![u] = Bound(r)]
        /\ users' = [users EXCEPT ![u].version = version]
        /\ logins' = Append(Cleared({u}),
                        [user |-> u, on |-> r.on, version |-> version,
                         row |-> "LIVE", password |-> r.password,
                         role |-> users[u].role,
                         branches |-> users[u].branches,
                         changes |-> changes[u]])
        /\ pushes' = ClearedPushes({u})
        /\ \/ resets' = resets
           \/ /\ resets[u].at = "revoke"
              /\ resets' = [resets EXCEPT ![u].at = "unbind"]
        /\ requests' = requests \ {r}
        /\ UNCHANGED <<registrations, transfers, history>>

\* a request is refused under the lock, or its transaction is aborted
DropRequest(r) ==
    /\ requests' = requests \ {r}
    /\ UNCHANGED <<users, logins, bindings, pushes, registrations, resets,
                   transfers, history>>

\* revokeCurrentSession and revokeMobileToken, without a lock on the user
SignOut(i) ==
    /\ logins[i].row = "LIVE"
    /\ ~Locked(logins[i].user)
    /\ logins' = [logins EXCEPT ![i].row = IF OnPhone(logins[i]) THEN "REVOKED"
                                                               ELSE "GONE"]
    /\ pushes' = [p \in Phone |-> IF pushes[p] = i THEN 0 ELSE pushes[p]]
    /\ UNCHANGED <<users, bindings, requests, registrations, resets,
                   transfers, history>>

\* changePassword, before its transaction
RequestPassword(i) ==
    /\ Pending < MaxPending
    /\ Authenticates(i)
    /\ requests' = requests \cup
            {[user |-> logins[i].user, on |-> "PASSWORD",
              password |-> users[logins[i].user].password]}
    /\ UNCHANGED <<users, logins, bindings, pushes, registrations, resets,
                   transfers, history>>

\* replacePasswordAndRevoke
ReplacePassword(r) ==
    LET row == users[r.user]
    IN  /\ r.on = "PASSWORD"
        /\ changes[r.user] < MaxChanges
        /\ row.password = r.password
        /\ Rotate({r.user},
                  [u \in {r.user} |-> [row EXCEPT !.password = @ + 1]])
        /\ requests' = requests \ {r}
        /\ UNCHANGED <<bindings, registrations, resets, transfers>>

\* the route of registerPushDevice, up to the authentication
RequestPush(i) ==
    /\ Pending < MaxPending
    /\ OnPhone(logins[i])
    /\ Authenticates(i)
    /\ registrations' = registrations \cup {i}
    /\ UNCHANGED <<users, logins, bindings, pushes, requests, resets,
                   transfers, history>>

\* registerPushDevice: the session's row must still be there, revoked or not
RegisterPush(i) ==
    /\ i \in registrations
    /\ IF logins[i].row = "GONE"
       THEN pushes' = pushes
       ELSE /\ \A u \in User : logins[i].on \notin resets[u].pushes
            /\ pushes' = [pushes EXCEPT ![logins[i].on] = i]
    /\ registrations' = registrations \ {i}
    /\ UNCHANGED <<users, logins, bindings, requests, resets, transfers,
                   history>>

-----------------------------------------------------------------------------
(* Administrators. *)

Change(u, row) ==
    /\ changes[u] < MaxChanges
    /\ Rotate({u}, [v \in {u} |-> row])
    /\ UNCHANGED <<bindings, requests, registrations, resets, transfers>>

\* deactivateEmployeeInTransaction and, for an additional administrator,
\* setAdditionalAdminActiveForCompany
Deactivate(u) ==
    /\ users[u].role # "PRIMARY_ADMIN"
    /\ users[u].role = "ADMIN" => users[u].isActive
    /\ Change(u, [users[u] EXCEPT !.isActive = FALSE,
                                  !.salesAccessActive = FALSE])

\* suspendAdditionalAdminSales
SuspendSales(u) ==
    /\ users[u].role = "ADMIN"
    /\ users[u].salesAccessActive
    /\ Change(u, [users[u] EXCEPT !.salesAccessActive = FALSE])

\* setAdditionalAdminActiveForCompany and restoreAdditionalAdminSales; a
\* change that is bounded came before each of them
ActivateAdmin(u) ==
    /\ users[u].role = "ADMIN"
    /\ ~users[u].salesAccessActive
    /\ Rotate({u}, [v \in {u} |->
            [users[u] EXCEPT !.isActive = TRUE, !.salesAccessActive = TRUE]])
    /\ UNCHANGED <<bindings, requests, registrations, resets, transfers>>

\* reactivateEmployeeForCompany neither locks the user nor ends a session
ReactivateEmployee(u) ==
    /\ users[u].role \in Employee
    /\ ~(users[u].isActive /\ users[u].salesAccessActive)
    /\ users' = [users EXCEPT ![u].isActive = TRUE,
                              ![u].salesAccessActive = TRUE]
    /\ UNCHANGED <<logins, bindings, pushes, requests, registrations, resets,
                   transfers, history>>

\* resetEmployeePasswordInTransaction and resetAdditionalAdminPassword
ResetPassword(u) ==
    /\ users[u].role # "PRIMARY_ADMIN"
    /\ Change(u, [users[u] EXCEPT !.password = @ + 1])

AssignQuietly(u, scope) ==
    /\ users[u].role \in Employee
    /\ changes[u] < MaxChanges
    /\ users' = [users EXCEPT ![u].branches = scope]
    /\ UNCHANGED <<logins, bindings, pushes, requests, registrations, resets,
                   transfers, history>>

\* replaceBranchAssignment
AssignBranches(u, scope) ==
    /\ users[u].role \in Employee
    /\ Change(u, [users[u] EXCEPT !.branches = scope])

\* changeSalesRole and mobileChangeEmployeeRole: the version goes up, the
\* sessions and push devices stay
ChangeRole(u, role) ==
    /\ changes[u] < MaxChanges
    /\ "PRIMARY_ADMIN" \notin {users[u].role, role}
    /\ users' = [users EXCEPT ![u].role = role, ![u].version = @ + 1,
                     ![u].branches = IF role = "ADMIN" THEN "ALL_BRANCHES"
                                                       ELSE @]
    /\ changes' = [changes EXCEPT ![u] = @ + 1]
    /\ UNCHANGED <<logins, bindings, pushes, requests, registrations, resets,
                   transfers, edited>>

\* The types of manager are roles here.
MaySwitch(role, type) ==
    type = role \/ {role, type} = {"OFFICE_MANAGER", "FIELD_MANAGER"}

\* editEmployee, which may change the type of a manager, and
\* mobileEditEmployee, which may change it and replaces the branches; neither
\* raises the version or ends a session.  An edit that leaves both as they
\* were is no step.
EditEmployee(u, type, scope) ==
    /\ users[u].role \in Employee
    /\ MaySwitch(users[u].role, type)
    /\ <<type, scope>> # <<users[u].role, users[u].branches>>
    /\ changes[u] < MaxChanges
    /\ users' = [users EXCEPT ![u].role = type, ![u].branches = scope]
    /\ edited' = edited \cup {i \in DOMAIN logins :
                        logins[i].user = u /\ logins[i].row # "GONE"}
    /\ UNCHANGED <<logins, bindings, pushes, requests, registrations, resets,
                   transfers, changes>>

\* transferPrimaryAdmin, with a snapshot taken while it waits for the lock on
\* the company
BeginTransfer(from, to) ==
    /\ Pending < MaxPending
    /\ users[from].role = "PRIMARY_ADMIN" /\ users[from].isActive
    /\ users[to].role = "ADMIN"
    /\ users[to].isActive /\ users[to].salesAccessActive
    /\ transfers' = transfers \cup {[from |-> from, to |-> to, read |-> users]}
    /\ UNCHANGED <<users, logins, bindings, pushes, requests, registrations,
                   resets, history>>

RowUntracked(t, u) == TRUE

\* a serializable transaction cannot update a row changed since its snapshot
RowFresh(t, u) == users[u] = t.read[u]

FinishTransfer(t) ==
    LET rows == [u \in {t.from, t.to} |->
                    IF u = t.from
                    THEN [users[u] EXCEPT !.role = "ADMIN",
                            !.salesAccessActive = t.read[u].salesAccessActive]
                    ELSE [users[u] EXCEPT !.role = "PRIMARY_ADMIN",
                                          !.salesAccessActive = TRUE]]
    IN  /\ changes[t.from] < MaxChanges
        /\ RowFresh(t, t.from) /\ RowFresh(t, t.to)
        /\ Rotate({t.from, t.to}, rows)
        /\ transfers' = transfers \ {t}
        /\ UNCHANGED <<bindings, requests, registrations, resets>>

AbortTransfer(t) ==
    /\ transfers' = transfers \ {t}
    /\ UNCHANGED <<users, logins, bindings, pushes, requests, registrations,
                   resets, history>>

-----------------------------------------------------------------------------
(* resetMobileDeviceForUser, statement by statement. *)

SessionsOf(u) ==
    {i \in DOMAIN logins : /\ logins[i].user = u
                           /\ OnPhone(logins[i])
                           /\ logins[i].row # "GONE"}

Step(u, reset) ==
    /\ resets' = [resets EXCEPT ![u] = reset]
    /\ UNCHANGED <<users, logins, bindings, pushes, requests, registrations,
                   transfers, history>>

BeginReset(u) ==
    /\ Pending < MaxPending
    /\ resets[u].at = "none"
    /\ FieldOnly(users[u])
    /\ Step(u, [NoReset EXCEPT !.at = "read", !.before = Len(logins)])

\* a user who is not bound has a binding of former times deleted
Unbind(u) ==
    /\ resets[u].at = "none"
    /\ ~FieldOnly(users[u])
    /\ bindings' = [bindings EXCEPT ![u] = NoPhone]
    /\ UNCHANGED <<users, logins, pushes, requests, registrations, resets,
                   transfers, history>>

ReadSessions(u) ==
    /\ resets[u].at = "read"
    /\ Step(u, [resets[u] EXCEPT !.at = "push", !.seen = SessionsOf(u)])

DeletePushes(u) ==
    /\ resets[u].at = "push"
    /\ Step(u, [resets[u] EXCEPT !.at = "revoke",
                   !.pushes = {p \in Phone : pushes[p] \in resets[u].seen}])

RevocableWithPush(u) ==
    {i \in SessionsOf(u) : logins[i].row = "LIVE"
                           /\ \E p \in resets[u].pushes : pushes[p] = i}

Revocable(u) == {i \in SessionsOf(u) : logins[i].row = "LIVE"}

RevokeSessions(u) ==
    /\ resets[u].at = "revoke"
    /\ Step(u, [resets[u] EXCEPT !.at = "unbind", !.rows = Revocable(u)])

\* the binding is deleted and the transaction commits
FinishReset(u) ==
    /\ resets[u].at = "unbind"
    /\ logins' = [i \in DOMAIN logins |->
                    IF i \in resets[u].rows
                    THEN [logins[i] EXCEPT !.row = "REVOKED"] ELSE logins[i]]
    /\ pushes' = [p \in Phone |-> IF p \in resets[u].pushes THEN 0
                                                             ELSE pushes[p]]
    /\ bindings' = [bindings EXCEPT ![u] = NoPhone]
    /\ resets' = [resets EXCEPT ![u] = NoReset]
    /\ UNCHANGED <<users, requests, registrations, transfers, history>>

\* an error, or a deadlock with a sign-in that holds the binding
AbortReset(u) ==
    /\ resets[u].at # "none"
    /\ Step(u, NoReset)

-----------------------------------------------------------------------------

UserNext(u) ==
    \/ \E on \in Phone \cup {"WEB"} : SignIn(u, on)
    \/ Deactivate(u)
    \/ SuspendSales(u)
    \/ ActivateAdmin(u)
    \/ ReactivateEmployee(u)
    \/ ResetPassword(u)
    \/ \E scope \in Scope : AssignBranches(u, scope)
    \/ \E role \in Role : ChangeRole(u, role)
    \/ \E type \in Role, scope \in Scope : EditEmployee(u, type, scope)
    \/ BeginReset(u) \/ Unbind(u) \/ ReadSessions(u) \/ DeletePushes(u)
    \/ RevokeSessions(u) \/ FinishReset(u) \/ AbortReset(u)

LoginNext(i) ==
    \/ SignOut(i)
    \/ RequestPassword(i)
    \/ RequestPush(i)
    \/ RegisterPush(i)

Next ==
    \/ \E u \in User : UserNext(u)
    \/ \E i \in DOMAIN logins : LoginNext(i)
    \/ \E r \in requests :
          CreateSession(r) \/ ReplacePassword(r) \/ DropRequest(r)
    \/ \E from, to \in User : BeginTransfer(from, to)
    \/ \E t \in transfers : FinishTransfer(t) \/ AbortTransfer(t)

Spec == Init /\ [][Next]_vars

-----------------------------------------------------------------------------
(* Properties. *)

\* A user is signed in once, whatever sign-ins overlap, and a field employee
\* on no telephone but the bound one, whatever becomes of the role or of the
\* binding while signed in.
SingleActiveLogin ==
    \A i \in DOMAIN logins : Authenticates(i) =>
        /\ \A j \in DOMAIN logins :
              Authenticates(j) /\ logins[j].user = logins[i].user => j = i
        /\ OnPhone(logins[i]) /\ FieldOnly(users[logins[i].user]) =>
              bindings[logins[i].user] \in {logins[i].on, NoPhone}

\* A session that is accepted was opened with the password of today and after
\* the last time the user was deactivated or suspended, although its sign-in
\* may have checked the password before.  The user still has the role and the
\* branches of then, but for what the edits of an employee changed since: they
\* end no session, whether they change a manager's type or, made by telephone,
\* the branches.
RevocationIsFinal ==
    \A i \in DOMAIN logins : Authenticates(i) =>
        LET login == logins[i]
            user == users[login.user]
        IN  /\ login.password = user.password
            /\ login.changes = changes[login.user]
            /\ i \notin edited =>
                  login.role = user.role /\ login.branches = user.branches

\* The company has one owner, who can sign in and use the workspace, however
\* transfers of ownership overlap with suspensions and with one another.
OnePrimaryAdmin ==
    \E u \in User :
        /\ users[u].role = "PRIMARY_ADMIN"
        /\ users[u].isActive /\ users[u].salesAccessActive
        /\ \A v \in User : users[v].role = "PRIMARY_ADMIN" => v = u

\* Events go to the telephone of a session that is accepted; the only other
\* one they go to is that of a session which a change of role has ended.
PushFollowsLogin ==
    \A p \in Phone : Delivers(p) =>
        LET login == logins[pushes[p]]
        IN  login.on = p /\ login.password = users[login.user].password
            /\ (login.changes = changes[login.user] => Authenticates(pushes[p]))

\* When a telephone has been reset, no session opened before the reset is
\* accepted or receives events, though sign-ins, sign-outs and registrations
\* went on between its statements.
ResetForgetsTelephone ==
    [][\A u \in User : FinishReset(u) =>
          \A i \in 1..resets[u].before :
              logins[i].user = u /\ OnPhone(logins[i]) =>
                  ~Authenticates(i)' /\ \A p \in Phone :
                      (pushes[p] = i => ~Delivers(p))']_vars

=============================================================================
