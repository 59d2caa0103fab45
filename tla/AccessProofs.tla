----------------------------- MODULE AccessProofs -----------------------------
(***************************************************************************)
(* What Access guarantees for any number of users, telephones and          *)
(* overlapping requests, whatever the bounds are.                          *)
(***************************************************************************)
EXTENDS Access, TLAPS

USE DEF history

-----------------------------------------------------------------------------
(* The shapes of the data. *)

\* A table of as many sessions is a table of sessions.
LEMMA TableType ==
    ASSUME NEW s \in Seq(Login), NEW t, t = [i \in DOMAIN s |-> t[i]],
           \A i \in DOMAIN s : t[i] \in Login
    PROVE  t \in Seq(Login) /\ Len(t) = Len(s) /\ DOMAIN t = DOMAIN s
OBVIOUS

\* The fields of a user's row, and the rows that differ in one of them.
LEMMA RowNumbers ==
    ASSUME NEW row \in UserRow
    PROVE  row.version \in Nat /\ row.password \in Nat
BY DEF UserRow

LEMMA RowType ==
    ASSUME NEW row \in UserRow
    PROVE  /\ row.version \in Nat /\ row.password \in Nat
           /\ row.isActive \in BOOLEAN /\ row.salesAccessActive \in BOOLEAN
           /\ row.role \in Role
           /\ \A n \in Nat : [row EXCEPT !.version = n] \in UserRow
           /\ \A n \in Nat : [row EXCEPT !.password = n] \in UserRow
           /\ \A role \in Role, scope \in Scope :
                [row EXCEPT !.role = role, !.branches = scope] \in UserRow
           /\ \A scope \in Scope : [row EXCEPT !.branches = scope] \in UserRow
           /\ row.branches \in Scope
           /\ \A s \in BOOLEAN : [row EXCEPT !.salesAccessActive = s] \in UserRow
           /\ \A a, s \in BOOLEAN :
                [row EXCEPT !.isActive = a, !.salesAccessActive = s] \in UserRow
BY DEF UserRow

\* What clears sessions keeps the others as they are.
LEMMA ClearedTable ==
    ASSUME TypeOK, NEW S \in SUBSET User
    PROVE  /\ Cleared(S) \in Seq(Login)
           /\ Len(Cleared(S)) = Len(logins)
           /\ DOMAIN Cleared(S) = DOMAIN logins
           /\ \A i \in DOMAIN logins :
                /\ logins[i].user \in S
                     => Cleared(S)[i] = [logins[i] EXCEPT !.row = "GONE"]
                /\ logins[i].user \notin S => Cleared(S)[i] = logins[i]
           /\ ClearedPushes(S) \in [Phone -> 0..Len(logins)]
<1> DEFINE t == Cleared(S)
<1>1. logins \in Seq(Login)
    BY DEF TypeOK
<1>2. t = [i \in DOMAIN logins |-> t[i]]
    BY DEF Cleared
<1>3. \A i \in DOMAIN logins : t[i] \in Login
  <2>1. ASSUME NEW i \in DOMAIN logins
        PROVE  logins[i] \in Login /\ [logins[i] EXCEPT !.row = "GONE"] \in Login
    <3>1. logins[i] \in Login
      BY <1>1
    <3> QED
      BY <3>1 DEF Login
  <2> QED
    BY <2>1 DEF Cleared
<1>4. t \in Seq(Login) /\ Len(t) = Len(logins) /\ DOMAIN t = DOMAIN logins
    BY <1>1, <1>2, <1>3, TableType
<1>5. ClearedPushes(S) \in [Phone -> 0..Len(logins)]
    BY <1>1 DEF TypeOK, ClearedPushes
<1>6. \A i \in DOMAIN logins :
        /\ logins[i].user \in S => t[i] = [logins[i] EXCEPT !.row = "GONE"]
        /\ logins[i].user \notin S => t[i] = logins[i]
    BY DEF Cleared
<1> QED
    BY <1>4, <1>5, <1>6

\* A new generation keeps the types of what it writes.
LEMMA RotateType ==
    ASSUME TypeOK, NEW S \in SUBSET User, NEW rows \in [S -> UserRow],
           Rotate(S, rows)
    PROVE  /\ users' \in [User -> UserRow]
           /\ logins' \in Seq(Login) /\ Len(logins') = Len(logins)
           /\ DOMAIN logins' = DOMAIN logins
           /\ pushes' \in [Phone -> 0..Len(logins')]
           /\ changes' \in [User -> Nat]
           /\ edited' \subseteq DOMAIN logins'
<1>1. users' \in [User -> UserRow]
  <2>1. ASSUME NEW u \in S
        PROVE  [rows[u] EXCEPT !.version = users[u].version + 1] \in UserRow
    <3>1. rows[u] \in UserRow /\ users[u] \in UserRow
      BY DEF TypeOK
    <3>2. users[u].version + 1 \in Nat
      BY <3>1 DEF UserRow
    <3> QED
      BY <3>1, <3>2 DEF UserRow
  <2> QED
    BY <2>1 DEF TypeOK, Rotate
<1>2. changes' \in [User -> Nat]
    BY DEF TypeOK, Rotate
<1> QED
    BY <1>1, <1>2, ClearedTable DEF Rotate, TypeOK

LEMMA NewRowType ==
    ASSUME TypeOK, NEW u \in User, NEW row \in UserRow,
           Rotate({u}, [v \in {u} |-> row]),
           UNCHANGED <<bindings, requests, registrations, resets, transfers>>
    PROVE  TypeOK'
<1>1. [v \in {u} |-> row] \in [{u} -> UserRow] /\ {u} \in SUBSET User
    OBVIOUS
<1> QED
    BY <1>1, RotateType DEF TypeOK

LEMMA ChangeType ==
    ASSUME TypeOK, NEW u \in User, NEW row \in UserRow, Change(u, row)
    PROVE  TypeOK'
BY NewRowType DEF Change

LEMMA NoResetType == NoReset \in Reset
BY DEF NoReset, Reset

-----------------------------------------------------------------------------
(* Type correctness. *)

LEMMA TypeInit == Init => TypeOK
<1> SUFFICES ASSUME Init PROVE TypeOK
    OBVIOUS
<1>1. users \in [User -> UserRow]
  <2>1. {TRUE} \subseteq BOOLEAN /\ {0} \subseteq Nat
    OBVIOUS
  <2>2. {"ALL_BRANCHES"} \subseteq Scope
    BY AccessConstants
  <2>3. [role: Role, isActive: {TRUE}, salesAccessActive: {TRUE},
         branches: {"ALL_BRANCHES"}, password: {0}, version: {0}]
            \subseteq UserRow
    BY <2>1, <2>2, Zenon DEF UserRow
  <2> QED
    BY <2>3 DEF Init
<1> QED
    BY <1>1, NoResetType DEF Init, TypeOK

LEMMA TypeSignIn ==
    ASSUME TypeOK, NEW u \in User, NEW on \in Phone \cup {"WEB"}, SignIn(u, on)
    PROVE  TypeOK'
BY DEF TypeOK, SignIn, Request, UserRow

LEMMA TypeCreateSession ==
    ASSUME TypeOK, NEW r \in requests, CreateSession(r)
    PROVE  TypeOK'
<1> DEFINE u == r.user
           login == [user |-> u, on |-> r.on, version |-> users[u].version + 1,
                     row |-> "LIVE", password |-> r.password,
                     role |-> users[u].role, branches |-> users[u].branches,
                     changes |-> changes[u]]
<1>1. r \in Request /\ u \in User /\ r.on \in Phone \cup {"WEB"}
    BY DEF TypeOK, CreateSession, Request
<1>2. /\ users[u] \in UserRow /\ users[u].version + 1 \in Nat
      /\ users[u].role \in Role /\ users[u].branches \in Scope
    BY <1>1 DEF TypeOK, UserRow
<1>3. login \in Login
    BY <1>1, <1>2 DEF TypeOK, Login, Request
<1>4. logins' = Append(Cleared({u}), login)
    BY DEF CreateSession
<1>5. logins' \in Seq(Login) /\ Len(logins') = Len(logins) + 1
  <2> HIDE DEF login, u
  <2> QED
    BY <1>1, <1>3, <1>4, ClearedTable
<1>6. users' \in [User -> UserRow]
    BY <1>1, <1>2, RowType DEF TypeOK, CreateSession
<1>7. bindings' \in [User -> Phone \cup {NoPhone}]
    BY <1>1 DEF TypeOK, CreateSession, Bound, OnPhone
<1>8. pushes' \in [Phone -> 0..Len(logins')]
  <2>1. pushes' \in [Phone -> 0..Len(logins)]
    BY <1>1, ClearedTable DEF CreateSession
  <2>2. Len(logins) \in Nat
    BY DEF TypeOK
  <2> QED
    BY <1>5, <2>1, <2>2
<1>9. resets' \in [User -> Reset]
  <2>1. resets[u] \in Reset
    BY <1>1 DEF TypeOK
  <2>2. [resets[u] EXCEPT !.at = "unbind"] \in Reset
    BY <2>1 DEF Reset
  <2> QED
    BY <1>1, <2>2 DEF TypeOK, CreateSession
<1>10. registrations' \subseteq DOMAIN logins' /\ edited' \subseteq DOMAIN logins'
  <2>1. /\ Len(logins) \in Nat /\ DOMAIN logins = 1..Len(logins)
        /\ DOMAIN logins' = 1..(Len(logins) + 1)
    BY <1>5 DEF TypeOK
  <2>2. /\ registrations' = registrations /\ edited' = edited
        /\ registrations \subseteq DOMAIN logins /\ edited \subseteq DOMAIN logins
    BY DEF TypeOK, CreateSession
  <2> QED
    BY <2>1, <2>2
<1> QED
    BY <1>5, <1>6, <1>7, <1>8, <1>9, <1>10 DEF TypeOK, CreateSession

LEMMA TypeSignOut ==
    ASSUME TypeOK, NEW i \in DOMAIN logins, SignOut(i)
    PROVE  TypeOK'
<1> DEFINE row == IF OnPhone(logins[i]) THEN "REVOKED" ELSE "GONE"
<1>1. logins' \in Seq(Login) /\ Len(logins') = Len(logins)
  <2>1. logins[i] \in Login /\ logins \in Seq(Login)
    BY DEF TypeOK
  <2>2. [logins[i] EXCEPT !.row = row] \in Login
    BY <2>1 DEF Login
  <2> QED
    BY <2>1, <2>2 DEF SignOut
<1>2. pushes' \in [Phone -> 0..Len(logins')]
    BY <1>1 DEF TypeOK, SignOut
<1> QED
    BY <1>1, <1>2 DEF TypeOK, SignOut

LEMMA TypeReplacePassword ==
    ASSUME TypeOK, NEW r \in requests, ReplacePassword(r)
    PROVE  TypeOK'
<1> DEFINE row == [users[r.user] EXCEPT !.password = @ + 1]
           rows == [u \in {r.user} |-> row]
<1>1. r.user \in User
    BY DEF TypeOK, Request
<1>2. row \in UserRow
  <2>1. users[r.user] \in UserRow
    BY <1>1 DEF TypeOK
  <2> QED
    BY <2>1 DEF UserRow
<1>3. rows \in [{r.user} -> UserRow] /\ {r.user} \in SUBSET User
    BY <1>1, <1>2
<1>4. Rotate({r.user}, rows)
    BY DEF ReplacePassword
<1> HIDE DEF row, rows
<1> QED
    BY <1>3, <1>4, RotateType DEF ReplacePassword, TypeOK

LEMMA TypeRegisterPush ==
    ASSUME TypeOK, NEW i \in DOMAIN logins, RegisterPush(i)
    PROVE  TypeOK'
<1>1. pushes' \in [Phone -> 0..Len(logins)]
    BY DEF TypeOK, RegisterPush
<1> QED
    BY <1>1 DEF TypeOK, RegisterPush

\* The rows that administrators write are rows of users.
LEMMA AdministratorsRows ==
    ASSUME TypeOK, NEW u \in User
    PROVE  /\ users[u] \in UserRow
           /\ \A a, s \in BOOLEAN :
                [users[u] EXCEPT !.isActive = a, !.salesAccessActive = s]
                    \in UserRow
           /\ \A s \in BOOLEAN :
                [users[u] EXCEPT !.salesAccessActive = s] \in UserRow
           /\ [users[u] EXCEPT !.password = @ + 1] \in UserRow
           /\ \A role \in Role, scope \in Scope :
                [users[u] EXCEPT !.role = role, !.version = @ + 1,
                                 !.branches = scope] \in UserRow
<1>1. users[u] \in UserRow
    BY DEF TypeOK
<1>2. users[u].password + 1 \in Nat /\ users[u].version + 1 \in Nat
    BY <1>1 DEF UserRow
<1>3. ASSUME NEW role \in Role, NEW scope \in Scope
      PROVE  [users[u] EXCEPT !.role = role, !.version = @ + 1,
                              !.branches = scope] \in UserRow
    BY <1>1, <1>2 DEF UserRow
<1>4. [users[u] EXCEPT !.password = @ + 1] \in UserRow
    BY <1>1, <1>2 DEF UserRow
<1> QED
    BY <1>1, <1>3, <1>4, RowType

LEMMA TypeAdministrators ==
    ASSUME TypeOK, NEW u \in User,
           \/ Deactivate(u) \/ SuspendSales(u) \/ ActivateAdmin(u)
           \/ ReactivateEmployee(u) \/ ResetPassword(u)
           \/ \E scope \in Scope : AssignBranches(u, scope)
           \/ \E role \in Role : ChangeRole(u, role)
           \/ \E type \in Role, scope \in Scope : EditEmployee(u, type, scope)
    PROVE  TypeOK'
<1>1. CASE Deactivate(u)
    BY <1>1, AdministratorsRows, ChangeType DEF Deactivate
<1>2. CASE SuspendSales(u)
    BY <1>2, AdministratorsRows, ChangeType DEF SuspendSales
<1>3. CASE ActivateAdmin(u)
    BY <1>3, AdministratorsRows, NewRowType DEF ActivateAdmin
<1>4. CASE ReactivateEmployee(u)
  <2>1. [users[u] EXCEPT !.isActive = TRUE, !.salesAccessActive = TRUE]
            \in UserRow
    BY AdministratorsRows
  <2> QED
    BY <1>4, <2>1 DEF ReactivateEmployee, TypeOK
<1>5. CASE ResetPassword(u)
    BY <1>5, AdministratorsRows, ChangeType DEF ResetPassword
<1>6. CASE \E scope \in Scope : AssignBranches(u, scope)
    BY <1>6, AdministratorsRows, RowType, ChangeType DEF AssignBranches
<1>7. CASE \E role \in Role : ChangeRole(u, role)
  <2>1. PICK role \in Role : ChangeRole(u, role)
    BY <1>7
  <2> DEFINE scope == IF role = "ADMIN" THEN "ALL_BRANCHES"
                                       ELSE users[u].branches
             row == [users[u] EXCEPT !.role = role, !.version = @ + 1,
                                     !.branches = scope]
  <2>2. row \in UserRow
    <3>1. scope \in Scope
      BY AccessConstants, AdministratorsRows, RowType
    <3> QED
      BY <3>1, AdministratorsRows
  <2>2a. users' = [users EXCEPT ![u] = row]
    BY <2>1 DEF ChangeRole, TypeOK
  <2>3. changes' \in [User -> Nat]
    <3>1. changes \in [User -> Nat] /\ changes[u] + 1 \in Nat
      BY DEF TypeOK
    <3>2. changes' = [changes EXCEPT ![u] = @ + 1]
      BY <2>1 DEF ChangeRole
    <3> QED
      BY <3>1, <3>2
  <2>4. users' \in [User -> UserRow]
    <3> HIDE DEF row
    <3> QED
      BY <2>2, <2>2a DEF TypeOK
  <2> QED
    BY <2>1, <2>3, <2>4 DEF ChangeRole, TypeOK
<1>8. CASE \E type \in Role, scope \in Scope : EditEmployee(u, type, scope)
  <2>1. PICK type \in Role, scope \in Scope : EditEmployee(u, type, scope)
    BY <1>8
  <2> DEFINE row == [users[u] EXCEPT !.role = type, !.branches = scope]
  <2>2. row \in UserRow
    BY AdministratorsRows, RowType
  <2>3. users' = [users EXCEPT ![u] = row]
    BY <2>1 DEF EditEmployee, TypeOK
  <2>4. users' \in [User -> UserRow]
    <3> HIDE DEF row
    <3> QED
      BY <2>2, <2>3 DEF TypeOK
  <2> QED
    BY <2>1, <2>4 DEF EditEmployee, TypeOK
<1> QED
    BY <1>1, <1>2, <1>3, <1>4, <1>5, <1>6, <1>7, <1>8

\* The rows a transfer of ownership writes, for the user u.
NewOwnerRows(t) ==
    [u \in {t.from, t.to} |->
        IF u = t.from
        THEN [users[u] EXCEPT !.role = "ADMIN",
                !.salesAccessActive = t.read[u].salesAccessActive]
        ELSE [users[u] EXCEPT !.role = "PRIMARY_ADMIN",
                              !.salesAccessActive = TRUE]]

LEMMA NewOwnerRowsType ==
    ASSUME TypeOK, NEW t \in transfers
    PROVE  /\ t.from \in User /\ t.to \in User
           /\ {t.from, t.to} \in SUBSET User
           /\ NewOwnerRows(t) \in [{t.from, t.to} -> UserRow]
<1>1. t.from \in User /\ t.to \in User /\ t.read \in [User -> UserRow]
    BY DEF TypeOK, Transfer
<1>2. users[t.from] \in UserRow /\ users[t.to] \in UserRow
      /\ t.read[t.from] \in UserRow
    BY <1>1 DEF TypeOK
<1>3. t.read[t.from].salesAccessActive \in BOOLEAN
    BY <1>2 DEF UserRow
<1>4. [users[t.from] EXCEPT !.role = "ADMIN",
         !.salesAccessActive = t.read[t.from].salesAccessActive] \in UserRow
    BY <1>2, <1>3 DEF UserRow, Role
<1>5. [users[t.to] EXCEPT !.role = "PRIMARY_ADMIN", !.salesAccessActive = TRUE]
        \in UserRow
    BY <1>2 DEF UserRow, Role
<1> QED
    BY <1>1, <1>4, <1>5 DEF NewOwnerRows

LEMMA TypeTransfers ==
    ASSUME TypeOK,
           \/ \E from, to \in User : BeginTransfer(from, to)
           \/ \E t \in transfers : FinishTransfer(t) \/ AbortTransfer(t)
    PROVE  TypeOK'
<1>1. CASE \E from, to \in User : BeginTransfer(from, to)
    BY <1>1 DEF BeginTransfer, TypeOK, Transfer
<1>2. ASSUME NEW t \in transfers, FinishTransfer(t) PROVE TypeOK'
  <2>1. Rotate({t.from, t.to}, NewOwnerRows(t))
    BY <1>2 DEF FinishTransfer, NewOwnerRows
  <2> QED
    BY <1>2, <2>1, NewOwnerRowsType, RotateType DEF FinishTransfer, TypeOK
<1>3. CASE \E t \in transfers : AbortTransfer(t)
    BY <1>3 DEF AbortTransfer, TypeOK
<1> QED
    BY <1>1, <1>2, <1>3

LEMMA StepType ==
    ASSUME TypeOK, NEW u \in User, NEW reset \in Reset, Step(u, reset)
    PROVE  TypeOK'
BY DEF TypeOK, Step

LEMMA TypeResets ==
    ASSUME TypeOK, NEW u \in User,
           \/ BeginReset(u) \/ Unbind(u) \/ ReadSessions(u) \/ DeletePushes(u)
           \/ RevokeSessions(u) \/ FinishReset(u) \/ AbortReset(u)
    PROVE  TypeOK'
<1>1. /\ resets[u] \in Reset /\ logins \in Seq(Login) /\ Len(logins) \in Nat
      /\ SessionsOf(u) \subseteq Nat
    BY DEF TypeOK, SessionsOf
<1>2. CASE BeginReset(u)
  <2>1. [NoReset EXCEPT !.at = "read", !.before = Len(logins)] \in Reset
    BY <1>1 DEF NoReset, Reset
  <2> QED
    BY <1>2, <2>1, StepType DEF BeginReset
<1>3. CASE Unbind(u)
    BY <1>3 DEF TypeOK, Unbind
<1>4. CASE ReadSessions(u)
  <2>1. [resets[u] EXCEPT !.at = "push", !.seen = SessionsOf(u)] \in Reset
    BY <1>1 DEF Reset
  <2> QED
    BY <1>4, <2>1, StepType DEF ReadSessions
<1>5. CASE DeletePushes(u)
  <2> DEFINE rows == {p \in Phone : pushes[p] \in resets[u].seen}
  <2>1. rows \subseteq Phone
    OBVIOUS
  <2>2. [resets[u] EXCEPT !.at = "revoke", !.pushes = rows] \in Reset
    BY <1>1, <2>1 DEF Reset
  <2> QED
    BY <1>5, <2>2, StepType DEF DeletePushes
<1>6. CASE RevokeSessions(u)
  <2>1. [resets[u] EXCEPT !.at = "unbind", !.rows = Revocable(u)] \in Reset
    BY <1>1 DEF Reset, Revocable
  <2> QED
    BY <1>6, <2>1, StepType DEF RevokeSessions
<1>7. CASE FinishReset(u)
  <2> DEFINE t == logins'
  <2>1. /\ t = [i \in DOMAIN logins |-> t[i]]
        /\ \A i \in DOMAIN logins : t[i] \in Login
    <3>1. ASSUME NEW i \in DOMAIN logins
          PROVE  /\ logins[i] \in Login
                 /\ [logins[i] EXCEPT !.row = "REVOKED"] \in Login
      <4>1. logins[i] \in Login
        BY <1>1
      <4> QED
        BY <4>1 DEF Login
    <3> QED
      BY <1>7, <3>1 DEF FinishReset
  <2>2. logins' \in Seq(Login) /\ Len(logins') = Len(logins)
        /\ DOMAIN logins' = DOMAIN logins
    BY <1>1, <2>1, TableType
  <2>3. pushes' \in [Phone -> 0..Len(logins')]
    BY <1>1, <1>7, <2>2 DEF FinishReset, TypeOK
  <2>4. /\ resets' \in [User -> Reset]
        /\ bindings' \in [User -> Phone \cup {NoPhone}]
    BY <1>7, NoResetType DEF FinishReset, TypeOK
  <2> QED
    BY <1>7, <2>2, <2>3, <2>4 DEF FinishReset, TypeOK
<1>8. CASE AbortReset(u)
    BY <1>8, NoResetType, StepType DEF AbortReset
<1> QED
    BY <1>2, <1>3, <1>4, <1>5, <1>6, <1>7, <1>8

LEMMA TypeStep == TypeOK /\ [Next]_vars => TypeOK'
<1> SUFFICES ASSUME TypeOK, [Next]_vars PROVE TypeOK'
    OBVIOUS
<1>1. ASSUME NEW u \in User, UserNext(u) PROVE TypeOK'
    BY <1>1, TypeSignIn, TypeAdministrators, TypeResets DEF UserNext
<1>2. ASSUME NEW i \in DOMAIN logins, LoginNext(i) PROVE TypeOK'
  <2>1. CASE RequestPassword(i)
    <3> DEFINE request == [user |-> logins[i].user, on |-> "PASSWORD",
                           password |-> users[logins[i].user].password]
    <3>1. logins[i].user \in User
      <4>1. logins[i] \in Login
        BY DEF TypeOK
      <4> QED
        BY <4>1 DEF Login
    <3>2. users[logins[i].user] \in UserRow
      BY <3>1 DEF TypeOK
    <3>3. request \in Request
      BY <3>1, <3>2, RowType DEF Request
    <3>4. requests' \in SUBSET Request
      BY <2>1, <3>3 DEF RequestPassword, TypeOK
    <3> QED
      BY <2>1, <3>4 DEF RequestPassword, TypeOK
  <2>2. CASE RequestPush(i)
    BY <2>2 DEF RequestPush, TypeOK
  <2> QED
    BY <1>2, <2>1, <2>2, TypeSignOut, TypeRegisterPush DEF LoginNext
<1>3. ASSUME NEW r \in requests,
             CreateSession(r) \/ ReplacePassword(r) \/ DropRequest(r)
      PROVE  TypeOK'
  <2>1. CASE DropRequest(r)
    BY <2>1 DEF DropRequest, TypeOK
  <2> QED
    BY <1>3, <2>1, TypeCreateSession, TypeReplacePassword
<1>4. CASE UNCHANGED vars
    BY <1>4 DEF vars, TypeOK
<1> QED
    BY <1>1, <1>2, <1>3, <1>4, TypeTransfers DEF Next

\* The variables keep their types, whoever overlaps with whom.
THEOREM TypeCorrect == Spec => []TypeOK
<1>1. Init => TypeOK
    BY TypeInit
<1>2. TypeOK /\ [Next]_vars => TypeOK'
    BY TypeStep
<1> QED
    BY <1>1, <1>2, PTL DEF Spec

-----------------------------------------------------------------------------
(* Sessions. *)

Live(i) == logins[i].row = "LIVE"
UserOf(i) == users[logins[i].user]

\* What is true of a session whose row is live, accepted or not: it is the
\* only one of its user, it was opened with the password of today, its user is
\* bound to no other telephone, and it is behind the user's version by as many
\* steps as the user's access was changed without the end of its sessions.  If
\* it is not behind, the user's role and branches are as it was opened, but for
\* the edits since.
LiveSession(i) ==
    /\ \A j \in DOMAIN logins :
          Live(j) /\ logins[j].user = logins[i].user => j = i
    /\ OnPhone(logins[i]) =>
          bindings[logins[i].user] \in {logins[i].on, NoPhone}
    /\ logins[i].password = UserOf(i).password
    /\ logins[i].version <= UserOf(i).version
    /\ UserOf(i).version - logins[i].version
          = changes[logins[i].user] - logins[i].changes
    /\ i \notin edited /\ logins[i].version = UserOf(i).version
          => /\ logins[i].role = UserOf(i).role
             /\ logins[i].branches = UserOf(i).branches

\* a push device is the telephone of its session
PushOfPhone == \A p \in Phone : pushes[p] # 0 => logins[pushes[p]].on = p

SessionInv ==
    /\ \A i \in DOMAIN logins : Live(i) => LiveSession(i)
    /\ PushOfPhone

LEMMA SessionFields ==
    ASSUME TypeOK, NEW i \in DOMAIN logins
    PROVE  /\ i \in Nat \ {0}
           /\ logins[i] \in Login
           /\ logins[i].user \in User /\ users[logins[i].user] \in UserRow
           /\ logins[i].on \in Phone \cup {"WEB"}
           /\ logins[i].password \in Nat /\ logins[i].version \in Nat
           /\ logins[i].changes \in Nat
           /\ changes[logins[i].user] \in Nat
           /\ users[logins[i].user].version \in Nat
           /\ users[logins[i].user].password \in Nat
<1>1. i \in Nat \ {0} /\ logins[i] \in Login
    BY DEF TypeOK
<1>2. /\ logins[i].user \in User /\ logins[i].on \in Phone \cup {"WEB"}
      /\ logins[i].password \in Nat /\ logins[i].version \in Nat
      /\ logins[i].changes \in Nat
    BY <1>1 DEF Login
<1>3. users[logins[i].user] \in UserRow /\ changes[logins[i].user] \in Nat
    BY <1>2 DEF TypeOK
<1> QED
    BY <1>1, <1>2, <1>3, RowType

\* A step that leaves the sessions and the push devices alone, and raises the
\* version of a user's row together with the count of its changes, or neither.
LEMMA SessionsKept ==
    ASSUME TypeOK, SessionInv,
           logins' = logins, pushes' = pushes, edited \subseteq edited',
           NEW n \in [User -> Nat],
           \A u \in User : /\ users'[u].password = users[u].password
                           /\ users'[u].version = users[u].version + n[u]
                           /\ changes'[u] = changes[u] + n[u]
                           /\ bindings'[u] \in {bindings[u], NoPhone},
           \A i \in DOMAIN logins :
               \/ i \in edited' \/ logins[i].row = "GONE"
               \/ n[logins[i].user] # 0
               \/ LET u == logins[i].user
                  IN  /\ users'[u].role = users[u].role
                      /\ users'[u].branches = users[u].branches
    PROVE  SessionInv'
<1>1. PushOfPhone'
    BY DEF SessionInv, PushOfPhone
<1>2. ASSUME NEW i \in DOMAIN logins, Live(i)' PROVE LiveSession(i)'
  <2> DEFINE u == logins[i].user
  <2>1. /\ u \in User /\ n[u] \in Nat /\ changes[u] \in Nat
        /\ users[u].version \in Nat /\ logins[i].version \in Nat
        /\ logins[i].changes \in Nat
    BY SessionFields
  <2>2. Live(i) /\ LiveSession(i)
    BY <1>2 DEF Live, SessionInv
  <2>3. \A j \in DOMAIN logins : Live(j)' => Live(j)
    BY DEF Live
  <2>4. (OnPhone(logins[i]) => bindings[u] \in {logins[i].on, NoPhone})'
    BY <2>1, <2>2 DEF LiveSession, OnPhone
  <2>5. /\ logins[i].version <= users'[u].version
        /\ users'[u].version - logins[i].version
              = changes'[u] - logins[i].changes
        /\ logins[i].password = users'[u].password
    BY <2>1, <2>2 DEF LiveSession, UserOf
  <2>6. \A j \in DOMAIN logins :
          Live(j)' /\ logins[j].user = logins[i].user => j = i
    BY <2>2, <2>3 DEF LiveSession
  <2>7. i \notin edited' /\ logins[i].version = users'[u].version
          => /\ logins[i].role = users'[u].role
             /\ logins[i].branches = users'[u].branches
    <3> SUFFICES ASSUME i \notin edited', logins[i].version = users'[u].version
                 PROVE  /\ logins[i].role = users'[u].role
                        /\ logins[i].branches = users'[u].branches
      OBVIOUS
    <3>1. logins[i].version <= users[u].version
      BY <2>2 DEF LiveSession, UserOf
    <3>2. users'[u].version = users[u].version + n[u]
      BY <2>1
    <3>3. n[u] = 0 /\ logins[i].version = users[u].version
      BY <2>1, <3>1, <3>2
    <3>4. /\ users'[u].role = users[u].role
          /\ users'[u].branches = users[u].branches
      BY <2>2, <3>3 DEF Live
    <3>5. i \notin edited
      OBVIOUS
    <3> QED
      BY <2>2, <3>3, <3>4, <3>5 DEF LiveSession, UserOf
  <2> QED
    BY <2>4, <2>5, <2>6, <2>7 DEF LiveSession, UserOf
<1> QED
    BY <1>1, <1>2 DEF SessionInv

\* The same of a step that leaves the users alone but ends sessions, and sets
\* push devices to sessions on their telephone.
LEMMA SessionsEnded ==
    ASSUME TypeOK, SessionInv,
           users' = users, changes' = changes, edited' = edited,
           \A u \in User : bindings'[u] \in {bindings[u], NoPhone},
           DOMAIN logins' = DOMAIN logins,
           \A i \in DOMAIN logins :
               \/ logins'[i] = logins[i]
               \/ /\ logins'[i] = [logins[i] EXCEPT !.row = logins'[i].row]
                  /\ logins'[i].row # "LIVE",
           \A p \in Phone : \/ pushes'[p] \in {pushes[p], 0}
                            \/ /\ pushes'[p] \in DOMAIN logins
                               /\ logins[pushes'[p]].on = p
    PROVE  SessionInv'
<1>1. ASSUME NEW i \in DOMAIN logins
      PROVE  /\ logins'[i].user = logins[i].user /\ logins'[i].on = logins[i].on
             /\ logins'[i].password = logins[i].password
             /\ logins'[i].version = logins[i].version
             /\ logins'[i].changes = logins[i].changes
             /\ logins'[i].role = logins[i].role
             /\ logins'[i].branches = logins[i].branches
             /\ Live(i)' => Live(i)
  <2>1. logins[i] \in Login
    BY SessionFields
  <2> QED
    BY <2>1 DEF Login, Live
<1>2. PushOfPhone'
  <2>1. ASSUME NEW p \in Phone, pushes'[p] # 0 PROVE logins'[pushes'[p]].on = p
    <3>1. pushes[p] \in 0..Len(logins) /\ DOMAIN logins = 1..Len(logins)
      BY DEF TypeOK
    <3>2. pushes'[p] \in DOMAIN logins /\ logins[pushes'[p]].on = p
      BY <2>1, <3>1 DEF SessionInv, PushOfPhone
    <3> QED
      BY <1>1, <3>2
  <2> QED
    BY <2>1 DEF PushOfPhone
<1>3. ASSUME NEW i \in DOMAIN logins, Live(i)' PROVE LiveSession(i)'
  <2>1. Live(i) /\ LiveSession(i) /\ logins[i].user \in User
    BY <1>1, <1>3, SessionFields DEF SessionInv
  <2>2. \A j \in DOMAIN logins' :
          Live(j)' /\ logins'[j].user = logins'[i].user => j = i
    BY <1>1, <2>1 DEF LiveSession
  <2>3. (OnPhone(logins[i]) =>
            bindings[logins[i].user] \in {logins[i].on, NoPhone})'
    BY <1>1, <2>1 DEF LiveSession, OnPhone
  <2> QED
    BY <1>1, <2>1, <2>2, <2>3 DEF LiveSession, UserOf
<1> QED
    BY <1>2, <1>3 DEF SessionInv

\* A new generation of some users leaves no session of theirs, and the others
\* as they are.
LEMMA SessionsRotated ==
    ASSUME TypeOK, SessionInv, NEW S \in SUBSET User, NEW rows, Rotate(S, rows),
           bindings' = bindings
    PROVE  SessionInv'
<1>1. /\ DOMAIN logins' = DOMAIN logins
      /\ \A i \in DOMAIN logins :
            /\ logins[i].user \in S
                 => logins'[i] = [logins[i] EXCEPT !.row = "GONE"]
            /\ logins[i].user \notin S => logins'[i] = logins[i]
    BY ClearedTable DEF Rotate
<1>2. ASSUME NEW i \in DOMAIN logins
      PROVE  /\ logins'[i].user = logins[i].user /\ logins'[i].on = logins[i].on
             /\ logins[i].user \in S => ~Live(i)'
             /\ logins[i].user \notin S => logins'[i] = logins[i]
  <2>1. logins[i] \in Login
    BY SessionFields
  <2> QED
    BY <1>1, <2>1 DEF Login, Live
<1>3. PushOfPhone'
  <2>1. ASSUME NEW p \in Phone, pushes'[p] # 0 PROVE logins'[pushes'[p]].on = p
    <3>1. pushes'[p] = pushes[p] /\ pushes[p] \in DOMAIN logins
      BY <2>1 DEF Rotate, ClearedPushes, TypeOK
    <3> QED
      BY <1>2, <2>1, <3>1 DEF SessionInv, PushOfPhone
  <2> QED
    BY <2>1 DEF PushOfPhone
<1>4. ASSUME NEW i \in DOMAIN logins, Live(i)' PROVE LiveSession(i)'
  <2>1. logins[i].user \in User \ S /\ logins'[i] = logins[i]
    BY <1>2, <1>4, SessionFields
  <2>2. Live(i) /\ LiveSession(i)
    BY <1>4, <2>1 DEF Live, SessionInv
  <2>3. /\ users'[logins[i].user] = users[logins[i].user]
        /\ changes'[logins[i].user] = changes[logins[i].user]
        /\ edited' = edited
    BY <2>1 DEF Rotate
  <2>4. \A j \in DOMAIN logins' :
          Live(j)' /\ logins'[j].user = logins'[i].user => j = i
    BY <1>1, <1>2, <2>1, <2>2 DEF LiveSession, Live
  <2> QED
    BY <2>1, <2>2, <2>3, <2>4 DEF LiveSession, UserOf, OnPhone
<1> QED
    BY <1>1, <1>3, <1>4 DEF SessionInv

LEMMA SessionsCreated ==
    ASSUME TypeOK, SessionInv, NEW r \in requests, CreateSession(r)
    PROVE  SessionInv'
<1> DEFINE u == r.user
           login == [user |-> u, on |-> r.on, version |-> users[u].version + 1,
                     row |-> "LIVE", password |-> r.password,
                     role |-> users[u].role, branches |-> users[u].branches,
                     changes |-> changes[u]]
<1>1. /\ r \in Request /\ u \in User /\ r.on \in Phone \cup {"WEB"}
      /\ r.password \in Nat /\ {u} \in SUBSET User
    BY DEF TypeOK, CreateSession, Request
<1>2. /\ users[u] \in UserRow /\ users[u].version \in Nat /\ changes[u] \in Nat
      /\ Len(logins) \in Nat
  <2>1. users[u] \in UserRow /\ changes[u] \in Nat /\ Len(logins) \in Nat
    BY <1>1 DEF TypeOK
  <2> QED
    BY <2>1, RowNumbers
<1>2a. PICK k \in Nat : k = Len(logins) + 1
    BY <1>2
<1>3. /\ DOMAIN logins' = 1..k /\ DOMAIN logins = 1..Len(logins)
      /\ k \in DOMAIN logins' /\ logins'[k] = login
      /\ \A i \in DOMAIN logins : logins'[i] = Cleared({u})[i]
  <2>1. /\ Cleared({u}) \in Seq(Login) /\ Len(Cleared({u})) = Len(logins)
        /\ DOMAIN logins = 1..Len(logins)
    BY <1>1, ClearedTable DEF TypeOK
  <2>2. logins' = Append(Cleared({u}), login)
    BY DEF CreateSession
  <2> DEFINE t == Cleared({u})
  <2>3. t \in Seq(Login) /\ Len(t) = Len(logins) /\ logins' = Append(t, login)
    BY <2>1, <2>2
  <2> HIDE DEF login, u, t
  <2>4. DOMAIN logins' = 1..k /\ logins'[k] = login
    BY <1>2a, <2>3
  <2>5. \A i \in 1..Len(logins) : logins'[i] = t[i]
    BY <2>3
  <2>6. \A i \in DOMAIN logins : logins'[i] = Cleared({u})[i]
    BY <2>1, <2>5 DEF t
  <2>7. k \in DOMAIN logins'
    BY <1>2, <1>2a, <2>4
  <2> QED
    BY <2>1, <2>4, <2>6, <2>7
<1>4. ASSUME NEW i \in DOMAIN logins
      PROVE  /\ logins'[i].user = logins[i].user /\ logins'[i].on = logins[i].on
             /\ logins[i].user = u => ~Live(i)'
             /\ logins[i].user # u => logins'[i] = logins[i]
  <2>1. /\ logins[i].user \in {u} =>
              logins'[i] = [logins[i] EXCEPT !.row = "GONE"]
        /\ logins[i].user \notin {u} => logins'[i] = logins[i]
    BY <1>1, <1>3, ClearedTable
  <2>2. logins[i] \in Login
    BY SessionFields
  <2> QED
    BY <2>1, <2>2 DEF Login, Live
<1>5. PushOfPhone'
  <2>1. ASSUME NEW p \in Phone, pushes'[p] # 0 PROVE logins'[pushes'[p]].on = p
    <3>1. pushes'[p] = pushes[p] /\ pushes[p] \in DOMAIN logins
      BY <2>1 DEF CreateSession, ClearedPushes, TypeOK
    <3> QED
      BY <1>4, <2>1, <3>1 DEF SessionInv, PushOfPhone
  <2> QED
    BY <2>1 DEF PushOfPhone
<1>6. users' = [users EXCEPT ![u].version = users[u].version + 1]
      /\ changes' = changes /\ edited' = edited /\ bindings' = [bindings EXCEPT ![u] = Bound(r)]
      /\ BindingAllows(r) /\ users[u].password = r.password
    BY DEF CreateSession, Accepted
<1>7. ASSUME NEW i \in DOMAIN logins, Live(i)' PROVE LiveSession(i)'
  <2>1. logins[i].user \in User \ {u} /\ logins'[i] = logins[i]
    BY <1>4, <1>7, SessionFields
  <2>2. Live(i) /\ LiveSession(i)
    BY <1>7, <2>1 DEF Live, SessionInv
  <2>3. /\ users'[logins[i].user] = users[logins[i].user]
        /\ changes'[logins[i].user] = changes[logins[i].user]
        /\ bindings'[logins[i].user] = bindings[logins[i].user]
    BY <1>1, <1>6, <2>1 DEF TypeOK
  <2>4. ASSUME NEW j \in DOMAIN logins', Live(j)',
               logins'[j].user = logins'[i].user
        PROVE  j = i
    <3>1. j \in DOMAIN logins
      BY <1>2, <1>2a, <1>3, <2>1, <2>4
    <3> QED
      BY <1>4, <2>1, <2>2, <2>4, <3>1 DEF LiveSession, Live
  <2>5. edited' = edited
    BY <1>6
  <2> HIDE DEF login, u
  <2> QED
    BY <2>1, <2>2, <2>3, <2>4, <2>5 DEF LiveSession, UserOf, OnPhone
<1>8. LiveSession(k)'
  <2>1. \A j \in DOMAIN logins' :
          Live(j)' /\ logins'[j].user = logins'[k].user => j = k
    BY <1>2, <1>2a, <1>3, <1>4
  <2>2. OnPhone(logins'[k]) =>
          bindings'[logins'[k].user] \in {logins'[k].on, NoPhone}
    BY <1>1, <1>3, <1>6 DEF TypeOK, Bound, BindingAllows, OnPhone
  <2>3. /\ users'[u].version = users[u].version + 1
        /\ users'[u].password = users[u].password
        /\ users'[u].role = users[u].role
        /\ users'[u].branches = users[u].branches
    <3>1. users \in [User -> UserRow]
      BY DEF TypeOK
    <3> QED
      BY <1>1, <1>2, <1>6, <3>1 DEF UserRow
  <2>4. /\ logins'[k].user = u /\ logins'[k].password = r.password
        /\ logins'[k].version = users[u].version + 1
        /\ logins'[k].changes = changes[u]
        /\ logins'[k].role = users[u].role
        /\ logins'[k].branches = users[u].branches
    BY <1>3
  <2>5. /\ logins'[k].password = users'[u].password
        /\ logins'[k].version <= users'[u].version
        /\ users'[u].version - logins'[k].version
              = changes'[u] - logins'[k].changes
    BY <1>2, <1>6, <2>3, <2>4
  <2>6. /\ logins'[k].role = users'[u].role
        /\ logins'[k].branches = users'[u].branches
    BY <2>3, <2>4
  <2> QED
    BY <2>1, <2>2, <2>4, <2>5, <2>6 DEF LiveSession, UserOf
<1> QED
    BY <1>2, <1>2a, <1>3, <1>5, <1>7, <1>8 DEF SessionInv

LEMMA SessionInit == Init => SessionInv
BY DEF Init, SessionInv, PushOfPhone

\* Of the administrators' changes only those of the role, the edits and the
\* reactivation leave sessions.
LEMMA SessionsAdministrators ==
    ASSUME TypeOK, SessionInv, NEW u \in User,
           \/ Deactivate(u) \/ SuspendSales(u) \/ ActivateAdmin(u)
           \/ ReactivateEmployee(u) \/ ResetPassword(u)
           \/ \E scope \in Scope : AssignBranches(u, scope)
           \/ \E role \in Role : ChangeRole(u, role)
           \/ \E type \in Role, scope \in Scope : EditEmployee(u, type, scope)
    PROVE  SessionInv'
<1> DEFINE none == [v \in User |-> 0]
           one == [v \in User |-> IF v = u THEN 1 ELSE 0]
<1>1. none \in [User -> Nat] /\ one \in [User -> Nat]
    OBVIOUS
<1>2. /\ users \in [User -> UserRow] /\ changes \in [User -> Nat]
      /\ bindings' = bindings
    BY DEF TypeOK, Deactivate, SuspendSales, ActivateAdmin, Change,
           ReactivateEmployee, ResetPassword, AssignBranches, ChangeRole,
           EditEmployee
<1>3. CASE \E rows : Rotate({u}, rows)
    BY <1>2, <1>3, SessionsRotated
<1>4. CASE \E role \in Role : ChangeRole(u, role)
  <2>1. ASSUME NEW v \in User
        PROVE  /\ users'[v].password = users[v].password
               /\ users'[v].version = users[v].version + one[v]
               /\ changes'[v] = changes[v] + one[v]
    <3>1. users[v] \in UserRow /\ changes[v] \in Nat
      BY <1>2
    <3> QED
      <4>1. /\ changes' = [changes EXCEPT ![u] = @ + 1]
            /\ \E role, scope : users' = [users EXCEPT ![u].role = role,
                                                      ![u].version = @ + 1,
                                                      ![u].branches = scope]
        BY <1>4 DEF ChangeRole
      <4>2. CASE v = u
        BY <1>2, <3>1, <4>1, <4>2 DEF UserRow
      <4>3. CASE v # u
        BY <1>2, <3>1, <4>1, <4>3 DEF UserRow
      <4> QED
        BY <4>2, <4>3
  <2>2. logins' = logins /\ pushes' = pushes /\ edited' = edited
    BY <1>4 DEF ChangeRole
  <2>3. ASSUME NEW i \in DOMAIN logins
        PROVE  \/ one[logins[i].user] # 0
               \/ users'[logins[i].user] = users[logins[i].user]
    <3>1. logins[i].user \in User
      BY SessionFields
    <3>2. CASE logins[i].user = u
      <4>1. one[logins[i].user] = 1
        BY <3>2
      <4> QED
        BY <4>1
    <3>3. CASE logins[i].user # u
      BY <1>2, <1>4, <3>1, <3>3 DEF ChangeRole
    <3> QED
      BY <3>2, <3>3
  <2> HIDE DEF one
  <2> QED
    BY <1>1, <1>2, <2>1, <2>2, <2>3, SessionsKept
<1>5. CASE ReactivateEmployee(u)
  <2>1. ASSUME NEW v \in User
        PROVE  /\ users'[v].password = users[v].password
               /\ users'[v].role = users[v].role
               /\ users'[v].branches = users[v].branches
               /\ users'[v].version = users[v].version + none[v]
               /\ changes'[v] = changes[v] + none[v]
    <3>1. users[v] \in UserRow /\ changes[v] \in Nat
      BY <1>2
    <3> QED
      BY <1>2, <1>5, <3>1 DEF ReactivateEmployee, UserRow
  <2>2. logins' = logins /\ pushes' = pushes /\ edited' = edited
    BY <1>5 DEF ReactivateEmployee
  <2> HIDE DEF none
  <2> QED
    BY <1>1, <1>2, <2>1, <2>2, SessionFields, SessionsKept
<1>6. ASSUME NEW type \in Role, NEW scope \in Scope,
             EditEmployee(u, type, scope)
      PROVE  SessionInv'
  <2>1. ASSUME NEW v \in User
        PROVE  /\ users'[v].password = users[v].password
               /\ users'[v].version = users[v].version + none[v]
               /\ changes'[v] = changes[v] + none[v]
    <3>1. users[v] \in UserRow /\ changes[v] \in Nat
      BY <1>2
    <3>2. /\ changes' = changes
          /\ users' = [users EXCEPT ![u].role = type, ![u].branches = scope]
      BY <1>6 DEF EditEmployee
    <3>3. /\ users'[v].password = users[v].password
          /\ users'[v].version = users[v].version
      <4>1. CASE v = u
        BY <1>2, <3>1, <3>2, <4>1 DEF UserRow
      <4>2. CASE v # u
        BY <1>2, <3>2, <4>2
      <4> QED
        BY <4>1, <4>2
    <3> QED
      BY <3>1, <3>2, <3>3, RowNumbers
  <2>2. logins' = logins /\ pushes' = pushes /\ edited \subseteq edited'
    BY <1>6 DEF EditEmployee
  <2>3. ASSUME NEW i \in DOMAIN logins
        PROVE  \/ i \in edited'
               \/ users'[logins[i].user] = users[logins[i].user]
               \/ logins[i].row = "GONE"
    <3>1. logins[i].user \in User
      BY SessionFields
    <3> QED
      BY <1>2, <1>6, <3>1 DEF EditEmployee
  <2> HIDE DEF none
  <2> QED
    BY <1>1, <1>2, <2>1, <2>2, <2>3, SessionsKept
<1> QED
    BY <1>3, <1>4, <1>5, <1>6 DEF Deactivate, SuspendSales, ActivateAdmin,
                            ResetPassword, AssignBranches, Change

LEMMA SessionStep == TypeOK /\ SessionInv /\ [Next]_vars => SessionInv'
<1> SUFFICES ASSUME TypeOK, SessionInv, [Next]_vars PROVE SessionInv'
    OBVIOUS
<1>1. CASE UNCHANGED <<users, logins, pushes, bindings, history>>
    BY <1>1 DEF SessionInv, PushOfPhone, LiveSession, Live, UserOf, OnPhone
<1>2. ASSUME NEW u \in User, UserNext(u) PROVE SessionInv'
  <2>1. CASE Unbind(u)
    <3> DEFINE none == [v \in User |-> 0]
    <3>1. none \in [User -> Nat]
      OBVIOUS
    <3>2. ASSUME NEW v \in User
          PROVE  /\ users'[v] = users[v] /\ changes'[v] = changes[v]
                 /\ bindings'[v] \in {bindings[v], NoPhone}
                 /\ users[v].version = users[v].version + none[v]
                 /\ changes[v] = changes[v] + none[v]
      <4>1. users[v] \in UserRow /\ changes[v] \in Nat
        BY DEF TypeOK
      <4> QED
        BY <2>1, <4>1, RowNumbers DEF Unbind, TypeOK
    <3>3. logins' = logins /\ pushes' = pushes /\ edited' = edited
      BY <2>1 DEF Unbind
    <3>4. \A i \in DOMAIN logins :
            users'[logins[i].user] = users[logins[i].user]
      BY <2>1 DEF Unbind
    <3> HIDE DEF none
    <3> QED
      BY <3>1, <3>2, <3>3, <3>4, SessionsKept
  <2>2. CASE FinishReset(u)
    <3>1. \A i \in DOMAIN logins :
            \/ logins'[i] = logins[i]
            \/ logins'[i] = [logins[i] EXCEPT !.row = "REVOKED"]
      BY <2>2 DEF FinishReset
    <3>2. ASSUME NEW i \in DOMAIN logins, logins'[i] # logins[i]
          PROVE  /\ logins'[i] = [logins[i] EXCEPT !.row = logins'[i].row]
                 /\ logins'[i].row # "LIVE"
      <4>1. logins[i] \in Login
        BY SessionFields
      <4> QED
        BY <3>1, <3>2, <4>1 DEF Login
    <3>3. /\ users' = users /\ changes' = changes /\ edited' = edited
          /\ DOMAIN logins' = DOMAIN logins
          /\ \A v \in User : bindings'[v] \in {bindings[v], NoPhone}
          /\ \A p \in Phone : pushes'[p] \in {pushes[p], 0}
      BY <2>2 DEF FinishReset, TypeOK
    <3> QED
      BY <3>2, <3>3, SessionsEnded
  <2> QED
    BY <1>1, <1>2, <2>1, <2>2, SessionsAdministrators
       DEF UserNext, SignIn, BeginReset, ReadSessions, DeletePushes,
           RevokeSessions, AbortReset, Step
<1>3. ASSUME NEW i \in DOMAIN logins, LoginNext(i) PROVE SessionInv'
  <2>1. CASE SignOut(i)
    <3>1. \A j \in DOMAIN logins :
            \/ logins'[j] = logins[j]
            \/ logins'[j] = [logins[j] EXCEPT !.row = "REVOKED"]
            \/ logins'[j] = [logins[j] EXCEPT !.row = "GONE"]
      BY <2>1 DEF SignOut
    <3>2. ASSUME NEW j \in DOMAIN logins, logins'[j] # logins[j]
          PROVE  /\ logins'[j] = [logins[j] EXCEPT !.row = logins'[j].row]
                 /\ logins'[j].row # "LIVE"
      <4>1. logins[j] \in Login
        BY SessionFields
      <4>2. CASE logins'[j] = [logins[j] EXCEPT !.row = "REVOKED"]
        BY <4>1, <4>2 DEF Login
      <4>3. CASE logins'[j] = [logins[j] EXCEPT !.row = "GONE"]
        BY <4>1, <4>3 DEF Login
      <4> QED
        BY <3>1, <3>2, <4>2, <4>3
    <3>3. /\ users' = users /\ changes' = changes /\ bindings' = bindings
          /\ edited' = edited
          /\ DOMAIN logins' = DOMAIN logins
          /\ \A p \in Phone : pushes'[p] \in {pushes[p], 0}
      BY <2>1 DEF SignOut, TypeOK
    <3> QED
      BY <3>2, <3>3, SessionsEnded
  <2>2. CASE RegisterPush(i)
    <3>1. /\ users' = users /\ changes' = changes /\ bindings' = bindings
          /\ edited' = edited
          /\ logins' = logins
          /\ \A p \in Phone : \/ pushes'[p] = pushes[p]
                              \/ pushes'[p] = i /\ p = logins[i].on
      BY <2>2 DEF RegisterPush, TypeOK
    <3> QED
      BY <3>1, SessionsEnded
  <2> QED
    BY <1>1, <1>3, <2>1, <2>2 DEF LoginNext, RequestPassword, RequestPush
<1>4. ASSUME NEW r \in requests,
             CreateSession(r) \/ ReplacePassword(r) \/ DropRequest(r)
      PROVE  SessionInv'
  <2>1. CASE ReplacePassword(r)
    <3>1. {r.user} \in SUBSET User
      BY DEF TypeOK, Request
    <3> QED
      BY <2>1, <3>1, SessionsRotated DEF ReplacePassword
  <2> QED
    BY <1>1, <1>4, <2>1, SessionsCreated DEF DropRequest
<1>5. ASSUME NEW t \in transfers, FinishTransfer(t) PROVE SessionInv'
    BY <1>5, NewOwnerRowsType, SessionsRotated DEF FinishTransfer
<1> QED
    BY <1>1, <1>2, <1>3, <1>4, <1>5 DEF Next, BeginTransfer, AbortTransfer, vars

-----------------------------------------------------------------------------
(* The reset of a telephone. *)

\* A reset knows how many sessions came before it; once it has revoked what it
\* found, those of them that are live are among the rows it has written.
ResetInv ==
    \A u \in User :
        /\ resets[u].before <= Len(logins)
        /\ resets[u].at = "unbind" =>
              \A i \in DOMAIN logins :
                  /\ logins[i].user = u /\ OnPhone(logins[i])
                  /\ Live(i) /\ i <= resets[u].before
                  => i \in resets[u].rows

\* A step that creates no session changes none but by ending it.
NoNewSession ==
    /\ DOMAIN logins' = DOMAIN logins /\ Len(logins') = Len(logins)
    /\ \A i \in DOMAIN logins :
          /\ logins'[i].user = logins[i].user /\ logins'[i].on = logins[i].on
          /\ Live(i)' => Live(i)

LEMMA UnchangedSessions ==
    ASSUME logins' = logins PROVE NoNewSession
BY DEF NoNewSession, Live

LEMMA EndedSessions ==
    ASSUME TypeOK, DOMAIN logins' = DOMAIN logins, Len(logins') = Len(logins),
           \A i \in DOMAIN logins :
              \/ logins'[i] = logins[i]
              \/ logins'[i] = [logins[i] EXCEPT !.row = "REVOKED"]
              \/ logins'[i] = [logins[i] EXCEPT !.row = "GONE"]
    PROVE  NoNewSession
BY SessionFields DEF NoNewSession, Live, Login

LEMMA RotatedSessions ==
    ASSUME TypeOK, NEW S \in SUBSET User, NEW rows, Rotate(S, rows)
    PROVE  NoNewSession
<1>1. /\ DOMAIN logins' = DOMAIN logins /\ Len(logins') = Len(logins)
      /\ \A i \in DOMAIN logins :
            \/ logins'[i] = logins[i]
            \/ logins'[i] = [logins[i] EXCEPT !.row = "GONE"]
    BY ClearedTable DEF Rotate
<1> QED
    BY <1>1, EndedSessions

\* Resets that are as they were, or have been given up, stay right.
LEMMA ResetsKept ==
    ASSUME TypeOK, ResetInv, NoNewSession,
           \A u \in User : resets'[u] \in {resets[u], NoReset}
    PROVE  ResetInv'
<1> SUFFICES ASSUME NEW u \in User
             PROVE  /\ resets'[u].before <= Len(logins')
                    /\ resets'[u].at = "unbind" =>
                          \A i \in DOMAIN logins' :
                              /\ logins'[i].user = u /\ OnPhone(logins'[i])
                              /\ Live(i)' /\ i <= resets'[u].before
                              => i \in resets'[u].rows
    BY DEF ResetInv, OnPhone
<1>1. CASE resets'[u] = resets[u]
    BY <1>1 DEF ResetInv, NoNewSession, OnPhone
<1>2. CASE resets'[u] = NoReset
  <2>1. resets'[u].before = 0 /\ resets'[u].at = "none" /\ Len(logins) \in Nat
    BY <1>2 DEF NoReset, TypeOK
  <2> QED
    BY <2>1 DEF NoNewSession
<1> QED
    BY <1>1, <1>2

\* One reset that goes on by a statement.
LEMMA ResetGoesOn ==
    ASSUME TypeOK, ResetInv, NEW u \in User, NEW reset, Step(u, reset),
           reset.before <= Len(logins),
           reset.at = "unbind" =>
              \A i \in DOMAIN logins :
                  /\ logins[i].user = u /\ OnPhone(logins[i])
                  /\ Live(i) /\ i <= reset.before
                  => i \in reset.rows
    PROVE  ResetInv'
<1>1. /\ logins' = logins
      /\ \A v \in User : resets'[v] = IF v = u THEN reset ELSE resets[v]
    BY DEF Step, TypeOK
<1> QED
    BY <1>1 DEF ResetInv, Live, OnPhone

LEMMA ResetInit == Init => ResetInv
<1> SUFFICES ASSUME Init PROVE ResetInv
    OBVIOUS
<1>1. Len(logins) = 0 /\ \A u \in User : resets[u] = NoReset
    BY DEF Init
<1> QED
    BY <1>1 DEF ResetInv, NoReset

LEMMA ResetsCreated ==
    ASSUME TypeOK, ResetInv, NEW r \in requests, CreateSession(r)
    PROVE  ResetInv'
<1> DEFINE login == [user |-> r.user, on |-> r.on,
                     version |-> users[r.user].version + 1, row |-> "LIVE",
                     password |-> r.password, role |-> users[r.user].role,
                     branches |-> users[r.user].branches,
                     changes |-> changes[r.user]]
<1>1. /\ r.user \in User /\ {r.user} \in SUBSET User /\ Len(logins) \in Nat
      /\ DOMAIN logins = 1..Len(logins)
    BY DEF TypeOK, Request
<1>2. /\ Len(logins') = Len(logins) + 1
      /\ DOMAIN logins' = 1..(Len(logins) + 1)
      /\ \A i \in DOMAIN logins : logins'[i] = Cleared({r.user})[i]
  <2> DEFINE t == Cleared({r.user})
  <2>1. t \in Seq(Login) /\ Len(t) = Len(logins)
    BY <1>1, ClearedTable
  <2>2. logins' = Append(t, login)
    BY DEF CreateSession
  <2> HIDE DEF t, login
  <2>3. /\ Len(logins') = Len(logins) + 1
        /\ DOMAIN logins' = 1..(Len(logins) + 1)
        /\ \A i \in 1..Len(logins) : logins'[i] = t[i]
    BY <2>1, <2>2
  <2>4. \A i \in DOMAIN logins : logins'[i] = Cleared({r.user})[i]
    BY <1>1, <2>3 DEF t
  <2> QED
    BY <2>3, <2>4
<1>3. ASSUME NEW i \in DOMAIN logins
      PROVE  /\ logins'[i].user = logins[i].user /\ logins'[i].on = logins[i].on
             /\ logins[i].user = r.user => ~Live(i)'
             /\ logins[i].user # r.user => logins'[i] = logins[i]
  <2>1. /\ logins[i].user \in {r.user} =>
              logins'[i] = [logins[i] EXCEPT !.row = "GONE"]
        /\ logins[i].user \notin {r.user} => logins'[i] = logins[i]
    BY <1>1, <1>2, ClearedTable
  <2>2. logins[i] \in Login
    BY SessionFields
  <2> QED
    BY <2>1, <2>2 DEF Login, Live
<1>4. ASSUME NEW u \in User
      PROVE  /\ resets'[u].before = resets[u].before
             /\ resets[u].before \in Nat
             /\ u # r.user => resets'[u] = resets[u]
  <2>1. resets \in [User -> Reset] /\ resets[u] \in Reset
    BY DEF TypeOK
  <2>2. resets[u].before \in Nat
    BY <2>1 DEF Reset
  <2>3. resets' = resets \/ resets' = [resets EXCEPT ![r.user].at = "unbind"]
    BY DEF CreateSession
  <2>4. u # r.user => resets'[u] = resets[u]
    BY <1>1, <2>1, <2>3
  <2>5. resets'[u].before = resets[u].before
    BY <1>1, <2>1, <2>3 DEF Reset
  <2> QED
    BY <2>2, <2>4, <2>5
<1>5. ASSUME NEW u \in User, NEW i \in DOMAIN logins', i <= resets[u].before
      PROVE  i \in DOMAIN logins
    BY <1>1, <1>2, <1>4, <1>5 DEF ResetInv
<1>6. ASSUME NEW u \in User, resets'[u].at = "unbind", NEW i \in DOMAIN logins',
             logins'[i].user = u, OnPhone(logins'[i]), Live(i)',
             i <= resets'[u].before
      PROVE  i \in resets'[u].rows
  <2>1. i \in DOMAIN logins
    BY <1>4, <1>5, <1>6
  <2>2. u # r.user /\ logins'[i] = logins[i] /\ resets'[u] = resets[u]
    BY <1>3, <1>4, <1>6, <2>1
  <2> QED
    BY <1>6, <2>1, <2>2 DEF ResetInv, Live
<1>7. \A u \in User : resets'[u].before <= Len(logins')
    BY <1>1, <1>2, <1>4 DEF ResetInv
<1> QED
    BY <1>6, <1>7 DEF ResetInv, OnPhone

LEMMA ResetsFinished ==
    ASSUME TypeOK, NEW u \in User, FinishReset(u)
    PROVE  NoNewSession
<1>1. logins \in Seq(Login)
    BY DEF TypeOK
<1>2. logins' = [i \in DOMAIN logins |-> logins'[i]]
    BY DEF FinishReset
<1>3. \A i \in DOMAIN logins :
        \/ logins'[i] = logins[i]
        \/ logins'[i] = [logins[i] EXCEPT !.row = "REVOKED"]
    BY DEF FinishReset
<1>4. \A i \in DOMAIN logins : logins'[i] \in Login
  <2>1. ASSUME NEW i \in DOMAIN logins PROVE logins'[i] \in Login
    <3>1. logins[i] \in Login
      BY <1>1
    <3> QED
      BY <1>3, <3>1 DEF Login
  <2> QED
    BY <2>1
<1>5. DOMAIN logins' = DOMAIN logins /\ Len(logins') = Len(logins)
    BY <1>1, <1>2, <1>4, TableType
<1> QED
    BY <1>3, <1>5, EndedSessions

LEMMA ResetStep == TypeOK /\ ResetInv /\ [Next]_vars => ResetInv'
<1> SUFFICES ASSUME TypeOK, ResetInv, [Next]_vars PROVE ResetInv'
    OBVIOUS
<1>1. CASE logins' = logins /\ resets' = resets
    BY <1>1, ResetsKept, UnchangedSessions
<1>2. ASSUME NEW S \in SUBSET User, NEW rows, Rotate(S, rows), resets' = resets
      PROVE  ResetInv'
    BY <1>2, ResetsKept, RotatedSessions
<1>3. ASSUME NEW u \in User, UserNext(u) PROVE ResetInv'
  <2>1. resets[u] \in Reset /\ Len(logins) \in Nat /\ {u} \in SUBSET User
    BY DEF TypeOK
  <2>2. CASE BeginReset(u)
    <3> DEFINE reset == [NoReset EXCEPT !.at = "read", !.before = Len(logins)]
    <3>1. reset.before = Len(logins) /\ reset.at = "read"
      BY DEF NoReset
    <3>2. Step(u, reset)
      BY <2>2 DEF BeginReset
    <3> HIDE DEF reset
    <3> QED
      BY <2>1, <3>1, <3>2, ResetGoesOn
  <2>3. CASE ReadSessions(u)
    <3> DEFINE reset == [resets[u] EXCEPT !.at = "push", !.seen = SessionsOf(u)]
    <3>1. reset.before = resets[u].before /\ reset.at = "push"
      BY <2>1 DEF Reset
    <3>2. Step(u, reset)
      BY <2>3 DEF ReadSessions
    <3> HIDE DEF reset
    <3> QED
      BY <3>1, <3>2, ResetGoesOn DEF ResetInv
  <2>4. CASE DeletePushes(u)
    <3> DEFINE reset == [resets[u] EXCEPT !.at = "revoke",
                   !.pushes = {p \in Phone : pushes[p] \in resets[u].seen}]
    <3>1. reset.before = resets[u].before /\ reset.at = "revoke"
      BY <2>1 DEF Reset
    <3>2. Step(u, reset)
      BY <2>4 DEF DeletePushes
    <3> HIDE DEF reset
    <3> QED
      BY <3>1, <3>2, ResetGoesOn DEF ResetInv
  <2>5. CASE RevokeSessions(u)
    <3> DEFINE reset == [resets[u] EXCEPT !.at = "unbind", !.rows = Revocable(u)]
    <3>1. reset.before = resets[u].before /\ reset.rows = Revocable(u)
      BY <2>1 DEF Reset
    <3>2. Step(u, reset)
      BY <2>5 DEF RevokeSessions
    <3>3. \A i \in DOMAIN logins :
              logins[i].user = u /\ OnPhone(logins[i]) /\ Live(i)
                  => i \in Revocable(u)
      BY DEF Revocable, SessionsOf, Live
    <3> HIDE DEF reset
    <3> QED
      BY <3>1, <3>2, <3>3, ResetGoesOn DEF ResetInv
  <2>6. CASE FinishReset(u)
    <3>1. \A v \in User : resets'[v] \in {resets[v], NoReset}
      BY <2>6 DEF FinishReset, TypeOK
    <3> QED
      BY <2>6, <3>1, ResetsKept, ResetsFinished
  <2>7. CASE AbortReset(u)
    <3>1. \A v \in User : resets'[v] \in {resets[v], NoReset}
      BY <2>7 DEF AbortReset, Step, TypeOK
    <3> QED
      BY <2>7, <3>1, ResetsKept, UnchangedSessions DEF AbortReset, Step
  <2>8. CASE \/ Deactivate(u) \/ SuspendSales(u) \/ ActivateAdmin(u)
             \/ ResetPassword(u)
             \/ \E scope \in Scope : AssignBranches(u, scope)
    BY <1>2, <2>1, <2>8 DEF Deactivate, SuspendSales, ActivateAdmin,
                            ResetPassword, AssignBranches, Change
  <2> QED
    BY <1>1, <1>3, <2>2, <2>3, <2>4, <2>5, <2>6, <2>7, <2>8
       DEF UserNext, SignIn, ReactivateEmployee, ChangeRole, EditEmployee,
           Unbind
<1>4. ASSUME NEW i \in DOMAIN logins, LoginNext(i) PROVE ResetInv'
  <2>1. CASE SignOut(i)
    <3>1. /\ resets' = resets /\ DOMAIN logins' = DOMAIN logins
          /\ Len(logins') = Len(logins)
      BY <2>1 DEF SignOut, TypeOK
    <3>2. \A j \in DOMAIN logins :
            \/ logins'[j] = logins[j]
            \/ logins'[j] = [logins[j] EXCEPT !.row = "REVOKED"]
            \/ logins'[j] = [logins[j] EXCEPT !.row = "GONE"]
      BY <2>1 DEF SignOut
    <3> QED
      BY <3>1, <3>2, EndedSessions, ResetsKept
  <2> QED
    BY <1>1, <1>4, <2>1 DEF LoginNext, RequestPassword, RequestPush, RegisterPush
<1>5. ASSUME NEW r \in requests,
             CreateSession(r) \/ ReplacePassword(r) \/ DropRequest(r)
      PROVE  ResetInv'
  <2>1. CASE ReplacePassword(r)
    <3>1. {r.user} \in SUBSET User
      BY DEF TypeOK, Request
    <3> QED
      BY <1>2, <2>1, <3>1 DEF ReplacePassword
  <2> QED
    BY <1>1, <1>5, <2>1, ResetsCreated DEF DropRequest
<1>6. ASSUME NEW t \in transfers, FinishTransfer(t) PROVE ResetInv'
    BY <1>2, <1>6, NewOwnerRowsType DEF FinishTransfer
<1> QED
    BY <1>1, <1>3, <1>4, <1>5, <1>6 DEF Next, BeginTransfer, AbortTransfer, vars

-----------------------------------------------------------------------------
(* The owner of the company. *)

Owns(u) == users[u].role = "PRIMARY_ADMIN"
Uses(u) == users[u].isActive /\ users[u].salesAccessActive

\* A transfer under way read an owner and an administrator with full access.
TransfersRead ==
    \A t \in transfers :
        /\ t.from \in User /\ t.to \in User
        /\ t.read[t.from].role = "PRIMARY_ADMIN"
        /\ t.read[t.to].role = "ADMIN"
        /\ t.read[t.to].isActive /\ t.read[t.to].salesAccessActive

OwnerInv == OnePrimaryAdmin /\ TransfersRead

LEMMA OwnerInit == Init => OwnerInv
<1> SUFFICES ASSUME Init PROVE OwnerInv
    OBVIOUS
<1>1. /\ users[Owner].isActive /\ users[Owner].salesAccessActive
      /\ \A u \in User : users[u].role = "PRIMARY_ADMIN" <=> u = Owner
      /\ Owner \in User
  <2>1. users[Owner] \in [role: Role, isActive: {TRUE},
                          salesAccessActive: {TRUE},
                          branches: {"ALL_BRANCHES"}, password: {0},
                          version: {0}]
    BY AccessConstants DEF Init
  <2>2. users[Owner].isActive /\ users[Owner].salesAccessActive
    BY <2>1, Zenon
  <2> QED
    BY <2>2, AccessConstants DEF Init
<1>2. OnePrimaryAdmin
    BY <1>1, Zenon DEF OnePrimaryAdmin
<1>3. TransfersRead
    BY DEF Init, TransfersRead
<1> QED
    BY <1>2, <1>3 DEF OwnerInv

\* A step after which the same user owns the company, and may use it.
LEMMA OwnerKept ==
    ASSUME OnePrimaryAdmin,
           \A u \in User : Owns(u)' <=> Owns(u),
           \A u \in User : Owns(u) /\ Uses(u) => Uses(u)'
    PROVE  OnePrimaryAdmin'
BY DEF OnePrimaryAdmin, Owns, Uses

\* What administrators do to a user who does not own the company.
LEMMA OwnerAdministrators ==
    ASSUME TypeOK, OnePrimaryAdmin, NEW u \in User,
           \/ Deactivate(u) \/ SuspendSales(u) \/ ActivateAdmin(u)
           \/ ReactivateEmployee(u) \/ ResetPassword(u)
           \/ \E scope \in Scope : AssignBranches(u, scope)
           \/ \E role \in Role : ChangeRole(u, role)
           \/ \E type \in Role, scope \in Scope : EditEmployee(u, type, scope)
    PROVE  OnePrimaryAdmin'
<1>1. users \in [User -> UserRow] /\ users[u] \in UserRow
    BY DEF TypeOK
<1>2. ~Owns(u)
    BY DEF Owns, Employee, Deactivate, SuspendSales, ActivateAdmin,
           ReactivateEmployee, ResetPassword, AssignBranches, ChangeRole,
           EditEmployee
<1>3. \A v \in User \ {u} : users'[v] = users[v]
    BY <1>1 DEF Deactivate, SuspendSales, ActivateAdmin, Change, Rotate,
                ReactivateEmployee, ResetPassword, AssignBranches, ChangeRole,
                EditEmployee
<1>4. ~Owns(u)'
  <2>1. ASSUME NEW row \in UserRow, Rotate({u}, [v \in {u} |-> row]),
               row.role = users[u].role
        PROVE  ~Owns(u)'
    <3>1. users'[u] = [row EXCEPT !.version = users[u].version + 1]
      BY <2>1 DEF Rotate
    <3>2. users'[u].role = row.role
      BY <3>1 DEF UserRow
    <3> QED
      BY <1>2, <2>1, <3>2 DEF Owns
  <2>2. CASE \/ Deactivate(u) \/ SuspendSales(u) \/ ActivateAdmin(u)
             \/ ResetPassword(u)
    <3>1. PICK row \in {
              [users[u] EXCEPT !.isActive = FALSE, !.salesAccessActive = FALSE],
              [users[u] EXCEPT !.isActive = TRUE, !.salesAccessActive = TRUE],
              [users[u] EXCEPT !.salesAccessActive = FALSE],
              [users[u] EXCEPT !.password = @ + 1]} :
            Rotate({u}, [v \in {u} |-> row])
      BY <2>2 DEF Change, Deactivate, SuspendSales, ActivateAdmin,
                  ResetPassword
    <3>2. row \in UserRow
      BY <3>1, AdministratorsRows
    <3>3. row.role = users[u].role
      BY <1>1, <3>1 DEF UserRow
    <3> QED
      BY <2>1, <3>1, <3>2, <3>3
  <2>2a. CASE \E scope \in Scope : AssignBranches(u, scope)
    <3>1. PICK scope \in Scope : AssignBranches(u, scope)
      BY <2>2a
    <3> DEFINE row == [users[u] EXCEPT !.branches = scope]
    <3>2. row \in UserRow /\ row.role = users[u].role
      BY <1>1, RowType DEF UserRow
    <3>3. Rotate({u}, [v \in {u} |-> row])
      BY <3>1 DEF AssignBranches, Change
    <3> HIDE DEF row
    <3> QED
      BY <2>1, <3>2, <3>3
  <2>3. CASE ReactivateEmployee(u)
    <3>1. users'[u] = [users[u] EXCEPT !.isActive = TRUE,
                                       !.salesAccessActive = TRUE]
      BY <1>1, <2>3 DEF ReactivateEmployee
    <3> QED
      BY <1>1, <1>2, <3>1 DEF Owns, UserRow
  <2>4. CASE \E role \in Role : ChangeRole(u, role)
    <3>1. PICK role \in Role : ChangeRole(u, role)
      BY <2>4
    <3>2. users'[u].role = role /\ role # "PRIMARY_ADMIN"
      BY <1>1, <3>1 DEF ChangeRole, UserRow
    <3> QED
      BY <3>2 DEF Owns
  <2>5. CASE \E type \in Role, scope \in Scope : EditEmployee(u, type, scope)
    <3>1. PICK type \in Role, scope \in Scope : EditEmployee(u, type, scope)
      BY <2>5
    <3>2. users'[u].role = type
      BY <1>1, <3>1 DEF EditEmployee, UserRow
    <3>3. type # "PRIMARY_ADMIN"
      BY <3>1 DEF EditEmployee, MaySwitch, Employee
    <3> QED
      BY <3>2, <3>3 DEF Owns
  <2> QED
    BY <2>2, <2>2a, <2>3, <2>4, <2>5
<1> QED
    BY <1>2, <1>3, <1>4, OwnerKept DEF Owns, Uses

\* The new version of a row, and nothing else, at a sign-in or a password
\* change.
LEMMA OwnerSigningIn ==
    ASSUME TypeOK, OnePrimaryAdmin, NEW r \in requests,
           CreateSession(r) \/ ReplacePassword(r)
    PROVE  OnePrimaryAdmin'
<1>1. users \in [User -> UserRow] /\ r.user \in User
    BY DEF TypeOK, Request
<1>2. ASSUME NEW u \in User
      PROVE  (Owns(u)' <=> Owns(u)) /\ (Uses(u) => Uses(u)')
  <2>1. users[u] \in UserRow
    BY <1>1
  <2>2. CASE CreateSession(r)
    BY <1>1, <2>1, <2>2 DEF CreateSession, UserRow, Owns, Uses
  <2>3. CASE ReplacePassword(r)
    <3>1. users'[u] = users[u] \/
          users'[u] = [[users[u] EXCEPT !.password = @ + 1]
                       EXCEPT !.version = users[u].version + 1]
      BY <1>1, <2>3 DEF ReplacePassword, Rotate
    <3> QED
      BY <2>1, <3>1 DEF UserRow, Owns, Uses
  <2> QED
    BY <2>2, <2>3
<1> QED
    BY <1>2, OwnerKept

\* A transfer of ownership ends with the one owner it chose.
LEMMA OwnerTransferred ==
    ASSUME TypeOK, OwnerInv, NEW t \in transfers, FinishTransfer(t)
    PROVE  OnePrimaryAdmin'
<1> DEFINE from == t.from
           to == t.to
<1>1. /\ users \in [User -> UserRow] /\ from \in User /\ to \in User
      /\ users[from] \in UserRow /\ users[to] \in UserRow
    BY DEF TypeOK, OwnerInv, TransfersRead
<1>2. /\ users[from] = t.read[from] /\ users[to] = t.read[to]
      /\ users[from].role = "PRIMARY_ADMIN" /\ users[to].role = "ADMIN"
      /\ users[to].isActive
    BY DEF FinishTransfer, RowFresh, OwnerInv, TransfersRead
<1>3. from # to
    BY <1>2
<1>4. \A u \in User \ {from} : users[u].role # "PRIMARY_ADMIN"
    BY <1>1, <1>2 DEF OwnerInv, OnePrimaryAdmin
<1>5. /\ \A u \in User \ {from, to} : users'[u] = users[u]
      /\ users'[from] =
            [[users[from] EXCEPT !.role = "ADMIN",
                 !.salesAccessActive = t.read[from].salesAccessActive]
             EXCEPT !.version = users[from].version + 1]
      /\ users'[to] =
            [[users[to] EXCEPT !.role = "PRIMARY_ADMIN",
                               !.salesAccessActive = TRUE]
             EXCEPT !.version = users[to].version + 1]
    BY <1>1, <1>3 DEF FinishTransfer, Rotate
<1>6. /\ users'[from].role = "ADMIN" /\ users'[to].role = "PRIMARY_ADMIN"
      /\ users'[to].isActive = users[to].isActive
      /\ users'[to].salesAccessActive = TRUE
    BY <1>1, <1>5 DEF UserRow
<1>7. \A u \in User : users'[u].role = "PRIMARY_ADMIN" => u = to
    BY <1>4, <1>5, <1>6
<1>8. users'[to].isActive /\ users'[to].salesAccessActive
    BY <1>2, <1>6
<1> QED
    BY <1>1, <1>6, <1>7, <1>8 DEF OnePrimaryAdmin

LEMMA TransfersReadKept ==
    ASSUME TypeOK, TransfersRead, [Next]_vars
    PROVE  TransfersRead'
<1>1. CASE transfers' \subseteq transfers
    BY <1>1 DEF TransfersRead
<1>2. ASSUME NEW from \in User, NEW to \in User, BeginTransfer(from, to)
      PROVE  TransfersRead'
  <2>1. ASSUME NEW t \in transfers' PROVE
            \/ t \in transfers
            \/ t = [from |-> from, to |-> to, read |-> users]
    BY <1>2 DEF BeginTransfer
  <2> QED
    BY <1>2, <2>1 DEF BeginTransfer, TransfersRead
<1> QED
    BY <1>1, <1>2
       DEF Next, vars, UserNext, LoginNext, SignIn, Deactivate, SuspendSales,
           ActivateAdmin, Change, ReactivateEmployee, ResetPassword,
           AssignBranches, ChangeRole, EditEmployee, BeginReset, Unbind,
           ReadSessions, DeletePushes, RevokeSessions, FinishReset, AbortReset,
           Step, SignOut, RequestPassword, RequestPush, RegisterPush,
           CreateSession, ReplacePassword, DropRequest, FinishTransfer,
           AbortTransfer

LEMMA OwnerStep == TypeOK /\ OwnerInv /\ [Next]_vars => OwnerInv'
<1> SUFFICES ASSUME TypeOK, OwnerInv, [Next]_vars PROVE OwnerInv'
    OBVIOUS
<1>1. TransfersRead'
    BY TransfersReadKept DEF OwnerInv
<1>2. CASE users' = users
    BY <1>1, <1>2 DEF OwnerInv, OnePrimaryAdmin
<1>3. ASSUME NEW u \in User, UserNext(u) PROVE OwnerInv'
    BY <1>1, <1>2, <1>3, OwnerAdministrators
       DEF UserNext, OwnerInv, SignIn, BeginReset, Unbind, ReadSessions,
           DeletePushes, RevokeSessions, FinishReset, AbortReset, Step
<1>4. ASSUME NEW i \in DOMAIN logins, LoginNext(i) PROVE OwnerInv'
    BY <1>2, <1>4 DEF LoginNext, SignOut, RequestPassword, RequestPush,
                      RegisterPush
<1>5. ASSUME NEW r \in requests,
             CreateSession(r) \/ ReplacePassword(r) \/ DropRequest(r)
      PROVE  OwnerInv'
    BY <1>1, <1>2, <1>5, OwnerSigningIn DEF OwnerInv, DropRequest
<1>6. ASSUME NEW t \in transfers, FinishTransfer(t) PROVE OwnerInv'
    BY <1>1, <1>6, OwnerTransferred DEF OwnerInv
<1> QED
    BY <1>2, <1>3, <1>4, <1>5, <1>6 DEF Next, BeginTransfer, AbortTransfer, vars

-----------------------------------------------------------------------------
(* The theorems. *)

IInv == TypeOK /\ SessionInv /\ ResetInv /\ OwnerInv

LEMMA Inductive == Spec => []IInv
<1>1. Init => IInv
    BY TypeInit, SessionInit, ResetInit, OwnerInit DEF IInv
<1>2. IInv /\ [Next]_vars => IInv'
    BY TypeStep, SessionStep, ResetStep, OwnerStep DEF IInv
<1> QED
    BY <1>1, <1>2, PTL DEF Spec

LEMMA AcceptedIsLive ==
    ASSUME IInv, NEW i \in DOMAIN logins, Authenticates(i)
    PROVE  Live(i) /\ LiveSession(i) /\ logins[i].version = UserOf(i).version
BY DEF IInv, SessionInv, Authenticates, Live, UserOf

\* However many sign-ins overlap, one session of a user is accepted, and a
\* field employee's on the bound telephone only.
THEOREM OneSession == Spec => []SingleActiveLogin
<1>1. IInv => SingleActiveLogin
  <2> SUFFICES ASSUME IInv, NEW i \in DOMAIN logins, Authenticates(i)
               PROVE  /\ \A j \in DOMAIN logins :
                           Authenticates(j) /\ logins[j].user = logins[i].user
                              => j = i
                      /\ OnPhone(logins[i]) =>
                           bindings[logins[i].user] \in {logins[i].on, NoPhone}
    BY DEF SingleActiveLogin
  <2> QED
    BY AcceptedIsLive DEF LiveSession
<1> QED
    BY <1>1, Inductive, PTL

\* An accepted session has the password of today and came after the last time
\* the user's access was taken away; the user has the role and the branches of
\* then, but for the edits of EditEmployee since, which end no session.
THEOREM RevocationStands == Spec => []RevocationIsFinal
<1>1. IInv => RevocationIsFinal
  <2> SUFFICES ASSUME IInv, NEW i \in DOMAIN logins, Authenticates(i)
               PROVE  /\ logins[i].password = UserOf(i).password
                      /\ logins[i].changes = changes[logins[i].user]
                      /\ i \notin edited =>
                            /\ logins[i].role = UserOf(i).role
                            /\ logins[i].branches = UserOf(i).branches
    BY DEF RevocationIsFinal, UserOf
  <2>1. LiveSession(i) /\ logins[i].version = UserOf(i).version
    BY AcceptedIsLive
  <2>2. logins[i].changes = changes[logins[i].user]
    BY <2>1, SessionFields DEF LiveSession, UserOf, IInv
  <2> QED
    BY <2>1, <2>2 DEF LiveSession
<1> QED
    BY <1>1, Inductive, PTL

\* The company has one owner, who can sign in and use the workspace.
THEOREM OneOwner == Spec => []OnePrimaryAdmin
<1>1. IInv => OnePrimaryAdmin
    BY DEF IInv, OwnerInv
<1> QED
    BY <1>1, Inductive, PTL

\* Events go to telephones of accepted sessions, and of sessions that a change
\* of role has ended.
THEOREM PushAsLogin == Spec => []PushFollowsLogin
<1>1. IInv => PushFollowsLogin
  <2> SUFFICES ASSUME IInv, NEW p \in Phone, Delivers(p)
               PROVE  LET login == logins[pushes[p]]
                      IN  /\ login.on = p
                          /\ login.password = users[login.user].password
                          /\ login.changes = changes[login.user]
                                => Authenticates(pushes[p])
    BY DEF PushFollowsLogin
  <2> DEFINE i == pushes[p]
  <2>1. i \in DOMAIN logins /\ Live(i) /\ logins[i].on = p
    BY DEF IInv, TypeOK, SessionInv, PushOfPhone, Delivers, Live
  <2>2. LiveSession(i)
    BY <2>1 DEF IInv, SessionInv
  <2>3. logins[i].changes = changes[logins[i].user]
            => logins[i].version = users[logins[i].user].version
    BY <2>1, <2>2, SessionFields DEF IInv, LiveSession, UserOf
  <2> QED
    BY <2>1, <2>2, <2>3 DEF LiveSession, UserOf, Delivers, Authenticates, Live
<1> QED
    BY <1>1, Inductive, PTL

\* After the reset of a telephone no earlier session on it is accepted or
\* receives events, whatever went on between the statements of the reset.
THEOREM ResetForgets == Spec => ResetForgetsTelephone
<1> DEFINE Forgets ==
        \A u \in User : FinishReset(u) =>
          \A i \in 1..resets[u].before :
              logins[i].user = u /\ OnPhone(logins[i]) =>
                  ~Authenticates(i)' /\ \A p \in Phone :
                      (pushes[p] = i => ~Delivers(p))'
<1>1. IInv /\ [Next]_vars => [Forgets]_vars
  <2> SUFFICES ASSUME IInv, NEW u \in User, FinishReset(u),
                      NEW i \in 1..resets[u].before,
                      logins[i].user = u, OnPhone(logins[i])
               PROVE  ~Authenticates(i)' /\ \A p \in Phone :
                          (pushes[p] = i => ~Delivers(p))'
    OBVIOUS
  <2>1. i \in DOMAIN logins
    <3>1. /\ resets[u] \in Reset /\ logins \in Seq(Login)
          /\ resets[u].before <= Len(logins)
      BY DEF IInv, ResetInv, TypeOK
    <3>2. resets[u].before \in Nat /\ Len(logins) \in Nat
          /\ DOMAIN logins = 1..Len(logins)
      BY <3>1 DEF Reset
    <3> QED
      BY <3>1, <3>2
  <2>2. Live(i) => i \in resets[u].rows
    BY <2>1 DEF IInv, ResetInv, FinishReset
  <2>3. ~Live(i)'
    <3>1. logins[i] \in Login
      BY <2>1, SessionFields DEF IInv
    <3>2. logins'[i] = IF i \in resets[u].rows
                       THEN [logins[i] EXCEPT !.row = "REVOKED"] ELSE logins[i]
      BY <2>1 DEF FinishReset
    <3> QED
      BY <2>2, <3>1, <3>2 DEF Live, Login
  <2> QED
    BY <2>3 DEF Authenticates, Delivers, Live
<1> QED
    BY <1>1, Inductive, PTL DEF ResetForgetsTelephone, Spec

=============================================================================
