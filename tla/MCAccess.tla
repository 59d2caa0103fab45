------------------------------- MODULE MCAccess -------------------------------
(* An instance of Access for TLC. *)
EXTENDS Access, TLC

Symmetry == Permutations(Phone)

(* What TLC tells states apart by.  Passwords and versions are only ever   *)
(* compared with the user's and go up by one, so they are counted from     *)
(* today's; of a session that has been deleted or revoked, only what a     *)
(* step may still ask is kept.                                             *)
FromToday(row, u) ==
    [row EXCEPT !.version = users[u].version - @,
                !.password = users[u].password - @]

Remembered(login) ==
    CASE login.row = "GONE" -> <<>>
      [] login.row = "REVOKED" -> <<login.user, login.on>>
      [] login.row = "LIVE" -> FromToday(login, login.user)

View ==
    <<[u \in User |-> FromToday(users[u], u)],
      [i \in DOMAIN logins |-> Remembered(logins[i])],
      bindings, pushes,
      {[r EXCEPT !.password = users[r.user].password - @] : r \in requests},
      registrations, resets,
      {[t EXCEPT !.read = [u \in User |-> FromToday(@[u], u)]] :
          t \in transfers},
      changes, {i \in edited : logins[i].row = "LIVE"}>>
=============================================================================
