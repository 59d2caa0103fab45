------------------------------ MODULE FieldProofs ----------------------------
(***************************************************************************)
(* What the two components of field work guarantee: FieldTracking for any  *)
(* number of accounts, attendances, points, overlapping requests and       *)
(* interruptions, and FieldJobs for any number of runners, jobs, devices,  *)
(* crashes, outages and leases outlived.                                   *)
(***************************************************************************)
EXTENDS FieldTracking, FieldJobs, SequenceTheorems, FiniteSetTheorems, TLAPS

-----------------------------------------------------------------------------
(* The inductive invariant. *)

Typed ==
    /\ now \in Time
    /\ attendances \in Seq(Attendance)
    /\ requests \subseteq Request
    /\ captured \subseteq Point
    /\ session \in [user: User \cup {NoUser}, token: 0..MaxLogins]
    /\ worker \in Worker

\* every point anywhere is a captured one, and ids are never drawn twice
PointsCaptured ==
    /\ \A p, q \in captured : p.id = q.id => p = q
    /\ \A p \in captured : p.time <= now
    /\ queue \subseteq captured
    /\ Stored \subseteq captured
    /\ \A r \in requests : r.rest \subseteq captured

\* a request carries points of its own account; while it waits for the lock of
\* an attendance, that is one during which its first point was captured
RequestsTrue ==
    \A r \in requests :
        /\ \A p \in r.rest : p.owner = r.user
        /\ r.found # 0 =>
              /\ r.found \in DOMAIN attendances
              /\ attendances[r.found].user = r.user
              /\ \A p \in r.rest : First(p, r.rest) =>
                    /\ attendances[r.found].start <= p.time
                    /\ \/ attendances[r.found].end = Open
                       \/ p.time <= attendances[r.found].end

\* what is reported as acknowledged is stored
AcknowledgedStored ==
    \A result \in worker.results \cup UNION {r.results : r \in requests} :
        result.verdict = "ACKNOWLEDGED" => result.point \in Stored

IInv == Typed /\ PointsCaptured /\ RequestsTrue /\ AcknowledgedStored
              /\ TracksAreTrue /\ RouteInOrder /\ StoredOnce
              /\ NothingLostSilently

-----------------------------------------------------------------------------
(* What one step does to the tracks. *)

LEMMA ConstantTypes ==
    /\ Id \subseteq Nat /\ Time \subseteq Nat
    /\ MaxTime \in Nat /\ MaxRequests \in Nat \ {0}
    /\ NoUser \notin User
BY TrackingConstants DEF TrackingConstants, Time

LEMMA PointType ==
    ASSUME NEW p \in Point
    PROVE  p.id \in Nat /\ p.time \in Nat
BY ConstantTypes DEF Point

LEMMA AttendanceType ==
    ASSUME Typed, NEW a \in DOMAIN attendances
    PROVE  /\ attendances[a] \in Attendance
           /\ attendances[a].start \in Nat
           /\ attendances[a].end \in Nat \cup {Open}
           /\ attendances[a].track \in Seq(Point)
<1>1. attendances[a] \in Attendance
    BY DEF Typed
<1> QED
    BY <1>1, ConstantTypes DEF Attendance

\* a step of StorePoint that stores
Stores(r, p) ==
    /\ r.found # 0
    /\ First(p, r.rest)
    /\ Acceptable(attendances[r.found].track, p)
    /\ Unique(r.user, p)
    /\ attendances' = [attendances EXCEPT ![r.found].track = Append(@, p)]

LEMMA AttendancesFrame ==
    ASSUME [Next]_vars
    PROVE  \/ UNCHANGED attendances
           \/ \E answered \in BOOLEAN : StartAttendance(answered)
           \/ \E answered \in BOOLEAN : EndAttendance(answered)
           \/ \E r \in requests : \E p \in r.rest : Stores(r, p)
BY DEF Next, vars, server, phone, Tick, SetGps, Login, SignOut,
           Bootstrap, RetrySync,
       Capture, WorkerStart, WorkerStop, Send, Receive, HandleResult, Timeout,
       Interrupt, Lookup, StorePoint, Stores, Lose, Forget

\* Attendances are only added; one keeps its account and start, is ended at
\* most once and only now, and its track grows by points that are stored.
LEMMA AttendancesStep ==
    ASSUME Typed, RequestsTrue, PointsCaptured, [Next]_vars
    PROVE  /\ attendances' \in Seq(Attendance)
           /\ DOMAIN attendances \subseteq DOMAIN attendances'
           /\ \A a \in DOMAIN attendances :
                 /\ attendances'[a].user = attendances[a].user
                 /\ attendances'[a].start = attendances[a].start
                 /\ \/ attendances'[a].end = attendances[a].end
                    \/ attendances'[a].end = now
                 /\ \/ attendances'[a].track = attendances[a].track
                    \/ \E r \in requests : \E p \in r.rest :
                          /\ Stores(r, p) /\ a = r.found
                          /\ attendances'[a].track
                                = Append(attendances[a].track, p)
           /\ \A a \in DOMAIN attendances' \ DOMAIN attendances :
                 attendances'[a].track = <<>>
<1>1. CASE UNCHANGED attendances
    BY <1>1 DEF Typed
<1>2. ASSUME NEW answered \in BOOLEAN, StartAttendance(answered)
      PROVE  /\ attendances' \in Seq(Attendance)
             /\ DOMAIN attendances \subseteq DOMAIN attendances'
             /\ \A a \in DOMAIN attendances : attendances'[a] = attendances[a]
             /\ \A a \in DOMAIN attendances' \ DOMAIN attendances :
                   attendances'[a].track = <<>>
  <2> DEFINE new == [user |-> session.user, start |-> now, end |-> Open,
                     track |-> <<>>]
  <2>0. session.user \in User
    BY <1>2 DEF StartAttendance, Typed
  <2>1. new \in Attendance
    BY <2>0 DEF Attendance, Typed
  <2>2. attendances' = Append(attendances, new)
    BY <1>2 DEF StartAttendance
  <2>3. new.track = <<>>
    OBVIOUS
  <2> HIDE DEF new
  <2> QED
    BY <2>1, <2>2, <2>3 DEF Typed
<1>3. ASSUME NEW answered \in BOOLEAN, EndAttendance(answered)
      PROVE  /\ attendances' \in Seq(Attendance)
             /\ DOMAIN attendances' = DOMAIN attendances
             /\ \A a \in DOMAIN attendances :
                   /\ attendances'[a].user = attendances[a].user
                   /\ attendances'[a].start = attendances[a].start
                   /\ \/ attendances'[a].end = attendances[a].end
                      \/ attendances'[a].end = now
                   /\ attendances'[a].track = attendances[a].track
  <2>1. PICK b \in DOMAIN attendances :
            attendances' = [attendances EXCEPT ![b].end = now]
    BY <1>3 DEF EndAttendance, OpenOf
  <2>2. attendances[b] \in Attendance
    BY DEF Typed
  <2>3. [attendances[b] EXCEPT !.end = now] \in Attendance
    BY <2>2 DEF Attendance, Typed
  <2> QED
    BY <2>1, <2>2, <2>3 DEF Typed, Attendance
<1>4. ASSUME NEW r \in requests, NEW p \in r.rest, Stores(r, p)
      PROVE  /\ attendances' \in Seq(Attendance)
             /\ DOMAIN attendances' = DOMAIN attendances
             /\ \A a \in DOMAIN attendances :
                   /\ attendances'[a].user = attendances[a].user
                   /\ attendances'[a].start = attendances[a].start
                   /\ attendances'[a].end = attendances[a].end
                   /\ \/ attendances'[a].track = attendances[a].track
                      \/ /\ a = r.found
                         /\ attendances'[a].track
                               = Append(attendances[a].track, p)
  <2> DEFINE b == r.found
             t == Append(attendances[b].track, p)
  <2>1. b \in DOMAIN attendances /\ p \in Point
    BY <1>4 DEF RequestsTrue, Stores, PointsCaptured, Typed
  <2>2. attendances[b] \in Attendance /\ attendances[b].track \in Seq(Point)
    BY <2>1, AttendanceType
  <2>3. t \in Seq(Point)
    BY <2>1, <2>2
  <2>4. attendances' = [attendances EXCEPT ![b] = [@ EXCEPT !.track = t]]
    BY <1>4 DEF Stores
  <2> HIDE DEF t
  <2>5. [attendances[b] EXCEPT !.track = t] \in Attendance
    BY <2>2, <2>3 DEF Attendance
  <2>6. /\ attendances' \in Seq(Attendance)
        /\ DOMAIN attendances' = DOMAIN attendances
    BY <2>1, <2>4, <2>5 DEF Typed
  <2>7. \A a \in DOMAIN attendances \ {b} : attendances'[a] = attendances[a]
    BY <2>4 DEF Typed
  <2>8. attendances'[b] = [attendances[b] EXCEPT !.track = t]
    BY <2>1, <2>4 DEF Typed
  <2>9. /\ attendances'[b].user = attendances[b].user
        /\ attendances'[b].start = attendances[b].start
        /\ attendances'[b].end = attendances[b].end
        /\ attendances'[b].track = t
    BY <2>2, <2>8 DEF Attendance
  <2> QED
    BY <2>6, <2>7, <2>9 DEF t
<1> QED
    BY <1>1, <1>2, <1>3, <1>4, AttendancesFrame

\* What becomes stored is the point of a request, and nothing is taken away.
LEMMA StoredStep ==
    ASSUME Typed, RequestsTrue, PointsCaptured, [Next]_vars
    PROVE  /\ Stored \subseteq Stored'
           /\ \A q \in Stored' :
                 q \in Stored \/ \E r \in requests : q \in r.rest
<1>1. ASSUME NEW q \in Stored PROVE q \in Stored'
  <2>1. PICK a \in DOMAIN attendances : q \in StoredIn(a)
    BY DEF Stored
  <2>2. PICK k \in DOMAIN attendances[a].track : q = attendances[a].track[k]
    BY <2>1 DEF StoredIn
  <2>3. attendances[a].track \in Seq(Point)
    BY AttendanceType
  <2>4. a \in DOMAIN attendances'
    BY AttendancesStep
  <2>5. /\ k \in DOMAIN attendances'[a].track
        /\ attendances'[a].track[k] = q
    <3>1. CASE attendances'[a].track = attendances[a].track
      BY <2>2, <3>1
    <3>2. ASSUME NEW p, attendances'[a].track = Append(attendances[a].track, p)
          PROVE  /\ k \in DOMAIN attendances'[a].track
                 /\ attendances'[a].track[k] = q
      BY <2>2, <2>3, <3>2
    <3> QED
      BY <3>1, <3>2, AttendancesStep
  <2> QED
    BY <2>4, <2>5 DEF Stored, StoredIn
<1>2. ASSUME NEW q \in Stored'
      PROVE  q \in Stored \/ \E r \in requests : q \in r.rest
  <2>1. PICK a \in DOMAIN attendances' :
            \E k \in DOMAIN attendances'[a].track :
                q = attendances'[a].track[k]
    BY DEF Stored, StoredIn
  <2>2. PICK k \in DOMAIN attendances'[a].track : q = attendances'[a].track[k]
    BY <2>1
  <2>3. CASE a \notin DOMAIN attendances
    BY <2>2, <2>3, AttendancesStep
  <2>4. CASE a \in DOMAIN attendances
    <3>1. attendances[a].track \in Seq(Point)
      BY <2>4, AttendanceType
    <3>2. CASE attendances'[a].track = attendances[a].track
      BY <2>2, <2>4, <3>2 DEF Stored, StoredIn
    <3>3. ASSUME NEW r \in requests, NEW p \in r.rest,
                 attendances'[a].track = Append(attendances[a].track, p)
          PROVE  q \in Stored \/ q = p
      BY <2>2, <2>4, <3>1, <3>3 DEF Stored, StoredIn
    <3> QED
      BY <2>4, <3>2, <3>3, AttendancesStep
  <2> QED
    BY <2>3, <2>4
<1> QED
    BY <1>1, <1>2

-----------------------------------------------------------------------------
(* What one step does to the requests. *)

LEMMA RequestsFrame ==
    ASSUME [Next]_vars
    PROVE  \/ requests' \subseteq requests
           \/ \E i \in 1..MaxRequests : Send(i)
           \/ \E r \in requests : \E p \in r.rest : Lookup(r, p)
           \/ \E r \in requests : \E p \in r.rest : StorePoint(r, p)
BY DEF Next, vars, server, phone, Tick, SetGps, Login, SignOut,
           Bootstrap, RetrySync,
       StartAttendance, EndAttendance, Capture, WorkerStart, WorkerStop,
       Receive, HandleResult, Timeout, Interrupt, Lose, Forget

\* the forms that a request of the next state can have
Sent(next) ==
    /\ next.rest = Batch(next.user)
    /\ next.results = {} /\ next.found = 0

Advanced(r, p, next) ==
    /\ next.user = r.user /\ next.found = 0
    /\ next.rest \subseteq r.rest
    /\ \E verdict \in Verdict :
          /\ next.results = r.results
                \cup {[point |-> p, verdict |-> verdict]}
          /\ verdict = "ACKNOWLEDGED" => Known(r.user, p) \/ Stores(r, p)

Broken(r, next) ==
    /\ next.user = r.user /\ next.found = r.found
    /\ next.rest = r.rest /\ next.results = r.results

Found(r, p, next) ==
    /\ next.user = r.user
    /\ next.rest = r.rest /\ next.results = r.results
    /\ First(p, r.rest)
    /\ next.found \in AttendancesAt(r.user, p)

LEMMA AnsweredEffect ==
    ASSUME NEW r \in Request, NEW p \in r.rest, NEW verdict \in Verdict,
           verdict = "ACKNOWLEDGED" => Known(r.user, p) \/ Stores(r, p)
    PROVE  /\ Answered(r, p, verdict) \in Request
           /\ Advanced(r, p, Answered(r, p, verdict))
<1> DEFINE rest == r.rest \ {p}
           results == r.results \cup {[point |-> p, verdict |-> verdict]}
           next == [r EXCEPT !.rest = rest, !.found = 0, !.results = results]
<1>1. Answered(r, p, verdict) = next
    BY DEF Answered
<1>2. rest \subseteq Point
    BY DEF Request
<1>3. results \subseteq Result
    BY DEF Request, Result
<1> HIDE DEF rest, results
<1>4. next \in Request
    BY <1>2, <1>3 DEF Request
<1>5. /\ next.user = r.user /\ next.found = 0
      /\ next.rest = rest /\ next.results = results
    BY DEF Request
<1> HIDE DEF next
<1> QED
    BY <1>1, <1>4, <1>5 DEF Advanced, rest, results

LEMMA RequestsStep ==
    ASSUME Typed, PointsCaptured, [Next]_vars
    PROVE  \A next \in requests' :
              /\ next \in Request
              /\ \/ next \in requests
                 \/ Sent(next)
                 \/ \E r \in requests : \E p \in r.rest : Advanced(r, p, next)
                 \/ \E r \in requests : Broken(r, next)
                 \/ \E r \in requests : \E p \in r.rest : Found(r, p, next)
<1> SUFFICES ASSUME NEW next \in requests'
             PROVE  /\ next \in Request
                    /\ \/ next \in requests
                       \/ Sent(next)
                       \/ \E r \in requests :
                             \E p \in r.rest : Advanced(r, p, next)
                       \/ \E r \in requests : Broken(r, next)
                       \/ \E r \in requests :
                             \E p \in r.rest : Found(r, p, next)
    OBVIOUS
<1>1. CASE next \in requests
    BY <1>1 DEF Typed
<1>2. ASSUME NEW i \in 1..MaxRequests, Send(i), next \notin requests
      PROVE  next \in Request /\ Sent(next)
  <2>1. next = [slot |-> i, user |-> worker.user, rest |-> Batch(worker.user),
                results |-> {}, found |-> 0, error |-> "NONE"]
    BY <1>2 DEF Send
  <2>2. worker.user \in User
    BY <1>2 DEF Send, PendingOf, PointsCaptured, Typed, Point
  <2>3. Batch(worker.user) \subseteq Point
    BY DEF Batch, PendingOf, PointsCaptured, Typed
  <2> QED
    BY <2>1, <2>2, <2>3 DEF Request, Sent
<1>3. ASSUME NEW r \in requests, NEW p \in r.rest, Lookup(r, p),
             next \notin requests
      PROVE  /\ next \in Request
             /\ Advanced(r, p, next) \/ Broken(r, next) \/ Found(r, p, next)
  <2>1. r \in Request
    BY DEF Typed
  <2>2. ASSUME NEW verdict \in Verdict, next = Answered(r, p, verdict),
               verdict = "ACKNOWLEDGED" => Known(r.user, p)
        PROVE  next \in Request /\ Advanced(r, p, next)
    BY <2>1, <2>2, AnsweredEffect
  <2>3. ASSUME next = [r EXCEPT !.error = "GPS_DISABLED"]
        PROVE  next \in Request /\ Broken(r, next)
    BY <2>1, <2>3 DEF Request, Broken
  <2>4. ASSUME NEW a \in AttendancesAt(r.user, p),
               next = [r EXCEPT !.found = a]
        PROVE  next \in Request /\ Found(r, p, next)
    <3>1. a \in Nat
      BY DEF AttendancesAt, Typed
    <3>2. next \in Request
      BY <2>1, <2>4, <3>1 DEF Request
    <3>3. /\ next.user = r.user /\ next.rest = r.rest
          /\ next.results = r.results /\ next.found = a
      BY <2>1, <2>4 DEF Request
    <3> QED
      BY <1>3, <3>2, <3>3 DEF Found, Lookup
  <2> QED
    BY <1>3, <2>2, <2>3, <2>4 DEF Lookup, Continue, Verdict
<1>4. ASSUME NEW r \in requests, NEW p \in r.rest, StorePoint(r, p),
             next \notin requests
      PROVE  /\ next \in Request
             /\ Advanced(r, p, next) \/ Broken(r, next)
  <2>1. r \in Request
    BY DEF Typed
  <2>2. ASSUME NEW verdict \in Verdict, next = Answered(r, p, verdict),
               verdict = "ACKNOWLEDGED" => Stores(r, p)
        PROVE  next \in Request /\ Advanced(r, p, next)
    BY <2>1, <2>2, AnsweredEffect
  <2>3. ASSUME next = [r EXCEPT !.error = "SERVER_ERROR"]
        PROVE  next \in Request /\ Broken(r, next)
    BY <2>1, <2>3 DEF Request, Broken
  <2> QED
    BY <1>4, <2>2, <2>3 DEF StorePoint, Stores, Continue, Verdict
<1> QED
    BY <1>1, <1>2, <1>3, <1>4, RequestsFrame

-----------------------------------------------------------------------------
(* Every step keeps each part of the invariant. *)

LEMMA NowStep ==
    ASSUME Typed, [Next]_vars
    PROVE  now' \in Time /\ now <= now'
<1>1. UNCHANGED now \/ Tick
    BY DEF Next, vars, server, phone, SetGps, Login, SignOut,
           Bootstrap, RetrySync,
           StartAttendance, EndAttendance, Capture, WorkerStart, WorkerStop,
           Send, Receive, HandleResult, Timeout, Interrupt, Lookup,
           StorePoint, Lose, Forget
<1> QED
    BY <1>1, ConstantTypes DEF Typed, Time, Tick

LEMMA CapturedStep ==
    ASSUME Typed, [Next]_vars
    PROVE  \/ UNCHANGED <<captured, now>> /\ queue' \subseteq queue
           \/ UNCHANGED <<captured, queue>>
           \/ \E id \in Id, place \in Place : Capture(id, place)
BY DEF Next, vars, server, phone, SetGps, Login, SignOut,
           Bootstrap, RetrySync, Tick,
       StartAttendance, EndAttendance, WorkerStart, WorkerStop,
       Send, Receive, HandleResult, Timeout, Interrupt, Lookup,
       StorePoint, Lose, Forget

\* A capture adds one point, with an id nobody has.
LEMMA CaptureEffect ==
    ASSUME Typed, NEW id \in Id, NEW place \in Place, Capture(id, place)
    PROVE  \E point \in Point :
              /\ captured' = captured \cup {point}
              /\ queue' \subseteq queue \cup {point}
              /\ \A q \in (queue \cup {point}) \ queue' : q.id \in discarded'
              /\ discarded \subseteq discarded'
              /\ point.time = now
              /\ \A q \in captured : q.id # point.id
              /\ UNCHANGED <<now, attendances, requests, session, worker>>
<1> DEFINE point == [id |-> id, owner |-> session.user, time |-> now,
                     place |-> place]
           lost == Overflow(PendingOf(session.user) \cup {point})
<1>1. point \in Point
    BY DEF Typed, Capture, Point
<1>2. /\ captured' = captured \cup {point}
      /\ queue' = (queue \cup {point}) \ lost
      /\ discarded' = discarded \cup {p.id : p \in lost}
      /\ \A q \in captured : q.id # id
      /\ UNCHANGED <<now, attendances, requests, session, worker>>
    BY DEF Capture, server
<1>3. point.time = now /\ point.id = id
    OBVIOUS
<1> HIDE DEF point, lost
<1> QED
    BY <1>1, <1>2, <1>3

LEMMA WorkerStep ==
    ASSUME Typed, [Next]_vars
    PROVE  /\ worker' \in Worker
           /\ \A result \in worker'.results :
                 \/ result \in worker.results
                 \/ \E r \in requests : result \in r.results
<1>1. CASE UNCHANGED worker
    BY <1>1 DEF Typed
<1>2. CASE worker' = Idle
    BY <1>2, ConstantTypes DEF Idle, Worker
<1>3. CASE WorkerStart
  <2>1. worker' = [phase |-> "READY", user |-> session.user,
                   token |-> session.token, slot |-> 0, results |-> {}]
    BY <1>3 DEF WorkerStart, Idle
  <2>2. /\ session.user \in User \cup {NoUser} /\ session.token \in Nat
        /\ 0 \in 0..MaxRequests
    BY ConstantTypes DEF Typed
  <2> QED
    BY <2>1, <2>2 DEF Worker
<1>4. ASSUME NEW i \in 1..MaxRequests, Send(i)
      PROVE  worker' \in Worker /\ worker'.results = worker.results
  <2>1. worker' = [worker EXCEPT !.phase = "WAITING", !.slot = i]
    BY <1>4 DEF Send
  <2>2. i \in 0..MaxRequests /\ worker \in Worker
    BY ConstantTypes DEF Typed
  <2> QED
    BY <2>1, <2>2 DEF Worker
<1>5. ASSUME NEW r \in requests, Receive(r), worker' # Idle
      PROVE  worker' \in Worker /\ worker'.results = r.results
  <2>1. worker' = [worker EXCEPT !.phase = "HANDLING",
                                 !.results = r.results]
    BY <1>5 DEF Receive
  <2>2. worker \in Worker /\ r.results \subseteq Result
    BY DEF Typed, Request
  <2> QED
    BY <2>1, <2>2 DEF Worker
<1>6. ASSUME NEW result \in worker.results, HandleResult(result)
      PROVE  worker' \in Worker /\ worker'.results \subseteq worker.results
  <2> DEFINE rest == worker.results \ {result}
             phase == IF worker.results = {result} THEN "READY"
                                                   ELSE worker.phase
  <2>1. worker' = [worker EXCEPT !.results = rest, !.phase = phase]
    BY <1>6 DEF HandleResult
  <2>2. worker \in Worker
    BY DEF Typed
  <2>3. rest \subseteq Result /\ rest \subseteq worker.results
        /\ phase \in {"IDLE", "READY", "WAITING", "HANDLING"}
    BY <2>2 DEF Worker
  <2> HIDE DEF rest, phase
  <2> QED
    BY <2>1, <2>2, <2>3 DEF Worker
<1>7. \/ UNCHANGED worker \/ worker' = Idle \/ WorkerStart
      \/ \E i \in 1..MaxRequests : Send(i)
      \/ \E r \in requests : Receive(r)
      \/ \E result \in worker.results : HandleResult(result)
    BY DEF Next, vars, server, phone, SetGps, Login, SignOut,
           Bootstrap, RetrySync, Tick,
           StartAttendance, EndAttendance, Capture, WorkerStop, Timeout,
           Interrupt, Lookup, StorePoint, Lose, Forget
<1> QED
    BY <1>1, <1>2, <1>3, <1>4, <1>5, <1>6, <1>7

LEMMA TypedStep ==
    ASSUME Typed, RequestsTrue, PointsCaptured, [Next]_vars
    PROVE  Typed'
<1>1. captured' \subseteq Point
    BY CapturedStep, CaptureEffect DEF Typed
<1>2. session' \in [user: User \cup {NoUser}, token: 0..MaxLogins]
  <2>1. CASE UNCHANGED session
    BY <2>1 DEF Typed
  <2>2. ASSUME NEW u \in User, Login(u)
        PROVE  session' \in [user: User \cup {NoUser}, token: 0..MaxLogins]
    BY <2>2, TrackingConstants DEF Login, Typed, TrackingConstants
  <2>3. CASE SignOut
    BY <2>3 DEF SignOut, Typed
  <2> QED
    BY <2>1, <2>2, <2>3
       DEF Next, vars, server, phone, SetGps, Bootstrap, RetrySync, Tick,
           StartAttendance, EndAttendance, Capture, WorkerStart, WorkerStop,
           Send, Receive, HandleResult, Timeout, Interrupt, Lookup,
           StorePoint, Lose, Forget
<1>3. requests' \subseteq Request
    BY RequestsStep
<1> QED
    BY <1>1, <1>2, <1>3, NowStep, AttendancesStep, WorkerStep DEF Typed

LEMMA BatchOwned ==
    ASSUME NEW u
    PROVE  Batch(u) \subseteq queue /\ \A p \in Batch(u) : p.owner = u
BY DEF Batch, PendingOf

LEMMA PointsStep ==
    ASSUME Typed, RequestsTrue, PointsCaptured, [Next]_vars
    PROVE  PointsCaptured'
<1>1. /\ captured \subseteq captured' /\ queue' \subseteq captured'
      /\ \A p, q \in captured' : p.id = q.id => p = q
      /\ \A p \in captured' : p.time <= now'
  <2>1. now \in Nat /\ now' \in Nat /\ now <= now'
    BY NowStep, ConstantTypes DEF Typed
  <2>2. \A p \in captured : p.time \in Nat /\ p.time <= now
    BY PointType DEF Typed, PointsCaptured
  <2>3. CASE UNCHANGED captured /\ queue' \subseteq queue
    BY <2>1, <2>2, <2>3 DEF PointsCaptured
  <2>4. ASSUME NEW id \in Id, NEW place \in Place, Capture(id, place)
        PROVE  /\ captured \subseteq captured' /\ queue' \subseteq captured'
               /\ \A p, q \in captured' : p.id = q.id => p = q
               /\ \A p \in captured' : p.time <= now'
    <3>1. PICK point \in Point :
              /\ captured' = captured \cup {point}
              /\ queue' \subseteq queue \cup {point}
              /\ point.time = now
              /\ \A q \in captured : q.id # point.id
      BY <2>4, CaptureEffect
    <3> QED
      BY <2>1, <2>2, <3>1 DEF PointsCaptured
  <2> QED
    BY <2>3, <2>4, CapturedStep
<1>2. Stored' \subseteq captured'
    BY <1>1, StoredStep DEF PointsCaptured
<1>3. ASSUME NEW next \in requests' PROVE next.rest \subseteq captured'
  <2>1. CASE next \in requests
    BY <1>1, <2>1 DEF PointsCaptured
  <2>2. CASE Sent(next)
    BY <1>1, <2>2, BatchOwned DEF Sent, PointsCaptured
  <2>3. ASSUME NEW r \in requests, next.rest \subseteq r.rest
        PROVE  next.rest \subseteq captured'
    BY <1>1, <2>3 DEF PointsCaptured
  <2> QED
    BY <2>1, <2>2, <2>3, RequestsStep DEF Advanced, Broken, Found
<1> QED
    BY <1>1, <1>2, <1>3 DEF PointsCaptured

\* the order of capture decides which point of a request is the first
LEMMA FirstUnique ==
    ASSUME NEW S \in SUBSET Point, NEW p \in S, NEW q \in S,
           First(p, S), First(q, S)
    PROVE  p = q
BY PointType DEF First, Before

LEMMA RequestsTrueStep ==
    ASSUME Typed, RequestsTrue, PointsCaptured, [Next]_vars
    PROVE  RequestsTrue'
<1> DEFINE Covers(a, p) == /\ attendances[a].start <= p.time
                           /\ \/ attendances[a].end = Open
                              \/ p.time <= attendances[a].end
\* an attendance that was on when a point was captured remains so
<1>1. ASSUME NEW a \in DOMAIN attendances, NEW p \in captured, Covers(a, p)
      PROVE  /\ a \in DOMAIN attendances'
             /\ attendances'[a].user = attendances[a].user
             /\ Covers(a, p)'
    BY <1>1, AttendancesStep DEF PointsCaptured
<1> SUFFICES ASSUME NEW next \in requests'
             PROVE  /\ \A p \in next.rest : p.owner = next.user
                    /\ next.found # 0 =>
                          /\ next.found \in DOMAIN attendances'
                          /\ attendances'[next.found].user = next.user
                          /\ \A p \in next.rest :
                                First(p, next.rest) => Covers(next.found, p)'
    BY DEF RequestsTrue
\* a request that goes on waiting for the same lock
<1>2. ASSUME NEW r \in requests, next.rest = r.rest, next.user = r.user,
             next.found = r.found
      PROVE  /\ \A p \in next.rest : p.owner = next.user
             /\ next.found # 0 =>
                   /\ next.found \in DOMAIN attendances'
                   /\ attendances'[next.found].user = next.user
                   /\ \A p \in next.rest :
                         First(p, next.rest) => Covers(next.found, p)'
  <2>1. r.rest \subseteq captured
    BY DEF PointsCaptured
  <2>2. r.found # 0 =>
           /\ r.found \in DOMAIN attendances
           /\ attendances[r.found].user = r.user
           /\ \A p \in r.rest : First(p, r.rest) => Covers(r.found, p)
    BY DEF RequestsTrue
  <2>3. r.found # 0 =>
           /\ r.found \in DOMAIN attendances'
           /\ attendances'[r.found].user = attendances[r.found].user
    BY <2>2, AttendancesStep
  <2> HIDE DEF Covers
  <2>4. \A p \in r.rest : p.owner = r.user
    BY DEF RequestsTrue
  <2> QED
    BY <1>1, <1>2, <2>1, <2>2, <2>3, <2>4
<1>3. CASE next \in requests
    BY <1>2, <1>3
<1>4. CASE Sent(next)
    BY <1>4, BatchOwned DEF Sent
<1>5. ASSUME NEW r \in requests, NEW p \in r.rest, Advanced(r, p, next)
      PROVE  /\ \A q \in next.rest : q.owner = next.user
             /\ next.found = 0
    BY <1>5 DEF Advanced, RequestsTrue
<1>6. ASSUME NEW r \in requests, Broken(r, next)
      PROVE  next.rest = r.rest /\ next.user = r.user /\ next.found = r.found
    BY <1>6 DEF Broken
<1>7. ASSUME NEW r \in requests, NEW p \in r.rest, Found(r, p, next)
      PROVE  /\ \A q \in next.rest : q.owner = next.user
             /\ next.found \in DOMAIN attendances'
             /\ attendances'[next.found].user = next.user
             /\ \A q \in next.rest :
                   First(q, next.rest) => Covers(next.found, q)'
  <2>1. r.rest \subseteq captured /\ r.rest \in SUBSET Point
    BY DEF PointsCaptured, Typed
  <2>2. /\ next.found \in DOMAIN attendances
        /\ attendances[next.found].user = r.user
        /\ Covers(next.found, p)
        /\ next.user = r.user /\ next.rest = r.rest /\ First(p, r.rest)
    <3>1. p.time \in Nat
      BY <2>1, PointType
    <3>2. /\ next.found \in DOMAIN attendances
          /\ attendances[next.found].user = r.user
          /\ attendances[next.found].start <= p.time
          /\ \/ attendances[next.found].end = Open
             \/ attendances[next.found].end >= p.time
      BY <1>7 DEF Found, AttendancesAt
    <3>3. attendances[next.found].end \in Nat \cup {Open}
      BY <3>2, AttendanceType
    <3>4. Covers(next.found, p)
      BY <3>1, <3>2, <3>3 DEF Open
    <3> QED
      BY <1>7, <3>2, <3>4 DEF Found
  <2> HIDE DEF Covers
  <2>3. /\ next.found \in DOMAIN attendances'
        /\ attendances'[next.found].user = next.user
        /\ Covers(next.found, p)'
    BY <1>1, <2>1, <2>2
  <2>4. \A q \in next.rest : First(q, next.rest) => q = p
    BY <2>1, <2>2, FirstUnique
  <2>5. \A q \in next.rest : q.owner = next.user
    BY <2>2 DEF RequestsTrue
  <2> QED
    BY <2>3, <2>4, <2>5
<1> QED
    BY <1>2, <1>3, <1>4, <1>5, <1>6, <1>7, RequestsStep

\* within the captured points the id decides
LEMMA KnownIsStored ==
    ASSUME PointsCaptured, NEW u, NEW p \in captured, Known(u, p)
    PROVE  p \in Stored
BY DEF Known, PointsCaptured

\* what StorePoint stores is stored in the next state
LEMMA StoresStored ==
    ASSUME Typed, RequestsTrue, NEW r \in requests, NEW p \in r.rest,
           Stores(r, p)
    PROVE  p \in Stored'
<1> DEFINE b == r.found
           t == Append(attendances[b].track, p)
<1>1. b \in DOMAIN attendances
    BY DEF Stores, RequestsTrue
<1>2. attendances[b].track \in Seq(Point) /\ attendances[b] \in Attendance
    BY <1>1, AttendanceType
<1>3. attendances'[b].track = t /\ b \in DOMAIN attendances'
    BY <1>1, <1>2 DEF Stores, Typed, Attendance
<1>4. Len(t) \in DOMAIN t /\ t[Len(t)] = p
    BY <1>2
<1> QED
    BY <1>3, <1>4 DEF Stored, StoredIn

LEMMA AcknowledgedStep ==
    ASSUME Typed, RequestsTrue, PointsCaptured, AcknowledgedStored,
           [Next]_vars
    PROVE  AcknowledgedStored'
<1>1. ASSUME NEW next \in requests', NEW result \in next.results,
             result.verdict = "ACKNOWLEDGED"
      PROVE  result.point \in Stored'
  <2>1. ASSUME NEW r \in requests, result \in r.results
        PROVE  result.point \in Stored'
    BY <1>1, <2>1, StoredStep DEF AcknowledgedStored
  <2>2. ASSUME NEW r \in requests, NEW p \in r.rest, Advanced(r, p, next),
               result \notin r.results
        PROVE  result.point \in Stored'
    <3>1. result.point = p /\ (Known(r.user, p) \/ Stores(r, p))
      BY <1>1, <2>2 DEF Advanced
    <3>2. p \in captured
      BY DEF PointsCaptured
    <3> QED
      BY <3>1, <3>2, KnownIsStored, StoresStored, StoredStep
  <2> QED
    BY <2>1, <2>2, RequestsStep DEF Sent, Broken, Found
<1>2. ASSUME NEW result \in worker'.results,
             result.verdict = "ACKNOWLEDGED"
      PROVE  result.point \in Stored'
    BY <1>2, WorkerStep, StoredStep DEF AcknowledgedStored
<1> QED
    BY <1>1, <1>2 DEF AcknowledgedStored

\* Each place of a track either was there before, with the same point, or is
\* the one after its end, with the point that was just stored.
LEMMA TrackStep ==
    ASSUME Typed, RequestsTrue, PointsCaptured, [Next]_vars,
           NEW a \in DOMAIN attendances', NEW k \in DOMAIN attendances'[a].track
    PROVE  /\ a \in DOMAIN attendances
           /\ \/ /\ k \in DOMAIN attendances[a].track
                 /\ attendances'[a].track[k] = attendances[a].track[k]
              \/ \E r \in requests : \E p \in r.rest :
                    /\ Stores(r, p) /\ a = r.found
                    /\ k = Len(attendances[a].track) + 1
                    /\ attendances'[a].track[k] = p
<1>1. a \in DOMAIN attendances
    BY AttendancesStep
<1>2. attendances[a].track \in Seq(Point)
    BY <1>1, AttendanceType
<1>3. CASE attendances'[a].track = attendances[a].track
    BY <1>1, <1>3
<1>4. ASSUME NEW r \in requests, NEW p \in r.rest, Stores(r, p), a = r.found,
             attendances'[a].track = Append(attendances[a].track, p)
      PROVE  \/ /\ k \in DOMAIN attendances[a].track
                /\ attendances'[a].track[k] = attendances[a].track[k]
             \/ /\ k = Len(attendances[a].track) + 1
                /\ attendances'[a].track[k] = p
    BY <1>2, <1>4
<1> QED
    BY <1>1, <1>3, <1>4, AttendancesStep

LEMMA TracksStep ==
    ASSUME Typed, RequestsTrue, PointsCaptured, TracksAreTrue, [Next]_vars
    PROVE  TracksAreTrue'
<1> SUFFICES ASSUME NEW a \in DOMAIN attendances',
                    NEW k \in DOMAIN attendances'[a].track
             PROVE  LET p == attendances'[a].track[k]
                    IN  /\ p.owner = attendances'[a].user
                        /\ attendances'[a].start <= p.time
                        /\ \/ attendances'[a].end = Open
                           \/ p.time <= attendances'[a].end
    BY DEF TracksAreTrue, StoredIn
<1> DEFINE p == attendances'[a].track[k]
<1>1. a \in DOMAIN attendances
    BY TrackStep
<1>2. /\ attendances'[a].user = attendances[a].user
      /\ attendances'[a].start = attendances[a].start
      /\ \/ attendances'[a].end = attendances[a].end
         \/ attendances'[a].end = now
    BY <1>1, AttendancesStep
<1>3. CASE /\ k \in DOMAIN attendances[a].track
           /\ p = attendances[a].track[k]
  <2>1. p \in StoredIn(a) /\ p \in Stored
    BY <1>1, <1>3 DEF StoredIn, Stored
  <2>2. p.time <= now
    BY <2>1 DEF PointsCaptured
  <2> QED
    BY <1>1, <1>2, <2>1, <2>2 DEF TracksAreTrue
<1>4. ASSUME NEW r \in requests, p \in r.rest, Stores(r, p), a = r.found
      PROVE  /\ p.owner = attendances'[a].user
             /\ attendances'[a].start <= p.time
             /\ attendances'[a].end = Open \/ p.time <= attendances'[a].end
  <2>1. p.time <= now
    BY <1>4 DEF PointsCaptured
  <2>2. /\ p.owner = r.user
        /\ attendances[a].user = r.user
        /\ attendances[a].start <= p.time
        /\ attendances[a].end = Open \/ p.time <= attendances[a].end
    BY <1>4 DEF RequestsTrue, Stores
  <2> QED
    BY <1>2, <2>1, <2>2
<1> QED
    BY <1>3, <1>4, TrackStep

LEMMA RouteStep ==
    ASSUME Typed, RequestsTrue, PointsCaptured, RouteInOrder, [Next]_vars
    PROVE  RouteInOrder'
<1> SUFFICES ASSUME NEW a \in DOMAIN attendances',
                    NEW j \in DOMAIN attendances'[a].track,
                    NEW k \in DOMAIN attendances'[a].track, j < k
             PROVE  attendances'[a].track[j].time
                       <= attendances'[a].track[k].time
    BY DEF RouteInOrder
<1> DEFINE track == attendances[a].track
<1>1. a \in DOMAIN attendances
    BY TrackStep
<1>2. track \in Seq(Point)
    BY <1>1, AttendanceType
<1>3. j \in Nat /\ k \in Nat
  <2>1. attendances' \in Seq(Attendance)
    BY AttendancesStep
  <2>2. attendances'[a] \in Attendance
    BY <2>1
  <2>3. attendances'[a].track \in Seq(Point)
    BY <2>2 DEF Attendance
  <2> QED
    BY <2>3
<1>4. CASE /\ k \in DOMAIN track
           /\ attendances'[a].track[k] = track[k]
  <2>1. /\ j \in DOMAIN track
        /\ attendances'[a].track[j] = track[j]
    BY <1>2, <1>3, <1>4, TrackStep
  <2> QED
    BY <1>1, <1>4, <2>1 DEF RouteInOrder
<1>5. ASSUME NEW r \in requests, NEW p \in r.rest, Stores(r, p), a = r.found,
             k = Len(track) + 1, attendances'[a].track[k] = p
      PROVE  attendances'[a].track[j].time <= p.time
  <2>1. /\ j \in DOMAIN track
        /\ attendances'[a].track[j] = track[j]
    BY <1>2, <1>3, <1>5, TrackStep
  <2>2. track # <<>> /\ Len(track) \in DOMAIN track /\ j <= Len(track)
    BY <1>2, <2>1
  <2>3. track[Len(track)].time <= p.time
    <3>1. p.time \in Nat /\ track[Len(track)].time \in Nat
      BY <1>2, <2>2, PointType DEF PointsCaptured, Typed
    <3> QED
      BY <1>5, <2>2, <3>1 DEF Stores, Acceptable
  <2>4. track[j].time <= track[Len(track)].time
    <3>1. CASE j = Len(track)
      <4>1. track[j].time \in Nat
        BY <1>2, <2>1, PointType
      <4> QED
        BY <3>1, <4>1
    <3>2. CASE j < Len(track)
      BY <1>1, <2>1, <2>2, <3>2 DEF RouteInOrder
    <3> QED
      BY <1>2, <1>3, <2>2, <3>1, <3>2
  <2>5. p.time \in Nat /\ track[j].time \in Nat
                       /\ track[Len(track)].time \in Nat
    BY <1>2, <2>1, <2>2, PointType DEF PointsCaptured, Typed
  <2> QED
    BY <2>1, <2>3, <2>4, <2>5
<1> QED
    BY <1>4, <1>5, TrackStep

\* no stored point has the id of a point that StorePoint stores
LEMMA StoresNew ==
    ASSUME Typed, PointsCaptured, RequestsTrue, NEW r \in requests,
           NEW p \in r.rest, Stores(r, p), NEW q \in Stored
    PROVE  q.id # p.id
BY DEF Stores, Unique, Known, PointsCaptured, RequestsTrue

LEMMA OnceStep ==
    ASSUME Typed, RequestsTrue, PointsCaptured, StoredOnce, [Next]_vars
    PROVE  StoredOnce'
<1> DEFINE Old(a, k) ==
               /\ k \in DOMAIN attendances[a].track
               /\ attendances'[a].track[k] = attendances[a].track[k]
           New(a, k, r, p) ==
               /\ Stores(r, p) /\ a = r.found
               /\ k = Len(attendances[a].track) + 1
               /\ attendances'[a].track[k] = p
<1>1. ASSUME NEW a \in DOMAIN attendances', NEW b \in DOMAIN attendances',
             NEW j \in DOMAIN attendances'[a].track,
             NEW k \in DOMAIN attendances'[b].track,
             attendances'[a].track[j].id = attendances'[b].track[k].id,
             Old(a, j)
      PROVE  a = b /\ j = k
  <2>1. a \in DOMAIN attendances /\ b \in DOMAIN attendances
    BY TrackStep
  <2>2. attendances[a].track[j] \in Stored
    BY <1>1, <2>1 DEF Stored, StoredIn
  <2>3. ASSUME NEW r \in requests, NEW p \in r.rest, New(b, k, r, p)
        PROVE  FALSE
    BY <1>1, <2>2, <2>3, StoresNew
  <2>4. Old(b, k)
    BY <2>3, TrackStep
  <2> QED
    BY <1>1, <2>1, <2>4 DEF StoredOnce
<1>2. ASSUME NEW a \in DOMAIN attendances', NEW b \in DOMAIN attendances',
             NEW j \in DOMAIN attendances'[a].track,
             NEW k \in DOMAIN attendances'[b].track,
             NEW r \in requests, NEW p \in r.rest, New(a, j, r, p),
             NEW s \in requests, NEW q \in s.rest, New(b, k, s, q)
      PROVE  a = b /\ j = k
  <2>1. a \in DOMAIN attendances /\ b \in DOMAIN attendances
    BY TrackStep
  <2>2. attendances[b].track \in Seq(Point)
    BY <2>1, AttendanceType
  <2>3. k \notin DOMAIN attendances[b].track
    BY <1>2, <2>2
  <2>4. attendances'[b].track # attendances[b].track
    BY <2>3
  <2>5. b = a
    BY <1>2, <2>1, <2>4 DEF Stores, Typed
  <2> QED
    BY <1>2, <2>5
<1> SUFFICES ASSUME NEW a \in DOMAIN attendances',
                    NEW b \in DOMAIN attendances',
                    NEW j \in DOMAIN attendances'[a].track,
                    NEW k \in DOMAIN attendances'[b].track,
                    attendances'[a].track[j].id = attendances'[b].track[k].id
             PROVE  a = b /\ j = k
    BY DEF StoredOnce
<1>3. Old(a, j) \/ \E r \in requests : \E p \in r.rest : New(a, j, r, p)
    BY TrackStep
<1>4. Old(b, k) \/ \E r \in requests : \E p \in r.rest : New(b, k, r, p)
    BY TrackStep
<1> HIDE DEF Old, New
<1> QED
    BY <1>1, <1>2, <1>3, <1>4

\* The telephone drops a pending point only with its acknowledgement, or
\* counting it as discarded.
LEMMA QueueStep ==
    ASSUME Typed, AcknowledgedStored, [Next]_vars, NEW p \in queue
    PROVE  p \in queue' \/ p \in Stored \/ p.id \in discarded'
<1>1. ASSUME NEW result \in worker.results, HandleResult(result)
      PROVE  p \in queue' \/ p \in Stored \/ p.id \in discarded'
    BY <1>1 DEF HandleResult, Rejected, AcknowledgedStored
<1>2. ASSUME NEW id \in Id, NEW place \in Place, Capture(id, place)
      PROVE  p \in queue' \/ p.id \in discarded'
    BY <1>2, CaptureEffect
<1>3. \/ UNCHANGED queue
      \/ \E result \in worker.results : HandleResult(result)
      \/ \E id \in Id, place \in Place : Capture(id, place)
    BY DEF Next, vars, server, phone, SetGps, Login, SignOut,
           Bootstrap, RetrySync, Tick,
           StartAttendance, EndAttendance, WorkerStart, WorkerStop, Send,
           Receive, Timeout, Interrupt, Lookup, StorePoint, Lose, Forget
<1> QED
    BY <1>1, <1>2, <1>3

LEMMA DiscardedStep ==
    ASSUME Typed, [Next]_vars
    PROVE  discarded \subseteq discarded'
BY CaptureEffect
   DEF Next, vars, server, phone, SetGps, Login, SignOut,
           Bootstrap, RetrySync, Tick,
       StartAttendance, EndAttendance, WorkerStart, WorkerStop, Send,
       Receive, HandleResult, Timeout, Interrupt, Lookup, StorePoint, Lose,
       Forget

LEMMA NothingStep ==
    ASSUME Typed, RequestsTrue, PointsCaptured, AcknowledgedStored,
           NothingLostSilently, [Next]_vars
    PROVE  NothingLostSilently'
<1> SUFFICES ASSUME NEW p \in captured'
             PROVE  p \in queue' \/ p \in Stored' \/ p.id \in discarded'
    BY DEF NothingLostSilently
<1>1. CASE p \in captured
    BY <1>1, QueueStep, DiscardedStep, StoredStep DEF NothingLostSilently
<1>2. CASE p \notin captured
    BY <1>2, CapturedStep, CaptureEffect
<1> QED
    BY <1>1, <1>2

-----------------------------------------------------------------------------
(* What follows for the behaviours. *)

LEMMA InitInv == Init => IInv
<1> SUFFICES ASSUME Init PROVE IInv
    OBVIOUS
<1>1. /\ attendances = <<>> /\ requests = {} /\ captured = {} /\ queue = {}
      /\ now = 0 /\ worker = Idle
      /\ session = [user |-> NoUser, token |-> 0]
    BY DEF Init
<1>2. Typed
  <2>1. worker \in Worker
    BY <1>1, ConstantTypes DEF Idle, Worker
  <2>2. 0 \in Time /\ 0 \in 0..MaxLogins
    BY TrackingConstants DEF TrackingConstants, Time
  <2> QED
    BY <1>1, <2>1, <2>2 DEF Typed
<1>3. DOMAIN attendances = {} /\ Stored = {}
    BY <1>1 DEF Stored
<1>4. worker.results = {}
    BY <1>1 DEF Idle
<1>5. PointsCaptured /\ RequestsTrue /\ AcknowledgedStored
    BY <1>1, <1>3, <1>4 DEF PointsCaptured, RequestsTrue, AcknowledgedStored
<1>6. TracksAreTrue /\ RouteInOrder /\ StoredOnce /\ NothingLostSilently
    BY <1>1, <1>3
       DEF TracksAreTrue, RouteInOrder, StoredOnce, NothingLostSilently
<1> QED
    BY <1>2, <1>5, <1>6 DEF IInv

LEMMA Inductive == Spec => []IInv
<1>1. IInv /\ [Next]_vars => IInv'
    BY TypedStep, PointsStep, RequestsTrueStep, AcknowledgedStep, TracksStep,
       RouteStep, OnceStep, NothingStep DEF IInv
<1> QED
    BY InitInv, <1>1, PTL DEF Spec

\* Every point of every track was captured by the account it is stored for,
\* during the attendance it is stored under, however logins, attendances and
\* uploads are interleaved.  mobile/attendance.ts:14.
THEOREM TracksTrue == Spec => []TracksAreTrue
<1>1. IInv => TracksAreTrue
    BY DEF IInv
<1> QED
    BY Inductive, <1>1, PTL

\* Every track is in the order of capture, whatever the order in which the
\* batches arrive.  locations/location.ts, shouldAcceptLocationPoint.
THEOREM RouteOrdered == Spec => []RouteInOrder
<1>1. IInv => RouteInOrder
    BY DEF IInv
<1> QED
    BY Inductive, <1>1, PTL

\* No point is stored twice, however often and by however many overlapping
\* requests it is sent.  mobile/attendance.ts:14, the unique index.
THEOREM PointsOnce == Spec => []StoredOnce
<1>1. IInv => StoredOnce
    BY DEF IInv
<1> QED
    BY Inductive, <1>1, PTL

\* Every captured point is pending, stored, or counted as discarded: what the
\* telephone forgets as acknowledged the server has.
\* LocationSyncEngine.kt, Queue.kt.
THEOREM NothingLost == Spec => []NothingLostSilently
<1>1. IInv => NothingLostSilently
    BY DEF IInv
<1> QED
    BY Inductive, <1>1, PTL

-----------------------------------------------------------------------------
(* The queue of the telephone. *)

\* the finite part of TypeOK that Typed leaves out
Kept ==
    /\ gps \in BOOLEAN /\ scheduled \subseteq User
    /\ tracking \in BOOLEAN
    /\ discarded \subseteq Id
    /\ interruptions \in 0..MaxInterruptions
    /\ \A u \in User : /\ IsFiniteSet(PendingOf(u))
                       /\ Cardinality(PendingOf(u)) <= QueueLimit

\* Points with ids of their own have a first one in the order of capture: the
\* one with the fewest points that are not after it.
LEMMA FirstExists ==
    ASSUME NEW S \in SUBSET Point, IsFiniteSet(S), S # {},
           \A p, q \in S : p.id = q.id => p = q
    PROVE  \E p \in S : First(p, S)
<1> DEFINE Below(p) == {q \in S : ~Before(p, q)}
           T == {Below(p) : p \in S}
<1>1. \A p \in S : p.id \in Nat /\ p.time \in Nat
    BY PointType
<1>2. PICK X \in T : \A Y \in T : ~(<<Y, X>> \in StrictSubsetOrdering(S))
  <2>1. T \subseteq FiniteSubsetsOf(S)
    BY FS_Subset DEF FiniteSubsetsOf
  <2>2. T # {}
    <3>1. PICK p \in S : TRUE
      OBVIOUS
    <3>2. Below(p) \in T
      BY <3>1
    <3> QED
      BY <3>2
  <2> HIDE DEF T
  <2> QED
    BY <2>1, <2>2, FS_StrictSubsetOrderingWellFounded, WFMin
<1>3. PICK p \in S : X = Below(p)
    BY <1>2
<1>4. ASSUME NEW q \in S \ {p}, ~Before(p, q) PROVE FALSE
  <2>1. Before(q, p)
    BY <1>1, <1>4 DEF Before
  <2>2. ASSUME NEW x \in S, ~Before(q, x) PROVE ~Before(p, x)
    BY <1>1, <2>1, <2>2 DEF Before
  <2>3. p \in Below(p) /\ p \notin Below(q)
    BY <1>1, <2>1 DEF Before
  <2>4. Below(q) \subseteq Below(p) /\ Below(q) # Below(p)
    BY <2>2, <2>3
  <2>5. <<Below(q), X>> \in StrictSubsetOrdering(S)
    BY <1>3, <2>4 DEF StrictSubsetOrdering
  <2> QED
    BY <1>2, <2>5
<1> QED
    BY <1>4 DEF First

\* What enqueue leaves of an account's points is within the limit: those after
\* the first one that stays are fewer than the limit.
LEMMA WithinLimit ==
    ASSUME NEW S \in SUBSET Point, IsFiniteSet(S),
           \A p, q \in S : p.id = q.id => p = q
    PROVE  /\ IsFiniteSet(S \ Overflow(S))
           /\ Cardinality(S \ Overflow(S)) <= QueueLimit
<1> DEFINE R == S \ Overflow(S)
<1>1. QueueLimit \in Nat \ {0}
    BY TrackingConstants DEF TrackingConstants
<1>2. IsFiniteSet(R) /\ Cardinality(R) \in Nat
    BY FS_Subset, FS_CardinalityType
<1>3. CASE R = {}
    BY <1>1, <1>2, <1>3, FS_EmptySet
<1>4. CASE R # {}
  <2>1. PICK p \in R : First(p, R)
    BY <1>2, <1>4, FirstExists
  <2> DEFINE after == {q \in S : Before(p, q)}
  <2>2. IsFiniteSet(after) /\ Cardinality(after) \in Nat
    BY FS_Subset, FS_CardinalityType
  <2>3. ~(Cardinality(after) >= QueueLimit)
    BY <2>1 DEF Overflow
  <2>4. R \ {p} \subseteq after
    BY <2>1 DEF First
  <2>5. /\ Cardinality(R \ {p}) = Cardinality(R) - 1
        /\ Cardinality(R \ {p}) <= Cardinality(after)
    <3> HIDE DEF R, after
    <3> QED
      BY <1>2, <2>1, <2>2, <2>4, FS_RemoveElement, FS_Subset
  <2>6. Cardinality(R) <= QueueLimit
    <3> HIDE DEF R, after
    <3> QED
      BY <1>1, <1>2, <2>2, <2>3, <2>5
  <2> QED
    BY <1>2, <2>6
<1> QED
    BY <1>2, <1>3, <1>4

LEMMA SubsetKept ==
    ASSUME NEW S, IsFiniteSet(S), Cardinality(S) <= QueueLimit,
           NEW T \in SUBSET S
    PROVE  IsFiniteSet(T) /\ Cardinality(T) <= QueueLimit
<1>1. /\ IsFiniteSet(T) /\ Cardinality(T) <= Cardinality(S)
      /\ Cardinality(T) \in Nat /\ Cardinality(S) \in Nat
    BY FS_Subset, FS_CardinalityType
<1>2. QueueLimit \in Nat
    BY TrackingConstants DEF TrackingConstants
<1> QED
    BY <1>1, <1>2

LEMMA CaptureKept ==
    ASSUME Typed, PointsCaptured, Kept,
           NEW id \in Id, NEW place \in Place, Capture(id, place)
    PROVE  /\ discarded' \subseteq Id
           /\ \A u \in User : /\ IsFiniteSet(PendingOf(u)')
                              /\ Cardinality(PendingOf(u)') <= QueueLimit
<1> DEFINE point == [id |-> id, owner |-> session.user, time |-> now,
                     place |-> place]
           pending == PendingOf(session.user) \cup {point}
<1>1. point \in Point /\ point.id = id /\ point.owner = session.user
      /\ session.user \in User
    BY DEF Typed, Capture, Point
<1>2. /\ queue' = (queue \cup {point}) \ Overflow(pending)
      /\ discarded' = discarded \cup {p.id : p \in Overflow(pending)}
      /\ \A q \in captured : q.id # id
    BY DEF Capture
<1>3. queue \subseteq captured /\ captured \subseteq Point
    BY DEF Typed, PointsCaptured
<1> HIDE DEF point
<1>4. /\ pending \in SUBSET Point /\ IsFiniteSet(pending)
      /\ \A p, q \in pending : p.id = q.id => p = q
  <2>1. IsFiniteSet(pending)
    BY <1>1, FS_AddElement DEF Kept
  <2>2. \A p, q \in queue : p.id = q.id => p = q
    BY DEF PointsCaptured
  <2> QED
    BY <1>1, <1>2, <1>3, <2>1, <2>2 DEF PendingOf
<1>5. discarded' \subseteq Id
  <2>1. \A p \in Point : p.id \in Id
    BY DEF Point
  <2>2. Overflow(pending) \subseteq Point
    BY <1>4 DEF Overflow
  <2> QED
    BY <1>2, <2>1, <2>2 DEF Kept
<1>6. /\ IsFiniteSet(pending \ Overflow(pending))
      /\ Cardinality(pending \ Overflow(pending)) <= QueueLimit
    BY <1>4, WithinLimit
<1>7. ASSUME NEW u \in User
      PROVE  /\ IsFiniteSet(PendingOf(u)')
             /\ Cardinality(PendingOf(u)') <= QueueLimit
  <2>1. CASE u = session.user
    <3>1. PendingOf(u)' = pending \ Overflow(pending)
      BY <1>1, <1>2, <2>1 DEF PendingOf
    <3> QED
      BY <1>6, <3>1
  <2>2. CASE u # session.user
    <3>1. PendingOf(u)' \in SUBSET PendingOf(u)
      BY <1>1, <1>2, <2>2 DEF PendingOf
    <3> QED
      BY <3>1, SubsetKept DEF Kept
  <2> QED
    BY <2>1, <2>2
<1> QED
    BY <1>5, <1>7

LEMMA KeptStep ==
    ASSUME Typed, PointsCaptured, Kept, [Next]_vars PROVE Kept'
<1>1. gps' \in BOOLEAN
  <2>1. UNCHANGED gps \/ SetGps
    BY DEF Next, vars, server, phone, Login, SignOut,
           Bootstrap, RetrySync, Tick, Capture,
           StartAttendance, EndAttendance, WorkerStart, WorkerStop, Send,
           Receive, HandleResult, Timeout, Interrupt, Lookup, StorePoint, Lose,
           Forget
  <2> QED
    BY <2>1 DEF SetGps, Kept
<1>2. interruptions' \in 0..MaxInterruptions
  <2>1. \/ UNCHANGED interruptions
        \/ /\ interruptions < MaxInterruptions
           /\ interruptions' = interruptions + 1
    BY DEF Next, vars, server, phone, SetGps, Login, SignOut,
           Bootstrap, RetrySync, Tick, Capture, StartAttendance,
           EndAttendance, WorkerStart, WorkerStop,
           Send, Receive, HandleResult, Timeout, Interrupt, Lookup, StorePoint,
           Lose, Forget
  <2> QED
    BY <2>1, TrackingConstants DEF Kept, TrackingConstants
<1>3. tracking' \in BOOLEAN
  <2>1. \/ UNCHANGED tracking
        \/ tracking' = FALSE
        \/ \E u : tracking' = ShouldTrack(u)
        \/ \E answered \in BOOLEAN :
              tracking' = IF answered THEN gps ELSE tracking
        \/ \E answered \in BOOLEAN : tracking' = (tracking /\ ~answered)
        \/ \E r : tracking' =
              (tracking /\ ~(CurrentOwner /\ r.error = "GPS_DISABLED"))
    BY DEF Next, vars, server, phone, SetGps, Login, SignOut,
           Bootstrap, RetrySync, Tick, Capture, StartAttendance,
           EndAttendance, WorkerStart, WorkerStop,
           Send, Receive, HandleResult, Timeout, Interrupt, Lookup, StorePoint,
           Lose, Forget
  <2> QED
    BY <2>1, Zenon DEF Kept, ShouldTrack
<1>4. ASSUME queue' \subseteq queue, NEW u \in User
      PROVE  /\ IsFiniteSet(PendingOf(u)')
             /\ Cardinality(PendingOf(u)') <= QueueLimit
  <2>1. PendingOf(u)' \in SUBSET PendingOf(u)
    BY <1>4 DEF PendingOf
  <2> QED
    BY <2>1, SubsetKept DEF Kept
<1>5. \A u \in User : /\ IsFiniteSet(PendingOf(u)')
                      /\ Cardinality(PendingOf(u)') <= QueueLimit
    BY <1>4, CapturedStep, CaptureKept
<1>6. discarded' \subseteq Id
  <2>1. \/ UNCHANGED discarded
        \/ \E result \in worker.results : HandleResult(result)
        \/ \E id \in Id, place \in Place : Capture(id, place)
    BY DEF Next, vars, server, phone, SetGps, Login, SignOut,
           Bootstrap, RetrySync, Tick,
           StartAttendance, EndAttendance, WorkerStart, WorkerStop,
           Send, Receive, Timeout, Interrupt, Lookup, StorePoint,
           Lose, Forget
  <2>2. ASSUME NEW result \in worker.results, HandleResult(result)
        PROVE  discarded' \subseteq Id
    <3>1. result.point.id \in Id
      BY DEF Typed, Worker, Result, Point
    <3> QED
      BY <2>2, <3>1 DEF HandleResult, Kept
  <2> QED
    BY <2>1, <2>2, CaptureKept DEF Kept
<1>7. scheduled' \subseteq User
  <2>1. \/ scheduled' \subseteq scheduled
        \/ \E u \in User : Login(u)
        \/ Bootstrap \/ RetrySync
        \/ \E answered \in BOOLEAN : StartAttendance(answered)
        \/ \E answered \in BOOLEAN : EndAttendance(answered)
        \/ \E id \in Id, place \in Place : Capture(id, place)
    BY DEF Next, vars, server, phone, SetGps, SignOut, Tick,
           WorkerStart, WorkerStop, Send, Receive, HandleResult, Timeout,
           Interrupt, Lookup, StorePoint, Lose, Forget
  <2>2. session.user \in User \/ session.user = NoUser
    BY DEF Typed
  <2>3. scheduled \subseteq User
    BY DEF Kept
  <2>4. ASSUME NEW u \in User, Login(u) PROVE scheduled' \subseteq User
    BY <2>3, <2>4 DEF Login, ScheduledFor
  <2>5. ASSUME Bootstrap \/ RetrySync PROVE scheduled' \subseteq User
    BY <2>2, <2>3, <2>5 DEF Bootstrap, RetrySync, ScheduledFor
  <2>6. ASSUME NEW answered \in BOOLEAN,
               StartAttendance(answered) \/ EndAttendance(answered)
        PROVE  scheduled' \subseteq User
    BY <2>2, <2>3, <2>6 DEF StartAttendance, EndAttendance, ScheduledAfter
  <2>7. ASSUME NEW id \in Id, NEW place \in Place, Capture(id, place)
        PROVE  scheduled' \subseteq User
    BY <2>2, <2>3, <2>7 DEF Capture
  <2> QED
    BY <2>1, <2>3, <2>4, <2>5, <2>6, <2>7
<1> QED
    BY <1>1, <1>2, <1>3, <1>5, <1>6, <1>7 DEF Kept

\* The variables keep their types, and an account never has more points
\* pending than the limit, however logins change between its captures.
\* Queue.kt, enqueue.
THEOREM TypeCorrect == Spec => []TypeOK
<1>1. Init => Kept
  <2> SUFFICES ASSUME Init PROVE Kept
    OBVIOUS
  <2>1. \A u \in User : PendingOf(u) = {}
    BY DEF Init, PendingOf
  <2>2. IsFiniteSet({}) /\ Cardinality({}) = 0
    BY FS_EmptySet
  <2>3. 0 <= QueueLimit /\ 0 \in 0..MaxInterruptions
    BY TrackingConstants DEF TrackingConstants
  <2>4. \A u \in User : /\ IsFiniteSet(PendingOf(u))
                       /\ Cardinality(PendingOf(u)) <= QueueLimit
    BY <2>1, <2>2, <2>3
  <2> QED
    BY <2>3, <2>4 DEF Init, Kept
<1>2. Typed /\ PointsCaptured /\ Kept /\ [Next]_vars => Kept'
    BY KeptStep
<1>3. IInv => Typed /\ PointsCaptured
    BY DEF IInv
<1>4. Typed /\ PointsCaptured /\ Kept => TypeOK
    BY DEF Typed, PointsCaptured, Kept, TypeOK
<1> QED
    BY <1>1, <1>2, <1>3, <1>4, Inductive, PTL DEF Spec

-----------------------------------------------------------------------------
(* Field jobs: the inductive invariant.                                    *)

\* a runner that works on something works on a job of the right kind
PhaseMatchesJob ==
    \A r \in Runner :
        /\ runners[r].phase \in {"LOOKUP", "FINISH", "FAIL"}
              => runners[r].job \in Job
        /\ runners[r].phase \in {"CALL", "WRITE"}
              => runners[r].job \in GeocodeJob
        /\ runners[r].phase = "SEND" => runners[r].job \in PushJob
        /\ runners[r].phase \in {"IDLE", "NEXT"}
              => runners[r].job = NoJob /\ runners[r].left = 0

\* while its lease lasts, the row names the runner and has its remaining time
LeaseIsRunners ==
    \A r \in Runner :
        Working(r) /\ runners[r].left > 0
            => /\ jobs[runners[r].job].holder = r
               /\ jobs[runners[r].job].left = runners[r].left

\* what a runner has done when it comes to mark its job as completed
WorkDone ==
    \A r \in Runner :
        LET j == runners[r].job
        IN  /\ runners[r].phase = "WRITE" => runners[r].address \in Address
            /\ (/\ runners[r].phase = "SEND" /\ ~runners[r].failures
                /\ configured)
                  => devices \subseteq
                        delivered[j] \cup invalid \cup runners[r].targets
            /\ (runners[r].phase = "FINISH" /\ j \in GeocodeJob)
                  => addresses[j] # NoAddress
            /\ (runners[r].phase = "FINISH" /\ j \in PushJob /\ configured)
                  => devices \subseteq delivered[j] \cup invalid

JobInv == JobTypeOK /\ PhaseMatchesJob /\ LeaseIsRunners /\ WorkDone
               /\ CompletedIsDone
-----------------------------------------------------------------------------
(* Every step of a job keeps each part of it.                              *)

LEMMA JobConstantTypes ==
    /\ Lease \in Nat \ {0} /\ MaxWait \in Nat \ {0}
    /\ MaxExponent \in Nat /\ MaxMishaps \in Nat
    /\ NoJob \notin Job /\ NoRunner \notin Runner /\ NoAddress \notin Address
    /\ Job = GeocodeJob \cup PushJob /\ GeocodeJob \cap PushJob = {}
BY JobConstants DEF JobConstants, Job

LEMMA Ranges ==
    /\ 0 \in 0..Lease /\ Lease \in 0..Lease
    /\ \A n \in 0..Lease : Down(n) \in 0..Lease
    /\ \A n \in 0..MaxWait : Down(n) \in 0..MaxWait
BY JobConstantTypes DEF Down

\* A row that failed, and a runner that goes on, keep their types.
LEMMA FailedType ==
    ASSUME NEW row \in Row, NEW n \in 0..MaxExponent
    PROVE  Failed(row, n) \in Row
<1>1. Backoff(n) \in 0..MaxWait
    BY JobConstantTypes DEF Backoff
<1>2. \A m \in 0..MaxExponent :
        (IF m < MaxExponent THEN m + 1 ELSE m) \in 0..MaxExponent
    BY JobConstantTypes
<1>3. row.attempts \in 0..MaxExponent
    BY DEF Row
<1>4. (IF row.attempts < MaxExponent THEN row.attempts + 1 ELSE row.attempts)
         \in 0..MaxExponent
    BY <1>2, <1>3
<1> DEFINE m == IF row.attempts < MaxExponent THEN row.attempts + 1
                                              ELSE row.attempts
           w == Backoff(n)
<1>5. Failed(row, n) = [row EXCEPT !.attempts = m, !.wait = w, !.left = 0,
                                   !.holder = NoRunner]
    BY DEF Failed
<1>6. m \in 0..MaxExponent /\ w \in 0..MaxWait /\ 0 \in 0..Lease
    BY <1>1, <1>4, Ranges
<1> HIDE DEF m, w
<1> QED
    BY <1>5, <1>6 DEF Row

LEMMA IdleType == IdlePass \in Pass
BY JobConstantTypes DEF IdlePass, Pass

\* The same, for a step that changes no more than one runner.
LEMMA OneRunner ==
    ASSUME JobTypeOK, NEW r \in Runner, NEW p \in Pass,
           runners' = [runners EXCEPT ![r] = p]
    PROVE  runners' \in [Runner -> Pass]
BY DEF JobTypeOK

LEMMA RunnerType ==
    ASSUME JobTypeOK, NEW r \in Runner
    PROVE  runners[r] \in Pass
BY DEF JobTypeOK

LEMMA MishapType ==
    ASSUME mishaps \in 0..MaxMishaps, Mishap
    PROVE  mishaps' \in 0..MaxMishaps
BY JobConstantTypes DEF Mishap

\* The hands of the clock go down for all rows and runners, and for nothing
\* else.
LEMMA TickEffect ==
    ASSUME JobTypeOK, CountDown
    PROVE  /\ jobs' \in [Job -> Row]
           /\ \A j \in Job : /\ jobs'[j].state = jobs[j].state
                             /\ jobs'[j].holder = jobs[j].holder
                             /\ jobs'[j].left = Down(jobs[j].left)
           /\ runners' \in [Runner -> Pass]
           /\ \A r \in Runner :
                 /\ runners'[r].phase = runners[r].phase
                 /\ runners'[r].job = runners[r].job
                 /\ runners'[r].left = Down(runners[r].left)
                 /\ runners'[r].address = runners[r].address
                 /\ runners'[r].targets = runners[r].targets
                 /\ runners'[r].failures = runners[r].failures
           /\ UNCHANGED <<addresses, devices, delivered, world>>
<1>1. ASSUME NEW j \in Job
      PROVE  /\ jobs'[j] \in Row
             /\ jobs'[j].state = jobs[j].state
             /\ jobs'[j].holder = jobs[j].holder
             /\ jobs'[j].left = Down(jobs[j].left)
  <2> DEFINE w == Down(jobs[j].wait)
             n == Down(jobs[j].left)
  <2>1. jobs[j] \in Row
    BY DEF JobTypeOK
  <2>2. w \in 0..MaxWait /\ n \in 0..Lease
    BY <2>1, Ranges DEF Row
  <2>3. jobs'[j] = [jobs[j] EXCEPT !.wait = w, !.left = n]
    BY DEF CountDown
  <2> HIDE DEF w
  <2> QED
    BY <2>1, <2>2, <2>3 DEF Row
<1>2. ASSUME NEW r \in Runner
      PROVE  /\ runners'[r] \in Pass
             /\ runners'[r].phase = runners[r].phase
             /\ runners'[r].job = runners[r].job
             /\ runners'[r].left = Down(runners[r].left)
             /\ runners'[r].address = runners[r].address
             /\ runners'[r].targets = runners[r].targets
             /\ runners'[r].failures = runners[r].failures
  <2> DEFINE n == Down(runners[r].left)
  <2>1. runners[r] \in Pass
    BY DEF JobTypeOK
  <2>2. n \in 0..Lease
    BY <2>1, Ranges DEF Pass
  <2>3. runners'[r] = [runners[r] EXCEPT !.left = n]
    BY DEF CountDown
  <2> HIDE DEF n
  <2>4. runners'[r] \in Pass
    BY <2>1, <2>2, <2>3 DEF Pass
  <2>5. n = Down(runners[r].left)
    BY DEF n
  <2> QED
    BY <2>1, <2>3, <2>4, <2>5 DEF Pass
<1>3. jobs' \in [Job -> Row] /\ runners' \in [Runner -> Pass]
    BY <1>1, <1>2 DEF CountDown
<1> QED
    BY <1>1, <1>2, <1>3 DEF CountDown

\* A claim either gives the runner the row, which was free, or passes it by.
LEMMA ClaimEffect ==
    ASSUME JobTypeOK, PhaseMatchesJob, NEW r \in Runner, NEW j \in Job,
           Claim(r, j)
    PROVE  /\ jobs' \in [Job -> Row]
           /\ runners' \in [Runner -> Pass]
           /\ \A s \in Runner \ {r} : runners'[s] = runners[s]
           /\ \A k \in Job : jobs'[k].state = jobs[k].state
           /\ \A k \in Job \ {j} : jobs'[k] = jobs[k]
           /\ \/ /\ jobs[j].left = 0
                 /\ jobs'[j].holder = r /\ jobs'[j].left = Lease
                 /\ runners'[r].phase = "LOOKUP" /\ runners'[r].job = j
                 /\ runners'[r].left = Lease
              \/ /\ jobs' = jobs
                 /\ runners'[r].phase = "NEXT" /\ runners'[r].job = NoJob
                 /\ runners'[r].left = 0
           /\ UNCHANGED <<addresses, devices, delivered, world, mishaps>>
<1>1. runners[r] \in Pass /\ jobs[j] \in Row
    BY DEF JobTypeOK
<1>2. runners[r].job = NoJob /\ runners[r].left = 0
    BY DEF PhaseMatchesJob, Claim
<1>3. CASE Free(j)
  <2> DEFINE p == [runners[r] EXCEPT !.phase = "LOOKUP", !.todo = @ \ {j},
                                     !.job = j, !.left = Lease]
             row == [jobs[j] EXCEPT !.holder = r, !.left = Lease]
  <2>1. p \in Pass
    BY <1>1, Ranges DEF Pass
  <2>4. row \in Row
    BY <1>1, Ranges DEF Row
  <2>2. runners' = [runners EXCEPT ![r] = p] /\ jobs' = [jobs EXCEPT ![j] = row]
    BY <1>3 DEF Claim
  <2>3. /\ p.phase = "LOOKUP" /\ p.job = j /\ p.left = Lease
        /\ row.holder = r /\ row.left = Lease /\ row.state = jobs[j].state
    BY <1>1 DEF Pass, Row
  <2> HIDE DEF p, row
  <2> QED
    BY <1>3, <2>1, <2>2, <2>3, <2>4 DEF Claim, Free, JobTypeOK
<1>4. CASE ~Free(j)
  <2> DEFINE p == [runners[r] EXCEPT !.todo = @ \ {j}]
  <2>1. p \in Pass
    BY <1>1 DEF Pass
  <2>2. runners' = [runners EXCEPT ![r] = p] /\ jobs' = jobs
    BY <1>4 DEF Claim
  <2>3. p.phase = "NEXT" /\ p.job = NoJob /\ p.left = 0
    BY <1>1, <1>2 DEF Pass, Claim
  <2> HIDE DEF p
  <2> QED
    BY <2>1, <2>2, <2>3 DEF Claim, JobTypeOK
<1> QED
    BY <1>3, <1>4

LEMMA OnToNextType ==
    ASSUME NEW p \in Pass
    PROVE  /\ OnToNext(p) \in Pass
           /\ OnToNext(p).phase = "NEXT" /\ OnToNext(p).job = NoJob
           /\ OnToNext(p).left = 0
<1> DEFINE q == OnToNext(p)
<1>1. q = [p EXCEPT !.phase = "NEXT", !.job = NoJob, !.left = 0,
                    !.error = "NONE"]
    BY DEF OnToNext
<1> HIDE DEF q
<1>2. q \in Pass
    BY <1>1, Ranges DEF Pass
<1>3. q.phase = "NEXT" /\ q.job = NoJob /\ q.left = 0
    BY <1>1 DEF Pass
<1> QED
    BY <1>2, <1>3 DEF q

\* A runner ends its work on a job: only the one that holds the lease touches
\* the row.
LEMMA FinishEffect ==
    ASSUME JobTypeOK, NEW r \in Runner, Finish(r), runners[r].job \in Job
    PROVE  /\ jobs' \in [Job -> Row]
           /\ runners' \in [Runner -> Pass]
           /\ \A s \in Runner \ {r} : runners'[s] = runners[s]
           /\ runners'[r].phase = "NEXT" /\ runners'[r].job = NoJob
           /\ runners'[r].left = 0
           /\ \A k \in Job :
                \/ jobs'[k] = jobs[k]
                \/ k = runners[r].job /\ jobs[k].holder = r
           /\ UNCHANGED <<addresses, devices, delivered, world, mishaps>>
<1> DEFINE j == runners[r].job
           row == [jobs[j] EXCEPT !.state = "COMPLETED", !.holder = NoRunner,
                                  !.left = 0]
<1>1. runners[r] \in Pass /\ jobs[j] \in Row
    BY DEF JobTypeOK
<1>2. row \in Row
    BY <1>1, Ranges DEF Row
<1>3. runners' = [runners EXCEPT ![r] = OnToNext(runners[r])]
    BY DEF Finish
<1>4. jobs' = jobs \/ (jobs[j].holder = r /\ jobs' = [jobs EXCEPT ![j] = row])
    BY DEF Finish, Held
<1> HIDE DEF row
<1>5. /\ jobs' \in [Job -> Row]
      /\ \A k \in Job : \/ jobs'[k] = jobs[k]
                        \/ k = runners[r].job /\ jobs[k].holder = r
    BY <1>2, <1>4 DEF JobTypeOK
<1>6. /\ runners' \in [Runner -> Pass]
      /\ \A s \in Runner \ {r} : runners'[s] = runners[s]
      /\ runners'[r].phase = "NEXT" /\ runners'[r].job = NoJob
      /\ runners'[r].left = 0
    BY <1>1, <1>3, OnToNextType DEF JobTypeOK
<1> QED
    BY <1>5, <1>6 DEF Finish

LEMMA FailEffect ==
    ASSUME JobTypeOK, NEW r \in Runner, Fail(r), runners[r].job \in Job
    PROVE  /\ jobs' \in [Job -> Row]
           /\ runners' \in [Runner -> Pass]
           /\ \A s \in Runner \ {r} : runners'[s] = runners[s]
           /\ runners'[r].phase \in {"NEXT", "IDLE"}
           /\ runners'[r].job = NoJob /\ runners'[r].left = 0
           /\ \A k \in Job : /\ jobs'[k].state = jobs[k].state
                             /\ \/ jobs'[k] = jobs[k]
                                \/ k = runners[r].job /\ jobs[k].holder = r
           /\ UNCHANGED <<addresses, devices, delivered, world, mishaps>>
<1> DEFINE j == runners[r].job
           row == Failed(jobs[j], runners[r].seen[j])
<1>1. runners[r] \in Pass /\ jobs[j] \in Row
    BY DEF JobTypeOK
<1>2. runners[r].seen[j] \in 0..MaxExponent
    BY <1>1 DEF Pass
<1>3. row \in Row
    BY <1>1, <1>2, FailedType
<1>4. row.state = jobs[j].state
    BY <1>1 DEF Failed, Row
<1>5. jobs' = jobs \/ (jobs[j].holder = r /\ jobs' = [jobs EXCEPT ![j] = row])
    BY DEF Fail, Held
<1>6. \/ runners' = [runners EXCEPT ![r] = OnToNext(runners[r])]
      \/ runners' = [runners EXCEPT ![r] = IdlePass]
    BY DEF Fail
<1>7. IdlePass.phase = "IDLE" /\ IdlePass.job = NoJob /\ IdlePass.left = 0
    BY DEF IdlePass
<1> HIDE DEF row
<1>8. jobs' \in [Job -> Row]
    BY <1>3, <1>5 DEF JobTypeOK
<1>9. \A k \in Job : /\ jobs'[k].state = jobs[k].state
                     /\ \/ jobs'[k] = jobs[k]
                        \/ k = runners[r].job /\ jobs[k].holder = r
    BY <1>4, <1>5 DEF JobTypeOK
<1>10. /\ runners' \in [Runner -> Pass]
       /\ \A s \in Runner \ {r} : runners'[s] = runners[s]
       /\ runners'[r].phase \in {"NEXT", "IDLE"}
       /\ runners'[r].job = NoJob /\ runners'[r].left = 0
    BY <1>1, <1>6, <1>7, IdleType, OnToNextType DEF JobTypeOK
<1> QED
    BY <1>8, <1>9, <1>10 DEF Fail

\* Every step keeps the types.
LEMMA TypeStep ==
    ASSUME JobTypeOK, PhaseMatchesJob, [JobNext]_jobVars
    PROVE  JobTypeOK'
<1> USE DEF world
<1>1. ASSUME NEW j \in Job, Enqueue(j) PROVE JobTypeOK'
    BY <1>1 DEF JobTypeOK, Row, Enqueue
<1>2. ASSUME NEW d \in Device, Unregister(d) PROVE JobTypeOK'
    BY <1>2 DEF JobTypeOK, Unregister
<1>3. ASSUME Outage PROVE JobTypeOK'
    BY <1>3, MishapType DEF JobTypeOK, Outage
<1>4. ASSUME Recover PROVE JobTypeOK'
    BY <1>4 DEF JobTypeOK, Recover
<1>5. ASSUME CountDown PROVE JobTypeOK'
  <2>1. mishaps' \in 0..MaxMishaps
    BY <1>5, MishapType DEF JobTypeOK, CountDown
  <2> QED
    BY <1>5, <2>1, TickEffect DEF JobTypeOK
<1>6. ASSUME NEW r \in Runner, BeginPass(r) PROVE JobTypeOK'
  <2> DEFINE due == {j \in Job : Due(j)}
             seen == [j \in Job |-> IF j \in due THEN jobs[j].attempts ELSE 0]
             p == [IdlePass EXCEPT
                     !.phase = "NEXT", !.todo = due, !.seen = seen]
  <2>1. \A j \in Job : jobs[j].attempts \in 0..MaxExponent
    BY DEF JobTypeOK, Row
  <2>2. seen \in [Job -> 0..MaxExponent]
    BY <2>1, JobConstantTypes
  <2> HIDE DEF seen
  <2>3. p \in Pass
    BY <2>2, IdleType DEF Pass
  <2>4. runners' = [runners EXCEPT ![r] = p]
    BY <1>6 DEF BeginPass, seen
  <2> QED
    BY <1>6, <2>3, <2>4, OneRunner DEF JobTypeOK, BeginPass
<1>7. ASSUME NEW r \in Runner, EndPass(r) PROVE JobTypeOK'
    BY <1>7, IdleType, OneRunner DEF JobTypeOK, EndPass
<1>8. ASSUME NEW r \in Runner, NEW j \in Job, Claim(r, j) PROVE JobTypeOK'
    BY <1>8, ClaimEffect DEF JobTypeOK
<1>9. ASSUME NEW r \in Runner, FindVisit(r) PROVE JobTypeOK'
  <2>1. /\ [runners[r] EXCEPT !.phase = "CALL"] \in Pass
        /\ [runners[r] EXCEPT !.phase = "FINISH"] \in Pass
    BY RunnerType DEF Pass
  <2>2. runners' \in [Runner -> Pass]
    BY <1>9, <2>1, OneRunner DEF FindVisit
  <2> QED
    BY <1>9, <2>2 DEF JobTypeOK, FindVisit
<1>10. ASSUME NEW r \in Runner, NEW a \in Address, Geocode(r, a)
       PROVE  JobTypeOK'
  <2>1. /\ [runners[r] EXCEPT !.phase = "WRITE", !.address = a] \in Pass
        /\ [runners[r] EXCEPT !.phase = "FAIL", !.error = "SHORT"] \in Pass
    BY RunnerType DEF Pass
  <2>2. runners' \in [Runner -> Pass]
    BY <1>10, <2>1, OneRunner DEF Geocode
  <2> QED
    BY <1>10, <2>2 DEF JobTypeOK, Geocode
<1>11. ASSUME NEW r \in Runner, WriteAddress(r) PROVE JobTypeOK'
  <2> DEFINE p == [runners[r] EXCEPT !.phase = "FINISH",
                                     !.address = NoAddress]
  <2>1. p \in Pass
    BY RunnerType DEF Pass
  <2>5. runners' = [runners EXCEPT ![r] = p]
    BY <1>11, RunnerType DEF WriteAddress, Pass
  <2> HIDE DEF p
  <2>2. runners' \in [Runner -> Pass]
    BY <2>1, <2>5, OneRunner
  <2>3. runners[r].address \in Address \cup {NoAddress}
    BY RunnerType DEF Pass
  <2>4. addresses' \in [GeocodeJob -> Address \cup {NoAddress}]
    BY <1>11, <2>3 DEF JobTypeOK, WriteAddress
  <2> QED
    BY <1>11, <2>2, <2>4 DEF JobTypeOK, WriteAddress
<1>12. ASSUME NEW r \in Runner, FindDevices(r) PROVE JobTypeOK'
  <2> DEFINE p == [runners[r] EXCEPT !.phase = "SEND", !.targets = devices]
  <2>1. runners[r] \in Pass /\ devices \subseteq Device
    BY DEF JobTypeOK
  <2>2. p \in Pass
    BY <2>1 DEF Pass
  <2>3. runners' = [runners EXCEPT ![r] = p]
    BY <1>12 DEF FindDevices
  <2> HIDE DEF p
  <2>4. runners' \in [Runner -> Pass]
    BY <2>2, <2>3, OneRunner
  <2> QED
    BY <1>12, <2>4 DEF JobTypeOK, FindDevices
<1>13. ASSUME NEW r \in Runner, NEW d \in Device, NEW v \in BOOLEAN,
              Notify(r, d, v)
       PROVE  JobTypeOK'
  <2> DEFINE t == runners[r].targets \ {d}
             f == runners[r].failures \/ (configured /\ ~online)
             p == [runners[r] EXCEPT !.targets = t, !.failures = f]
  <2>1. t \in SUBSET Device /\ f \in BOOLEAN
    BY RunnerType DEF Pass
  <2>5. runners' = [runners EXCEPT ![r] = p]
    BY <1>13 DEF Notify
  <2> HIDE DEF t, f
  <2>6. p \in Pass
    BY <2>1, RunnerType DEF Pass
  <2> HIDE DEF p
  <2>2. runners' \in [Runner -> Pass]
    BY <2>5, <2>6, OneRunner
  <2>3. delivered' \in [PushJob -> SUBSET Device]
    BY <1>13 DEF JobTypeOK, Notify
  <2>4. devices' \subseteq Device
    BY <1>13 DEF JobTypeOK, Notify
  <2> QED
    BY <1>13, <2>2, <2>3, <2>4 DEF JobTypeOK, Notify
<1>14. ASSUME NEW r \in Runner, EndDelivery(r) PROVE JobTypeOK'
  <2>1. /\ [runners[r] EXCEPT !.phase = "FAIL", !.error = "SHORT",
                               !.failures = FALSE] \in Pass
        /\ [runners[r] EXCEPT !.phase = "FINISH", !.failures = FALSE] \in Pass
    BY RunnerType DEF Pass
  <2>2. runners' \in [Runner -> Pass]
    BY <1>14, <2>1, OneRunner DEF EndDelivery
  <2> QED
    BY <1>14, <2>2 DEF JobTypeOK, EndDelivery
<1>15. ASSUME NEW r \in Runner, Finish(r) PROVE JobTypeOK'
    BY <1>15, FinishEffect DEF JobTypeOK, Finish, PhaseMatchesJob
<1>16. ASSUME NEW r \in Runner, Fail(r) PROVE JobTypeOK'
    BY <1>16, FailEffect DEF JobTypeOK, Fail, PhaseMatchesJob
<1>17. ASSUME NEW r \in Runner, DatabaseError(r) PROVE JobTypeOK'
  <2> DEFINE p == [runners[r] EXCEPT !.phase = "FAIL", !.error = "LONG",
                                     !.address = NoAddress]
  <2>1. p \in Pass
    BY RunnerType DEF Pass
  <2>3. runners' = [runners EXCEPT ![r] = p]
    BY <1>17, RunnerType DEF DatabaseError, Pass
  <2> HIDE DEF p
  <2>2. runners' \in [Runner -> Pass]
    BY <2>1, <2>3, OneRunner
  <2> QED
    BY <1>17, <2>2, MishapType DEF JobTypeOK, DatabaseError
<1>18. ASSUME NEW r \in Runner, Crash(r) PROVE JobTypeOK'
    BY <1>18, IdleType, OneRunner, MishapType DEF JobTypeOK, Crash
<1>19. CASE UNCHANGED jobVars
    BY <1>19 DEF jobVars, JobTypeOK
<1>20. ASSUME NEW j \in GeocodeJob, Locate(j) PROVE JobTypeOK'
    BY <1>20, JobConstantTypes DEF JobTypeOK, Locate
<1>21. ASSUME NEW d \in Device, Expire(d) PROVE JobTypeOK'
    BY <1>21, JobConstantTypes DEF JobTypeOK, Expire
<1> QED
    BY <1>1, <1>2, <1>3, <1>4, <1>5, <1>6, <1>7, <1>8, <1>9, <1>10, <1>11,
       <1>12, <1>13, <1>14, <1>15, <1>16, <1>17, <1>18, <1>19, <1>20, <1>21
       DEF JobNext, Step

\* Every step keeps the job that goes with the phase.
LEMMA PhaseStep ==
    ASSUME JobTypeOK, PhaseMatchesJob, [JobNext]_jobVars
    PROVE  PhaseMatchesJob'
<1> USE DEF world
<1>1. ASSUME NEW j \in Job, Enqueue(j) PROVE PhaseMatchesJob'
    BY <1>1, JobConstantTypes DEF JobTypeOK, PhaseMatchesJob, Enqueue
<1>2. ASSUME NEW d \in Device, Unregister(d) PROVE PhaseMatchesJob'
    BY <1>2, JobConstantTypes DEF JobTypeOK, PhaseMatchesJob, Unregister
<1>3. ASSUME Outage PROVE PhaseMatchesJob'
    BY <1>3, JobConstantTypes DEF JobTypeOK, PhaseMatchesJob, Outage, Mishap
<1>4. ASSUME Recover PROVE PhaseMatchesJob'
    BY <1>4, JobConstantTypes DEF JobTypeOK, PhaseMatchesJob, Recover
<1>5. ASSUME CountDown PROVE PhaseMatchesJob'
    BY <1>5, TickEffect DEF PhaseMatchesJob, Down
<1>6. ASSUME NEW r \in Runner, BeginPass(r) PROVE PhaseMatchesJob'
    BY <1>6, JobConstantTypes
      DEF JobTypeOK, PhaseMatchesJob, Pass, BeginPass, Due,
       IdlePass
<1>7. ASSUME NEW r \in Runner, EndPass(r) PROVE PhaseMatchesJob'
    BY <1>7, JobConstantTypes
      DEF JobTypeOK, PhaseMatchesJob, Pass, EndPass, IdlePass
<1>8. ASSUME NEW r \in Runner, NEW j \in Job, Claim(r, j)
      PROVE  PhaseMatchesJob'
    BY <1>8, ClaimEffect, JobConstantTypes DEF PhaseMatchesJob
<1>9. ASSUME NEW r \in Runner, FindVisit(r) PROVE PhaseMatchesJob'
    BY <1>9, JobConstantTypes DEF JobTypeOK, PhaseMatchesJob, Pass, FindVisit
<1>10. ASSUME NEW r \in Runner, NEW a \in Address, Geocode(r, a)
       PROVE  PhaseMatchesJob'
    BY <1>10, JobConstantTypes DEF JobTypeOK, PhaseMatchesJob, Pass, Geocode
<1>11. ASSUME NEW r \in Runner, WriteAddress(r) PROVE PhaseMatchesJob'
    BY <1>11, JobConstantTypes
      DEF JobTypeOK, PhaseMatchesJob, Pass, WriteAddress,
       Writable
<1>12. ASSUME NEW r \in Runner, FindDevices(r) PROVE PhaseMatchesJob'
    BY <1>12, JobConstantTypes DEF JobTypeOK, PhaseMatchesJob, Pass, FindDevices
<1>13. ASSUME NEW r \in Runner, NEW d \in Device, NEW v \in BOOLEAN,
              Notify(r, d, v)
       PROVE  PhaseMatchesJob'
    BY <1>13, JobConstantTypes DEF JobTypeOK, PhaseMatchesJob, Pass, Notify
<1>14. ASSUME NEW r \in Runner, EndDelivery(r) PROVE PhaseMatchesJob'
    BY <1>14, JobConstantTypes
      DEF JobTypeOK, PhaseMatchesJob, Pass, EndDelivery,
       DeliveryFails
<1>15. ASSUME NEW r \in Runner, Finish(r) PROVE PhaseMatchesJob'
  <2>1. runners[r].job \in Job
    BY <1>15 DEF PhaseMatchesJob, Finish
  <2>2. /\ \A s \in Runner \ {r} : runners'[s] = runners[s]
        /\ runners'[r].phase \in {"NEXT", "IDLE"}
        /\ runners'[r].job = NoJob /\ runners'[r].left = 0
    BY <1>15, <2>1, FinishEffect
  <2> QED
    BY <2>2 DEF PhaseMatchesJob
<1>16. ASSUME NEW r \in Runner, Fail(r) PROVE PhaseMatchesJob'
  <2>1. runners[r].job \in Job
    BY <1>16 DEF PhaseMatchesJob, Fail
  <2>2. /\ \A s \in Runner \ {r} : runners'[s] = runners[s]
        /\ runners'[r].phase \in {"NEXT", "IDLE"}
        /\ runners'[r].job = NoJob /\ runners'[r].left = 0
    BY <1>16, <2>1, FailEffect
  <2> QED
    BY <2>2 DEF PhaseMatchesJob
<1>17. ASSUME NEW r \in Runner, DatabaseError(r) PROVE PhaseMatchesJob'
    BY <1>17, JobConstantTypes
      DEF JobTypeOK, PhaseMatchesJob, Pass, DatabaseError,
       Mishap
<1>18. ASSUME NEW r \in Runner, Crash(r) PROVE PhaseMatchesJob'
    BY <1>18, JobConstantTypes
      DEF JobTypeOK, PhaseMatchesJob, Pass, Crash, Mishap,
       IdlePass
<1>19. CASE UNCHANGED jobVars
    BY <1>19 DEF jobVars, JobTypeOK, PhaseMatchesJob
<1>20. ASSUME NEW j \in GeocodeJob, Locate(j) PROVE PhaseMatchesJob'
    BY <1>20, JobConstantTypes DEF JobTypeOK, PhaseMatchesJob, Locate
<1>21. ASSUME NEW d \in Device, Expire(d) PROVE PhaseMatchesJob'
    BY <1>21, JobConstantTypes DEF JobTypeOK, PhaseMatchesJob, Expire
<1> QED
    BY <1>1, <1>2, <1>3, <1>4, <1>5, <1>6, <1>7, <1>8, <1>9, <1>10, <1>11,
       <1>12, <1>13, <1>14, <1>15, <1>16, <1>17, <1>18, <1>19, <1>20, <1>21
       DEF JobNext, Step

\* Every step keeps the agreement of rows and leases.
LEMMA LeaseStep ==
    ASSUME JobTypeOK, PhaseMatchesJob, LeaseIsRunners, [JobNext]_jobVars
    PROVE  LeaseIsRunners'
<1> USE DEF world
<1>1. ASSUME NEW j \in Job, Enqueue(j) PROVE LeaseIsRunners'
    BY <1>1, JobConstantTypes DEF JobTypeOK, PhaseMatchesJob, LeaseIsRunners,
       Working, Row, Enqueue
<1>2. ASSUME NEW d \in Device, Unregister(d) PROVE LeaseIsRunners'
    BY <1>2, JobConstantTypes DEF JobTypeOK, PhaseMatchesJob, LeaseIsRunners,
       Working, Unregister
<1>3. ASSUME Outage PROVE LeaseIsRunners'
    BY <1>3, JobConstantTypes DEF JobTypeOK, PhaseMatchesJob, LeaseIsRunners,
       Working, Outage, Mishap
<1>4. ASSUME Recover PROVE LeaseIsRunners'
    BY <1>4, JobConstantTypes DEF JobTypeOK, PhaseMatchesJob, LeaseIsRunners,
       Working, Recover
<1>5. ASSUME CountDown PROVE LeaseIsRunners'
  <2> SUFFICES ASSUME NEW s \in Runner, runners'[s].job # NoJob,
                      runners'[s].left > 0
               PROVE  /\ jobs'[runners'[s].job].holder = s
                      /\ jobs'[runners'[s].job].left = runners'[s].left
    BY DEF LeaseIsRunners, Working
  <2>1. /\ runners'[s].job = runners[s].job
        /\ runners'[s].left = Down(runners[s].left)
    BY <1>5, TickEffect
  <2>2. runners[s].job \in Job /\ runners[s].left \in 0..Lease
    BY <2>1, RunnerType DEF Pass
  <2>3. runners[s].left > 0
    BY <2>1, <2>2 DEF Down
  <2>4. /\ jobs[runners[s].job].holder = s
        /\ jobs[runners[s].job].left = runners[s].left
    BY <2>1, <2>3 DEF LeaseIsRunners, Working
  <2> QED
    BY <1>5, <2>1, <2>2, <2>4, TickEffect
<1>6. ASSUME NEW r \in Runner, BeginPass(r) PROVE LeaseIsRunners'
    BY <1>6, JobConstantTypes DEF JobTypeOK, PhaseMatchesJob, LeaseIsRunners,
       Working, Pass, BeginPass, Due, IdlePass
<1>7. ASSUME NEW r \in Runner, EndPass(r) PROVE LeaseIsRunners'
    BY <1>7, JobConstantTypes DEF JobTypeOK, PhaseMatchesJob, LeaseIsRunners,
       Working, Pass, EndPass, IdlePass
<1>8. ASSUME NEW r \in Runner, NEW j \in Job, Claim(r, j) PROVE LeaseIsRunners'
  <2> SUFFICES ASSUME NEW s \in Runner, runners'[s].job # NoJob,
                      runners'[s].left > 0
               PROVE  /\ jobs'[runners'[s].job].holder = s
                      /\ jobs'[runners'[s].job].left = runners'[s].left
    BY DEF LeaseIsRunners, Working
  <2>1. CASE s = r
    BY <1>8, <2>1, ClaimEffect
  <2>2. CASE s # r
    <3>1. runners'[s] = runners[s]
      BY <1>8, <2>2, ClaimEffect
    <3>2. runners[s].job \in Job /\ runners[s].left \in 0..Lease
      BY <3>1, RunnerType DEF Pass
    <3>3. /\ jobs[runners[s].job].holder = s
          /\ jobs[runners[s].job].left = runners[s].left
      BY <3>1 DEF LeaseIsRunners, Working
    <3>4. jobs'[runners[s].job] = jobs[runners[s].job]
      BY <1>8, <3>1, <3>2, <3>3, ClaimEffect
    <3> QED
      BY <3>1, <3>3, <3>4
  <2> QED
    BY <2>1, <2>2
<1>9. ASSUME NEW r \in Runner, FindVisit(r) PROVE LeaseIsRunners'
    BY <1>9, JobConstantTypes DEF JobTypeOK, PhaseMatchesJob, LeaseIsRunners,
       Working, Pass, FindVisit
<1>10. ASSUME NEW r \in Runner, NEW a \in Address, Geocode(r, a)
       PROVE  LeaseIsRunners'
    BY <1>10, JobConstantTypes DEF JobTypeOK, PhaseMatchesJob, LeaseIsRunners,
       Working, Pass, Geocode
<1>11. ASSUME NEW r \in Runner, WriteAddress(r) PROVE LeaseIsRunners'
    BY <1>11, JobConstantTypes DEF JobTypeOK, PhaseMatchesJob, LeaseIsRunners,
       Working, Pass, WriteAddress, Writable
<1>12. ASSUME NEW r \in Runner, FindDevices(r) PROVE LeaseIsRunners'
    BY <1>12, JobConstantTypes DEF JobTypeOK, PhaseMatchesJob, LeaseIsRunners,
       Working, Pass, FindDevices
<1>13. ASSUME NEW r \in Runner, NEW d \in Device, NEW v \in BOOLEAN,
              Notify(r, d, v)
       PROVE  LeaseIsRunners'
    BY <1>13, JobConstantTypes DEF JobTypeOK, PhaseMatchesJob, LeaseIsRunners,
       Working, Pass, Notify
<1>14. ASSUME NEW r \in Runner, EndDelivery(r) PROVE LeaseIsRunners'
    BY <1>14, JobConstantTypes DEF JobTypeOK, PhaseMatchesJob, LeaseIsRunners,
       Working, Pass, EndDelivery, DeliveryFails
<1>15. ASSUME NEW r \in Runner, Finish(r) PROVE LeaseIsRunners'
  <2> SUFFICES ASSUME NEW s \in Runner, runners'[s].job # NoJob,
                      runners'[s].left > 0
               PROVE  /\ jobs'[runners'[s].job].holder = s
                      /\ jobs'[runners'[s].job].left = runners'[s].left
    BY DEF LeaseIsRunners, Working
  <2>1. runners[r].job \in Job
    BY <1>15 DEF PhaseMatchesJob, Finish
  <2>2. s # r /\ runners'[s] = runners[s]
    BY <1>15, <2>1, FinishEffect
  <2>3. runners[s].job \in Job
    BY <2>2, RunnerType DEF Pass
  <2>4. /\ jobs[runners[s].job].holder = s
        /\ jobs[runners[s].job].left = runners[s].left
    BY <2>2 DEF LeaseIsRunners, Working
  <2>5. jobs'[runners[s].job] = jobs[runners[s].job]
    BY <1>15, <2>1, <2>2, <2>3, <2>4, FinishEffect
  <2> QED
    BY <2>2, <2>4, <2>5
<1>16. ASSUME NEW r \in Runner, Fail(r) PROVE LeaseIsRunners'
  <2> SUFFICES ASSUME NEW s \in Runner, runners'[s].job # NoJob,
                      runners'[s].left > 0
               PROVE  /\ jobs'[runners'[s].job].holder = s
                      /\ jobs'[runners'[s].job].left = runners'[s].left
    BY DEF LeaseIsRunners, Working
  <2>1. runners[r].job \in Job
    BY <1>16 DEF PhaseMatchesJob, Fail
  <2>2. s # r /\ runners'[s] = runners[s]
    BY <1>16, <2>1, FailEffect
  <2>3. runners[s].job \in Job
    BY <2>2, RunnerType DEF Pass
  <2>4. /\ jobs[runners[s].job].holder = s
        /\ jobs[runners[s].job].left = runners[s].left
    BY <2>2 DEF LeaseIsRunners, Working
  <2>5. jobs'[runners[s].job] = jobs[runners[s].job]
    BY <1>16, <2>1, <2>2, <2>3, <2>4, FailEffect
  <2> QED
    BY <2>2, <2>4, <2>5
<1>17. ASSUME NEW r \in Runner, DatabaseError(r) PROVE LeaseIsRunners'
    BY <1>17, JobConstantTypes DEF JobTypeOK, PhaseMatchesJob, LeaseIsRunners,
       Working, Pass, DatabaseError, Mishap
<1>18. ASSUME NEW r \in Runner, Crash(r) PROVE LeaseIsRunners'
    BY <1>18, JobConstantTypes DEF JobTypeOK, PhaseMatchesJob, LeaseIsRunners,
       Working, Pass, Crash, Mishap, IdlePass
<1>19. CASE UNCHANGED jobVars
    BY <1>19 DEF jobVars, JobTypeOK, PhaseMatchesJob, LeaseIsRunners, Working
<1>20. ASSUME NEW j \in GeocodeJob, Locate(j) PROVE LeaseIsRunners'
    BY <1>20, JobConstantTypes DEF JobTypeOK, PhaseMatchesJob, LeaseIsRunners,
       Working, Locate
<1>21. ASSUME NEW d \in Device, Expire(d) PROVE LeaseIsRunners'
    BY <1>21, JobConstantTypes DEF JobTypeOK, PhaseMatchesJob, LeaseIsRunners,
       Working, Expire
<1> QED
    BY <1>1, <1>2, <1>3, <1>4, <1>5, <1>6, <1>7, <1>8, <1>9, <1>10, <1>11,
       <1>12, <1>13, <1>14, <1>15, <1>16, <1>17, <1>18, <1>19, <1>20, <1>21
       DEF JobNext, Step

\* Every step keeps what a runner has done.
LEMMA WorkStep ==
    ASSUME JobTypeOK, PhaseMatchesJob, WorkDone, [JobNext]_jobVars
    PROVE  WorkDone'
<1> USE DEF world
<1>1. ASSUME NEW j \in Job, Enqueue(j) PROVE WorkDone'
    BY <1>1, JobConstantTypes DEF JobTypeOK, PhaseMatchesJob, WorkDone, Enqueue
<1>2. ASSUME NEW d \in Device, Unregister(d) PROVE WorkDone'
    BY <1>2, JobConstantTypes
      DEF JobTypeOK, PhaseMatchesJob, WorkDone, Unregister
<1>3. ASSUME Outage PROVE WorkDone'
    BY <1>3, JobConstantTypes DEF JobTypeOK, PhaseMatchesJob, WorkDone, Outage,
       Mishap
<1>4. ASSUME Recover PROVE WorkDone'
    BY <1>4, JobConstantTypes DEF JobTypeOK, PhaseMatchesJob, WorkDone, Recover
<1>5. ASSUME CountDown PROVE WorkDone'
    BY <1>5, TickEffect, JobConstantTypes DEF WorkDone
<1>6. ASSUME NEW r \in Runner, BeginPass(r) PROVE WorkDone'
    BY <1>6, JobConstantTypes DEF JobTypeOK, PhaseMatchesJob, WorkDone, Pass,
       BeginPass, Due, IdlePass
<1>7. ASSUME NEW r \in Runner, EndPass(r) PROVE WorkDone'
    BY <1>7, JobConstantTypes DEF JobTypeOK, PhaseMatchesJob, WorkDone, Pass,
       EndPass, IdlePass
<1>8. ASSUME NEW r \in Runner, NEW j \in Job, Claim(r, j) PROVE WorkDone'
    BY <1>8, ClaimEffect, JobConstantTypes DEF WorkDone
<1>9. ASSUME NEW r \in Runner, FindVisit(r) PROVE WorkDone'
    BY <1>9, JobConstantTypes DEF JobTypeOK, PhaseMatchesJob, WorkDone, Pass,
       FindVisit
<1>10. ASSUME NEW r \in Runner, NEW a \in Address, Geocode(r, a)
       PROVE  WorkDone'
    BY <1>10, JobConstantTypes DEF JobTypeOK, PhaseMatchesJob, WorkDone, Pass,
       Geocode
<1>11. ASSUME NEW r \in Runner, WriteAddress(r) PROVE WorkDone'
    BY <1>11, JobConstantTypes DEF JobTypeOK, PhaseMatchesJob, WorkDone, Pass,
       WriteAddress, Writable
<1>12. ASSUME NEW r \in Runner, FindDevices(r) PROVE WorkDone'
    BY <1>12, JobConstantTypes DEF JobTypeOK, PhaseMatchesJob, WorkDone, Pass,
       FindDevices
<1>13. ASSUME NEW r \in Runner, NEW d \in Device, NEW v \in BOOLEAN,
              Notify(r, d, v)
       PROVE  WorkDone'
  <2> DEFINE j == runners[r].job
  <2>1. j \in PushJob /\ runners[r] \in Pass
    BY <1>13 DEF PhaseMatchesJob, Notify, JobTypeOK
  <2>2. /\ \A s \in Runner \ {r} : runners'[s] = runners[s]
        /\ runners'[r].phase = "SEND" /\ runners'[r].job = j
        /\ runners'[r].targets = runners[r].targets \ {d}
        /\ ~runners'[r].failures
              => ~runners[r].failures /\ (configured => online)
    BY <1>13, <2>1 DEF Notify, JobTypeOK, Pass
  <2>3. /\ devices' \subseteq devices
        /\ \A k \in PushJob : delivered[k] \subseteq delivered'[k]
        /\ configured /\ online
              => devices' \subseteq (devices \ {d}) \cup delivered'[j]
                                                  \cup invalid
        /\ UNCHANGED <<addresses, configured, invalid>>
    BY <1>13, <2>1 DEF Notify, JobTypeOK
  <2>4. ASSUME NEW s \in Runner \ {r}, runners'[s].phase = "SEND",
               ~runners'[s].failures, configured
        PROVE  devices' \subseteq delivered'[runners'[s].job] \cup invalid
                                  \cup runners'[s].targets
    BY <2>2, <2>3, <2>4 DEF WorkDone, PhaseMatchesJob
  <2>5. ASSUME ~runners'[r].failures, configured
        PROVE  devices' \subseteq delivered'[j] \cup invalid
                                  \cup runners'[r].targets
    BY <1>13, <2>1, <2>2, <2>3, <2>5 DEF WorkDone, Notify
  <2> QED
    BY <2>2, <2>3, <2>4, <2>5 DEF WorkDone, PhaseMatchesJob
<1>14. ASSUME NEW r \in Runner, EndDelivery(r) PROVE WorkDone'
    BY <1>14, JobConstantTypes DEF JobTypeOK, PhaseMatchesJob, WorkDone, Pass,
       EndDelivery, DeliveryFails
<1>15. ASSUME NEW r \in Runner, Finish(r) PROVE WorkDone'
  <2>1. runners[r].job \in Job
    BY <1>15 DEF PhaseMatchesJob, Finish
  <2>2. /\ \A s \in Runner \ {r} : runners'[s] = runners[s]
        /\ runners'[r].phase = "NEXT"
        /\ UNCHANGED <<addresses, devices, delivered, world>>
    BY <1>15, <2>1, FinishEffect
  <2> QED
    BY <2>2 DEF WorkDone
<1>16. ASSUME NEW r \in Runner, Fail(r) PROVE WorkDone'
    BY <1>16, FailEffect, JobConstantTypes DEF PhaseMatchesJob, Fail, WorkDone
<1>17. ASSUME NEW r \in Runner, DatabaseError(r) PROVE WorkDone'
    BY <1>17, JobConstantTypes DEF JobTypeOK, PhaseMatchesJob, WorkDone, Pass,
       DatabaseError, Mishap
<1>18. ASSUME NEW r \in Runner, Crash(r) PROVE WorkDone'
    BY <1>18, JobConstantTypes DEF JobTypeOK, PhaseMatchesJob, WorkDone, Pass,
       Crash, Mishap, IdlePass
<1>19. CASE UNCHANGED jobVars
    BY <1>19 DEF jobVars, JobTypeOK, PhaseMatchesJob, WorkDone
<1>20. ASSUME NEW j \in GeocodeJob, Locate(j) PROVE WorkDone'
    BY <1>20, JobConstantTypes DEF JobTypeOK, PhaseMatchesJob, WorkDone, Locate
<1>21. ASSUME NEW d \in Device, Expire(d) PROVE WorkDone'
    BY <1>21, JobConstantTypes DEF JobTypeOK, PhaseMatchesJob, WorkDone, Expire
<1> QED
    BY <1>1, <1>2, <1>3, <1>4, <1>5, <1>6, <1>7, <1>8, <1>9, <1>10, <1>11,
       <1>12, <1>13, <1>14, <1>15, <1>16, <1>17, <1>18, <1>19, <1>20, <1>21
       DEF JobNext, Step

\* Every step keeps completed jobs done.
LEMMA DoneStep ==
    ASSUME JobTypeOK, PhaseMatchesJob, WorkDone, CompletedIsDone,
            [JobNext]_jobVars
    PROVE  CompletedIsDone'
<1> USE DEF world
<1>1. ASSUME NEW j \in Job, Enqueue(j) PROVE CompletedIsDone'
    BY <1>1, JobConstantTypes DEF JobTypeOK, PhaseMatchesJob, WorkDone,
       CompletedIsDone, Row, Enqueue
<1>2. ASSUME NEW d \in Device, Unregister(d) PROVE CompletedIsDone'
    BY <1>2, JobConstantTypes DEF JobTypeOK, PhaseMatchesJob, WorkDone,
       CompletedIsDone, Unregister
<1>3. ASSUME Outage PROVE CompletedIsDone'
    BY <1>3, JobConstantTypes DEF JobTypeOK, PhaseMatchesJob, WorkDone,
       CompletedIsDone, Outage, Mishap
<1>4. ASSUME Recover PROVE CompletedIsDone'
    BY <1>4, JobConstantTypes DEF JobTypeOK, PhaseMatchesJob, WorkDone,
       CompletedIsDone, Recover
<1>5. ASSUME CountDown PROVE CompletedIsDone'
    BY <1>5, TickEffect, JobConstantTypes DEF CompletedIsDone
<1>6. ASSUME NEW r \in Runner, BeginPass(r) PROVE CompletedIsDone'
    BY <1>6, JobConstantTypes DEF JobTypeOK, PhaseMatchesJob, WorkDone,
       CompletedIsDone, Pass, BeginPass, Due, IdlePass
<1>7. ASSUME NEW r \in Runner, EndPass(r) PROVE CompletedIsDone'
    BY <1>7, JobConstantTypes DEF JobTypeOK, PhaseMatchesJob, WorkDone,
       CompletedIsDone, Pass, EndPass, IdlePass
<1>8. ASSUME NEW r \in Runner, NEW j \in Job, Claim(r, j)
      PROVE  CompletedIsDone'
    BY <1>8, ClaimEffect, JobConstantTypes DEF CompletedIsDone
<1>9. ASSUME NEW r \in Runner, FindVisit(r) PROVE CompletedIsDone'
    BY <1>9, JobConstantTypes DEF JobTypeOK, PhaseMatchesJob, WorkDone,
       CompletedIsDone, Pass, FindVisit
<1>10. ASSUME NEW r \in Runner, NEW a \in Address, Geocode(r, a)
       PROVE  CompletedIsDone'
    BY <1>10, JobConstantTypes DEF JobTypeOK, PhaseMatchesJob, WorkDone,
       CompletedIsDone, Pass, Geocode
<1>11. ASSUME NEW r \in Runner, WriteAddress(r) PROVE CompletedIsDone'
    BY <1>11, JobConstantTypes DEF JobTypeOK, PhaseMatchesJob, WorkDone,
       CompletedIsDone, Pass, WriteAddress, Writable
<1>12. ASSUME NEW r \in Runner, FindDevices(r) PROVE CompletedIsDone'
    BY <1>12, JobConstantTypes DEF JobTypeOK, PhaseMatchesJob, WorkDone,
       CompletedIsDone, Pass, FindDevices
<1>13. ASSUME NEW r \in Runner, NEW d \in Device, NEW v \in BOOLEAN,
              Notify(r, d, v)
       PROVE  CompletedIsDone'
    BY <1>13, JobConstantTypes DEF JobTypeOK, PhaseMatchesJob, WorkDone,
       CompletedIsDone, Pass, Notify
<1>14. ASSUME NEW r \in Runner, EndDelivery(r) PROVE CompletedIsDone'
    BY <1>14, JobConstantTypes DEF JobTypeOK, PhaseMatchesJob, WorkDone,
       CompletedIsDone, Pass, EndDelivery, DeliveryFails
<1>15. ASSUME NEW r \in Runner, Finish(r) PROVE CompletedIsDone'
  <2>1. runners[r].job \in Job /\ runners[r].phase = "FINISH"
    BY <1>15 DEF PhaseMatchesJob, Finish
  <2>2. /\ \A k \in Job : jobs'[k] = jobs[k] \/ k = runners[r].job
        /\ UNCHANGED <<addresses, devices, delivered, world>>
    BY <1>15, <2>1, FinishEffect
  <2> SUFFICES ASSUME NEW k \in Job, jobs'[k].state = "COMPLETED"
               PROVE  /\ k \in GeocodeJob => addresses[k] # NoAddress
                      /\ k \in PushJob /\ configured
                            => devices \subseteq delivered[k] \cup invalid
    BY <2>2 DEF CompletedIsDone, Job
  <2>3. CASE k = runners[r].job
    BY <2>1, <2>3 DEF WorkDone
  <2>4. CASE k # runners[r].job
    <3>1. jobs[k].state = "COMPLETED"
      BY <2>2, <2>4
    <3> QED
      BY <3>1 DEF CompletedIsDone
  <2> QED
    BY <2>3, <2>4
<1>16. ASSUME NEW r \in Runner, Fail(r) PROVE CompletedIsDone'
    BY <1>16, FailEffect, JobConstantTypes DEF PhaseMatchesJob, Fail,
       CompletedIsDone
<1>17. ASSUME NEW r \in Runner, DatabaseError(r) PROVE CompletedIsDone'
    BY <1>17, JobConstantTypes DEF JobTypeOK, PhaseMatchesJob, WorkDone,
       CompletedIsDone, Pass, DatabaseError, Mishap
<1>18. ASSUME NEW r \in Runner, Crash(r) PROVE CompletedIsDone'
    BY <1>18, JobConstantTypes DEF JobTypeOK, PhaseMatchesJob, WorkDone,
       CompletedIsDone, Pass, Crash, Mishap, IdlePass
<1>19. CASE UNCHANGED jobVars
    BY <1>19 DEF jobVars, JobTypeOK, PhaseMatchesJob, WorkDone, CompletedIsDone
<1>20. ASSUME NEW j \in GeocodeJob, Locate(j) PROVE CompletedIsDone'
    BY <1>20, JobConstantTypes DEF JobTypeOK, PhaseMatchesJob, WorkDone,
       CompletedIsDone, Locate
<1>21. ASSUME NEW d \in Device, Expire(d) PROVE CompletedIsDone'
    BY <1>21, JobConstantTypes DEF JobTypeOK, PhaseMatchesJob, WorkDone,
       CompletedIsDone, Expire
<1> QED
    BY <1>1, <1>2, <1>3, <1>4, <1>5, <1>6, <1>7, <1>8, <1>9, <1>10, <1>11,
       <1>12, <1>13, <1>14, <1>15, <1>16, <1>17, <1>18, <1>19, <1>20, <1>21
       DEF JobNext, Step

-----------------------------------------------------------------------------
(* What follows for the behaviours. *)

LEMMA JobInitInv == JobInit => JobInv
<1> SUFFICES ASSUME JobInit PROVE JobInv
    OBVIOUS
<1>1. JobTypeOK
  <2>1. \A j \in Job : jobs[j] \in Row
    BY Ranges, JobConstantTypes DEF JobInit, Row
  <2>2. jobs \in [Job -> Row]
    BY <2>1 DEF JobInit
  <2>3. runners \in [Runner -> Pass]
    BY IdleType DEF JobInit
  <2>4. mishaps \in 0..MaxMishaps
    BY JobConstantTypes DEF JobInit
  <2>5. configured \in BOOLEAN
    BY JobConstants DEF JobInit, JobConstants
  <2> QED
    BY <2>2, <2>3, <2>4, <2>5 DEF JobInit, JobTypeOK
<1>2. \A r \in Runner : /\ runners[r].phase = "IDLE" /\ runners[r].job = NoJob
                        /\ runners[r].left = 0
    BY DEF JobInit, IdlePass
<1>3. PhaseMatchesJob /\ LeaseIsRunners /\ WorkDone
    BY <1>2 DEF PhaseMatchesJob, LeaseIsRunners, WorkDone, Working
<1>4. CompletedIsDone
    BY DEF JobInit, CompletedIsDone, Job
<1> QED
    BY <1>1, <1>3, <1>4 DEF JobInv

LEMMA JobInductive == JobSpec => []JobInv
<1>1. JobInv /\ [JobNext]_jobVars => JobInv'
    BY TypeStep, PhaseStep, LeaseStep, WorkStep, DoneStep DEF JobInv
<1> QED
    BY JobInitInv, <1>1, PTL DEF JobSpec

\* Every value of the model has its type, for any number of passes, jobs and
\* devices.
THEOREM JobTypesCorrect == JobSpec => []JobTypeOK
<1>1. JobInv => JobTypeOK
    BY DEF JobInv
<1> QED
    BY JobInductive, <1>1, PTL

\* However many passes there are and however they are interleaved, two of them
\* work on the same job only when one has outlived its lease: the conditional
\* update of the claim is enough, no lock is needed.  service.ts:25-29.
THEOREM OneHolder == JobSpec => []LeaseExcludes
<1>1. ASSUME JobInv PROVE LeaseExcludes
  <2> SUFFICES ASSUME NEW r \in Runner, NEW s \in Runner, r # s, Working(r),
                      runners[r].job = runners[s].job,
                      runners[r].left # 0, runners[s].left # 0
               PROVE  FALSE
    BY DEF LeaseExcludes
  <2>1. runners[r].left > 0 /\ runners[s].left > 0
    BY <1>1, RunnerType DEF JobInv, Pass
  <2>2. Working(s)
    BY DEF Working
  <2> QED
    BY <1>1, <2>1, <2>2 DEF JobInv, LeaseIsRunners
<1> QED
    BY JobInductive, <1>1, PTL

\* A completed job has its address or, where Firebase is configured, has
\* reached every registered device whose token is accepted, whichever of the
\* passes that worked on it marked it, and whatever failed or crashed before.
\* service.ts:38-44, push/service.ts:90-114.
THEOREM CompletedJobsAreDone == JobSpec => []CompletedIsDone
<1>1. JobInv => CompletedIsDone
    BY DEF JobInv
<1> QED
    BY JobInductive, <1>1, PTL

\* No pass replaces the address of a visit, not even one that was overtaken
\* while it waited for the geocoder: only the first answer is written.
\* service.ts:33, 38.
THEOREM AddressNeverReplaced == JobSpec => AddressKept
<1>1. ASSUME JobInv, [JobNext]_jobVars
      PROVE  \A j \in GeocodeJob :
                addresses[j] # NoAddress => addresses'[j] = addresses[j]
  <2> SUFFICES ASSUME NEW j \in GeocodeJob, addresses[j] # NoAddress
               PROVE  addresses'[j] = addresses[j]
    OBVIOUS
  <2>1. CASE UNCHANGED addresses
    BY <2>1
  <2>2. ASSUME NEW r \in Runner, WriteAddress(r)
        PROVE  addresses'[j] = addresses[j]
    BY <1>1, <2>2 DEF WriteAddress, Writable, JobInv, JobTypeOK
  <2>3. ASSUME NEW r \in Runner, Step(r)
        PROVE  UNCHANGED addresses \/ WriteAddress(r)
    BY <2>3 DEF Step, BeginPass, EndPass, Claim, FindVisit, Geocode,
                FindDevices, Notify, EndDelivery, Finish, Fail
  <2>4. UNCHANGED addresses \/ \E r \in Runner : WriteAddress(r)
    BY <1>1, <2>3 DEF JobNext, Enqueue, Unregister, Outage, Recover, CountDown,
                      Locate, Expire,
                      DatabaseError, Crash, jobVars
  <2> QED
    BY <2>1, <2>2, <2>4
<1> QED
    BY JobInductive, <1>1, PTL DEF JobSpec, AddressKept
===============================================================================
