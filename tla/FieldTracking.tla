---------------------------- MODULE FieldTracking -----------------------------
(***************************************************************************)
(* The track of a field employee: the telephone captures points while      *)
(* attendance is on, keeps them in a queue that outlives the network and   *)
(* the session, and uploads them in batches that may be interrupted and    *)
(* sent again; the server stores each under the attendance during which it *)
(* was captured.                                                           *)
(*   telephone: TrackingService.kt, Queue.kt, LocationSyncEngine.kt,       *)
(*              LocationSyncWorker.kt, MainViewModel.kt                    *)
(*   server:    locations/batch/route.ts, mobile/attendance.ts             *)
(*                                                                         *)
(* One telephone, used by several accounts in turn.  Clocks agree.  A      *)
(* request that the telephone has given up may still run on the server,    *)
(* beside the one that repeats it.                                         *)
(***************************************************************************)
EXTENDS Integers, Sequences, FiniteSets

CONSTANTS
    User, NoUser,
    Id,                 \* client point ids, drawn at random by the telephone
    Place,              \* two places are at least the minimum movement apart
    MaxRequests,        \* requests that may be under way at a time
    BatchSize,          \* points of a batch, 50 in the code
    QueueLimit,         \* points kept for an account, 10000 in the code
    MaxAge,             \* age from which a point is refused, 24 hours
    MinInterval,        \* least interval of points of one place, 15 seconds
    MaxTime, MaxAttendances, MaxLogins,     \* bounds of the model
    MaxInterruptions    \* lost requests and answers, stopped workers

ASSUME TrackingConstants ==
    /\ NoUser \notin User
    /\ Id \subseteq Nat
    /\ {BatchSize, QueueLimit, MaxRequests} \subseteq Nat \ {0}
    /\ {MaxAge, MinInterval, MaxTime, MaxAttendances, MaxLogins,
        MaxInterruptions} \subseteq Nat

VARIABLES
    now,
    gps,            \* the company's setting gpsTrackingEnabled
    attendances,    \* with the location points stored under each, in sequence
    requests,       \* batch requests the server is working on
    session,        \* the account signed in on the telephone
    scheduled,      \* accounts whose upload is enqueued with WorkManager
    tracking,       \* the telephone's preference attendance_active
    queue,          \* pending_locations
    discarded,      \* ids of the points counted in discardedCount
    captured,       \* all points ever captured
    worker,         \* the upload in progress, at most one (uploadLock)
    interruptions

server == <<gps, attendances>>
phone == <<session, scheduled, tracking, queue, discarded, captured>>
vars == <<now, gps, attendances, requests, session, scheduled, tracking,
          queue, discarded, captured, worker, interruptions>>

Open == -1      \* the end of an attendance that is on
Time == 0..MaxTime
Point == [id: Id, owner: User, time: Time, place: Place]
Verdict == {"ACKNOWLEDGED", "CAPTURE_TIME_INVALID", "NO_OPEN_ATTENDANCE",
            "THROTTLED"}
Attendance == [user: User, start: Time, end: Time \cup {Open},
               track: Seq(Point)]
Result == [point: Point, verdict: Verdict]
\* rest are the points still to be worked on, found is the attendance whose
\* lock the first of them waits for, or 0
Request == [slot: 1..MaxRequests, user: User, rest: SUBSET Point,
            results: SUBSET Result, found: Nat,
            error: {"NONE", "GPS_DISABLED", "SERVER_ERROR"}]
Worker == [phase: {"IDLE", "READY", "WAITING", "HANDLING"},
           user: User \cup {NoUser}, token: Nat, slot: 0..MaxRequests,
           results: SUBSET Result]
Idle == [phase |-> "IDLE", user |-> NoUser, token |-> 0, slot |-> 0,
         results |-> {}]

PendingOf(u) == {p \in queue : p.owner = u}

TypeOK ==
    /\ now \in Time
    /\ gps \in BOOLEAN
    /\ attendances \in Seq(Attendance)
    /\ requests \subseteq Request
    /\ session \in [user: User \cup {NoUser}, token: 0..MaxLogins]
    /\ scheduled \subseteq User
    /\ tracking \in BOOLEAN
    /\ queue \subseteq Point
    /\ \A u \in User : Cardinality(PendingOf(u)) <= QueueLimit
    /\ discarded \subseteq Id
    /\ captured \subseteq Point
    /\ worker \in Worker
    /\ interruptions \in 0..MaxInterruptions

Init ==
    /\ now = 0
    /\ gps = TRUE
    /\ attendances = <<>>
    /\ requests = {}
    /\ session = [user |-> NoUser, token |-> 0]
    /\ scheduled = {}
    /\ tracking = FALSE
    /\ queue = {}
    /\ discarded = {}
    /\ captured = {}
    /\ worker = Idle
    /\ interruptions = 0

Tick ==
    /\ now < MaxTime
    /\ now' = now + 1
    /\ UNCHANGED <<server, phone, requests, worker, interruptions>>

SetGps ==
    /\ gps' = ~gps
    /\ UNCHANGED <<now, attendances, phone, requests, worker, interruptions>>

-----------------------------------------------------------------------------
(* The telephone. *)

OpenOf(u) == {a \in DOMAIN attendances :
                attendances[a].user = u /\ attendances[a].end = Open}

Before(p, q) == p.time < q.time \/ (p.time = q.time /\ p.id < q.id)

\* applyBootstrap of an account that may use the field workspace
ShouldTrack(u) == gps /\ OpenOf(u) # {}

\* it enqueues the upload only while the company tracks, and takes nothing
\* out of the work that is enqueued already
ScheduledFor(u) == IF gps THEN scheduled \cup {u} ELSE scheduled

Login(u) ==
    /\ session.user = NoUser
    /\ session.token < MaxLogins
    /\ session' = [user |-> u, token |-> session.token + 1]
    /\ scheduled' = ScheduledFor(u)
    /\ tracking' = ShouldTrack(u)
    /\ UNCHANGED <<now, server, requests, queue, discarded, captured, worker,
                   interruptions>>

\* logout and secureSignOut: the queue stays, for the same account to send,
\* but the work that would send it is cancelled
SignOut ==
    /\ session.user # NoUser
    /\ session' = [session EXCEPT !.user = NoUser]
    /\ scheduled' = scheduled \ {session.user}
    /\ tracking' = FALSE
    /\ UNCHANGED <<now, server, requests, queue, discarded, captured, worker,
                   interruptions>>

\* the telephone asks the server again what it should do
Bootstrap ==
    /\ session.user # NoUser
    /\ scheduled' = ScheduledFor(session.user)
    /\ tracking' = ShouldTrack(session.user)
    /\ UNCHANGED <<now, server, requests, session, queue, discarded, captured,
                   worker, interruptions>>

\* the button "Retry sync" of the GPS card, whatever the company's setting
RetrySync ==
    /\ session.user # NoUser
    /\ PendingOf(session.user) # {}
    /\ worker.phase = "IDLE"
    /\ scheduled' = scheduled \cup {session.user}
    /\ UNCHANGED <<now, server, requests, session, tracking, queue, discarded,
                   captured, worker, interruptions>>

\* an answer to START or END enqueues the upload, whatever the setting
ScheduledAfter(answered) ==
    IF answered THEN scheduled \cup {session.user} ELSE scheduled

\* mobileAttendanceAction and the telephone's reaction to its answer, which
\* may be lost
StartAttendance(answered) ==
    /\ session.user # NoUser
    /\ Len(attendances) < MaxAttendances
    /\ OpenOf(session.user) = {}
    /\ attendances' = Append(attendances, [user |-> session.user,
                        start |-> now, end |-> Open, track |-> <<>>])
    /\ scheduled' = ScheduledAfter(answered)
    /\ tracking' = IF answered THEN gps ELSE tracking
    /\ UNCHANGED <<now, gps, requests, session, queue, discarded, captured,
                   worker, interruptions>>

EndAttendance(answered) ==
    /\ session.user # NoUser
    /\ \E a \in OpenOf(session.user) :
          attendances' = [attendances EXCEPT ![a].end = now]
    /\ scheduled' = ScheduledAfter(answered)
    /\ tracking' = (tracking /\ ~answered)
    /\ UNCHANGED <<now, gps, requests, session, queue, discarded, captured,
                   worker, interruptions>>

\* the points that enqueue deletes when an account has more than the limit
Overflow(pending) ==
    {p \in pending :
        Cardinality({q \in pending : Before(p, q)}) >= QueueLimit}

Capture(id, place) ==
    /\ tracking
    /\ session.user # NoUser
    /\ \A p \in captured : p.id # id
    /\ LET point == [id |-> id, owner |-> session.user, time |-> now,
                     place |-> place]
           pending == PendingOf(session.user) \cup {point}
           lost == Overflow(pending)
       IN  /\ captured' = captured \cup {point}
           /\ queue' = (queue \cup {point}) \ lost
           /\ discarded' = discarded \cup {p.id : p \in lost}
    /\ scheduled' = scheduled \cup {session.user}
    /\ UNCHANGED <<now, server, requests, session, tracking, worker,
                   interruptions>>

-----------------------------------------------------------------------------
(* The upload: LocationSyncWorker around LocationSyncEngine. *)

\* the first points of the account, in the order of their capture
Batch(u) ==
    {p \in PendingOf(u) :
        Cardinality({q \in PendingOf(u) : Before(q, p)}) < BatchSize}

First(p, points) == p \in points /\ \A q \in points \ {p} : Before(p, q)

CurrentOwner == session = [user |-> worker.user, token |-> worker.token]

\* WorkManager runs the work it has been given; work of another account than
\* the one signed in fails at once
WorkerStart ==
    /\ worker.phase = "IDLE"
    /\ session.user \in scheduled
    /\ PendingOf(session.user) # {}
    /\ worker' = [Idle EXCEPT !.phase = "READY", !.user = session.user,
                              !.token = session.token]
    /\ UNCHANGED <<now, server, phone, requests, interruptions>>

\* the account has changed, which cancels the work even while it waits for an
\* answer, or nothing is left to send
WorkerStop ==
    /\ \/ worker.phase # "IDLE" /\ ~CurrentOwner
       \/ worker.phase = "READY" /\ PendingOf(worker.user) = {}
    /\ worker' = Idle
    /\ UNCHANGED <<now, server, phone, requests, interruptions>>

Send(i) ==
    /\ worker.phase = "READY"
    /\ CurrentOwner
    /\ PendingOf(worker.user) # {}
    /\ \A r \in requests : r.slot # i
    /\ requests' = requests \cup
          {[slot |-> i, user |-> worker.user, rest |-> Batch(worker.user),
            results |-> {}, found |-> 0, error |-> "NONE"]}
    /\ worker' = [worker EXCEPT !.phase = "WAITING", !.slot = i]
    /\ UNCHANGED <<now, server, phone, interruptions>>

Running(r) == r.rest # {} /\ r.error = "NONE"

Awaited(i) == worker.phase = "WAITING" /\ worker.slot = i

\* the answer to the whole batch; a company without tracking stops it
Receive(r) ==
    /\ Awaited(r.slot)
    /\ ~Running(r)
    /\ requests' = requests \ {r}
    /\ worker' = IF CurrentOwner /\ r.error = "NONE"
                 THEN [worker EXCEPT !.phase = "HANDLING",
                                     !.results = r.results]
                 ELSE Idle
    /\ tracking' = (tracking /\ ~(CurrentOwner /\ r.error = "GPS_DISABLED"))
    /\ UNCHANGED <<now, server, session, scheduled, queue, discarded, captured,
                   interruptions>>

RejectedUnlessThrottled(verdict) ==
    verdict \notin {"ACKNOWLEDGED", "THROTTLED"}

\* results that make the telephone count the point as discarded
Rejected(verdict) == verdict # "ACKNOWLEDGED"

\* acknowledge or discard the next point of the batch
HandleResult(result) ==
    /\ worker.phase = "HANDLING"
    /\ CurrentOwner
    /\ First(result.point, {s.point : s \in worker.results})
    /\ queue' = queue \ {result.point}
    /\ discarded' = IF Rejected(result.verdict)
                    THEN discarded \cup {result.point.id} ELSE discarded
    /\ worker' = [worker EXCEPT
                    !.results = @ \ {result},
                    !.phase = IF worker.results = {result} THEN "READY"
                                                           ELSE @]
    /\ UNCHANGED <<now, server, requests, session, scheduled, tracking,
                   captured, interruptions>>

\* the answer will not come
Timeout ==
    /\ worker.phase = "WAITING"
    /\ \A r \in requests : r.slot # worker.slot
    /\ worker' = Idle
    /\ UNCHANGED <<now, server, phone, requests, interruptions>>

\* the worker is cancelled, replaced, times out or dies with the process
Interrupt ==
    /\ interruptions < MaxInterruptions
    /\ worker.phase # "IDLE"
    /\ worker' = Idle
    /\ interruptions' = interruptions + 1
    /\ UNCHANGED <<now, server, phone, requests>>

-----------------------------------------------------------------------------
(* The server. *)

StoredIn(a) == {attendances[a].track[k] : k \in DOMAIN attendances[a].track}

Stored == UNION {StoredIn(a) : a \in DOMAIN attendances}

Known(u, p) == \E q \in Stored : q.owner = u /\ q.id = p.id

OpenAttendance(u, p) == OpenOf(u)

\* the attendances that were on when the point was captured
AttendancesAt(u, p) ==
    {a \in DOMAIN attendances :
        /\ attendances[a].user = u
        /\ attendances[a].start <= p.time
        /\ attendances[a].end = Open \/ attendances[a].end >= p.time}

AcceptableAnyOrder(track, p) ==
    track # <<>> => \/ p.time - track[Len(track)].time >= MinInterval
                    \/ p.place # track[Len(track)].place

\* shouldAcceptLocationPoint
Acceptable(track, p) ==
    track # <<>> => /\ p.time >= track[Len(track)].time
                    /\ \/ p.time - track[Len(track)].time >= MinInterval
                       \/ p.place # track[Len(track)].place

AnsweredAllOrNothing(r, p, verdict) ==
    IF verdict = "ACKNOWLEDGED"
    THEN [r EXCEPT !.rest = @ \ {p}, !.found = 0,
                   !.results = @ \cup {[point |-> p, verdict |-> verdict]}]
    ELSE [r EXCEPT !.error = "SERVER_ERROR"]

\* the batch goes on with the next point, whatever became of this one
Answered(r, p, verdict) ==
    [r EXCEPT !.rest = @ \ {p}, !.found = 0,
              !.results = @ \cup {[point |-> p, verdict |-> verdict]}]

Continue(r, next) == requests' = (requests \ {r}) \cup {next}

Expired(p) == now - p.time > MaxAge

\* mobileUploadPoint up to the lock of the attendance row; of several
\* attendances it takes the one that started last
Lookup(r, p) ==
    LET found == AttendancesAt(r.user, p)
    IN  /\ Running(r)
        /\ r.found = 0
        /\ First(p, r.rest)
        /\ \/ /\ Known(r.user, p)
              /\ Continue(r, Answered(r, p, "ACKNOWLEDGED"))
           \/ /\ ~Known(r.user, p) /\ Expired(p)
              /\ Continue(r, Answered(r, p, "CAPTURE_TIME_INVALID"))
           \/ /\ ~Known(r.user, p) /\ ~Expired(p) /\ ~gps
              /\ Continue(r, [r EXCEPT !.error = "GPS_DISABLED"])
           \/ /\ ~Known(r.user, p) /\ ~Expired(p) /\ gps /\ found = {}
              /\ Continue(r, Answered(r, p, "NO_OPEN_ATTENDANCE"))
           \/ /\ ~Known(r.user, p) /\ ~Expired(p) /\ gps
              /\ \E a \in found :
                    /\ \A b \in found : b <= a
                    /\ Continue(r, [r EXCEPT !.found = a])
        /\ UNCHANGED <<now, server, phone, worker, interruptions>>

UniqueUnchecked(u, p) == TRUE

\* the unique index on the client's point id
Unique(u, p) == ~Known(u, p)

\* the rest of mobileUploadPoint, under the lock: what another request
\* stored meanwhile is seen here
StorePoint(r, p) ==
    LET track == attendances[r.found].track
    IN  /\ Running(r)
        /\ r.found # 0
        /\ First(p, r.rest)
        /\ \/ /\ ~Acceptable(track, p)
              /\ Continue(r, Answered(r, p, "THROTTLED"))
              /\ UNCHANGED attendances
           \/ /\ Acceptable(track, p) /\ ~Unique(r.user, p)
              /\ Continue(r, [r EXCEPT !.error = "SERVER_ERROR"])
              /\ UNCHANGED attendances
           \/ /\ Acceptable(track, p) /\ Unique(r.user, p)
              /\ attendances' = [attendances EXCEPT
                                   ![r.found].track = Append(@, p)]
              /\ Continue(r, Answered(r, p, "ACKNOWLEDGED"))
        /\ UNCHANGED <<now, gps, phone, worker, interruptions>>

\* the request is lost on its way, or the server dies while working on it
Lose(r) ==
    /\ interruptions < MaxInterruptions
    /\ requests' = requests \ {r}
    /\ interruptions' = interruptions + 1
    /\ UNCHANGED <<now, server, phone, worker>>

\* an answer for which nobody waits
Forget(r) ==
    /\ ~Running(r)
    /\ ~Awaited(r.slot)
    /\ requests' = requests \ {r}
    /\ UNCHANGED <<now, server, phone, worker, interruptions>>

-----------------------------------------------------------------------------
Next ==
    \/ Tick
    \/ SetGps
    \/ \E u \in User : Login(u)
    \/ SignOut
    \/ Bootstrap
    \/ RetrySync
    \/ \E answered \in BOOLEAN : StartAttendance(answered)
    \/ \E answered \in BOOLEAN : EndAttendance(answered)
    \/ \E id \in Id, place \in Place : Capture(id, place)
    \/ WorkerStart
    \/ WorkerStop
    \/ \E i \in 1..MaxRequests : Send(i)
    \/ \E r \in requests : Receive(r)
    \/ \E result \in worker.results : HandleResult(result)
    \/ Timeout
    \/ Interrupt
    \/ \E r \in requests : \E p \in r.rest : Lookup(r, p)
    \/ \E r \in requests : \E p \in r.rest : StorePoint(r, p)
    \/ \E r \in requests : Lose(r)
    \/ \E r \in requests : Forget(r)

Spec == Init /\ [][Next]_vars

\* WorkManager runs the upload that is enqueued again and again while there is
\* a network, the periodic work every 15 minutes, and the server works on what
\* it has received; nothing forces the user, who may leave it not enqueued,
\* the clock, the company's administrator or a failure
Fairness ==
    /\ WF_vars(WorkerStart)
    /\ WF_vars(WorkerStop)
    /\ WF_vars(\E i \in 1..MaxRequests : Send(i))
    /\ WF_vars(\E r \in requests : Receive(r))
    /\ WF_vars(\E result \in worker.results : HandleResult(result))
    /\ WF_vars(Timeout)
    /\ WF_vars(\E r \in requests : \E p \in r.rest :
                   Lookup(r, p) \/ StorePoint(r, p))
    /\ WF_vars(\E r \in requests : Forget(r))

FairSpec == Spec /\ Fairness

-----------------------------------------------------------------------------
(* Properties. *)

\* Every point of a track was captured by the account the track belongs to,
\* while that attendance was on: neither the next login on the same telephone
\* nor an attendance started before the upload gets it.
\* docs/android-physical-field-test.md:32, mobile/attendance.ts:14.
TracksAreTrue ==
    \A a \in DOMAIN attendances : \A p \in StoredIn(a) :
        /\ p.owner = attendances[a].user
        /\ attendances[a].start <= p.time
        /\ attendances[a].end = Open \/ p.time <= attendances[a].end

\* A track is in the order of capture, whatever the order in which repeated,
\* interrupted and overlapping batches arrive.
\* docs/android-physical-field-test.md:30, "route ordering is preserved".
RouteInOrder ==
    \A a \in DOMAIN attendances :
        LET track == attendances[a].track
        IN  \A j, k \in DOMAIN track : j < k => track[j].time <= track[k].time

\* A point is stored once, however often it is sent and whatever attendance
\* each sending finds.  docs/android-physical-field-test.md:30, "queued points
\* upload once".
StoredOnce ==
    \A a, b \in DOMAIN attendances :
        \A j \in DOMAIN attendances[a].track,
           k \in DOMAIN attendances[b].track :
            attendances[a].track[j].id = attendances[b].track[k].id
                => a = b /\ j = k

\* No point disappears: it is pending, stored, or counted as discarded; in
\* particular the telephone forgets as acknowledged only what is stored.
NothingLostSilently ==
    \A p \in captured : p \in queue \/ p \in Stored \/ p.id \in discarded

\* Points of the account that is signed in wait to be sent, while the telephone
\* tracks or the upload is enqueued; another account signs in only after a
\* sign-out, when nothing waits.  An account that signs in while the company
\* does not track has nothing enqueued, and keeps its queue until it captures
\* a point, turns its attendance on or off, restarts the application or asks
\* for the upload.
Waiting ==
    /\ gps
    /\ session.user # NoUser
    /\ tracking \/ session.user \in scheduled
    /\ PendingOf(session.user) # {}

\* Once nothing interrupts the uploads any more, an account that stays signed
\* in and tracked gets its queue empty, whoever used the telephone before and
\* whatever is left of earlier uploads.
\* docs/android-physical-field-test.md:30, "pending count reaches zero".
PendingReachesZero == Waiting ~> ~Waiting

\* The answer to a point that is already stored is its acknowledgement, so
\* that the telephone does not count it as discarded.
\* docs/WEB_API_FREEZE.md:108, src/lib/mobile/contract.ts:144.
RetryIsAcknowledged ==
    [][\A r \in requests, next \in requests' : \A result \in next.results :
          (/\ next.slot = r.slot /\ r.results \subseteq next.results
           /\ result \notin r.results
           /\ Known(r.user, result.point))
          => result.verdict = "ACKNOWLEDGED"]_vars

=============================================================================
