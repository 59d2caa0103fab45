------------------------------ MODULE FieldJobs -------------------------------
(***************************************************************************)
(* The durable jobs of field work, src/lib/field-jobs/service.ts: looking  *)
(* up the address of a check-in and notifying the managers' telephones.    *)
(* Any number of passes, one after each request and one from the scheduled *)
(* maintenance, work on the table field_jobs at a time; each leases a job  *)
(* before it works on it, and may be slower than its lease.                *)
(*                                                                         *)
(* Times are counted down in units of the first retry delay: wait is what  *)
(* is left until nextAttemptAt, left what is left until lockedUntil.       *)
(***************************************************************************)
EXTENDS Integers, FiniteSets

CONSTANTS
    GeocodeJob, PushJob,
    NoJob,
    Runner, NoRunner,       \* a runner's name stands for its lease token
    Address, NoAddress,
    Device,                 \* rows of push_devices of the recipients, with the
                            \* tokens they have when the jobs are enqueued
    Configurations,         \* whether Firebase is configured, or either
    Lease,                  \* 300 seconds
    MaxExponent, MaxWait,   \* 8 and an hour, which is less than 2 ^ 8 units
    MaxMishaps              \* bound: outages, crashes, errors, late runners

Job == GeocodeJob \cup PushJob

ASSUME JobConstants ==
    /\ GeocodeJob \cap PushJob = {}
    /\ NoJob \notin Job
    /\ NoRunner \notin Runner
    /\ NoAddress \notin Address
    /\ Configurations \subseteq BOOLEAN
    /\ {Lease, MaxWait} \subseteq Nat \ {0}
    /\ {MaxExponent, MaxMishaps} \subseteq Nat

VARIABLES
    jobs,
    addresses,      \* checkInAddress of the visit of a geocode job
    devices,        \* registered devices
    delivered,      \* devices that have shown the notification of a push job
    online,         \* the geocoder and the push service answer
    configured,     \* Firebase is configured, which is found out once
    located,        \* jobs for whose position the geocoder has an address; none
                    \* while GOOGLE_MAPS_SERVER_API_KEY is missing
    invalid,        \* devices whose token the push service refuses
    runners,
    mishaps

world == <<online, configured, located, invalid>>
jobVars == <<jobs, addresses, devices, delivered, world, runners, mishaps>>

\* attempts stops counting where the delay stops growing
Row == [state: {"ABSENT", "PENDING", "COMPLETED"}, attempts: 0..MaxExponent,
        wait: 0..MaxWait, left: 0..Lease, holder: Runner \cup {NoRunner}]

Pass == [phase: {"IDLE", "NEXT", "LOOKUP", "CALL", "WRITE", "SEND", "FINISH",
                 "FAIL"},
         todo: SUBSET Job,                  \* the rows read at the start,
         seen: [Job -> 0..MaxExponent],     \* and their attempts then
         job: Job \cup {NoJob},
         left: 0..Lease,                    \* of the lease of job
         address: Address \cup {NoAddress},
         targets: SUBSET Device,            \* devices still to be sent to
         failures: BOOLEAN,
         error: {"NONE", "SHORT", "LONG"}]

IdlePass == [phase |-> "IDLE", todo |-> {}, seen |-> [j \in Job |-> 0],
             job |-> NoJob, left |-> 0, address |-> NoAddress, targets |-> {},
             failures |-> FALSE, error |-> "NONE"]

JobTypeOK ==
    /\ jobs \in [Job -> Row]
    /\ addresses \in [GeocodeJob -> Address \cup {NoAddress}]
    /\ devices \subseteq Device
    /\ delivered \in [PushJob -> SUBSET Device]
    /\ online \in BOOLEAN /\ configured \in BOOLEAN
    /\ located \subseteq GeocodeJob
    /\ invalid \subseteq Device
    /\ runners \in [Runner -> Pass]
    /\ mishaps \in 0..MaxMishaps

JobInit ==
    /\ jobs = [j \in Job |-> [state |-> "ABSENT", attempts |-> 0, wait |-> 0,
                              left |-> 0, holder |-> NoRunner]]
    /\ addresses = [j \in GeocodeJob |-> NoAddress]
    /\ devices = Device
    /\ delivered = [j \in PushJob |-> {}]
    /\ online = TRUE
    /\ configured \in Configurations
    /\ located = {}
    /\ invalid = {}
    /\ runners = [r \in Runner |-> IdlePass]
    /\ mishaps = 0

Working(r) == runners[r].job # NoJob

-----------------------------------------------------------------------------
(* The surroundings. *)

\* enqueueFieldEvent and enqueueVisitAddress, in the transaction of the
\* attendance or visit; a second time changes nothing
Enqueue(j) ==
    /\ jobs[j].state = "ABSENT"
    /\ jobs' = [jobs EXCEPT ![j].state = "PENDING"]
    /\ UNCHANGED <<addresses, devices, delivered, world, runners, mishaps>>

\* sign-out, the end of the mobile session, or a new token in the row
Unregister(d) ==
    /\ d \in devices
    /\ devices' = devices \ {d}
    /\ UNCHANGED <<jobs, addresses, delivered, world, runners, mishaps>>

Mishap == mishaps < MaxMishaps /\ mishaps' = mishaps + 1

Outage ==
    /\ online
    /\ Mishap
    /\ online' = FALSE
    /\ UNCHANGED <<jobs, addresses, devices, delivered, configured, located,
                   invalid, runners>>

Recover ==
    /\ ~online
    /\ online' = TRUE
    /\ UNCHANGED <<jobs, addresses, devices, delivered, configured, located,
                   invalid, runners, mishaps>>

\* the key of the geocoder is configured, or it learns the place
Locate(j) ==
    /\ j \notin located
    /\ located' = located \cup {j}
    /\ UNCHANGED <<jobs, addresses, devices, delivered, online, configured,
                   invalid, runners, mishaps>>

\* the application is removed from the telephone, or its token is replaced
Expire(d) ==
    /\ d \notin invalid
    /\ invalid' = invalid \cup {d}
    /\ UNCHANGED <<jobs, addresses, devices, delivered, online, configured,
                   located, runners, mishaps>>

Down(n) == IF n = 0 THEN 0 ELSE n - 1

\* a runner whose lease runs out while it works is late
CountDown ==
    /\ \/ \E j \in Job : jobs[j].wait > 0
       \/ \E j \in Job : jobs[j].left > 0
       \/ \E r \in Runner : runners[r].left > 0
    /\ IF \E r \in Runner : runners[r].left = 1 THEN Mishap
                                                ELSE UNCHANGED mishaps
    /\ jobs' = [j \in Job |-> [jobs[j] EXCEPT !.wait = Down(@),
                                              !.left = Down(@)]]
    /\ runners' = [r \in Runner |-> [runners[r] EXCEPT !.left = Down(@)]]
    /\ UNCHANGED <<addresses, devices, delivered, world>>

-----------------------------------------------------------------------------
(* processFieldJobs. *)

DueWhileAttemptsLeft(j) ==
    /\ jobs[j].state = "PENDING"
    /\ jobs[j].wait = 0 /\ jobs[j].left = 0
    /\ MaxExponent > 0 => jobs[j].attempts < MaxExponent

Due(j) ==
    /\ jobs[j].state = "PENDING"
    /\ jobs[j].wait = 0 /\ jobs[j].left = 0

BeginPass(r) ==
    LET due == {j \in Job : Due(j)}
    IN  /\ runners[r].phase = "IDLE"
        /\ due # {}
        /\ runners' = [runners EXCEPT ![r] = [IdlePass EXCEPT
                          !.phase = "NEXT",
                          !.todo = due,
                          !.seen = [j \in Job |-> IF j \in due
                                       THEN jobs[j].attempts ELSE 0]]]
        /\ UNCHANGED <<jobs, addresses, devices, delivered, world, mishaps>>

EndPass(r) ==
    /\ runners[r].phase = "NEXT"
    /\ runners[r].todo = {}
    /\ runners' = [runners EXCEPT ![r] = IdlePass]
    /\ UNCHANGED <<jobs, addresses, devices, delivered, world, mishaps>>

FreeWhenRead(j) == jobs[j].state = "PENDING"

\* the condition of the claim, which is the row's at that moment; it does
\* not look at nextAttemptAt again
Free(j) == jobs[j].state = "PENDING" /\ jobs[j].left = 0

Claim(r, j) ==
    /\ runners[r].phase = "NEXT"
    /\ j \in runners[r].todo
    /\ IF Free(j)
       THEN /\ jobs' = [jobs EXCEPT ![j].holder = r, ![j].left = Lease]
            /\ runners' = [runners EXCEPT ![r].phase = "LOOKUP",
                              ![r].todo = @ \ {j}, ![r].job = j,
                              ![r].left = Lease]
       ELSE /\ runners' = [runners EXCEPT ![r].todo = @ \ {j}]
            /\ UNCHANGED jobs
    /\ UNCHANGED <<addresses, devices, delivered, world, mishaps>>

\* the visit without an address
FindVisit(r) ==
    /\ runners[r].phase = "LOOKUP"
    /\ runners[r].job \in GeocodeJob
    /\ runners' = [runners EXCEPT ![r].phase =
                      IF addresses[runners[r].job] = NoAddress
                      THEN "CALL" ELSE "FINISH"]
    /\ UNCHANGED <<jobs, addresses, devices, delivered, world, mishaps>>

\* reverseGeocode gives null for every failure and for a position without an
\* address, which makes the job fail, as does a missing key
Geocode(r, address) ==
    /\ runners[r].phase = "CALL"
    /\ runners' = [runners EXCEPT ![r] =
                      IF online /\ runners[r].job \in located
                      THEN [@ EXCEPT !.phase = "WRITE", !.address = address]
                      ELSE [@ EXCEPT !.phase = "FAIL", !.error = "SHORT"]]
    /\ UNCHANGED <<jobs, addresses, devices, delivered, world, mishaps>>

AlwaysWritable(j) == TRUE

\* the condition of the update that writes the address
Writable(j) == addresses[j] = NoAddress

WriteAddress(r) ==
    LET j == runners[r].job
    IN  /\ runners[r].phase = "WRITE"
        /\ addresses' = IF Writable(j)
                        THEN [addresses EXCEPT ![j] = runners[r].address]
                        ELSE addresses
        /\ runners' = [runners EXCEPT ![r].phase = "FINISH",
                                      ![r].address = NoAddress]
        /\ UNCHANGED <<jobs, devices, delivered, world, mishaps>>

\* resolvePushDevices
FindDevices(r) ==
    /\ runners[r].phase = "LOOKUP"
    /\ runners[r].job \in PushJob
    /\ runners' = [runners EXCEPT ![r].phase = "SEND",
                                  ![r].targets = devices]
    /\ UNCHANGED <<jobs, addresses, devices, delivered, world, mishaps>>

\* sendFcm to one device.  Without Firebase it sends nothing and fails not; a
\* refused token is no failure either, and its row is deleted unless the
\* deletion fails, which is ignored.
Notify(r, d, deletes) ==
    LET j == runners[r].job
        reached == configured /\ online /\ d \notin invalid
        refused == configured /\ online /\ d \in invalid
    IN  /\ runners[r].phase = "SEND"
        /\ d \in runners[r].targets
        /\ delivered' = IF reached THEN [delivered EXCEPT ![j] = @ \cup {d}]
                                   ELSE delivered
        /\ devices' = IF refused /\ deletes THEN devices \ {d} ELSE devices
        /\ runners' = [runners EXCEPT ![r].targets = @ \ {d},
                          ![r].failures = @ \/ (configured /\ ~online)]
        /\ UNCHANGED <<jobs, addresses, world, mishaps>>

NeverFails(r) == FALSE

\* strict: a device that was not reached makes the whole job fail
DeliveryFails(r) == runners[r].failures

EndDelivery(r) ==
    /\ runners[r].phase = "SEND"
    /\ runners[r].targets = {}
    /\ runners' = [runners EXCEPT ![r] =
                      IF DeliveryFails(r)
                      THEN [@ EXCEPT !.phase = "FAIL", !.error = "SHORT",
                                     !.failures = FALSE]
                      ELSE [@ EXCEPT !.phase = "FINISH",
                                     !.failures = FALSE]]
    /\ UNCHANGED <<jobs, addresses, devices, delivered, world, mishaps>>

\* the lease token still is this runner's
Held(r, j) == jobs[j].holder = r

OnToNext(pass) == [pass EXCEPT !.phase = "NEXT", !.job = NoJob, !.left = 0,
                            !.error = "NONE"]

Finish(r) ==
    LET j == runners[r].job
    IN  /\ runners[r].phase = "FINISH"
        /\ jobs' = IF Held(r, j)
                   THEN [jobs EXCEPT ![j].state = "COMPLETED",
                                     ![j].holder = NoRunner, ![j].left = 0]
                   ELSE jobs
        /\ runners' = [runners EXCEPT ![r] = OnToNext(@)]
        /\ UNCHANGED <<addresses, devices, delivered, world, mishaps>>

\* the delay before the next attempt, from the attempts read at the start
Backoff(attempts) == IF 2 ^ attempts \in 0..MaxWait THEN 2 ^ attempts
                                               ELSE MaxWait

Failed(row, attempts) ==
    [row EXCEPT !.attempts = IF @ < MaxExponent THEN @ + 1 ELSE @,
                !.wait = Backoff(attempts), !.left = 0, !.holder = NoRunner]

\* the handler of the error; a message longer than the column lastError makes
\* its update fail, which ends the pass
Fail(r) ==
    LET j == runners[r].job
    IN  /\ runners[r].phase = "FAIL"
        /\ IF Held(r, j) /\ runners[r].error = "LONG"
           THEN /\ runners' = [runners EXCEPT ![r] = IdlePass]
                /\ UNCHANGED jobs
           ELSE /\ runners' = [runners EXCEPT ![r] = OnToNext(@)]
                /\ jobs' = IF Held(r, j)
                           THEN [jobs EXCEPT
                                   ![j] = Failed(@, runners[r].seen[j])]
                           ELSE jobs
        /\ UNCHANGED <<addresses, devices, delivered, world, mishaps>>

\* a statement of the job fails; the client's messages are long
DatabaseError(r) ==
    /\ runners[r].phase \in {"LOOKUP", "WRITE", "FINISH"}
    /\ Mishap
    /\ runners' = [runners EXCEPT ![r].phase = "FAIL", ![r].error = "LONG",
                                  ![r].address = NoAddress]
    /\ UNCHANGED <<jobs, addresses, devices, delivered, world>>

\* the process ends, or a statement outside the try fails
Crash(r) ==
    /\ runners[r].phase # "IDLE"
    /\ Mishap
    /\ runners' = [runners EXCEPT ![r] = IdlePass]
    /\ UNCHANGED <<jobs, addresses, devices, delivered, world>>

-----------------------------------------------------------------------------
Step(r) ==
    \/ BeginPass(r)
    \/ EndPass(r)
    \/ \E j \in Job : Claim(r, j)
    \/ FindVisit(r)
    \/ \E address \in Address : Geocode(r, address)
    \/ WriteAddress(r)
    \/ FindDevices(r)
    \/ \E d \in Device, deletes \in BOOLEAN : Notify(r, d, deletes)
    \/ EndDelivery(r)
    \/ Finish(r)
    \/ Fail(r)

JobNext ==
    \/ \E j \in Job : Enqueue(j)
    \/ \E d \in Device : Unregister(d)
    \/ Outage
    \/ Recover
    \/ \E j \in GeocodeJob : Locate(j)
    \/ \E d \in Device : Expire(d)
    \/ CountDown
    \/ \E r \in Runner : Step(r)
    \/ \E r \in Runner : DatabaseError(r)
    \/ \E r \in Runner : Crash(r)

JobSpec == JobInit /\ [][JobNext]_jobVars

\* the maintenance runs again and again, time goes on, an outage ends
JobFairness ==
    /\ WF_jobVars(Recover)
    /\ WF_jobVars(CountDown)
    /\ \A r \in Runner : WF_jobVars(Step(r))

JobFairSpec == JobSpec /\ JobFairness

-----------------------------------------------------------------------------
(* Properties. *)

\* Two runners work on the same job only if one of them has outlived its
\* lease, though each acts on rows it read earlier.  service.ts:25-29.
LeaseExcludes ==
    \A r, s \in Runner :
        (r # s /\ Working(r) /\ runners[r].job = runners[s].job)
            => runners[r].left = 0 \/ runners[s].left = 0

\* A job is marked as completed only when its work is done: the visit has an
\* address; where Firebase is configured, every device registered since before
\* the job has been notified, unless its token is refused, be its row deleted
\* or not.  service.ts:38-44, push/service.ts:90-114, firebase.ts:19-30.
CompletedIsDone ==
    /\ \A j \in GeocodeJob :
          jobs[j].state = "COMPLETED" => addresses[j] # NoAddress
    /\ configured => \A j \in PushJob :
          jobs[j].state = "COMPLETED"
              => devices \subseteq delivered[j] \cup invalid

\* The address of a visit, once written, is never replaced, not even by a
\* runner that outlived its lease and was answered differently.
\* service.ts:33, 38.
AddressKept ==
    [][\A j \in GeocodeJob :
          addresses[j] # NoAddress => addresses'[j] = addresses[j]]_jobVars

\* Every notification that was enqueued is completed at last, and every address
\* from the time the geocoder has one, after any finite number of outages,
\* crashes, errors and late runners, and however often the job has failed
\* before: no number of attempts ends it.
\* docs/review-18-implementation.md:21, "Missing Maps configuration no longer
\* falsely completes a geocode job and remains retryable".
Answerable(j) == j \in PushJob \cup located

JobsComplete ==
    \A j \in Job : (jobs[j].state = "PENDING" /\ Answerable(j))
                     ~> (jobs[j].state = "COMPLETED")

=============================================================================
