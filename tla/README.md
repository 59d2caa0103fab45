# SalesPunch360: verification

SalesPunch360 is a Next.js, Prisma and PostgreSQL server for accounting,
commerce, projects and field sales, with an Android application that captures
the route of field employees. This directory holds TLA+ models of its parts
that are hard to test, the TLC configurations that check them on small
instances, and proofs of their safety properties for all values of the
constants. Paths are relative to the repository.

1. [The system](#1-the-system)
2. [Modules](#2-modules)
3. [Ledger](#3-ledger)
4. [Receivables](#4-receivables)
5. [FieldTracking](#5-fieldtracking)
6. [FieldJobs](#6-fieldjobs)
7. [Access](#7-access)
8. [Materials](#8-materials)
9. [Expenses](#9-expenses)
10. [OwnerFunds](#10-ownerfunds)
11. [Runs and bounds](#11-runs-and-bounds)
12. [Proofs](#12-proofs)
13. [Findings](#13-findings)
14. [What is not modelled](#14-what-is-not-modelled)
15. [Plan](#15-plan)

## 1. The system

### Components

| Component | State | Operations | What makes it correct |
| --- | --- | --- | --- |
| Accounting ledger (`src/lib/accounting/service.ts`, `account/numbering.ts`, `account/utilities.ts`) | journals and lines, numbering series, period locks, financial years | post, replay, reverse, set a period lock, close a year | a source is entered once, numbers have no gaps, corrections pair up and are final, closed and locked periods stay as they are |
| Receivables (`account/commercial.ts`, `settlement-policy.ts`, `cheque-finance.ts`, `sale-amendments.ts`, `sale-return-revisions.ts`, `receipt-advance-credit.ts`, `party-balance.ts`) | documents, settlements and allocations, advances and applications, cheques, credits and carries of corrections | post an invoice or a note, receive, apply, clear and return cheques, cancel or revise a posted sale | no money lost or doubled, no document overpaid, all ways of computing a balance agree |
| Payables, party transfers | the mirror image of receivables | the same with the signs swapped | the same |
| Money accounts, expenses, assets | accounts, transfers, loans, recurring templates, capital | transfer, pay, reverse, fund | balances follow the ledger; a funding chain is not undone in part |
| Stock and project material | movements, batches, serial numbers, material of a project | receive, issue, transfer, consume, return, reverse | no stock below zero, each serial number in one place |
| Sessions and devices (`lib/auth`, `mobile/auth.ts`, `device-binding.ts`, `device-registration.ts`) | users with a session version, sessions, bindings, push devices | sign in, suspend, change the password, reset a device | no session survives what revokes it |
| Attendance and field tracking (`mobile/attendance.ts`, `attendance/policy.ts`, `api/v1/mobile/locations/batch`, `android/.../location`, `android/.../data/Queue.kt`) | attendances with their points; on the telephone: queue, preference, counter | start and end attendance, capture, upload, acknowledge | tracks are true, in order and complete up to what is counted as discarded |
| Visits, leads and follow-up tasks | visits, tasks | check in, check out, complete a task | one open visit for each employee |
| Field jobs (`field-jobs/service.ts`, `push/service.ts`, `maps/reverse-geocode.ts`) | the table `field_jobs`, addresses, devices | enqueue, lease, look up, notify, complete, put off | each job is done, at most one runner at a time |
| Storage and its deletion queue | files, rows that name files to be deleted | store, delete, retry | no file without an owner for ever |
| Subscriptions and seats | payments, entitlements, seats | verify a payment, activate, reduce seats | never more active users than seats |
| Year end, imports, backup, recycle bin, company deletion | archived rows | batch operations | what they write passes the rules of the components |
| Users, employees, branches, notifications, telecalling, quotations and orders | master data and drafts | create, change | rules inside one transaction |
| Reports, web pages, API routes, screens of the application | none | read, translate | computation on stored rows |

### Interactions

* `commercial.ts`, `cheque-finance.ts`, the money, expense and asset services
  post and reverse through `postJournalInTx` and `reverseJournalInTx` of the
  ledger, inside their own SERIALIZABLE transactions. Triggers
  (`prisma/migrations`) forbid changing or reversing the journals a corrected
  sale leaves behind.
* Closing a year changes what the ledger admits, without taking the lock on the
  company that postings take.
* Attendance and visits put field jobs into the table in their own transactions;
  `scheduleFieldJobs` starts a pass after a request, `/api/internal/field-jobs`
  starts one from the scheduler, and passes overlap.
* The telephone uploads batches through `/api/v1/mobile/locations/batch`; the
  answer tells it, point by point, what to forget and what to count as
  discarded. Bootstrap, attendance answers and batch answers switch its tracking
  on and off.

### What is hard

* **Snapshots older than locks.** A SERIALIZABLE transaction takes its snapshot
  when its first statement starts. That statement waits for the company's row;
  what committed meanwhile is invisible, and the row, never updated, raises no
  conflict.
* **Corrections of corrections.** A posted sale is revised, partly returned,
  paid by cheque, revised again; a journal is reversed and the reversal
  reversed. Several computations of one balance must stay in step.
* **Uploads that overlap themselves.** A request that the telephone has given up
  is still at work on the server while the next one carries the same points.
* **Leases outlived.** A runner that waits longer for the geocoder than its lease
  lasts goes on, beside the one that took its job over.
* **One telephone, several accounts**, with uploads under way when the account
  changes.

`PROJECT.json` lists these hazards one by one, at their lines, with the
properties that would notice them going wrong.

## 2. Modules

| Module | Models | Extended or instantiated by |
| --- | --- | --- |
| `Ledger` | the journal of one company under concurrent transactions | `LedgerBook` |
| `JournalBook` | what the ledger promises, without transactions: sources entered, withdrawn and put back, with the balances they make | `LedgerBook`, by a refinement mapping |
| `Receivables` | one customer's documents, payments and corrections | `MCReceivables`, `ReceivablesCalls` |
| `FieldTracking` | telephone and server of one route | `MCFieldTracking`, `FieldProofs` |
| `FieldJobs` | the job table and its runners | `MCFieldJobs`, `FieldProofs` |
| `Access` | users, sessions, push devices and what takes access away | `MCAccess`, `AccessProofs` |
| `Materials` | the goods of one product in warehouses and at projects, with their value | `MCMaterials`, `MaterialsProofs` |
| `Expenses` | expenses, their approval and payment, recurring bills | `MCExpenses`, `MoneyProofs` |
| `OwnerFunds` | an owner's capital and the assets it paid for | `MCOwnerFunds`, `MoneyProofs` |
| `LedgerBook` | the mapping of the ledger to `JournalBook` | `MCLedger`, `LedgerProofs` |
| `ReceivablesCalls` | no further state: transactions of `Receivables` as relations between books, and their single calls | `ReceivablesProofs`, `OwedProofs` |
| `SumFacts` | nothing: sums over finite sets | `LedgerProofs`, `MoneyProofs`, `ReceivablesProofs`, `OwedProofs`, `MaterialsProofs` |
| `MC...` | instances for TLC | |
| `...Proofs` | theorems and their proofs | |

Definitions keep the names of the code where they stand for a function, and
comments name it where they do not. `PROJECT.json`, under `map`, gives the
lines of every definition that models code. Operators whose name says that a
check is missing (`SourceUnguarded`, `NoteWithinTotal`, `PassSnapshot` ...)
are the same definition with a plausible mistake. They are not used by the
specification: putting one in the place of its original must make TLC find a
property violated, which shows that the property depends on that line of the
code (`mutants` in `PROJECT.json`).

## 3. Ledger

**State.** `journals`, `next` (the numbering series of each branch),
`lockedThrough`, `closed` are the tables. For every request under way, `phase`,
`req`, `snap`, `attempt` and `reply` hold what it is doing, the request, the
snapshot it reads, the attempt and the answer.

**Actions.** `Begin` takes the snapshot. `Post`, `Replay`, `DuplicateKey`,
`Reverse`, `SetPeriodLock` and `Reject` are the ends a transaction may come to;
they read the snapshot and write the live tables, in one step, since the lock on
the company makes the writing part atomic. What PostgreSQL adds is stated by
itself: a row changed since the snapshot cannot be updated (`SeriesFresh`,
`YearFresh`, `ReversalFree`), unique keys hold on the live tables (`SourceFree`),
and serializable isolation may abort any transaction whose snapshot is no longer
the current state (`Retry`, `GiveUp`). Such aborts are allowed, never required:
an abort the database would surely make is not relied upon, except where a row
conflict forces it. `CloseFinancialYear` is the closing, which takes no lock on
the company.

**Left out.** Whether accounts, cost centres and branches are active and in the
actor's scope, the cash and asset-funding checks, audit events, creation of the
series row. They restrict requests further.

**Properties.** `SourcePostedOnce`, `NumbersGapless`, `ReversalsPaired`,
`ReplyNamesRequest`, `CorrectionsAreFinal` (a correction of a managed record is
never corrected itself) as invariants; `ClosedYearsStayClosed` on steps;
`ImplementsBook`, the refinement of `JournalBook`. `TypeOK`,
`PostedJournalsImmutable` and `LockNeverMovesBack` are proved and not in a run.

**Refinement.** `LedgerBook` maps the journal to the book: a source is in force
while an even number of reversals sits on top of its journal, and the balance of
an account is the sum over *all* lines, posted or reversed, as the reports
compute it. Every step of the ledger enters, withdraws or puts back one source
and moves the balances by that source's lines, or changes nothing in the book.
This is where half a reversal, a reversal that mirrors the wrong lines or counts
twice would show.

## 4. Receivables

**State.** `invoices`, `notes`, `settlements` with their allocations and, for
credits of a correction, the origin of the money, `applications` of advances,
`carries` of returns from a sale to its replacement, `cheques`, and `accounts`,
the debit balance of four ledger accounts.

**Actions.** Every operation is one retried SERIALIZABLE transaction and is one
step. A transaction that consists of several calls is a composition of operators
on `Books`, a record of all tables, so that a later call's guard sees what the
earlier calls left and its failure undoes the whole step. `PostInvoice`,
`PostCreditNote`, `ReceivePayment`, `ReceiveAdvance`, `RecordCheque`,
`ApplyAdvance`, `ClearCheque`, `ReturnCheque`, `CancelSale`, `ReplaceSale`,
`ReverseInvoiceJournal`, `ReverseNoteJournal`. `ReplaceSale`, the longest,
releases the payments, retains or credits the returns, retires the sale, posts
the replacement and applies the released money to it, as
`replacePostedSaleForActor` does.

**Left out.** Dates, years, taxes, stock and quantities: all amounts are payable
amounts. Drafts have no effect on balances, so posting stands for any draft being
posted. The keys that make a repeated request return the first answer: a
repetition is no step. One customer, branch and project; opening balances, the
vendor's side, cheques of the old form and the state DEPOSITED are not there. The
preference that links unused advances to a new invoice may be on or off at every
posting.

**Properties.** `NoOverpaidDocument`, `MoneyInOnePlace`, `ReturnsHonoured`,
`ChequePaysOnce`, `RetiredSaleNetsZero`; `PartyBalanceAgrees` and `OwedAgrees`
relate the three computations of a customer's balance: ledger accounts,
`party-balance.ts`, and the outstanding amounts document by document. They differ
by exactly the documents whose journal was reversed by hand (and reversed back);
the terms `Reinstated` and `Stranded` say by how much. On steps:
`NothingAskedTwice` and `ReplacementOwesTheDifference`.

## 5. FieldTracking

**State.** On the server `gps` (the company's setting) and `attendances` with
their tracks; `requests` are the batches the server is working on, each with the
points left and, between the look-up and the lock, the attendance found. On the
telephone `session`, `scheduled` (the accounts whose upload is enqueued with
WorkManager), `tracking`, `queue`, `discarded`, `worker` (one upload at a
time, `uploadLock`). `captured` remembers all points.

**Actions.** Of the user: `Login`, `SignOut`, `StartAttendance`, `EndAttendance`
(whose answer may be lost), `Bootstrap`, `Capture`, `RetrySync`. Of the upload: `WorkerStart`,
`WorkerStop`, `Send`, `Receive`, `HandleResult` (one point at a time),
`Timeout`, `Interrupt`. Of the server: `Lookup` and `StorePoint`, the two halves
of `mobileUploadPoint` on either side of the row lock, `Lose`, `Forget`. `Tick`
and `SetGps` are the clock and the administrator. The upload is enqueued by a
sign-in or a restart while the company tracks (`ScheduledFor`), by the answer to
a change of attendance, by a captured point and by the button for it; a sign-out
cancels it. `WorkerStart` needs it enqueued.

**Left out.** Clocks agree; there is one telephone; a point's distance from the
last one is a change of `Place`; accuracy, geofence, branches, the upload from
the web, the purge of local data and the answers 401 and 403 are not modelled. A
point counts as captured once it is in the queue. A telephone's requests other
than uploads answer at once, or their answer is lost.

**Fairness** (`FairSpec`). WorkManager starts the upload that is enqueued again
and again, periodically or with backoff, and the server works on what it has
received: weak fairness of the upload steps, of the server's work on points, and
of the telephone's time-out. Nothing forces the user, the clock, the
administrator or a failure, and nothing enqueues an upload by itself: an account
that signs in while the company does not track keeps its queue, also when the
company tracks later, until it captures a point, changes its attendance, restarts
the application or asks for the upload. `PendingReachesZero` therefore speaks of
an account that tracks or has its upload enqueued (`Waiting`). Interruptions are
bounded, so it says: after the last of them, whenever that is.

**Properties.** `TracksAreTrue`, `RouteInOrder`, `StoredOnce`,
`NothingLostSilently`, and `PendingReachesZero` under `FairSpec`. `TypeOK`, which
holds the queue within its limit, is proved and not in a run.

**Documents that say otherwise**, without a run, because the code follows a later
decision: `docs/ANDROID_M1_M2.md:99` has the queue cleared at sign-out, while the
code keeps it for the same account; `docs/WEB_API_FREEZE.md:71` ties a point to
the actor's open attendance, while the code finds the one that was on when the
point was captured.

## 6. FieldJobs

**State.** `jobs` (state, attempts, time until the next attempt and until the end
of the lease, holder), `addresses` of the visits, `devices` registered,
`delivered`, the surroundings (`online`; `configured`, whether Firebase is; the
jobs whose position the geocoder has an address for, `located`; the devices whose
token is refused, `invalid`), and `runners`, a pass each: the rows read at its start, the
job at hand, what is left of its lease, and what it has learnt.

**Actions.** `Enqueue`, `Unregister`; of a runner `BeginPass`, `Claim`,
`FindVisit`, `Geocode`, `WriteAddress`, `FindDevices`, `Notify`, `EndDelivery`,
`Finish`, `Fail`, `EndPass`; of the surroundings `CountDown`, `Outage`, `Recover`,
`Locate`, `Expire`, `DatabaseError`, `Crash`. A runner's steps are the statements and calls between
which another runner may act. An address job fails, and is tried again, while the
geocoder does not answer, has no key or knows no address; a notification job
counts as done without Firebase, and a device whose token is refused is deleted
and counts as reached, though its deletion may fail unnoticed.

**Left out.** The limit and the order of the rows of a pass; how recipients are
chosen (a fixed set of devices that only shrinks: a device that registers, or changes its
token, is not one of those the job was enqueued for). Times count down in units of
the first delay. Attempts stop counting where the delay stops growing. Mishaps
(outages, crashes, errors of the database, a runner later than its lease) are
bounded together.

**Fairness.** Time goes on, an outage ends, and each runner takes its next step:
the maintenance endpoint is called again and again. Nothing makes the geocoder
learn an address or be configured: `JobsComplete` speaks of an address job from
the moment it does (`Answerable`).

**Properties.** `LeaseExcludes`, `CompletedIsDone` (what a completed job means:
that devices whose token is refused were not reached, and none without Firebase,
is part of it), `AddressKept`, and
`JobsComplete` under `JobFairSpec`. `JobTypeOK`, which bounds the delay, is proved and
not in a run.

## 7. Access

**State.** `users` (role, whether active, scope of branches, password, session
version), `logins`,
all sessions ever opened, `bindings` of field employees to a telephone, `pushes`,
the session each telephone's push device belongs to; `requests`,
`registrations`, `resets` and `transfers` are what is under way with what it has
read. `changes` and `edited` are history: how often a user's password, activity,
access, role or branches were replaced, and the sessions whose user an employee's
edit has changed since.

**Actions.** `SignIn` and `CreateSession` are the two halves of a sign-in on
either side of the lock on the user, `RequestPassword` and `ReplacePassword` of a
change of password, `RequestPush` and `RegisterPush` of a registration,
`BeginTransfer` and `FinishTransfer` of a transfer of ownership, which is
serializable and fails on a row changed since its snapshot. The reset of a
telephone takes no lock on the user and is modelled statement by statement
(`BeginReset`, `ReadSessions`, `DeletePushes`, `RevokeSessions`, `FinishReset`,
`AbortReset`): what it has written is locked and invisible until it commits.
`Deactivate`, `SuspendSales`, `ActivateAdmin`, `ResetPassword`, `AssignBranches`,
`ChangeRole`, `EditEmployee`, `ReactivateEmployee` are one step each. The last two
neither raise the version nor end a session, as in the code: an edit made on the
web changes a manager's type, one made by telephone also the branches, and the
sessions of before stay accepted. `RevocationIsFinal` says so: an accepted session
is younger than every change of password, activity or access, and has the role
and branches of today unless it is `edited`.

**Left out.** Seats, the roles in the accounts, single branches (of a user's
branches the scope is kept), telecallers, the hand-off link to the web, the expiry
of sessions. An administrator's request is authorised when it begins; a role
changed between the reading and the writing of an employee's edit is left out.

**Properties.** `SingleActiveLogin`, `RevocationIsFinal`, `OnePrimaryAdmin`,
`PushFollowsLogin`, and on steps `ResetForgetsTelephone`.

## 8. Materials

**State.** `mode`, the tracking mode of the product or that it is not tracked,
`stock`, the sums of `stock_movements` by warehouse and lot (a batch or a serial
number), `moves` (`project_material_movements`), `bills`, the allocations of
purchase lines, `journals` that touch the two accounts, `open` projects,
`unposted`, the value adjusted without a journal, `roundings`, the documents of
two lines, and `held`, what a transaction that has computed but not committed
will write.

**Actions.** An operation is an effect (rows to insert) computed from what it
reads, written at once or held back. When another transaction commits, what is
held back is aborted: the advisory locks have different keys, but isolation
finds the conflict. `AdjustIn`, `AdjustOut`, `TransferStock`,
`UpdateInventoryProduct`; `Sell`, `SellTwo`; the purchases for stock, for a project
and of services, and `PurchaseWithoutStock`, an allocation to inventory of the
product while it is not tracked or of a service, which debits the account and
brings nothing in; `ReturnToVendor`, `ReturnPurchase`, `ReturnTwo`,
`ReturnWithoutStock`; `IssueInventoryToProject`, `ConsumeProjectMaterial`,
`ReturnProjectMaterial`, `TransferProjectMaterial`, `ReverseProjectMaterial`;
`CloseProject`, `ReopenProject`; `ReverseByHand`, the accountant's reversal of one
of the journals. Costs are averages rounded half away from zero (`Rounded`), and
the last part of a receipt takes the value that rounding left (`IssueValue`).

*Documents of two lines.* A sale or a debit note adds the unrounded costs of its
lines and rounds the sum for the journal; each stock row is rounded alone, and
the second line reads what the first has left (`QuantityAfter`, `ValueAfter`). The
two differ by a cent at most (`OutgoingTwo`). The purchase of several lines, or of
one line in several allocations, adds amounts that are whole cents: it is as
many bills.

*Tracking modes.* `updateInventoryProduct` looks at nothing but the product, so the
mode may change while drafts and transactions are under way. A document is posted
as it was drafted: it may name a lot or none whatever the mode is now, and it
writes stock only for a product that is tracked when it is posted.

**Left out.** More than two lines of the product in a sale or debit note (each adds
another cent to what the accounts may differ by), negative stock allowed by the
settings, sales returns, sales revised at the cost they had, allocations of one line
to several projects, `DIRECT_PROJECT_RECEIPT`, units, expiry, dates, taxes, roles,
budget lines. Averages are exact fractions, where the code has decimals of 20
digits. A debit note of a service touches neither account. A repeated request
finds its row and changes nothing.

**Properties.** `AccountsAgree` (the account of project material is exactly what
the projects hold with the services charged to them; the account of inventory is
the value of the stock, but for what was adjusted without a journal, what was
allocated to it without stock, and a cent for each document of two lines),
`GoodsAccounted` (nothing made or lost on the way).

## 9. Expenses

**State.** `rows`, the expenses and bills, `category` with its ledger, `limit`,
`templates` (recurring schedules), `payments` with their request keys,
`journals`, `today`, and `edits`, drafts that have been validated and not stored.

**Actions.** `CreateDraft`, `RecordPaid`, `ReadDraft` and `StoreDraft` (the two
halves of an edit), `Submit`, `Cancel`, `Approve`, `Reject`, `ReviewPaid`,
`PostExpense`, `ReverseExpense`, `CreateTemplate`, `GenerateBill`,
`SetTemplateActive`, `EditTemplate`, `PayBill`, `MapCategory`,
`DeactivateCategory`, `SetLimit`, `Tick`.

**Left out.** Several categories and branches, taxes, periods, projects, roles,
attachments, drafts without a money account.

**Properties.** `BooksFollowExpenses`, `NothingUnreviewed`, `BillsPaidOnce`;
`TypeOK` is proved and not in a run.

## 10. OwnerFunds

**State.** `assets` with their purchase value, `entries` (`owner_transactions`
with the state of their journals), `fundings` (`asset_owner_fundings`), the
balances `capital` and `cash`, and `waiting`, the serializable transaction that
has read its snapshot and waits for the lock of the company.

**Actions.** `PayIn`, `TakeOut`, `AllocateOwnerAssetFunding`,
`CancelOwnerAssetFunding`, `UpdateAsset` are READ COMMITTED under the company's
lock: they read after they have it, and are one step. `Dispose` takes no lock.
`Reverse` (of an owner transaction) and `PostJournal` (a journal between the
capital, the ledger of the money account and any other account, or the reversal of
one) are SERIALIZABLE: their effect is computed from a snapshot, written at once or kept in `waiting`
(`Commit`, `Abort`). What aborts one that waits is stated by `PassSerializable`
and `Pass`: a number series of its branch that has moved, a journal that somebody
else reversed, a cycle of reads and writes with serializable transactions, and
never a READ COMMITTED one. `missed` and `unseen` are history: how much was taken
without a look at what others had left, by a waiting transaction that did not see
a READ COMMITTED one, or by a journal from the money account, whose balance no
journal looks at.

**Left out.** Several owners, dates, the confirmations of how an asset was paid
for, repeated requests, other traffic of the money account; one transaction waits
at a time.

**Properties.** `CapitalReserved` and `AssetsCovered` say that what the owner is
owed for assets stays covered, and the money account is not overdrawn, but for what
`unseen` measures; `FundsTypeOK` holds
that no funding is paid back twice and no contribution spent twice.

## 11. Runs and bounds

Three of the runs are expected to end in a violation; they belong to section 13.
Sizes are distinct states.

| Run | Bounds | What it shows |
| --- | --- | --- |
| `ledger` | 2 requests at a time, 2 branches, 2 years of 2 days, 3 sources, 3 journals, chains of at most 2 corrections, 2 attempts; 234 000 states | overlapping, repeated and conflicting postings, reversals of reversals, locks and closings: no duplicate, no gap, no wrong replay, nothing in a closed year; refinement of the book |
| `receivables` | amounts 1 and 2, discounts 0 and 1, 2 sales, 3 invoices, 2 notes, 2 settlements, 2 applications, 1 cheque, 2 reversals of each journal, 7 records in all; 288 000 states | sales paid, returned in part, revised or cancelled around a cheque that bounces and manual reversals |
| `tracking_route` | 1 account, 2 points, 2 places, 2 requests at a time, batches and queue of 1, times 0 to 2; 1 510 000 states | overflow, age, throttling and repetition of one account's points |
| `tracking_accounts` | 2 accounts, 2 points, 2 attendances, 2 logins, batches and queue of 2, 1 interruption; 883 000 states | change of account during an upload; the queue of an account that is tracked gets empty |
| `jobs_work` | 2 runners, an address job and a notification job, 1 device, 2 addresses, with and without Firebase, a lease of 1, 1 mishap, under fairness; 943 000 states | leases, takeover of a late or dead runner's job, what a completed job means, and that every job that can be answered is completed at last |
| `access` | 2 users, 2 telephones, 2 sessions, both scopes of branches, 2 requests at a time, 1 change of each user and edits before it; 2 144 000 states | overlapping sign-ins, changes of access, resets and transfers, and what a session keeps of role and branches |
| `materials` | 2 warehouses, 2 projects, 1 serial number, quantities 1 and 2, cost 3, 4 transactions, one of the first three overlapped by the next, 1 reversal by hand, every tracking mode; 1 074 000 states | goods and accounts agree over every order of movements, reversals and changes of mode |
| `expenses` | amounts 1 and 2, limits 1, 2 and none, a money account and payables, 2 ledgers, 1 schedule, 2 keys, 2 days, 2 rows, 3 changes; 958 000 states | books follow expenses; nothing unreviewed; bills paid once |
| `owner_funds` | 2 branches, 1 asset, amounts and values 1 and 2, 3 owner transactions, 2 fundings, journals that take 2 from the capital, the money account or both, 5 commits; 1 204 000 states | funding, repayment, correction and journals by hand around a transaction that waits with an old snapshot |

Two requests, workers or runners are what every hazard here needs: one that
overtakes and one that is overtaken. Two years distinguish the posting's year
from the reversal's; three journals hold an original, its correction and the
correction of that. Two amounts distinguish part from whole, and three invoices
a chain with a middle. A queue and a batch of one make overflow and re-ordering
happen with two points; the run with batches of two is the other one. With cost 3
and quantities 1 and 2 a half cent is rounded at every issue of a part, and the rows
of two lines, one with the lot and one without, do differ from their sum. The lot
of the run is a serial number, of which a warehouse has one at most; batches are
covered by the proof.

`MCAccess` gives TLC a `VIEW`. Passwords and versions are only compared with their
user's and only go up by one, so states that agree in how far each lies behind
today's have the same future; so do states that differ in what a deleted or revoked
session was, but for its user and telephone, which a reset may still ask for. The
four invariants and the action property tell no two such states apart.

Symmetry is used for the workers of `Ledger`, the telephones of `Access`, the
warehouses and projects of `Materials`, the ledgers, money accounts and keys of
`Expenses` and the branches and assets of `OwnerFunds`, never with liveness.

`CHECK_DEADLOCK FALSE` is given where the bounds end the behaviour (no invoice,
point or job is left to be made); `Ledger` has no such end and is checked for
deadlock.

## 12. Proofs

`tlapm` checks every theorem for all values of the constants that satisfy the
named assumptions `LedgerConstants` and `NothingIsNoLines`, `TrackingConstants`,
`JobConstants`, `AccessConstants`, `ExpensesConstants`, `OwnerFundsConstants`,
`ReceivablesConstants` and `MaterialsConstants`. They say what kind of thing a
constant is, that accounts, branches, assets, warehouses and lots are finitely
many, since sums are taken over them, and that bounds and amounts are numbers; TLC evaluates them in the runs of each module.

* `SumFacts`: what the totals of the models obey. `SumFunction` and
  `SumFunctionOnSet` fold a function over a finite set; the lemmas say how a sum
  changes with one value, one element or one row, that it does not depend on where
  a function is extended by 0, that it may be taken by groups (`SumByGroup`) and,
  for a table, by rows or by columns (`SumSwap`). Induction is not cited from the
  library, whose theorems the provers cannot instantiate; it is derived for *sets*
  of numbers and of finite sets (`NaturalInduction`, `FiniteInduction`) from the
  well-foundedness of strict inclusion, and applied to sets that are defined by
  what is to be shown.

* `LedgerProofs`: `TypeCorrect`, `PostedOnce` (`SourcePostedOnce`), `ClosedYears`
  (`ClosedYearsStayClosed`), `Immutable` (`PostedJournalsImmutable`),
  `LockForward` (`LockNeverMovesBack`), `Gapless` (`NumbersGapless`), `Reversals`
  (`ReversalsPaired`), `FinalCorrections` (`CorrectionsAreFinal`), `Replies`
  (`ReplyNamesRequest`). `PostStep` and `ReverseStep` say what a posting and a
  reversal do to the live tables: a snapshot's number is the series' current one
  (`SeriesFresh`), its open year is still open (`YearFresh`), and the entry
  countered is the one the snapshot showed (`ReversalFree`). Beyond these checks
  the invariants need that a snapshot is an earlier state of the tables that have
  only grown since (`Grows`), which makes what a replay or the walk up the chain of
  corrections found still true; the chain is the least closed set (`Ancestors`),
  so that the walk needs no recursion.
  `Implementation` is the refinement of `JournalBook` (`ImplementsBook`): the
  ledger starts as an empty book, and each step either enters a source that the
  book does not have (`PostEnters`), withdraws or puts back one
  (`ReverseMoves`), or leaves the book as it is. The mapping counts the reversals
  on top of a journal, of which an even number leaves the source in force. That a
  reversal, which only exchanges debit and credit of the entry it counters, moves
  the balances by the lines of the *source* at the bottom of the chain needs the
  invariant `Chains`: a chain has one root and one end, and the lines at its end
  are the root's, mirrored when the number of reversals is odd. `TrialBalance`:
  the balances of all accounts add up to 0, though a reversal is never checked for
  balance.
* `FieldProofs`, of `FieldTracking`: `TypeCorrect` (with the limit of the queue),
  `TracksTrue`, `RouteOrdered`, `PointsOnce`, `NothingLost`. None is inductive alone. `IInv` adds
  that an id is drawn once and all points in the queue, in requests and in tracks
  are captured ones (`PointsCaptured`); that a request carries its own account's
  points and the attendance found for its first point was on at that point's time
  (`RequestsTrue`), which stays true while it waits because an attendance ends
  only at the present and a captured point lies in the past; and that what is
  answered ACKNOWLEDGED is stored (`AcknowledgedStored`), through which the
  telephone's forgetting is safe. The lemmas on steps (`AttendancesStep`,
  `RequestsStep`, `CapturedStep`, `WorkerStep` ...) treat each variable once; the
  properties use them.
* `FieldProofs`, of `FieldJobs`: `JobTypesCorrect`, `OneHolder` (`LeaseExcludes`),
  `CompletedJobsAreDone` (`CompletedIsDone`), `AddressNeverReplaced`
  (`AddressKept`). `JobInv` adds `PhaseMatchesJob`, what a runner holds in each
  phase; `LeaseIsRunners`, a runner within its lease is the holder of its job's
  row and both count the same time down; and `WorkDone`, a runner about to mark a
  job as completed has done the work, a statement about the rows and not about
  the lease, so that it holds for a late runner too. With Firebase the devices
  still registered are then those delivered to or refused; without it nothing is
  claimed of them.
* `AccessProofs`: `TypeCorrect`, `OneSession` (`SingleActiveLogin`),
  `RevocationStands` (`RevocationIsFinal`), `OneOwner` (`OnePrimaryAdmin`),
  `PushAsLogin` (`PushFollowsLogin`), `ResetForgets` (`ResetForgetsTelephone`).
  `IInv` has `SessionInv` (a live session is its user's only one and carries the
  password of today; it is behind the user's version by as many steps as access
  was changed since; one that is not behind has the role and the branches of
  today, unless these were edited without ending it), `ResetInv`
  (what a reset under way has read and written covers every earlier session that
  is still accepted) and `OwnerInv`.
* `MoneyProofs`, of `Expenses`: `ExpensesTypeCorrect`, `ExpensesBooked`
  (`BooksFollowExpenses`), `ExpensesReviewed` (`NothingUnreviewed`),
  `BillsArePaidOnce` (`BillsPaidOnce`). The four are inductive together with one
  strengthening, `EditsKeepDueDates`: an edit under way of a bill keeps the date
  the bill is for.
* `MoneyProofs`, of `OwnerFunds`: `OwnerFundsTypes` (`FundsTypeOK`),
  `OwnerCapitalReserved` (`CapitalReserved`) and `OwnerAssetsCovered`
  (`AssetsCovered`). The properties of
  the tables are not inductive, because a transaction that waits for the lock
  commits what it has computed from tables that are no longer the current ones.
  `FundsIInv` adds what is known of it: `Computed`, how its effect came from the entry
  it undoes or the journal it posts; `Safe`, that writing it now would leave the
  properties true, unless it takes without having seen what READ COMMITTED
  operations have committed since, or takes cash by a journal, which looks at no
  balance (`missed`; what is then taken goes to `unseen`); and `CapitalSeen`, that
  it has otherwise read the capital or the cash it depends on, so that a
  serializable transaction it does not see cannot change them without one of the
  two being aborted. The last holds only because the code reads the capital
  exactly when there are fundings to compare it with.
* `ReceivablesProofs`, on definitions of `ReceivablesCalls`: `SoundBooks` (the
  inductive invariant), `ReceivablesTypes`, `ReturnsKeepTheirValue`
  (`ReturnsHonoured`), `ChequesPayOnce` (`ChequePaysOnce`),
  `RetiredSalesNetZero` (`RetiredSaleNetsZero`), `DocumentsNotOverpaid`
  (`NoOverpaidDocument`), `LedgerShowsPartyBalance` (`PartyBalanceAgrees`) and
  `MoneyStaysInOnePlace` (`MoneyInOnePlace`). See below.
* `OwedProofs`, on top of these: `DocumentsShowTheBalance` (`OwedAgrees`),
  `ReplacementsOweTheDifference` (`ReplacementOwesTheDifference`) and
  `NobodyPaysTwice` (`NothingAskedTwice`). See below.
* `MaterialsProofs`: `RowsInForm` (`TypeOK`), `AccountsAgreeAlways`
  (`AccountsAgree`) and `GoodsAccountedAlways` (`GoodsAccounted`). See below.

**Receivables.** A transaction is one step of the specification, but a long one: a
replacement releases every payment, carries or credits every return, retires the
sale, enters another and applies advances to it, each a call that reads what the
previous ones wrote. What is invariant does not hold because of the transaction as
a whole, but because no single call breaks it. The proof says this once. Books are
values. `Move` is one call from books to books, with what is known where it is
called; `Step` is a transaction. The folds over the documents, payments and
returns stay in every set of books that the single call stays in (`ReleasesStay`,
`ApplicationStays`, `CarriesStay`), so that a transaction leaves no set of books
that no call leaves (`Within`), and every action is a `Step` (`StepTaken`,
`NextIs`). Each property is then shown for the calls one by one:

* `Sound` has the types, that every reference names a row that fits it, and that
  a posted return is worth, in what was carried last and in advances, its total.
  `IInv` adds `Tidy` (a carry names an invoice that has been entered; only a
  retired sale is corrected), which is broken inside a replacement, between the
  carries and the invoice they are for, and so is shown of whole transactions.
* `ChequesCount`: the settlement of a cheque counts exactly while the cheque is
  cleared and only its last one does.
* `Balanced`: the ledger's balance is documents less payments, as sums over whole
  tables; `party-balance.ts` computes the same from the rows.
* `Running`: what has been applied of an advance belongs to a payment that is
  still posted. With it, `NoneOverpaid` (paid, noted and carried together are at
  most the total, and discounts are within it) is kept by every call, since a call
  either lets fewer payments count against a document, or adds no more than is
  outstanding (`MoveClaims`). `NetsZero`: what has been retired stays a sale that
  nothing is paid on and that its note or its reversal cancels.
* `Placed`: of every payment, the amount is what remains, what counts on documents
  as allocation (`Held`) or application (`Drawn`), and what has become other
  advances (`Moved`). This is a statement about one row; summed over all payments,
  with the payments made out of others (`CreditRow`) cancelling what has moved,
  and with the table of allocations summed by documents instead of by payments, it
  is `MoneyInOnePlace`.

`OwedProofs` needs three facts more about single rows, and adds sums over
documents, payments and carried returns at the same time:

* `ReleasedOnce`: no payment is released from the same document twice, since one
  that was does not count on it any more. So the discounts given are those that
  still count on documents and those taken back, each once.
* `ReturnsStand`: a carry belongs to a return of a sale whose revision reversed its
  journal, the last carry of a return counts on a posted sale, and every such
  return has one. It is broken inside a replacement and shown of whole
  transactions, which are described for this by relations (`Undid`, `Credited`,
  `Revised`, `Entry`, `Linking`, `Replaced`). With `Honoured` it makes what is
  carried to documents, and what became advances, the posted notes of revised
  sales.
* `OwedIsShown` adds these up in given books: outstanding amounts less advances are
  the balance of `party-balance.ts` and what is `StrandedOn` documents that were
  reversed by hand. `DocumentsShowTheBalance` follows. A replacement leaves what is
  stranded and what is reinstated (`ReplacedStrands`, `ReplacedReinstates`), and
  each of its calls says what it adds to what is due; `ReplacementsOweTheDifference`
  follows from the two.
* `ReplacesEarlier`: an invoice replaces an earlier one, so that the family of a sale,
  which the code collects along the audits, is closed under it (`FamilyIs`; the
  table behind `Family` is shown to exist as the table of least closed sets). After
  the last application either the replacement is paid or every credit of the
  family is used up (`UsedOn`, `AdvancesUsed`, for advances in any order), and what is
  unused then was unused before (`CreditStays`). This is `NobodyPaysTwice`.

TLC has checked `Placed`, `Running`, `NetsZero`, `ReleasedOnce`, `ReplacesEarlier` and
`ReturnsStand` with the constants of the run `receivables`.

**Materials.** The tables alone are not inductive: a transaction that is held back
writes what it computed earlier. `IInv` says that the tables are `Good`, and that
they would be `Good` with the effect that is held back inserted (`ThenGood`). The
second stays true without an argument about overlapping operations, because the
effect is dropped as soon as another one is written; it is what serializable
isolation gives. So every operation is shown to compute an effect with which the
tables of the moment are `Good` (one lemma for each, `AdjustInGood` to
`ReverseGood`). TLC has checked `IInv` with the constants of the run `materials`.
`Good` has, beyond types and the three balances of the properties:

* `Sourced`: a deduction names a receipt of its own project, a transfer comes in
  at another project than it left, a reversal names a row. It makes the balances of
  different receipts sums over different rows, so that one row changes at most the
  receipt it deducts from and the one it creates.
* `Covered`: of each receipt the quantity and the value left are between 0 and what
  came in, and no value is left without quantity. Values are rounded when a part is
  issued, so they are not determined by quantities; the balances stay linear in the
  rows as written, and `Covered` holds because the rounded share is at most what is
  left and the last part takes the remainder (`IssueValue`). Reversals add back
  what a row took, in any order.
* `Near`: a document of two lines posts a sum that is rounded once, and its rows are
  rounded one by one. `RoundedSum` shows that the two are within a cent of each
  other, whatever the fractions; `OutgoingTwoGood` carries this to the tables, with
  the second line read from what the first has left, and `roundings` adds the
  cents up. All other effects leave the distance as it is (`EffectGood` from
  `EffectNearlyGood`). `UnstockedIn` is what was allocated to inventory without
  stock; it only grows, since a debit note for it posts to neither account.
* `Paired`: the two rows of a transfer follow each other and say the same, so that
  reversing one reverses both; `Issued`: goods bought for a project were issued to
  it; `Told`: the journal of a movement posts that movement's value, which is what
  its reversal posts back.

**Model-checked only.** Liveness (`PendingReachesZero`, `JobsComplete`), which needs
fairness and ENABLED, is beyond the prover's reach; the findings are not theorems.
Every other property of a passing run is proved.

## 13. Findings

Each is a run in which TLC finds the violation of a property that states what
the repository says of itself.

| Run | The text | The code |
| --- | --- | --- |
| `ledger_late_lock` | `docs/WEB_API_FREEZE.md:126`: posted documents require an unlocked period | `accounting/service.ts:109`: a posting that waited for the company behind a new period lock still reads the old one, and commits into the locked period |
| `receivables_batch` | `docs/WEB_API_FREEZE.md:126`: outstanding is authoritative, and batching preserves it | `account/commercial.ts:3655`: the batch computation has no rule for a retired sale and shows a revised one with a retained return as still owed |
| `tracking_retry` | `docs/WEB_API_FREEZE.md:108`: a repetition returns the acknowledgement | `mobile/attendance.ts:13`: the point is looked for before the lock and not again under it; two overlapping requests make the second answer THROTTLED, and a stored point is counted as discarded |

The runs show the interleaving or sequence in a few steps; the remaining
properties of the same modules hold in spite of it. In particular no closed year
is posted into: the foreign key to the year's row decides on the live table.

Other disagreements met while modelling, without a run of their own:

* `field-jobs/service.ts:47` stores up to 500 characters in `lastError`, a column
  of 80 (`prisma/schema.prisma:3699`); with a longer message the recording of a
  failure fails, and the attempt is neither counted nor delayed
  (`docs/review-18-implementation.md:21` asks for retry with backoff).
  `JobsComplete` holds all the same: the lease ends.
* `owner-asset-funding.ts:174`: "External journals cannot remove capital reserved
  against retained assets." A reversal or a journal that waited for the lock
  decides on a snapshot older than an allocation and can remove it; `OwnerFunds`
  measures by how much (`unseen`). Once an asset is owed more than its value every
  journal and reversal of the company is refused.
* `mobileEditEmployee` replaces the branches of a member while its sessions go on
  (`mobile/employee-admin.ts:38`), where the web's `assignBranches` ends them;
  `RevocationIsFinal` names the sessions this happened to (`edited`).
* `docs/workspace-lifecycle-foundation.md:37`: every identity and workspace lifecycle
  mutation locks the user, increments `sessionVersion` and removes all session rows.
  A reactivation (`employees/service.ts:200`) takes no lock, raises no version and
  removes nothing. No session of a deactivated member is left at that point, so no
  property suffers; `ReactivateEmployee` is the code's.
* `docs/module-permission-foundation.md:11`: role changes remove push devices, web
  sessions and mobile sessions. `mobile/employee-admin.ts:58` and
  `employees/service.ts:161` raise the version, which ends the sessions, and remove
  no row, so the push device of the refused session stays; `PushFollowsLogin` says
  no more than that.
* An approved expense whose category was mapped to another ledger can neither be
  posted nor resubmitted nor cancelled (`expenses.ts:857`). The due date of a
  bill that was cancelled, rejected or reversed can never be billed again, and a
  schedule whose bill fails stays at its due date (`expenses.ts:1640`).
* A transfer between warehouses may name no lot of goods tracked by lot
  (`inventory.ts:222`); a later transfer of the lot leaves the warehouse's total
  below zero. A serial number cannot be bought again into a warehouse it has been
  in (`commercial.ts:1632`). Services charged to project work in progress are
  never taken out of it.
* A contribution that paid for an asset since disposed of can never be corrected
  (`accounting/service.ts:439` counts the funding, whose cancellation requires the
  asset).

## 14. What is not modelled

`PROJECT.json` lists every component with its reason. In short: payables and
transfers between parties repeat what `Receivables` models; reports, pages,
routes and screens keep no state; master data, notifications, quotations and
drafts stay within one transaction of one table; imports, backup, the recycle
bin and the deletion of a company are batches whose hazards are lists of tables.
Most of the repository's lines are pages, screens, reports and formatting. What
the modelled components leave out is said in their sections. The storage
deletion queue, whose oldest failing rows can keep later ones waiting
(`storage/deletion-queue.ts:2`), visits with their follow-up tasks, subscriptions
and seats, and the transfers, adjustments and loans of third parties of the money
accounts have behaviour worth modelling and are not modelled yet.

## 15. Plan

The nine models above come first. What is left, in order of importance:

1. **Visits and follow-up tasks**: one open visit, the task that a check-out
   completes, and the jobs they enqueue, composed with `FieldJobs`.
2. **Subscriptions and seats**, **transfers, adjustments and loans of the money
   accounts**, **the storage queue**, as far as they have interleavings of their
   own.
