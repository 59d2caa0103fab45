-------------------------------- MODULE Ledger --------------------------------
(***************************************************************************)
(* The double-entry journal of one company: the posting, reversal and      *)
(* period-lock transactions of src/lib/accounting/service.ts, the number   *)
(* allocator of src/lib/account/numbering.ts, the retry wrapper of         *)
(* src/lib/account/transaction-retry.ts, the financial-year closing of     *)
(* src/lib/account/utilities.ts and the database constraints they rely on. *)
(*                                                                         *)
(* Every request runs in a SERIALIZABLE PostgreSQL transaction whose first *)
(* statement is SELECT ... FOR UPDATE on the company row.  The snapshot of *)
(* the whole transaction is taken when that statement starts, before it    *)
(* has waited for the row, and the row is never updated, so the wait does  *)
(* not refresh it: a transaction decides on what it saw before it queued.  *)
(* Begin takes the snapshot, the commit actions read only the snapshot and *)
(* write the live tables.  What the database adds is modelled by itself:   *)
(*   - a row changed since the snapshot cannot be updated (SQLSTATE 40001);*)
(*   - unique keys and foreign keys are checked on the live tables;        *)
(*   - serializable snapshot isolation may abort any transaction that read *)
(*     something changed since its snapshot.                               *)
(* The company lock makes the write part of a transaction atomic.          *)
(***************************************************************************)
EXTENDS Integers, Sequences, FiniteSets, FiniteSetsExt

CONSTANTS
    Worker,        \* requests being served at the same time
    Branch, Source, Account, Year,
    Replayable,    \* MANUAL_JOURNAL and OPENING_BALANCE sources
    Managed,       \* sources only their own service may reverse
    Corrected,     \* sources whose reversal may never be reversed
    YearStart, YearEnd,   \* first and last day of each financial year
    Request,       \* the requests the clients may send
    ChainLimit,    \* longest correction chain a reversal walks (64)
    MaxAttempts,   \* attempts of retrySerializable (3)
    MaxJournals,   \* bound on the journal, for model checking
    NoSource, NoRequest

Lines == [debit: [Account -> Nat], credit: [Account -> Nat]]

PostRequest == [op: {"post"}, source: Source, year: Year, branch: Branch,
                date: Nat, lines: Lines]
ReverseRequest == [op: {"reverse"}, journal: Nat \ {0}, date: Nat,
                   lifecycle: BOOLEAN]
LockRequest == [op: {"lock"}, year: Year, through: Nat]

ASSUME LedgerConstants ==
    /\ IsFiniteSet(Account)
    /\ Managed \subseteq Corrected
    /\ Corrected \subseteq Source
    /\ Replayable \subseteq Source
    /\ YearStart \in [Year -> Nat \ {0}]
    /\ YearEnd \in [Year -> Nat \ {0}]
    /\ Request \subseteq PostRequest \cup ReverseRequest \cup LockRequest
    /\ ChainLimit \in Nat
    /\ MaxAttempts \in Nat \ {0}
    /\ MaxJournals \in Nat
    /\ NoSource \notin Source
    /\ NoRequest \notin Request

VARIABLES
    journals,       \* journal_entries with their lines, in commit order
    next,           \* numbering_series."nextSequence" of each branch
    lockedThrough,  \* accounting_period_locks, 0 while there is no lock
    closed,         \* financial years with status CLOSED and isActive false
    phase,          \* what the request of a worker is doing
    req,            \* the request of a worker
    snap,           \* the snapshot its transaction reads
    attempt,        \* the attempt retrySerializable is at
    reply           \* the journal the request answered with, 0 for none

tables == <<journals, next, lockedThrough, closed>>
vars == <<journals, next, lockedThrough, closed,
          phase, req, snap, attempt, reply>>

JournalEntry ==
    [status: {"POSTED", "REVERSED"}, source: Source \cup {NoSource},
     year: Year, branch: Branch, date: Nat, number: Nat \ {0},
     lines: Lines, reversalOf: Nat]

Database == [journals: Seq(JournalEntry), next: [Branch -> Nat \ {0}],
             lockedThrough: [Year -> Nat], closed: SUBSET Year]

Live == [journals |-> journals, next |-> next,
         lockedThrough |-> lockedThrough, closed |-> closed]

TypeOK ==
    /\ Live \in Database
    /\ phase \in [Worker -> {"idle", "running", "answered"}]
    /\ req \in [Worker -> Request \cup {NoRequest}]
    /\ \A w \in Worker : phase[w] # "idle" => req[w] \in Request
    /\ snap \in [Worker -> Database]
    /\ attempt \in [Worker -> 1..MaxAttempts]
    /\ reply \in [Worker -> Nat]

\* what snap holds while no transaction runs
NoSnapshot ==
    [journals |-> <<>>, next |-> [b \in Branch |-> 1],
     lockedThrough |-> [y \in Year |-> 0], closed |-> {}]

Init ==
    /\ journals = <<>>
    /\ next = [b \in Branch |-> 1]
    /\ lockedThrough = [y \in Year |-> 0]
    /\ closed = {}
    /\ phase = [w \in Worker |-> "idle"]
    /\ req = [w \in Worker |-> NoRequest]
    /\ snap = [w \in Worker |-> NoSnapshot]
    /\ attempt = [w \in Worker |-> 1]
    /\ reply = [w \in Worker |-> 0]

-----------------------------------------------------------------------------
(* What the code checks on its snapshot s. *)

Total(amounts) == MapThenSumSet(LAMBDA a : amounts[a], Account)

\* assertBalanced
Balanced(lines) ==
    /\ Total(lines.debit) = Total(lines.credit)
    /\ Total(lines.debit) # 0

Covers(y, d) == YearStart[y] <= d /\ d <= YearEnd[y]

\* validateContext: an active, open year that covers the date, not locked
ContextOpen(s, y, d) ==
    /\ Covers(y, d)
    /\ y \notin s.closed
    /\ s.lockedThrough[y] < d

Of(s, source) == {i \in DOMAIN s.journals : s.journals[i].source = source}

MatchesInputIgnoringLines(j, r) ==
    j.year = r.year /\ j.branch = r.branch /\ j.date = r.date

\* journalMatchesInput
MatchesInput(j, r) ==
    /\ j.year = r.year /\ j.branch = r.branch
    /\ j.date = r.date /\ j.lines = r.lines

\* MANUAL_JOURNAL and OPENING_BALANCE requests look for their own posting
Replays(s, r) == r.source \in Replayable /\ Of(s, r.source) # {}

PostAccepted(s, r) == ~Replays(s, r) /\ ContextOpen(s, r.year, r.date)

\* the journals a correction chain passes through, from journal i back: those
\* in every set that holds what i and its own members counter
Ancestors(js, i) ==
    {k \in DOMAIN js : \A S \in SUBSET DOMAIN js :
        {js[j].reversalOf : j \in S \cup {i}} \subseteq S \cup {0} => k \in S}

Unreversed(s, i) ==
    /\ i \in DOMAIN s.journals
    /\ s.journals[i].status = "POSTED"
    /\ \A k \in DOMAIN s.journals : s.journals[k].reversalOf # i

ChainUnchecked(js, i) == TRUE

\* the walk up the correction chain in reverseJournalInTx
ChainAllows(js, i) ==
    /\ Cardinality(Ancestors(js, i)) <= ChainLimit
    /\ \A k \in Ancestors(js, i) : js[k].source \notin Corrected

ReversalAllowed(s, r) ==
    /\ Unreversed(s, r.journal)
    /\ s.journals[r.journal].source \in Managed => r.lifecycle
    /\ ChainAllows(s.journals, r.journal)

ReversalYears(s, r) == {y \in Year : ContextOpen(s, y, r.date)}

LockAccepted(s, r) ==
    /\ r.year \notin s.closed
    /\ r.through # 0
    /\ Covers(r.year, r.through)
    /\ s.lockedThrough[r.year] <= r.through

\* a request its own snapshot rejects: the transaction throws a domain error
Rejected(s, r) ==
    CASE r.op = "post" ->
            \/ ~Balanced(r.lines)
            \/ /\ Replays(s, r)
               /\ \A i \in Of(s, r.source) : ~MatchesInput(s.journals[i], r)
            \/ ~Replays(s, r) /\ ~ContextOpen(s, r.year, r.date)
      [] r.op = "reverse" -> ~ReversalAllowed(s, r) \/ ReversalYears(s, r) = {}
      [] r.op = "lock" -> ~LockAccepted(s, r)

-----------------------------------------------------------------------------
(* What the database checks on the live tables when a transaction writes. *)

SeriesUnguarded(w, b) == TRUE

\* the series row has not been updated since the snapshot
SeriesFresh(w, b) == next[b] = snap[w].next[b]

YearUnguarded(w, y) == TRUE

\* the foreign key to the year row waits for the closing, and fails after it
YearFresh(w, y) == y \in closed <=> y \in snap[w].closed

SourceUnguarded(source) == TRUE

\* unique (company, sourceType, sourceId, postingPurpose)
SourceFree(source) == \A i \in DOMAIN journals : journals[i].source # source

\* the row of the original is unchanged, and no journal counters it yet
\* (unique (company, reversalOfId))
ReversalFree(w, i) ==
    /\ i \in DOMAIN journals
    /\ journals[i] = snap[w].journals[i]
    /\ \A k \in DOMAIN journals : journals[k].reversalOf # i

-----------------------------------------------------------------------------
(* The requests. *)

\* MaxJournals bounds the journal: a request that may add one starts only
\* while the journal has room for every running request
RoomFor(r) ==
    r.op = "lock" \/
    Len(journals) + Cardinality({v \in Worker : phase[v] = "running"})
        < MaxJournals

Begin(w, r) ==
    /\ phase[w] # "running"
    /\ RoomFor(r)
    /\ phase' = [phase EXCEPT ![w] = "running"]
    /\ req' = [req EXCEPT ![w] = r]
    /\ snap' = [snap EXCEPT ![w] = Live]
    /\ attempt' = [attempt EXCEPT ![w] = 1]
    /\ reply' = [reply EXCEPT ![w] = 0]
    /\ UNCHANGED tables

Running(w, op) == phase[w] = "running" /\ req[w].op = op

EndTransaction(w) ==
    /\ snap' = [snap EXCEPT ![w] = NoSnapshot]
    /\ attempt' = [attempt EXCEPT ![w] = 1]

Answer(w, journal) ==
    /\ phase' = [phase EXCEPT ![w] = "answered"]
    /\ reply' = [reply EXCEPT ![w] = journal]
    /\ EndTransaction(w)
    /\ UNCHANGED req

\* the transaction rolls back and the client gets an error
Fail(w) ==
    /\ phase' = [phase EXCEPT ![w] = "idle"]
    /\ req' = [req EXCEPT ![w] = NoRequest]
    /\ EndTransaction(w)
    /\ UNCHANGED <<journals, next, lockedThrough, closed, reply>>

Entry(r, number) ==
    [status |-> "POSTED", source |-> r.source, year |-> r.year,
     branch |-> r.branch, date |-> r.date, number |-> number,
     lines |-> r.lines, reversalOf |-> 0]

\* postJournalInTx: allocate the number, insert the draft, post it
Post(w) ==
    LET r == req[w] IN
    /\ Running(w, "post")
    /\ Balanced(r.lines)
    /\ PostAccepted(snap[w], r)
    /\ SeriesFresh(w, r.branch)
    /\ SourceFree(r.source)
    /\ YearFresh(w, r.year)
    /\ journals' = Append(journals, Entry(r, snap[w].next[r.branch]))
    /\ next' = [next EXCEPT ![r.branch] = snap[w].next[r.branch] + 1]
    /\ Answer(w, Len(journals) + 1)
    /\ UNCHANGED <<lockedThrough, closed>>

\* postJournalInTx: a repeated manual or opening request returns its journal
Replay(w) ==
    LET r == req[w] IN
    /\ Running(w, "post")
    /\ Balanced(r.lines)
    /\ Replays(snap[w], r)
    /\ \E i \in Of(snap[w], r.source) :
        /\ MatchesInput(snap[w].journals[i], r)
        /\ Answer(w, i)
    /\ UNCHANGED tables

\* the unique key is taken by a posting the snapshot does not show (P2002);
\* postJournalForActor opts no unique target into the retry
DuplicateKey(w) ==
    LET r == req[w] IN
    /\ Running(w, "post")
    /\ Balanced(r.lines)
    /\ PostAccepted(snap[w], r)
    /\ SeriesFresh(w, r.branch)
    /\ ~SourceFree(r.source)
    /\ Fail(w)

Mirror(lines) == [debit |-> lines.credit, credit |-> lines.debit]

UnmirroredCounter(j, i, y, d, number) ==
    [status |-> "POSTED", source |-> NoSource, year |-> y,
     branch |-> j.branch, date |-> d, number |-> number,
     lines |-> j.lines, reversalOf |-> i]

Counter(j, i, y, d, number) ==
    [status |-> "POSTED", source |-> NoSource, year |-> y,
     branch |-> j.branch, date |-> d, number |-> number,
     lines |-> Mirror(j.lines), reversalOf |-> i]

LeaveOriginal(js, i) == js

MarkReversed(js, i) == [js EXCEPT ![i].status = "REVERSED"]

\* reverseJournalInTx: post the mirrored journal, mark the original REVERSED
Reverse(w) ==
    LET r == req[w]
        original == snap[w].journals[r.journal] IN
    /\ Running(w, "reverse")
    /\ ReversalAllowed(snap[w], r)
    /\ SeriesFresh(w, original.branch)
    /\ ReversalFree(w, r.journal)
    /\ \E y \in ReversalYears(snap[w], r) :
        /\ YearFresh(w, y)
        /\ journals' = Append(MarkReversed(journals, r.journal),
                              Counter(original, r.journal, y, r.date,
                                      snap[w].next[original.branch]))
    /\ next' = [next EXCEPT ![original.branch] =
                    snap[w].next[original.branch] + 1]
    /\ Answer(w, Len(journals) + 1)
    /\ UNCHANGED <<lockedThrough, closed>>

\* setPeriodLockForActor: the lock row only moves forward
SetPeriodLock(w) ==
    LET r == req[w] IN
    /\ Running(w, "lock")
    /\ LockAccepted(snap[w], r)
    /\ lockedThrough[r.year] = snap[w].lockedThrough[r.year]
    /\ YearFresh(w, r.year)
    /\ lockedThrough' = [lockedThrough EXCEPT ![r.year] = r.through]
    /\ Answer(w, 0)
    /\ UNCHANGED <<journals, next, closed>>

Reject(w) ==
    /\ phase[w] = "running"
    /\ Rejected(snap[w], req[w])
    /\ Fail(w)

\* what retrySerializable wraps: postings, and the reversals that a managed
\* service makes in its own transaction; reverseJournalForActor and
\* setPeriodLockForActor run once
Retried(r) == r.op = "post" \/ (r.op = "reverse" /\ r.lifecycle)

\* SQLSTATE 40001 with attempts left: run again on a new snapshot
Retry(w) ==
    /\ phase[w] = "running"
    /\ Retried(req[w])
    /\ snap[w] # Live
    /\ attempt[w] < MaxAttempts
    /\ attempt' = [attempt EXCEPT ![w] = @ + 1]
    /\ snap' = [snap EXCEPT ![w] = Live]
    /\ UNCHANGED <<journals, next, lockedThrough, closed, phase, req, reply>>

GiveUp(w) ==
    /\ phase[w] = "running"
    /\ snap[w] # Live
    /\ Retried(req[w]) => attempt[w] >= MaxAttempts
    /\ Fail(w)

\* closeFinancialYearForActor: read committed, locks the year row only
CloseFinancialYear(y) ==
    /\ y \notin closed
    /\ closed' = closed \cup {y}
    /\ lockedThrough' = [lockedThrough EXCEPT ![y] = YearEnd[y]]
    /\ UNCHANGED <<journals, next, phase, req, snap, attempt, reply>>

Next ==
    \/ \E w \in Worker, r \in Request : Begin(w, r)
    \/ \E w \in Worker : Post(w)
    \/ \E w \in Worker : Replay(w)
    \/ \E w \in Worker : DuplicateKey(w)
    \/ \E w \in Worker : Reverse(w)
    \/ \E w \in Worker : SetPeriodLock(w)
    \/ \E w \in Worker : Reject(w)
    \/ \E w \in Worker : Retry(w)
    \/ \E w \in Worker : GiveUp(w)
    \/ \E y \in Year : CloseFinancialYear(y)

Spec == Init /\ [][Next]_vars

-----------------------------------------------------------------------------
(* Properties. *)

\* A source document reaches the ledger at most once, however many requests
\* for it overlap, replay or retry.
SourcePostedOnce ==
    \A i, k \in DOMAIN journals :
        journals[i].source = journals[k].source /\ journals[i].source # NoSource
            => i = k

\* The journal numbers of a branch are 1, 2, 3 ... without a gap or a repeat,
\* although transactions abort after they allocated a number.
NumbersGapless ==
    \A b \in Branch :
        LET ofBranch == {i \in DOMAIN journals : journals[i].branch = b} IN
        /\ \A i, k \in ofBranch : journals[i].number = journals[k].number => i = k
        /\ {journals[i].number : i \in ofBranch} = 1..(next[b] - 1)

\* A journal is REVERSED exactly when one mirrored journal of its own branch
\* counters it: no reversal happens twice, none is half done.
ReversalsPaired ==
    \A i \in DOMAIN journals :
        LET counters == {k \in DOMAIN journals : journals[k].reversalOf = i} IN
        /\ Cardinality(counters) <= 1
        /\ journals[i].status = "REVERSED" <=> counters # {}
        /\ \A k \in counters :
              /\ k > i
              /\ journals[k].branch = journals[i].branch
              /\ journals[k].lines = Mirror(journals[i].lines)

\* A request that was answered with a journal, by posting or by replay, names
\* a journal that carries exactly what the request asked for.
ReplyNamesRequest ==
    \A w \in Worker :
        phase[w] = "answered" /\ req[w].op = "post" =>
            /\ reply[w] \in DOMAIN journals
            /\ journals[reply[w]].source = req[w].source
            /\ journals[reply[w]].year = req[w].year
            /\ journals[reply[w]].branch = req[w].branch
            /\ journals[reply[w]].date = req[w].date
            /\ journals[reply[w]].lines = req[w].lines

\* The correction of a managed or owner record is final: a journal countering
\* it is never itself reversed, so the record cannot come back into force
\* behind its service's back.
CorrectionsAreFinal ==
    \A k \in DOMAIN journals :
        LET i == journals[k].reversalOf IN
        i # 0 /\ journals[i].source \in Corrected => journals[k].status = "POSTED"

\* A posted journal is append-only: nothing of it changes but the one move
\* from POSTED to REVERSED.
PostedJournalsImmutable ==
    [][/\ Len(journals') >= Len(journals)
       /\ \A i \in DOMAIN journals :
            \/ journals'[i] = journals[i]
            \/ /\ journals[i].status = "POSTED"
               /\ journals'[i] = [journals[i] EXCEPT !.status = "REVERSED"]]_vars

\* No journal is posted into a financial year that has been closed, although
\* the closing takes no company lock and the posting decides on a snapshot
\* that may be older than the closing.
ClosedYearsStayClosed ==
    [][/\ closed \subseteq closed'
       /\ \A i \in DOMAIN journals' \ DOMAIN journals :
            journals'[i].year \notin closed]_vars

\* A period lock never moves back, and two administrators advancing it at the
\* same time cannot make it do so.
LockNeverMovesBack ==
    [][\A y \in Year : lockedThrough[y] <= lockedThrough'[y]]_vars

\* What the period-lock screen promises: once a lock is in place no journal
\* dated on or before it is posted.  The code does not keep this promise for a
\* posting that queued for the company row behind the lock.
LockedPeriodRefusesPostings ==
    [][\A i \in DOMAIN journals' \ DOMAIN journals :
            lockedThrough[journals'[i].year] < journals'[i].date]_vars

=============================================================================
