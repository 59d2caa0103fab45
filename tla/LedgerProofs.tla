----------------------------- MODULE LedgerProofs -----------------------------
(***************************************************************************)
(* What Ledger guarantees for any number of overlapping requests, of       *)
(* branches, sources, years and journals.                                  *)
(***************************************************************************)
EXTENDS LedgerBook, SumFacts, TLAPS

-----------------------------------------------------------------------------
(* The shapes of the data. *)

\* A request with an operation has the fields of that operation.
LEMMA RequestShape ==
    ASSUME NEW r \in Request
    PROVE  /\ r.op = "post" => r \in PostRequest
           /\ r.op = "reverse" => r \in ReverseRequest
           /\ r.op = "lock" => r \in LockRequest
BY LedgerConstants DEF PostRequest, ReverseRequest, LockRequest

\* A posted entry and a counter entry are journal entries.
LEMMA EntryType ==
    ASSUME NEW r \in PostRequest, NEW n \in Nat \ {0}
    PROVE  Entry(r, n) \in JournalEntry
BY DEF Entry, JournalEntry, PostRequest

LEMMA CounterType ==
    ASSUME NEW j \in JournalEntry, NEW i \in Nat, NEW y \in Year,
           NEW d \in Nat, NEW n \in Nat \ {0}
    PROVE  Counter(j, i, y, d, n) \in JournalEntry
BY DEF Counter, JournalEntry, Mirror, Lines

LEMMA MarkedType ==
    ASSUME NEW js \in Seq(JournalEntry), NEW i \in DOMAIN js
    PROVE  /\ MarkReversed(js, i) \in Seq(JournalEntry)
           /\ Len(MarkReversed(js, i)) = Len(js)
           /\ \A k \in 1..Len(js) :
                MarkReversed(js, i)[k] =
                    IF k = i THEN [js[i] EXCEPT !.status = "REVERSED"] ELSE js[k]
<1>1. js[i] \in JournalEntry
    OBVIOUS
<1>2. [js[i] EXCEPT !.status = "REVERSED"] \in JournalEntry
    BY <1>1 DEF JournalEntry
<1> QED
    BY <1>2 DEF MarkReversed

LEMMA NoSnapshotType == NoSnapshot \in Database
BY DEF NoSnapshot, Database

-----------------------------------------------------------------------------
(* Type correctness. *)

LEMMA TypeInit == Init => TypeOK
<1> SUFFICES ASSUME Init PROVE TypeOK
    OBVIOUS
<1>1. Live \in Database
    BY DEF Init, Live, Database
<1> QED
    BY <1>1, NoSnapshotType, LedgerConstants DEF Init, TypeOK

\* The bookkeeping of an answered or failed request keeps the types of the
\* worker's variables.
LEMMA WorkerType ==
    ASSUME TypeOK, NEW w \in Worker, phase[w] = "running",
           \/ \E n \in Nat : Answer(w, n)
           \/ Fail(w)
    PROVE  /\ phase' \in [Worker -> {"idle", "running", "answered"}]
           /\ req' \in [Worker -> Request \cup {NoRequest}]
           /\ \A v \in Worker : phase'[v] # "idle" => req'[v] \in Request
           /\ snap' \in [Worker -> Database]
           /\ attempt' \in [Worker -> 1..MaxAttempts]
           /\ reply' \in [Worker -> Nat]
<1>1. CASE \E n \in Nat : Answer(w, n)
    BY <1>1, NoSnapshotType, LedgerConstants DEF TypeOK, Answer, EndTransaction
<1>2. CASE Fail(w)
    BY <1>2, NoSnapshotType, LedgerConstants DEF TypeOK, Fail, EndTransaction
<1> QED
    BY <1>1, <1>2

LEMMA TypePost ==
    ASSUME TypeOK, NEW w \in Worker, Post(w) PROVE TypeOK'
<1> DEFINE r == req[w]
           n == snap[w].next[r.branch]
<1>1. r \in PostRequest /\ r.branch \in Branch
    BY RequestShape DEF TypeOK, Post, Running, PostRequest
<1>2. n \in Nat \ {0} /\ n + 1 \in Nat \ {0}
    BY <1>1 DEF TypeOK, Database
<1>3. journals \in Seq(JournalEntry) /\ next \in [Branch -> Nat \ {0}]
    BY DEF TypeOK, Live, Database
<1>4. journals' = Append(journals, Entry(r, n))
    BY DEF Post
<1>5. journals' \in Seq(JournalEntry)
    BY <1>1, <1>2, <1>3, <1>4, EntryType
<1>6. next' \in [Branch -> Nat \ {0}]
    BY <1>1, <1>2, <1>3 DEF Post
<1>7. Live' \in Database
    BY <1>5, <1>6 DEF TypeOK, Live, Database, Post
<1>8. Answer(w, Len(journals) + 1) /\ Len(journals) + 1 \in Nat
    BY <1>3 DEF Post
<1> QED
    BY <1>7, <1>8, WorkerType DEF TypeOK, Post, Running

LEMMA TypeReverse ==
    ASSUME TypeOK, NEW w \in Worker, Reverse(w) PROVE TypeOK'
<1> DEFINE r == req[w]
           original == snap[w].journals[r.journal]
           n == snap[w].next[original.branch]
<1>1. r \in ReverseRequest
    BY RequestShape DEF TypeOK, Reverse, Running
<1>2. snap[w] \in Database /\ snap[w].journals \in Seq(JournalEntry)
    BY DEF TypeOK, Database
<1>3. r.journal \in DOMAIN snap[w].journals /\ r.journal \in Nat /\ r.date \in Nat
    BY <1>1 DEF Reverse, ReversalAllowed, Unreversed, ReverseRequest
<1>4. original \in JournalEntry
    BY <1>2, <1>3
<1>4a. original.branch \in Branch
    BY <1>4 DEF JournalEntry
<1>5. n \in Nat \ {0} /\ n + 1 \in Nat \ {0}
  <2>1. snap[w].next \in [Branch -> Nat \ {0}]
    BY <1>2 DEF Database
  <2> HIDE DEF original
  <2>2. n \in Nat \ {0}
    BY <1>4a, <2>1
  <2> QED
    BY <2>2
<1>6. journals \in Seq(JournalEntry) /\ next \in [Branch -> Nat \ {0}]
    BY DEF TypeOK, Live, Database
<1>7. r.journal \in DOMAIN journals
  <2>1. ReversalFree(w, r.journal)
    BY DEF Reverse
  <2> QED
    BY <2>1 DEF ReversalFree
<1>8. PICK y \in Year :
            journals' = Append(MarkReversed(journals, r.journal),
                               Counter(original, r.journal, y, r.date, n))
    BY DEF Reverse, ReversalYears
<1>9. journals' \in Seq(JournalEntry)
  <2> DEFINE marked == MarkReversed(journals, r.journal)
             counter == Counter(original, r.journal, y, r.date, n)
  <2>1. marked \in Seq(JournalEntry)
    BY <1>6, <1>7, MarkedType
  <2>2. counter \in JournalEntry
    BY <1>3, <1>4, <1>5, CounterType
  <2>3. journals' = Append(marked, counter)
    BY <1>8
  <2> HIDE DEF marked, counter
  <2> QED
    BY <2>1, <2>2, <2>3
<1>10. next' \in [Branch -> Nat \ {0}]
  <2>1. next' = [next EXCEPT ![original.branch] = n + 1]
    BY DEF Reverse
  <2> HIDE DEF original, n
  <2> QED
    BY <1>4a, <1>5, <1>6, <2>1
<1>11. Live' \in Database
    BY <1>9, <1>10 DEF TypeOK, Live, Database, Reverse
<1>12. Len(journals) + 1 \in Nat
    BY <1>6
<1>13. Answer(w, Len(journals) + 1)
    BY DEF Reverse
<1> QED
    BY <1>11, <1>12, <1>13, WorkerType DEF TypeOK, Reverse, Running

\* Every other action leaves the journal alone.
Quiet ==
    \/ \E w \in Worker, r \in Request : Begin(w, r)
    \/ \E w \in Worker : Replay(w)
    \/ \E w \in Worker : DuplicateKey(w)
    \/ \E w \in Worker : SetPeriodLock(w)
    \/ \E w \in Worker : Reject(w)
    \/ \E w \in Worker : Retry(w)
    \/ \E w \in Worker : GiveUp(w)
    \/ \E y \in Year : CloseFinancialYear(y)
    \/ UNCHANGED vars

\* A step posts a journal, reverses one, or leaves journals and numbers alone.
LEMMA StepKinds ==
    [Next]_vars => \/ \E w \in Worker : Post(w)
                   \/ \E w \in Worker : Reverse(w)
                   \/ Quiet
BY DEF Next, Quiet

LEMMA QuietSteps == Quiet => UNCHANGED <<journals, next>>
BY DEF Quiet, Begin, Replay, DuplicateKey, SetPeriodLock, Reject, Retry, GiveUp,
       CloseFinancialYear, Answer, Fail, vars, tables

LEMMA TypeQuiet == TypeOK /\ Quiet => TypeOK'
<1> SUFFICES ASSUME TypeOK, Quiet PROVE TypeOK'
    OBVIOUS
<1> USE DEF Live
<1>1. ASSUME NEW w \in Worker, NEW r \in Request, Begin(w, r) PROVE TypeOK'
    BY <1>1, LedgerConstants DEF TypeOK, Begin, tables, Database
<1>2. ASSUME NEW w \in Worker, Replay(w) PROVE TypeOK'
    <2>1. PICK i \in Nat : Answer(w, i)
        BY <1>2 DEF Replay, Of, TypeOK, Database
    <2> QED
        BY <1>2, <2>1, WorkerType DEF TypeOK, Replay, Running, tables
<1>3. ASSUME NEW w \in Worker, phase[w] = "running", Fail(w) PROVE TypeOK'
    BY <1>3, WorkerType DEF TypeOK, Fail
<1>4. ASSUME NEW w \in Worker, SetPeriodLock(w) PROVE TypeOK'
    <2>1. req[w] \in LockRequest
        BY <1>4, RequestShape DEF TypeOK, SetPeriodLock, Running
    <2>2. lockedThrough' \in [Year -> Nat]
        BY <1>4, <2>1 DEF TypeOK, Database, SetPeriodLock, LockRequest
    <2>3. Live' \in Database
        BY <1>4, <2>2 DEF TypeOK, Database, SetPeriodLock
    <2> QED
        BY <1>4, <2>3, WorkerType DEF TypeOK, SetPeriodLock, Running
<1>5. ASSUME NEW w \in Worker, Retry(w) PROVE TypeOK'
    <2>1. attempt' \in [Worker -> 1..MaxAttempts]
        BY <1>5, LedgerConstants DEF TypeOK, Retry
    <2>2. Live \in Database /\ Live' = Live
        BY <1>5 DEF TypeOK, Retry
    <2>3. snap' \in [Worker -> Database]
        BY <1>5, <2>2 DEF TypeOK, Retry
    <2> QED
        BY <1>5, <2>1, <2>2, <2>3 DEF TypeOK, Retry
<1>6. ASSUME NEW y \in Year, CloseFinancialYear(y) PROVE TypeOK'
    <2>1. /\ lockedThrough' \in [Year -> Nat]
          /\ closed' \in SUBSET Year
        BY <1>6, LedgerConstants DEF TypeOK, CloseFinancialYear, Database
    <2>2. Live' \in Database
        BY <1>6, <2>1 DEF TypeOK, CloseFinancialYear, Database
    <2> QED
        BY <1>6, <2>2 DEF TypeOK, CloseFinancialYear
<1>7. CASE UNCHANGED vars
    BY <1>7 DEF TypeOK, vars
<1> QED
    BY <1>1, <1>2, <1>3, <1>4, <1>5, <1>6, <1>7
    DEF Quiet, DuplicateKey, Reject, GiveUp, Running

\* The tables, the snapshots and the requests keep their shapes.
THEOREM TypeCorrect == Spec => []TypeOK
<1>1. TypeOK /\ [Next]_vars => TypeOK'
    BY StepKinds, TypePost, TypeReverse, TypeQuiet
<1> QED
    BY <1>1, TypeInit, PTL DEF Spec

-----------------------------------------------------------------------------
(* What a posting and a reversal do to the journal. *)

\* A posting adds one entry, of a source that was free, under the next number
\* of its branch, in a year that is open.
LEMMA PostStep ==
    ASSUME TypeOK, NEW w \in Worker, Post(w)
    PROVE  /\ req[w] \in PostRequest
           /\ Len(journals') = Len(journals) + 1
           /\ \A i \in 1..Len(journals) : journals'[i] = journals[i]
           /\ journals'[Len(journals) + 1]
                = Entry(req[w], next[req[w].branch])
           /\ next' = [next EXCEPT ![req[w].branch] = @ + 1]
           /\ \A i \in 1..Len(journals) : journals[i].source # req[w].source
           /\ req[w].year \notin closed
           /\ closed' = closed
<1>1. req[w] \in PostRequest
    BY RequestShape DEF TypeOK, Post, Running
<1>2. journals \in Seq(JournalEntry) /\ DOMAIN journals = 1..Len(journals)
    BY DEF TypeOK, Live, Database
<1>3. next[req[w].branch] = snap[w].next[req[w].branch]
    BY DEF Post, SeriesFresh
<1>4. journals' = Append(journals, Entry(req[w], next[req[w].branch]))
    BY <1>3 DEF Post
<1>5. next' = [next EXCEPT ![req[w].branch] = @ + 1]
    BY <1>1, <1>3 DEF Post, PostRequest, TypeOK, Live, Database
<1>6. \A i \in 1..Len(journals) : journals[i].source # req[w].source
    BY <1>2 DEF Post, SourceFree
<1>7. req[w].year \notin closed
    BY DEF Post, PostAccepted, ContextOpen, YearFresh
<1>8. closed' = closed
    BY DEF Post
<1> QED
    BY <1>1, <1>2, <1>4, <1>5, <1>6, <1>7, <1>8

\* A reversal marks an unreversed journal of the ledger and adds its mirror
\* image in the same branch, under the next number, in a year that is open.
LEMMA ReverseStep ==
    ASSUME TypeOK, NEW w \in Worker, Reverse(w)
    PROVE  \E i \in 1..Len(journals), y \in Year, d \in Nat :
             /\ Len(journals') = Len(journals) + 1
             /\ journals[i].status = "POSTED"
             /\ \A k \in 1..Len(journals) : journals[k].reversalOf # i
             /\ \A k \in 1..Len(journals) :
                    journals'[k] = IF k = i
                                   THEN [journals[i] EXCEPT !.status = "REVERSED"]
                                   ELSE journals[k]
             /\ journals'[Len(journals) + 1]
                    = Counter(journals[i], i, y, d, next[journals[i].branch])
             /\ next' = [next EXCEPT ![journals[i].branch] = @ + 1]
             /\ y \notin closed
             /\ closed' = closed
<1> DEFINE i == req[w].journal
<1>1. req[w] \in ReverseRequest
    BY RequestShape DEF TypeOK, Reverse, Running
<1>2. journals \in Seq(JournalEntry) /\ DOMAIN journals = 1..Len(journals)
    BY DEF TypeOK, Live, Database
<1>3. /\ i \in 1..Len(journals)
      /\ journals[i] = snap[w].journals[i]
      /\ \A k \in 1..Len(journals) : journals[k].reversalOf # i
    BY <1>2 DEF Reverse, ReversalFree
<1>4. journals[i].status = "POSTED"
    BY <1>3 DEF Reverse, ReversalAllowed, Unreversed
<1>5. journals[i].branch \in Branch
    <2>1. journals[i] \in JournalEntry
        BY <1>2, <1>3
    <2> QED
        BY <2>1 DEF JournalEntry
<1>6. next[journals[i].branch] = snap[w].next[journals[i].branch]
    BY <1>3 DEF Reverse, SeriesFresh
<1>7. PICK y \in Year :
        /\ y \in ReversalYears(snap[w], req[w])
        /\ YearFresh(w, y)
        /\ journals' = Append(MarkReversed(journals, i),
                              Counter(snap[w].journals[i], i, y, req[w].date,
                                      snap[w].next[snap[w].journals[i].branch]))
    BY DEF Reverse, ReversalYears
<1>8. y \notin closed
    BY <1>7 DEF ReversalYears, ContextOpen, YearFresh
<1>9. journals' = Append(MarkReversed(journals, i),
                         Counter(journals[i], i, y, req[w].date,
                                 next[journals[i].branch]))
    BY <1>3, <1>6, <1>7
<1>10. next' = [next EXCEPT ![journals[i].branch] = @ + 1]
    BY <1>3, <1>5, <1>6 DEF Reverse, TypeOK, Live, Database
<1>11. /\ MarkReversed(journals, i) \in Seq(JournalEntry)
       /\ Len(MarkReversed(journals, i)) = Len(journals)
       /\ \A k \in 1..Len(journals) :
            MarkReversed(journals, i)[k] =
                IF k = i THEN [journals[i] EXCEPT !.status = "REVERSED"]
                ELSE journals[k]
    BY <1>2, <1>3, MarkedType
<1>12. /\ Len(journals') = Len(journals) + 1
       /\ \A k \in 1..Len(journals) :
            journals'[k] = MarkReversed(journals, i)[k]
       /\ journals'[Len(journals) + 1]
            = Counter(journals[i], i, y, req[w].date, next[journals[i].branch])
  <2> DEFINE marked == MarkReversed(journals, i)
             counter == Counter(journals[i], i, y, req[w].date,
                                next[journals[i].branch])
  <2>1. journals' = Append(marked, counter)
    BY <1>9
  <2>2. marked \in Seq(JournalEntry) /\ Len(marked) = Len(journals)
    BY <1>11
  <2> HIDE DEF marked, counter
  <2>3. /\ Len(journals') = Len(marked) + 1
        /\ \A k \in 1..Len(marked) : journals'[k] = marked[k]
        /\ journals'[Len(marked) + 1] = counter
    BY <2>1, <2>2
  <2> QED
    BY <2>2, <2>3 DEF marked, counter
<1>13. req[w].date \in Nat /\ closed' = closed
    BY <1>1 DEF Reverse, ReverseRequest
<1>14. \A k \in 1..Len(journals) :
            journals'[k] = IF k = i
                           THEN [journals[i] EXCEPT !.status = "REVERSED"]
                           ELSE journals[k]
    BY <1>11, <1>12
<1> QED
    BY <1>3, <1>4, <1>8, <1>10, <1>12, <1>13, <1>14

-----------------------------------------------------------------------------
(* One posting per source. *)

\* However many requests carry a source, the ledger enters it at most once.
THEOREM PostedOnce == Spec => []SourcePostedOnce
<1>1. Init => SourcePostedOnce
    BY DEF Init, SourcePostedOnce
<1>2. TypeOK /\ TypeOK' /\ SourcePostedOnce /\ [Next]_vars => SourcePostedOnce'
    <2> SUFFICES ASSUME TypeOK, TypeOK', SourcePostedOnce, [Next]_vars
                 PROVE  SourcePostedOnce'
        OBVIOUS
    <2>1. /\ DOMAIN journals = 1..Len(journals) /\ Len(journals) \in Nat
          /\ DOMAIN journals' = 1..Len(journals')
        BY DEF TypeOK, Live, Database
    <2>2. ASSUME NEW w \in Worker, Post(w) PROVE SourcePostedOnce'
        <3>1. /\ Len(journals') = Len(journals) + 1
              /\ \A i \in 1..Len(journals) : journals'[i] = journals[i]
              /\ journals'[Len(journals) + 1]
                    = Entry(req[w], next[req[w].branch])
              /\ \A i \in 1..Len(journals) :
                    journals[i].source # req[w].source
            BY <2>2, PostStep
        <3>2. journals'[Len(journals) + 1].source = req[w].source
            BY <3>1 DEF Entry
        <3> QED
            BY <2>1, <3>1, <3>2 DEF SourcePostedOnce
    <2>3. ASSUME NEW w \in Worker, Reverse(w) PROVE SourcePostedOnce'
        <3>1. PICK i \in 1..Len(journals), y \in Year, d \in Nat :
                /\ Len(journals') = Len(journals) + 1
                /\ \A k \in 1..Len(journals) :
                    journals'[k] =
                        IF k = i THEN [journals[i] EXCEPT !.status = "REVERSED"]
                        ELSE journals[k]
                /\ journals'[Len(journals) + 1]
                    = Counter(journals[i], i, y, d, next[journals[i].branch])
            BY <2>3, ReverseStep
        <3>2. journals'[Len(journals) + 1].source = NoSource
            BY <3>1 DEF Counter
        <3>3. journals[i] \in JournalEntry
            BY <2>1 DEF TypeOK, Live, Database
        <3>4. \A k \in 1..Len(journals) :
                journals'[k].source = journals[k].source
            BY <3>1, <3>3 DEF JournalEntry
        <3> QED
            BY <2>1, <3>1, <3>2, <3>4 DEF SourcePostedOnce
    <2>4. CASE Quiet
        BY <2>4, QuietSteps DEF SourcePostedOnce
    <2> QED
        BY <2>2, <2>3, <2>4, StepKinds
<1> QED
    BY <1>1, <1>2, TypeCorrect, PTL DEF Spec

-----------------------------------------------------------------------------
(* Closed years. *)

\* No posting and no reversal enters a year that is closed when it commits.
THEOREM ClosedYears == Spec => ClosedYearsStayClosed
<1> DEFINE Stays == /\ closed \subseteq closed'
                    /\ \A i \in DOMAIN journals' \ DOMAIN journals :
                            journals'[i].year \notin closed
<1>1. TypeOK /\ TypeOK' /\ [Next]_vars => Stays
    <2> SUFFICES ASSUME TypeOK, TypeOK', [Next]_vars PROVE Stays
        OBVIOUS
    <2>1. /\ DOMAIN journals = 1..Len(journals) /\ Len(journals) \in Nat
          /\ DOMAIN journals' = 1..Len(journals')
        BY DEF TypeOK, Live, Database
    <2>2. ASSUME NEW w \in Worker, Post(w) PROVE Stays
        <3>1. /\ Len(journals') = Len(journals) + 1
              /\ journals'[Len(journals) + 1]
                    = Entry(req[w], next[req[w].branch])
              /\ req[w].year \notin closed
              /\ closed' = closed
            BY <2>2, PostStep
        <3> QED
            BY <2>1, <3>1 DEF Entry
    <2>3. ASSUME NEW w \in Worker, Reverse(w) PROVE Stays
        <3>1. PICK i \in 1..Len(journals), y \in Year, d \in Nat :
                /\ Len(journals') = Len(journals) + 1
                /\ journals'[Len(journals) + 1]
                    = Counter(journals[i], i, y, d, next[journals[i].branch])
                /\ y \notin closed
                /\ closed' = closed
            BY <2>3, ReverseStep
        <3> QED
            BY <2>1, <3>1 DEF Counter
    <2>4. CASE Quiet
        <3>1. closed \subseteq closed'
            BY <2>4 DEF Quiet, Begin, Replay, DuplicateKey, SetPeriodLock,
                        Reject, Retry, GiveUp, CloseFinancialYear, Answer,
                        Fail, vars, tables
        <3> QED
            BY <2>4, <3>1, QuietSteps
    <2> QED
        BY <2>2, <2>3, <2>4, StepKinds
<1>2. TypeOK /\ TypeOK' /\ [Next]_vars => [Stays]_vars
    BY <1>1
<1> QED
    BY <1>2, TypeCorrect, PTL DEF Spec, ClosedYearsStayClosed
-----------------------------------------------------------------------------
(* How the journal grows. *)

\* two versions of one journal
Same(a, b) ==
    /\ a.source = b.source /\ a.year = b.year /\ a.branch = b.branch
    /\ a.date = b.date /\ a.number = b.number /\ a.lines = b.lines
    /\ a.reversalOf = b.reversalOf

\* One entry is added, for a source (i = 0) or against the journal i.
Grows(i) ==
    LET n == Len(journals) + 1
        e == journals'[n]
    IN  /\ Len(journals') = n
        /\ \A k \in 1..Len(journals) :
              /\ Same(journals[k], journals'[k])
              /\ k # i => journals'[k] = journals[k]
        /\ e.status = "POSTED" /\ e.reversalOf = i
        /\ e.branch \in Branch /\ e.number = next[e.branch]
        /\ next' = [next EXCEPT ![e.branch] = @ + 1]
        /\ i # 0 => /\ journals[i].status = "POSTED"
                    /\ journals'[i] = [journals[i] EXCEPT !.status = "REVERSED"]
                    /\ journals'[i].status = "REVERSED"
                    /\ \A k \in 1..Len(journals) : journals[k].reversalOf # i
                    /\ e.branch = journals[i].branch
                    /\ e.lines = Mirror(journals[i].lines)

LEMMA Growth ==
    ASSUME TypeOK, [Next]_vars
    PROVE  \/ UNCHANGED <<journals, next>>
           \/ \E i \in 0..Len(journals) : Grows(i)
<1>1. /\ journals \in Seq(JournalEntry) /\ Len(journals) \in Nat
      /\ \A k \in 1..Len(journals) : journals[k] \in JournalEntry
    BY DEF TypeOK, Live, Database
<1>2. ASSUME NEW w \in Worker, Post(w) PROVE Grows(0)
    <2>1. /\ req[w] \in PostRequest
          /\ Len(journals') = Len(journals) + 1
          /\ \A i \in 1..Len(journals) : journals'[i] = journals[i]
          /\ journals'[Len(journals) + 1]
                = Entry(req[w], next[req[w].branch])
          /\ next' = [next EXCEPT ![req[w].branch] = @ + 1]
        BY <1>2, PostStep
    <2>2. req[w].branch \in Branch
        BY <2>1 DEF PostRequest
    <2> QED
        BY <2>1, <2>2 DEF Grows, Same, Entry
<1>3. ASSUME NEW w \in Worker, Reverse(w)
      PROVE  \E i \in 1..Len(journals) : Grows(i)
    <2>1. PICK i \in 1..Len(journals), y \in Year, d \in Nat :
             /\ Len(journals') = Len(journals) + 1
             /\ journals[i].status = "POSTED"
             /\ \A k \in 1..Len(journals) : journals[k].reversalOf # i
             /\ \A k \in 1..Len(journals) :
                    journals'[k] = IF k = i
                                   THEN [journals[i] EXCEPT !.status = "REVERSED"]
                                   ELSE journals[k]
             /\ journals'[Len(journals) + 1]
                    = Counter(journals[i], i, y, d, next[journals[i].branch])
             /\ next' = [next EXCEPT ![journals[i].branch] = @ + 1]
        BY <1>3, ReverseStep
    <2>2. journals[i] \in JournalEntry /\ i # 0
        BY <1>1
    <2>3. journals[i].branch \in Branch
        BY <2>2 DEF JournalEntry
    <2>4. journals'[i].status = "REVERSED" /\ Same(journals[i], journals'[i])
        BY <2>1, <2>2 DEF JournalEntry, Same
    <2>5. \A k \in 1..Len(journals) : /\ Same(journals[k], journals'[k])
                                      /\ k # i => journals'[k] = journals[k]
        BY <2>1, <2>4 DEF Same
    <2> DEFINE e == journals'[Len(journals) + 1]
    <2>6. /\ e.status = "POSTED" /\ e.reversalOf = i
          /\ e.branch = journals[i].branch
          /\ e.number = next[journals[i].branch]
          /\ e.lines = Mirror(journals[i].lines)
        BY <2>1 DEF Counter
    <2> HIDE DEF e
    <2>7. Grows(i)
        BY <2>1, <2>3, <2>4, <2>5, <2>6 DEF Grows, e
    <2> QED
        BY <2>7
<1> QED
    BY <1>1, <1>2, <1>3, StepKinds, QuietSteps

\* Of a journal that was posted nothing changes but its status, once.
THEOREM Immutable == Spec => PostedJournalsImmutable
<1> DEFINE Appends ==
        /\ Len(journals') >= Len(journals)
        /\ \A i \in DOMAIN journals :
             \/ journals'[i] = journals[i]
             \/ /\ journals[i].status = "POSTED"
                /\ journals'[i] = [journals[i] EXCEPT !.status = "REVERSED"]
<1>1. TypeOK /\ [Next]_vars => Appends
    <2> SUFFICES ASSUME TypeOK, [Next]_vars PROVE Appends
        OBVIOUS
    <2>1. DOMAIN journals = 1..Len(journals) /\ Len(journals) \in Nat
        BY DEF TypeOK, Live, Database
    <2>2. ASSUME NEW i \in 0..Len(journals), Grows(i) PROVE Appends
        BY <2>1, <2>2 DEF Grows
    <2> QED
        BY <2>1, <2>2, Growth
<1>2. TypeOK /\ [Next]_vars => [Appends]_vars
    BY <1>1
<1> QED
    BY <1>2, TypeCorrect, PTL DEF Spec, PostedJournalsImmutable

-----------------------------------------------------------------------------
(* Period locks. *)

\* a lock lies in its year
LockInYear == \A y \in Year : lockedThrough[y] <= YearEnd[y]

LEMMA LockStep ==
    ASSUME TypeOK, LockInYear, [Next]_vars
    PROVE  LockInYear' /\ \A y \in Year : lockedThrough[y] <= lockedThrough'[y]
<1>1. /\ lockedThrough \in [Year -> Nat] /\ YearEnd \in [Year -> Nat \ {0}]
      /\ YearStart \in [Year -> Nat \ {0}]
    BY LedgerConstants DEF TypeOK, Live, Database
<1>2. CASE lockedThrough' = lockedThrough
    BY <1>1, <1>2 DEF LockInYear
<1>3. ASSUME NEW w \in Worker, SetPeriodLock(w)
      PROVE  /\ LockInYear'
             /\ \A y \in Year : lockedThrough[y] <= lockedThrough'[y]
    <2>1. req[w] \in LockRequest
        BY <1>3, RequestShape DEF TypeOK, SetPeriodLock, Running
    <2>2. req[w].year \in Year /\ req[w].through \in Nat
        BY <2>1 DEF LockRequest
    <2>3. /\ lockedThrough' = [lockedThrough EXCEPT ![req[w].year] =
                                    req[w].through]
          /\ req[w].through <= YearEnd[req[w].year]
          /\ lockedThrough[req[w].year] <= req[w].through
        BY <1>3 DEF SetPeriodLock, LockAccepted, Covers
    <2> QED
        BY <1>1, <2>2, <2>3 DEF LockInYear
<1>4. ASSUME NEW y \in Year, CloseFinancialYear(y)
      PROVE  /\ LockInYear'
             /\ \A z \in Year : lockedThrough[z] <= lockedThrough'[z]
    BY <1>1, <1>4 DEF CloseFinancialYear, LockInYear
<1> QED
    BY <1>2, <1>3, <1>4 DEF Next, Begin, Post, Replay, DuplicateKey, Reverse,
        Reject, Retry, GiveUp, Fail, vars, tables

\* A lock only moves forward, also when a year is closed meanwhile.
THEOREM LockForward == Spec => LockNeverMovesBack
<1>1. Init => LockInYear
    BY LedgerConstants DEF Init, LockInYear
<1>2. TypeOK /\ LockInYear /\ [Next]_vars => LockInYear'
    BY LockStep
<1>3. TypeOK /\ LockInYear /\ [Next]_vars
        => [\A y \in Year : lockedThrough[y] <= lockedThrough'[y]]_vars
    BY LockStep
<1> QED
    BY <1>1, <1>2, <1>3, TypeCorrect, PTL DEF Spec, LockNeverMovesBack

-----------------------------------------------------------------------------
(* Numbers. *)

\* NumbersGapless, element by element.
Numbered ==
    /\ \A i \in 1..Len(journals) :
          /\ journals[i].branch \in Branch
          /\ journals[i].number \in 1..(next[journals[i].branch] - 1)
          /\ \A k \in 1..Len(journals) :
                journals[i].branch = journals[k].branch
                /\ journals[i].number = journals[k].number => i = k
    /\ \A b \in Branch, n \in Nat \ {0} : n < next[b] =>
          \E i \in 1..Len(journals) :
              journals[i].branch = b /\ journals[i].number = n

LEMMA NumberedStep ==
    ASSUME TypeOK, Numbered, [Next]_vars PROVE Numbered'
<1>1. Len(journals) \in Nat /\ next \in [Branch -> Nat \ {0}]
    BY DEF TypeOK, Live, Database
<1>2. ASSUME NEW j \in 0..Len(journals), Grows(j) PROVE Numbered'
    <2> DEFINE N == Len(journals)
               e == journals'[N + 1]
    <2>1. /\ Len(journals') = N + 1
          /\ \A k \in 1..N : /\ journals'[k].branch = journals[k].branch
                             /\ journals'[k].number = journals[k].number
          /\ e.branch \in Branch /\ e.number = next[e.branch]
          /\ next' = [next EXCEPT ![e.branch] = @ + 1]
        BY <1>2 DEF Grows, Same
    <2>2. \A b \in Branch : /\ next'[b] \in Nat \ {0} /\ next[b] <= next'[b]
                            /\ b # e.branch => next'[b] = next[b]
                            /\ next'[e.branch] = next[e.branch] + 1
        BY <1>1, <2>1
    <2>3. ASSUME NEW i \in 1..(N + 1)
          PROVE  /\ journals'[i].branch \in Branch
                 /\ journals'[i].number \in 1..(next'[journals'[i].branch] - 1)
        <3>1. CASE i \in 1..N
            <4>1. /\ journals[i].branch \in Branch
                  /\ journals[i].number \in 1..(next[journals[i].branch] - 1)
                BY <3>1 DEF Numbered
            <4>2. next[journals[i].branch] \in Nat
                  /\ next'[journals[i].branch] \in Nat
                  /\ next[journals[i].branch] <= next'[journals[i].branch]
                BY <1>1, <2>2, <4>1
            <4>3. journals[i].number \in 1..(next'[journals[i].branch] - 1)
                BY <4>1, <4>2
            <4>4. /\ journals'[i].branch = journals[i].branch
                  /\ journals'[i].number = journals[i].number
                BY <2>1, <3>1
            <4> QED
                BY <4>1, <4>3, <4>4
        <3>2. CASE i = N + 1
            <4>1. next[e.branch] \in Nat \ {0}
                BY <1>1, <2>1
            <4> QED
                BY <2>1, <2>2, <3>2, <4>1
        <3> QED
            BY <1>1, <3>1, <3>2
    <2>4. ASSUME NEW i \in 1..(N + 1), NEW k \in 1..(N + 1),
                 journals'[i].branch = journals'[k].branch,
                 journals'[i].number = journals'[k].number
          PROVE  i = k
        <3>1. ASSUME NEW l \in 1..N, journals'[l].branch = e.branch
              PROVE  journals'[l].number # e.number
            <4>1. journals[l].number \in 1..(next[e.branch] - 1)
                BY <2>1, <3>1 DEF Numbered
            <4>2. next[e.branch] \in Nat
                BY <1>1, <2>1
            <4> QED
                BY <2>1, <4>1, <4>2
        <3>2. CASE i \in 1..N /\ k \in 1..N
            BY <2>1, <2>4, <3>2 DEF Numbered
        <3>3. (i \in 1..N \/ i = N + 1) /\ (k \in 1..N \/ k = N + 1)
            BY <1>1
        <3> QED
            BY <2>4, <3>1, <3>2, <3>3
    <2>5. ASSUME NEW b \in Branch, NEW n \in Nat \ {0}, n < next'[b]
          PROVE  \E i \in 1..(N + 1) :
                    journals'[i].branch = b /\ journals'[i].number = n
        <3>1. CASE n < next[b]
            <4>1. PICK i \in 1..N : journals[i].branch = b
                                    /\ journals[i].number = n
                BY <3>1 DEF Numbered
            <4> QED
                BY <1>1, <2>1, <4>1
        <3>2. CASE ~(n < next[b])
            <4>1. b = e.branch /\ n = next[b]
                BY <1>1, <2>1, <2>2, <2>5, <3>2
            <4> QED
                BY <1>1, <2>1, <4>1
        <3> QED
            BY <3>1, <3>2
    <2> QED
        BY <2>1, <2>3, <2>4, <2>5 DEF Numbered
<1>3. CASE UNCHANGED <<journals, next>>
    BY <1>3 DEF Numbered
<1> QED
    BY <1>2, <1>3, Growth

\* The numbers of a branch are 1, 2, 3 ... without a gap or a repeat.
THEOREM Gapless == Spec => []NumbersGapless
<1>1. Init => Numbered
    BY LedgerConstants DEF Init, Numbered
<1>2. TypeOK /\ Numbered /\ [Next]_vars => Numbered'
    BY NumberedStep
<1>3. TypeOK /\ Numbered => NumbersGapless
    <2> SUFFICES ASSUME TypeOK, Numbered, NEW b \in Branch
                 PROVE  LET ofBranch == {i \in DOMAIN journals :
                                            journals[i].branch = b}
                        IN  /\ \A i, k \in ofBranch :
                                 journals[i].number = journals[k].number => i = k
                            /\ {journals[i].number : i \in ofBranch}
                                 = 1..(next[b] - 1)
        BY DEF NumbersGapless
    <2>1. DOMAIN journals = 1..Len(journals) /\ next[b] \in Nat \ {0}
        BY DEF TypeOK, Live, Database
    <2>2. ASSUME NEW n \in 1..(next[b] - 1)
          PROVE  \E i \in DOMAIN journals :
                    journals[i].branch = b /\ journals[i].number = n
        <3>1. n \in Nat \ {0} /\ n < next[b]
            BY <2>1
        <3> QED
            BY <2>1, <3>1 DEF Numbered
    <2>3. \A i \in DOMAIN journals :
            journals[i].branch = b => journals[i].number \in 1..(next[b] - 1)
        BY <2>1 DEF Numbered
    <2> DEFINE ofBranch == {i \in DOMAIN journals : journals[i].branch = b}
    <2>4. {journals[i].number : i \in ofBranch} = 1..(next[b] - 1)
        BY <2>2, <2>3
    <2>5. \A i, k \in ofBranch :
            journals[i].number = journals[k].number => i = k
        BY <2>1 DEF Numbered
    <2> HIDE DEF ofBranch
    <2>6. /\ \A i, k \in ofBranch :
               journals[i].number = journals[k].number => i = k
          /\ {journals[i].number : i \in ofBranch} = 1..(next[b] - 1)
        BY <2>4, <2>5
    <2> QED
        BY <2>6 DEF ofBranch
<1> QED
    BY <1>1, <1>2, <1>3, TypeCorrect, PTL DEF Spec

-----------------------------------------------------------------------------
(* Reversals. *)

\* What ReversalsPaired says, and that a counter entry comes after what it
\* counters.
Paired ==
    \A i \in 1..Len(journals) :
        /\ journals[i].reversalOf \in 0..(i - 1)
        /\ journals[i].status = "REVERSED" =>
              \E k \in 1..Len(journals) : journals[k].reversalOf = i
        /\ \A k \in 1..Len(journals) : journals[k].reversalOf = i =>
              /\ journals[i].status = "REVERSED"
              /\ journals[k].branch = journals[i].branch
              /\ journals[k].lines = Mirror(journals[i].lines)
              /\ \A l \in 1..Len(journals) : journals[l].reversalOf = i => l = k

LEMMA PairedStep ==
    ASSUME TypeOK, Paired, [Next]_vars PROVE Paired'
<1>1. Len(journals) \in Nat
    BY DEF TypeOK, Live, Database
<1>2. ASSUME NEW j \in 0..Len(journals), Grows(j) PROVE Paired'
    <2> DEFINE N == Len(journals)
               e == journals'[N + 1]
    <2>1. /\ Len(journals') = N + 1
          /\ \A k \in 1..N :
                /\ journals'[k].branch = journals[k].branch
                /\ journals'[k].lines = journals[k].lines
                /\ journals'[k].reversalOf = journals[k].reversalOf
                /\ k # j => journals'[k].status = journals[k].status
          /\ e.status = "POSTED" /\ e.reversalOf = j
          /\ j # 0 => /\ journals'[j].status = "REVERSED"
                      /\ \A k \in 1..N : journals[k].reversalOf # j
                      /\ e.branch = journals[j].branch
                      /\ e.lines = Mirror(journals[j].lines)
        BY <1>2 DEF Grows, Same
    <2>2. \A k \in 1..N : journals'[k].reversalOf # N + 1
        BY <1>1, <2>1 DEF Paired
    <2>3. ASSUME NEW i \in 1..(N + 1)
          PROVE  journals'[i].reversalOf \in 0..(i - 1)
        BY <1>1, <2>1 DEF Paired
    <2>4. ASSUME NEW i \in 1..(N + 1), journals'[i].status = "REVERSED"
          PROVE  \E k \in 1..(N + 1) : journals'[k].reversalOf = i
        <3>1. CASE i = j
            BY <1>1, <2>1, <3>1
        <3>2. CASE i # j
            <4>1. i \in 1..N /\ journals[i].status = "REVERSED"
                BY <1>1, <2>1, <2>4, <3>2
            <4>2. PICK k \in 1..N : journals[k].reversalOf = i
                BY <4>1 DEF Paired
            <4> QED
                BY <1>1, <2>1, <4>2
        <3> QED
            BY <3>1, <3>2
    <2>5. ASSUME NEW i \in 1..(N + 1), NEW k \in 1..(N + 1),
                 journals'[k].reversalOf = i
          PROVE  /\ journals'[i].status = "REVERSED"
                 /\ journals'[k].branch = journals'[i].branch
                 /\ journals'[k].lines = Mirror(journals'[i].lines)
                 /\ \A l \in 1..(N + 1) : journals'[l].reversalOf = i => l = k
        <3>1. i \in 1..N
            BY <1>1, <2>1, <2>2, <2>5
        <3>2. CASE k = N + 1
            <4>1. i = j /\ i # 0
                BY <2>1, <2>5, <3>1, <3>2
            <4> QED
                BY <1>1, <2>1, <3>1, <3>2, <4>1
        <3>3. CASE k \in 1..N
            <4>1. i # j /\ journals[k].reversalOf = i
                BY <2>1, <2>5, <3>1, <3>3
            <4>2. /\ journals[i].status = "REVERSED"
                  /\ journals[k].branch = journals[i].branch
                  /\ journals[k].lines = Mirror(journals[i].lines)
                  /\ \A l \in 1..N : journals[l].reversalOf = i => l = k
                BY <3>1, <3>3, <4>1 DEF Paired
            <4>3. \A l \in 1..(N + 1) : journals'[l].reversalOf = i => l = k
                BY <1>1, <2>1, <4>1, <4>2
            <4> QED
                BY <2>1, <3>1, <3>3, <4>1, <4>2, <4>3
        <3> QED
            BY <1>1, <3>2, <3>3
    <2> QED
        BY <2>1, <2>3, <2>4, <2>5 DEF Paired
<1>3. CASE UNCHANGED <<journals, next>>
    BY <1>3 DEF Paired
<1> QED
    BY <1>2, <1>3, Growth

\* A set without two different members has at most one.
LEMMA AtMostOne ==
    ASSUME NEW S, \A x, y \in S : x = y
    PROVE  Cardinality(S) <= 1
<1>1. CASE S = {}
    BY <1>1, FS_EmptySet
<1>2. ASSUME NEW x \in S PROVE Cardinality(S) <= 1
    <2>1. S = {x}
        BY <1>2
    <2> QED
        BY <2>1, FS_Singleton
<1> QED
    BY <1>1, <1>2

LEMMA PairedInit == Init => Paired
BY DEF Init, Paired

LEMMA PairedAlways == Spec => [](TypeOK /\ Paired)
<1>1. TypeOK /\ Paired /\ [Next]_vars => Paired'
    BY PairedStep
<1> QED
    BY <1>1, PairedInit, TypeCorrect, PTL DEF Spec

\* A journal is REVERSED exactly when one mirrored journal counters it.
THEOREM Reversals == Spec => []ReversalsPaired
<1>1. TypeOK /\ Paired => ReversalsPaired
    <2> SUFFICES ASSUME TypeOK, Paired, NEW i \in DOMAIN journals
                 PROVE  LET counters == {k \in DOMAIN journals :
                                            journals[k].reversalOf = i}
                        IN  /\ Cardinality(counters) <= 1
                            /\ journals[i].status = "REVERSED" <=> counters # {}
                            /\ \A k \in counters :
                                 /\ k > i
                                 /\ journals[k].branch = journals[i].branch
                                 /\ journals[k].lines = Mirror(journals[i].lines)
        BY DEF ReversalsPaired
    <2> DEFINE counters == {k \in DOMAIN journals : journals[k].reversalOf = i}
    <2>1. DOMAIN journals = 1..Len(journals) /\ Len(journals) \in Nat
        BY DEF TypeOK, Live, Database
    <2>2. \A k, l \in counters : k = l
        BY <2>1 DEF Paired
    <2>3. Cardinality(counters) <= 1
        <3> HIDE DEF counters
        <3> QED
            BY <2>2, AtMostOne
    <2>4. journals[i].status = "REVERSED" <=> counters # {}
        BY <2>1 DEF Paired
    <2>5. ASSUME NEW k \in counters
          PROVE  /\ k > i
                 /\ journals[k].branch = journals[i].branch
                 /\ journals[k].lines = Mirror(journals[i].lines)
        <3>1. journals[k].reversalOf \in 0..(k - 1) /\ journals[k].reversalOf = i
            BY <2>1 DEF Paired
        <3> QED
            BY <2>1, <3>1 DEF Paired
    <2> QED
        BY <2>3, <2>4, <2>5
<1> QED
    BY <1>1, PairedAlways, PTL

-----------------------------------------------------------------------------
(* Snapshots. *)

\* a snapshot holds a part of the journal, but for statuses that changed since
SnapshotsOld ==
    \A w \in Worker :
        /\ Len(snap[w].journals) <= Len(journals)
        /\ \A i \in 1..Len(snap[w].journals) :
                Same(snap[w].journals[i], journals[i])

LEMMA SnapshotKinds ==
    ASSUME TypeOK, [Next]_vars, NEW v \in Worker
    PROVE  snap'[v] = snap[v] \/ snap'[v] = Live \/ snap'[v] = NoSnapshot
BY DEF TypeOK, Next, vars, Begin, Post, Replay, DuplicateKey, Reverse,
       SetPeriodLock, Reject, Retry, GiveUp, CloseFinancialYear, Answer, Fail,
       EndTransaction

LEMMA SnapshotStep ==
    ASSUME TypeOK, SnapshotsOld, [Next]_vars PROVE SnapshotsOld'
<1>1. Len(journals) \in Nat /\ \A w \in Worker : Len(snap[w].journals) \in Nat
    BY DEF TypeOK, Live, Database
<1>2. /\ Len(journals) <= Len(journals')
      /\ \A i \in 1..Len(journals) : Same(journals[i], journals'[i])
    <2>1. ASSUME NEW j \in 0..Len(journals), Grows(j)
          PROVE  /\ Len(journals) <= Len(journals')
                 /\ \A i \in 1..Len(journals) : Same(journals[i], journals'[i])
        BY <1>1, <2>1 DEF Grows
    <2>2. CASE UNCHANGED <<journals, next>>
        BY <1>1, <2>2 DEF Same
    <2> QED
        BY <2>1, <2>2, Growth
<1>3. Len(journals') \in Nat
    <2>1. ASSUME NEW j \in 0..Len(journals), Grows(j) PROVE Len(journals') \in Nat
        BY <1>1, <2>1 DEF Grows
    <2> QED
        BY <1>1, <2>1, Growth
<1>4. ASSUME NEW v \in Worker
      PROVE  /\ Len(snap'[v].journals) <= Len(journals')
             /\ \A i \in 1..Len(snap'[v].journals) :
                    Same(snap'[v].journals[i], journals'[i])
    <2>1. CASE snap'[v] = snap[v]
        <3>1. ASSUME NEW i \in 1..Len(snap[v].journals)
              PROVE  Same(snap[v].journals[i], journals'[i])
            <4>1. i \in 1..Len(journals) /\ Same(snap[v].journals[i], journals[i])
                BY <1>1 DEF SnapshotsOld
            <4> QED
                BY <1>2, <4>1 DEF Same
        <3> QED
            BY <1>1, <1>2, <1>3, <2>1, <3>1 DEF SnapshotsOld
    <2>2. CASE snap'[v] = Live
        BY <1>2, <2>2 DEF Live
    <2>3. CASE snap'[v] = NoSnapshot
        BY <1>3, <2>3 DEF NoSnapshot
    <2> QED
        BY <2>1, <2>2, <2>3, SnapshotKinds
<1> QED
    BY <1>4 DEF SnapshotsOld

LEMMA SnapshotInit == Init => SnapshotsOld
BY DEF Init, NoSnapshot, SnapshotsOld

LEMMA SnapshotsAlways == Spec => [](TypeOK /\ Paired /\ SnapshotsOld)
<1>1. TypeOK /\ SnapshotsOld /\ [Next]_vars => SnapshotsOld'
    BY SnapshotStep
<1> QED
    BY <1>1, SnapshotInit, PairedAlways, PTL DEF Spec

-----------------------------------------------------------------------------
(* Corrections. *)

\* The journal that a journal counters is one of its ancestors.
LEMMA ParentIsAncestor ==
    ASSUME NEW js \in Seq(JournalEntry), NEW i \in DOMAIN js,
           js[i].reversalOf \in DOMAIN js
    PROVE  js[i].reversalOf \in Ancestors(js, i)
<1>1. js[i].reversalOf # 0
    OBVIOUS
<1> QED
    BY <1>1 DEF Ancestors

\* A journal that is reversed does not counter a record of a kind whose
\* correction is final.
LEMMA ReversedIsChecked ==
    ASSUME TypeOK, Paired, SnapshotsOld, NEW w \in Worker, Reverse(w)
    PROVE  LET i == req[w].journal
               parent == journals[i].reversalOf
           IN  /\ \A k \in 1..Len(journals) :
                     k # i => journals'[k].status = journals[k].status
               /\ parent # 0 => journals[parent].source \notin Corrected
<1> DEFINE i == req[w].journal
           parent == journals[i].reversalOf
           js == snap[w].journals
<1>1. /\ journals \in Seq(JournalEntry) /\ DOMAIN journals = 1..Len(journals)
      /\ js \in Seq(JournalEntry) /\ DOMAIN js = 1..Len(js) /\ Len(js) \in Nat
    BY DEF TypeOK, Live, Database
<1>2. /\ i \in 1..Len(journals) /\ i \in 1..Len(js)
      /\ js[i].reversalOf = parent
      /\ ChainAllows(js, i)
    BY <1>1 DEF Reverse, ReversalFree, ReversalAllowed, Unreversed
<1>3. \A k \in 1..Len(journals) :
            k # i => journals'[k].status = journals[k].status
    <2>1. PICK j \in 1..Len(journals), y \in Year, d \in Nat :
            \A k \in 1..Len(journals) :
                journals'[k] = IF k = j
                               THEN [journals[j] EXCEPT !.status = "REVERSED"]
                               ELSE journals[k]
        BY ReverseStep
    <2>2. \E e : journals' = Append(MarkReversed(journals, i), e)
        BY DEF Reverse
    <2>3. /\ MarkReversed(journals, i) \in Seq(JournalEntry)
          /\ Len(MarkReversed(journals, i)) = Len(journals)
          /\ \A k \in 1..Len(journals) :
               MarkReversed(journals, i)[k] =
                   IF k = i THEN [journals[i] EXCEPT !.status = "REVERSED"]
                   ELSE journals[k]
        BY <1>1, <1>2, MarkedType
    <2> DEFINE marked == MarkReversed(journals, i)
    <2>4. PICK e : journals' = Append(marked, e)
        BY <2>2
    <2>5. marked \in Seq(JournalEntry) /\ Len(marked) = Len(journals)
        BY <2>3
    <2> HIDE DEF marked
    <2>6. \A k \in 1..Len(journals) : journals'[k] = marked[k]
        BY <2>4, <2>5
    <2> QED
        BY <2>3, <2>6 DEF marked
<1>4. ASSUME parent # 0 PROVE journals[parent].source \notin Corrected
    <2>1. parent \in 1..Len(js)
        BY <1>1, <1>2, <1>4 DEF Paired
    <2>2. parent \in Ancestors(js, i)
        BY <1>1, <1>2, <2>1, ParentIsAncestor
    <2>3. js[parent].source \notin Corrected
        BY <1>2, <2>2 DEF ChainAllows
    <2>4. js[parent].source = journals[parent].source
        BY <2>1 DEF SnapshotsOld, Same
    <2> QED
        BY <2>3, <2>4
<1> QED
    BY <1>3, <1>4

\* The correction of a managed or owner record stays in force.
THEOREM FinalCorrections == Spec => []CorrectionsAreFinal
<1> DEFINE Final == \A k \in 1..Len(journals) :
                        LET i == journals[k].reversalOf IN
                        i # 0 /\ journals[i].source \in Corrected
                            => journals[k].status = "POSTED"
<1>1. Init => Final
    BY DEF Init
<1>2. TypeOK /\ Paired /\ SnapshotsOld /\ Final /\ [Next]_vars => Final'
    <2> SUFFICES ASSUME TypeOK, Paired, SnapshotsOld, Final, [Next]_vars
                 PROVE  Final'
        OBVIOUS
    <2>1. Len(journals) \in Nat
        BY DEF TypeOK, Live, Database
    <2>2. ASSUME NEW j \in 0..Len(journals), Grows(j),
                 \A k \in 1..Len(journals) :
                    LET i == journals[k].reversalOf IN
                    i # 0 /\ journals[i].source \in Corrected
                        => journals'[k].status = journals[k].status
          PROVE  Final'
        <3>1. /\ Len(journals') = Len(journals) + 1
              /\ \A k \in 1..Len(journals) :
                    /\ journals'[k].source = journals[k].source
                    /\ journals'[k].reversalOf = journals[k].reversalOf
              /\ journals'[Len(journals) + 1].status = "POSTED"
            BY <2>2 DEF Grows, Same
        <3>2. \A k \in 1..Len(journals) : journals[k].reversalOf \in 0..(k - 1)
            BY DEF Paired
        <3>3. ASSUME NEW k \in 1..(Len(journals) + 1),
                     journals'[k].reversalOf # 0,
                     journals'[journals'[k].reversalOf].source \in Corrected
              PROVE  journals'[k].status = "POSTED"
            <4>1. CASE k \in 1..Len(journals)
                <5> DEFINE i == journals[k].reversalOf
                <5>1. i \in 1..Len(journals) /\ i = journals'[k].reversalOf
                    BY <2>1, <3>1, <3>2, <3>3, <4>1
                <5>2. journals[i].source \in Corrected
                    BY <3>1, <3>3, <5>1
                <5>3. journals[k].status = "POSTED"
                    BY <3>3, <4>1, <5>1, <5>2
                <5> QED
                    BY <2>2, <4>1, <5>1, <5>2, <5>3
            <4>2. CASE k = Len(journals) + 1
                BY <3>1, <4>2
            <4> QED
                BY <2>1, <4>1, <4>2
        <3> QED
            BY <3>1, <3>3
    <2>3. ASSUME NEW w \in Worker, Post(w) PROVE Final'
        <3>1. /\ Len(journals') = Len(journals) + 1
              /\ \A k \in 1..Len(journals) : journals'[k] = journals[k]
            BY <2>3, PostStep
        <3>2. PICK j \in 0..Len(journals) : Grows(j)
            <4>1. Len(journals') # Len(journals)
                BY <2>1, <3>1
            <4> QED
                BY <4>1, Growth
        <3> QED
            BY <2>2, <3>1, <3>2
    <2>4. ASSUME NEW w \in Worker, Reverse(w) PROVE Final'
        <3>1. PICK j \in 0..Len(journals) : Grows(j)
            <4>1. Len(journals') = Len(journals) + 1
                BY <2>4, ReverseStep
            <4>2. Len(journals') # Len(journals)
                BY <2>1, <4>1
            <4> QED
                BY <4>2, Growth
        <3>2. /\ \A k \in 1..Len(journals) : k # req[w].journal =>
                    journals'[k].status = journals[k].status
              /\ journals[req[w].journal].reversalOf # 0 =>
                    journals[journals[req[w].journal].reversalOf].source
                        \notin Corrected
            BY <2>4, ReversedIsChecked
        <3> QED
            BY <2>2, <3>1, <3>2
    <2>5. CASE Quiet
        BY <2>5, QuietSteps
    <2> QED
        BY <2>3, <2>4, <2>5, StepKinds
<1>3. TypeOK /\ Final => CorrectionsAreFinal
    <2>1. TypeOK => DOMAIN journals = 1..Len(journals)
        BY DEF TypeOK, Live, Database
    <2> QED
        BY <2>1 DEF CorrectionsAreFinal
<1> QED
    BY <1>1, <1>2, <1>3, SnapshotsAlways, PTL DEF Spec

-----------------------------------------------------------------------------
(* Replies. *)

\* A posting that has its answer was answered before, or posts or replays now.
LEMMA AnswerKinds ==
    ASSUME TypeOK, [Next]_vars, NEW v \in Worker,
           phase'[v] = "answered", req'[v].op = "post"
    PROVE  \/ phase[v] = "answered" /\ req'[v] = req[v] /\ reply'[v] = reply[v]
           \/ Post(v) \/ Replay(v)
<1>1. ASSUME NEW w \in Worker, NEW r \in Request, Begin(w, r)
      PROVE  phase[v] = "answered" /\ req'[v] = req[v] /\ reply'[v] = reply[v]
    <2>1. w # v
        BY <1>1 DEF Begin, TypeOK
    <2> QED
        BY <1>1, <2>1 DEF Begin, TypeOK
<1>2. ASSUME NEW w \in Worker, Fail(w)
      PROVE  phase[v] = "answered" /\ req'[v] = req[v] /\ reply'[v] = reply[v]
    <2>1. w # v
        BY <1>2 DEF Fail, TypeOK
    <2> QED
        BY <1>2, <2>1 DEF Fail, TypeOK
<1>3. ASSUME NEW w \in Worker, Running(w, "reverse") \/ Running(w, "lock"),
             NEW n, Answer(w, n)
      PROVE  phase[v] = "answered" /\ req'[v] = req[v] /\ reply'[v] = reply[v]
    <2>1. w # v
        BY <1>3 DEF Answer, Running, TypeOK
    <2> QED
        BY <1>3, <2>1 DEF Answer, TypeOK
<1>4. ASSUME NEW w \in Worker, w # v, NEW n, Answer(w, n)
      PROVE  phase[v] = "answered" /\ req'[v] = req[v] /\ reply'[v] = reply[v]
    BY <1>4 DEF Answer, TypeOK
<1>5. ASSUME NEW w \in Worker, Retry(w) \/ UNCHANGED <<phase, req, reply>>
      PROVE  phase[v] = "answered" /\ req'[v] = req[v] /\ reply'[v] = reply[v]
    BY <1>5 DEF Retry
<1>6. ASSUME NEW w \in Worker, Post(w) PROVE w = v \/ \E n : Answer(w, n)
    BY <1>6 DEF Post
<1>7. ASSUME NEW w \in Worker, Replay(w) PROVE w = v \/ \E n : Answer(w, n)
    BY <1>7 DEF Replay
<1>8. ASSUME NEW w \in Worker, Reverse(w)
      PROVE  Running(w, "reverse") /\ \E n : Answer(w, n)
    BY <1>8 DEF Reverse
<1>9. ASSUME NEW w \in Worker, SetPeriodLock(w)
      PROVE  Running(w, "lock") /\ \E n : Answer(w, n)
    BY <1>9 DEF SetPeriodLock
<1>10. ASSUME NEW w \in Worker, DuplicateKey(w) \/ Reject(w) \/ GiveUp(w)
       PROVE  Fail(w)
    BY <1>10 DEF DuplicateKey, Reject, GiveUp
<1>11. ASSUME (\E y \in Year : CloseFinancialYear(y)) \/ UNCHANGED vars
       PROVE  UNCHANGED <<phase, req, reply>>
    BY <1>11 DEF CloseFinancialYear, vars
<1> QED
    BY <1>1, <1>2, <1>3, <1>4, <1>5, <1>6, <1>7, <1>8, <1>9, <1>10, <1>11
       DEF Next

\* A posting is answered with a journal that carries what it asked for.
THEOREM Replies == Spec => []ReplyNamesRequest
<1> DEFINE Names(v) ==
              /\ reply[v] \in 1..Len(journals)
              /\ journals[reply[v]].source = req[v].source
              /\ journals[reply[v]].year = req[v].year
              /\ journals[reply[v]].branch = req[v].branch
              /\ journals[reply[v]].date = req[v].date
              /\ journals[reply[v]].lines = req[v].lines
           Named == \A v \in Worker :
              phase[v] = "answered" /\ req[v].op = "post" => Names(v)
<1>1. Init => Named
    BY DEF Init
<1>2. TypeOK /\ SnapshotsOld /\ Named /\ [Next]_vars => Named'
    <2> SUFFICES ASSUME TypeOK, SnapshotsOld, Named, [Next]_vars,
                        NEW v \in Worker,
                        phase'[v] = "answered", req'[v].op = "post"
                 PROVE  Names(v)'
        OBVIOUS
    <2>1. Len(journals) \in Nat /\ Len(snap[v].journals) \in Nat
          /\ DOMAIN snap[v].journals = 1..Len(snap[v].journals)
        BY DEF TypeOK, Live, Database
    <2>2. CASE Post(v)
        <3>1. /\ Len(journals') = Len(journals) + 1
              /\ journals'[Len(journals) + 1]
                    = Entry(req[v], next[req[v].branch])
            BY <2>2, PostStep
        <3>2. reply'[v] = Len(journals) + 1 /\ req'[v] = req[v]
            BY <2>2 DEF Post, Answer, TypeOK
        <3> DEFINE e == journals'[Len(journals) + 1]
        <3>3. /\ e.source = req[v].source /\ e.year = req[v].year
              /\ e.branch = req[v].branch /\ e.date = req[v].date
              /\ e.lines = req[v].lines
            BY <3>1 DEF Entry
        <3>4. Len(journals) + 1 \in 1..Len(journals')
            BY <2>1, <3>1
        <3> QED
            BY <3>2, <3>3, <3>4
    <2>3. CASE Replay(v)
        <3>1. PICK i \in Of(snap[v], req[v].source) :
                    MatchesInput(snap[v].journals[i], req[v]) /\ Answer(v, i)
            BY <2>3 DEF Replay
        <3>2. /\ i \in 1..Len(snap[v].journals)
              /\ snap[v].journals[i].source = req[v].source
            BY <2>1, <3>1 DEF Of
        <3>3. i \in 1..Len(journals) /\ Same(snap[v].journals[i], journals[i])
            BY <2>1, <3>2 DEF SnapshotsOld
        <3>4. reply'[v] = i /\ req'[v] = req[v] /\ journals' = journals
            BY <2>3, <3>1 DEF Replay, Answer, TypeOK, tables
        <3> DEFINE j == journals[i]
        <3>5. /\ j.source = req[v].source /\ j.year = req[v].year
              /\ j.branch = req[v].branch /\ j.date = req[v].date
              /\ j.lines = req[v].lines
            BY <3>1, <3>2, <3>3 DEF Same, MatchesInput
        <3> QED
            BY <3>3, <3>4, <3>5
    <2>4. CASE phase[v] = "answered" /\ req'[v] = req[v] /\ reply'[v] = reply[v]
        <3>1. Names(v)
            BY <2>4
        <3>2. ASSUME NEW j \in 0..Len(journals), Grows(j) PROVE Names(v)'
            <4>1. /\ Len(journals') = Len(journals) + 1
                  /\ Same(journals[reply[v]], journals'[reply[v]])
                BY <3>1, <3>2 DEF Grows
            <4> QED
                BY <2>1, <2>4, <3>1, <4>1 DEF Same
        <3>3. CASE UNCHANGED <<journals, next>>
            BY <2>4, <3>1, <3>3
        <3> QED
            BY <3>2, <3>3, Growth
    <2> QED
        BY <2>2, <2>3, <2>4, AnswerKinds
<1>3. TypeOK /\ Named => ReplyNamesRequest
    BY DEF TypeOK, Live, Database, ReplyNamesRequest
<1> QED
    BY <1>1, <1>2, <1>3, SnapshotsAlways, PTL DEF Spec

-----------------------------------------------------------------------------
(* Correction chains. *)

\* every journal counters an earlier one or none
Rooted(js) == \A i \in 1..Len(js) : js[i].reversalOf \in 0..(i - 1)

\* A journal that counters none has no ancestors.
LEMMA AncestorsOfRoot ==
    ASSUME NEW js \in Seq(JournalEntry), NEW i \in 1..Len(js),
           js[i].reversalOf = 0
    PROVE  Ancestors(js, i) = {}
<1>1. {js[j].reversalOf : j \in {} \cup {i}} \subseteq {} \cup {0}
    OBVIOUS
<1>2. {} \in SUBSET DOMAIN js
    OBVIOUS
<1> QED
    BY <1>1, <1>2 DEF Ancestors

\* The ancestors of a journal are the one it counters and the ancestors of that.
LEMMA AncestorsOfCounter ==
    ASSUME NEW js \in Seq(JournalEntry), NEW i \in 1..Len(js), NEW p \in 1..Len(js),
           js[i].reversalOf = p
    PROVE  Ancestors(js, i) = {p} \cup Ancestors(js, p)
<1> DEFINE Up(S, k) == {js[j].reversalOf : j \in S \cup {k}}
<1>0. DOMAIN js = 1..Len(js) /\ p # 0
    OBVIOUS
<1>1. ASSUME NEW S \in SUBSET DOMAIN js, Up(S, i) \subseteq S \cup {0}
      PROVE  p \in S /\ Up(S, p) \subseteq S \cup {0}
    <2>1. p \in Up(S, i)
        OBVIOUS
    <2>2. p \in S
        BY <1>0, <1>1, <2>1
    <2>3. Up(S, p) \subseteq Up(S, i)
        BY <2>2
    <2> QED
        BY <1>1, <2>2, <2>3
<1>2. ASSUME NEW S \in SUBSET DOMAIN js, Up(S, p) \subseteq S \cup {0}
      PROVE  /\ S \cup {p} \in SUBSET DOMAIN js
             /\ Up(S \cup {p}, i) \subseteq (S \cup {p}) \cup {0}
    <2>1. ASSUME NEW j \in (S \cup {p}) \cup {i}
          PROVE  js[j].reversalOf \in (S \cup {p}) \cup {0}
        <3>1. CASE j \in S \cup {p}
            BY <1>2, <3>1
        <3>2. CASE j = i
            BY <3>2
        <3> QED
            BY <3>1, <3>2
    <2> QED
        BY <1>0, <2>1
<1>3. ASSUME NEW k \in Ancestors(js, p) PROVE k \in Ancestors(js, i)
    <2>1. k \in DOMAIN js
          /\ \A S \in SUBSET DOMAIN js : Up(S, p) \subseteq S \cup {0} => k \in S
        BY DEF Ancestors
    <2>2. \A S \in SUBSET DOMAIN js : Up(S, i) \subseteq S \cup {0} => k \in S
        <3> HIDE DEF Up
        <3> QED
            BY <1>1, <2>1
    <2> QED
        BY <2>1, <2>2 DEF Ancestors
<1>4. p \in Ancestors(js, i)
    BY <1>0, ParentIsAncestor
<1>5. ASSUME NEW k \in Ancestors(js, i), k # p PROVE k \in Ancestors(js, p)
    <2>1. k \in DOMAIN js
          /\ \A S \in SUBSET DOMAIN js : Up(S, i) \subseteq S \cup {0} => k \in S
        BY DEF Ancestors
    <2>2. ASSUME NEW S \in SUBSET DOMAIN js, Up(S, p) \subseteq S \cup {0}
          PROVE  k \in S
        <3>1. k \in S \cup {p}
            <4> HIDE DEF Up
            <4> QED
                BY <1>2, <2>1, <2>2
        <3> QED
            BY <1>5, <3>1
    <2> QED
        BY <2>1, <2>2 DEF Ancestors
<1> QED
    BY <1>3, <1>4, <1>5

\* What a journal counters does not depend on the journals that came later.
LEMMA AncestorsOfPrefix ==
    ASSUME NEW js \in Seq(JournalEntry), NEW ks \in Seq(JournalEntry),
           Len(js) <= Len(ks), Rooted(js),
           \A i \in 1..Len(js) : ks[i].reversalOf = js[i].reversalOf,
           NEW i \in 1..Len(js)
    PROVE  Ancestors(ks, i) = Ancestors(js, i)
<1> DEFINE Up(hs, S) == {hs[j].reversalOf : j \in S \cup {i}}
           D == DOMAIN js
<1>0. DOMAIN js = 1..Len(js) /\ DOMAIN ks = 1..Len(ks) /\ D \subseteq DOMAIN ks
    OBVIOUS
<1>1. ASSUME NEW j \in D
      PROVE  js[j].reversalOf \in D \cup {0} /\ ks[j].reversalOf = js[j].reversalOf
    BY <1>0 DEF Rooted
<1>2. Up(ks, D) \subseteq D \cup {0}
    BY <1>0, <1>1
<1>3. \A S \in SUBSET D : Up(ks, S) = Up(js, S)
    BY <1>0, <1>1
<1>4. ASSUME NEW S \in SUBSET DOMAIN ks, Up(ks, S) \subseteq S \cup {0}
      PROVE  Up(js, S \cap D) \subseteq (S \cap D) \cup {0}
    BY <1>0, <1>1, <1>4
<1>5. ASSUME NEW k \in Ancestors(js, i) PROVE k \in Ancestors(ks, i)
    <2>1. k \in D /\ \A S \in SUBSET D : Up(js, S) \subseteq S \cup {0} => k \in S
        BY DEF Ancestors
    <2>2. ASSUME NEW S \in SUBSET DOMAIN ks, Up(ks, S) \subseteq S \cup {0}
          PROVE  k \in S
        <3>1. S \cap D \in SUBSET D
            OBVIOUS
        <3>2. k \in S \cap D
            <4> HIDE DEF Up, D
            <4> QED
                BY <1>4, <2>1, <2>2, <3>1
        <3> QED
            BY <3>2
    <2> QED
        BY <1>0, <2>1, <2>2 DEF Ancestors
<1>6. ASSUME NEW k \in Ancestors(ks, i) PROVE k \in Ancestors(js, i)
    <2>1. \A S \in SUBSET DOMAIN ks : Up(ks, S) \subseteq S \cup {0} => k \in S
        BY DEF Ancestors
    <2>2. k \in D
        <3> HIDE DEF Up
        <3> QED
            BY <1>0, <1>2, <2>1
    <2>3. ASSUME NEW S \in SUBSET D, Up(js, S) \subseteq S \cup {0} PROVE k \in S
        <3> HIDE DEF Up, D
        <3> QED
            BY <1>0, <1>3, <2>1, <2>3
    <2> QED
        BY <2>2, <2>3 DEF Ancestors
<1> QED
    BY <1>5, <1>6

\* What nothing counters is nobody's ancestor.
LEMMA AncestorsAreCountered ==
    ASSUME NEW js \in Seq(JournalEntry), Rooted(js), NEW i \in 1..Len(js),
           \A k \in 1..Len(js) : js[k].reversalOf # i, NEW m \in 1..Len(js)
    PROVE  i \notin Ancestors(js, m)
<1> DEFINE S == (1..Len(js)) \ {i}
<1>1. S \in SUBSET DOMAIN js
    OBVIOUS
<1>2. ASSUME NEW j \in S \cup {m} PROVE js[j].reversalOf \in S \cup {0}
    <2>1. j \in 1..Len(js) /\ Len(js) \in Nat
        OBVIOUS
    <2>2. js[j].reversalOf \in 0..(j - 1) /\ js[j].reversalOf # i
        BY <2>1 DEF Rooted
    <2> QED
        BY <2>1, <2>2
<1>3. {js[j].reversalOf : j \in S \cup {m}} \subseteq S \cup {0}
    BY <1>2
<1> QED
    BY <1>1, <1>3 DEF Ancestors

\* a journal that nothing counters, at the end of its chain
Top(k) == \A c \in 1..Len(journals) : journals[c].reversalOf # k

\* the journal a chain of corrections began with
Root(j, k) == /\ j \in {k} \cup Ancestors(journals, k)
              /\ journals[j].reversalOf = 0

Even(i) == Cardinality(Countering(i)) % 2 = 0

\* lines as an even or an odd number of reversals leaves them
Turned(lines, even) == IF even THEN lines ELSE Mirror(lines)

\* A chain has one root and one end, and the lines at its end are those of the
\* root, mirrored when the number of reversals is odd.
Chains ==
    /\ \A i \in 1..Len(journals) :
            journals[i].reversalOf = 0 <=> journals[i].source \in Source
    /\ \A k \in 1..Len(journals) : Top(k) =>
            \E j \in 1..Len(journals) :
                Root(j, k) /\ journals[k].lines = Turned(journals[j].lines, Even(j))
    /\ \A k, j, l \in 1..Len(journals) : Root(j, k) /\ Root(l, k) => j = l
    /\ \A k, l, j \in 1..Len(journals) :
            Top(k) /\ Top(l) /\ Root(j, k) /\ Root(j, l) => k = l

\* How a new entry, for a source (i = 0) or against the journal i, changes the
\* chains: it lengthens that of i.
LEMMA ChainsGrow ==
    ASSUME TypeOK, TypeOK', Paired, NEW i \in 0..Len(journals), Grows(i)
    PROVE  LET N == Len(journals)
               above == IF i = 0 THEN {} ELSE {i} \cup Ancestors(journals, i)
           IN  /\ N \in Nat /\ Len(journals') = N + 1
               /\ \A m \in 1..N : Ancestors(journals', m) = Ancestors(journals, m)
               /\ Ancestors(journals', N + 1) = above
               /\ above \subseteq 1..N
               /\ \A m \in 1..N :
                    Countering(m)' = Countering(m)
                                        \cup (IF m \in above THEN {N + 1} ELSE {})
               /\ \A n \in {N + 1} : Countering(n)' = {}
<1> DEFINE N == Len(journals)
           above == IF i = 0 THEN {} ELSE {i} \cup Ancestors(journals, i)
<1>1. /\ journals \in Seq(JournalEntry) /\ journals' \in Seq(JournalEntry)
      /\ DOMAIN journals = 1..N /\ N \in Nat
      /\ DOMAIN journals' = 1..Len(journals')
    BY DEF TypeOK, Live, Database
<1>2. /\ Len(journals') = N + 1
      /\ \A k \in 1..N : journals'[k].reversalOf = journals[k].reversalOf
      /\ journals'[N + 1].reversalOf = i
    BY DEF Grows, Same
<1>3. Rooted(journals)
    BY DEF Rooted, Paired
<1>4. ASSUME NEW m \in 1..N
      PROVE  Ancestors(journals', m) = Ancestors(journals, m)
    <2>1. /\ N <= Len(journals')
          /\ \A k \in 1..N : journals'[k].reversalOf = journals[k].reversalOf
        BY <1>1, <1>2
    <2> QED
        BY ONLY <1>1, <1>3, <1>4, <2>1, AncestorsOfPrefix
<1>5. Ancestors(journals', N + 1) = above
    <2>1. N + 1 \in 1..Len(journals')
        BY <1>1, <1>2
    <2>2. CASE i = 0
        BY <1>1, <1>2, <2>1, <2>2, AncestorsOfRoot
    <2>3. CASE i # 0
        <3>1. i \in 1..N /\ i \in 1..Len(journals')
            BY <1>1, <1>2, <2>3
        <3>2. Ancestors(journals', N + 1) = {i} \cup Ancestors(journals', i)
            BY <1>1, <1>2, <2>1, <3>1, AncestorsOfCounter
        <3> QED
            BY <1>4, <2>3, <3>1, <3>2
    <2> QED
        BY <2>2, <2>3
<1>6. \A m \in 1..N : Ancestors(journals, m) \subseteq 1..N
    BY <1>1 DEF Ancestors
<1>7. above \subseteq 1..N
    BY <1>1, <1>6
<1>8. \A m \in 1..(N + 1) :
        Countering(m)' = {k \in 1..(N + 1) : m \in Ancestors(journals', k)}
    BY <1>1, <1>2 DEF Countering
<1>9. ASSUME NEW m \in 1..N
      PROVE  Countering(m)' = Countering(m)
                                \cup (IF m \in above THEN {N + 1} ELSE {})
    <2>1. Countering(m) = {k \in 1..N : m \in Ancestors(journals, k)}
        BY <1>1 DEF Countering
    <2>2. 1..(N + 1) = (1..N) \cup {N + 1} /\ m \in 1..(N + 1)
        BY <1>1
    <2>3. Countering(m)' = {k \in (1..N) \cup {N + 1} : m \in Ancestors(journals', k)}
        BY <1>8, <2>2
    <2> HIDE DEF above
    <2> QED
        BY <1>4, <1>5, <2>1, <2>3
<1>10. ASSUME NEW n \in {N + 1} PROVE Countering(n)' = {}
    <2>1. n = N + 1 /\ n \in 1..(N + 1) /\ n \notin 1..N
        BY <1>1
    <2>2. \A k \in 1..(N + 1) : n \notin Ancestors(journals', k)
        <3>1. \A k \in 1..(N + 1) : k \in 1..N \/ k = N + 1
            BY <1>1
        <3> HIDE DEF above
        <3> QED
            BY <1>4, <1>5, <1>6, <1>7, <2>1, <3>1
    <2> QED
        BY <1>8, <2>1, <2>2
<1> HIDE DEF N, above
<1>11. /\ N \in Nat /\ Len(journals') = N + 1
       /\ \A m \in 1..N : Ancestors(journals', m) = Ancestors(journals, m)
       /\ Ancestors(journals', N + 1) = above
       /\ above \subseteq 1..N
       /\ \A m \in 1..N :
            Countering(m)' = Countering(m) \cup (IF m \in above THEN {N + 1} ELSE {})
       /\ \A n \in {N + 1} : Countering(n)' = {}
    BY <1>1, <1>2, <1>4, <1>5, <1>7, <1>9, <1>10
<1> QED
    BY <1>11 DEF N, above

\* One countering journal more turns even into odd, and odd into even.
LEMMA EvenOdd ==
    ASSUME TypeOK, TypeOK', NEW m \in 1..Len(journals)
    PROVE  /\ Countering(m)' = Countering(m) => Even(m)' = Even(m)
           /\ Countering(m)' = Countering(m) \cup {Len(journals) + 1}
                => Even(m)' = ~Even(m)
<1>1. /\ DOMAIN journals = 1..Len(journals) /\ Len(journals) \in Nat
    BY DEF TypeOK, Live, Database
<1>2. IsFiniteSet(Countering(m)) /\ Len(journals) + 1 \notin Countering(m)
    <2>1. Countering(m) \subseteq 1..Len(journals)
        BY <1>1 DEF Countering
    <2>2. IsFiniteSet(1..Len(journals)) /\ Len(journals) + 1 \notin 1..Len(journals)
        BY <1>1, FS_Interval
    <2> QED
        BY <2>1, <2>2, FS_Subset
<1>3. Cardinality(Countering(m)) \in Nat
    BY <1>2, FS_CardinalityType
<1>4. Cardinality(Countering(m) \cup {Len(journals) + 1})
        = Cardinality(Countering(m)) + 1
    BY <1>2, FS_AddElement
<1>5. ASSUME NEW c \in Nat PROVE ((c + 1) % 2 = 0) = ~(c % 2 = 0)
    OBVIOUS
<1> QED
    BY <1>3, <1>4, <1>5 DEF Even

\* A mirror image of a mirror image is the original.
LEMMA MirrorTwice ==
    ASSUME NEW l \in Lines PROVE Mirror(Mirror(l)) = l /\ Mirror(l) \in Lines
BY DEF Mirror, Lines

\* The roots, the ends and the parities of the chains after the new entry.
LEMMA ChainsAfter ==
    ASSUME TypeOK, TypeOK', Paired, NEW i \in 0..Len(journals), Grows(i),
           NEW n \in {Len(journals) + 1}
    PROVE  LET N == Len(journals)
           IN  /\ \A j, m \in 1..N : Root(j, m)' = Root(j, m)
               /\ \A m \in 1..N : ~Root(n, m)'
               /\ \A j \in 1..N : Root(j, n)' = (i # 0 /\ Root(j, i))
               /\ Root(n, n)' = (i = 0)
               /\ \A k \in 1..N : Top(k)' = (Top(k) /\ k # i)
               /\ i # 0 => Top(i)
               /\ \A m \in 1..N : journals[m].reversalOf = 0 =>
                    Even(m)' = IF i # 0 /\ Root(m, i) THEN ~Even(m) ELSE Even(m)
               /\ Even(n)'
<1> DEFINE N == Len(journals)
<1>1. /\ N \in Nat /\ n = N + 1 /\ n \in 1..n /\ n \notin 1..N /\ Len(journals') = n
      /\ \A k \in 1..n : k \in 1..N \/ k = n
      /\ 1..N \subseteq 1..n
    BY DEF TypeOK, Live, Database, Grows
<1>2. /\ \A k \in 1..N : /\ journals'[k].reversalOf = journals[k].reversalOf
                         /\ journals[k].reversalOf \in 0..(k - 1)
      /\ journals'[n].reversalOf = i
      /\ i # 0 => \A k \in 1..N : journals[k].reversalOf # i
    BY <1>1 DEF Grows, Same, Paired
<1>. DEFINE above == IF i = 0 THEN {} ELSE {i} \cup Ancestors(journals, i)
<1>3. /\ \A m \in 1..N : Ancestors(journals', m) = Ancestors(journals, m)
      /\ Ancestors(journals', n) = above
      /\ above \subseteq 1..N
      /\ \A m \in 1..N :
            Countering(m)' = Countering(m) \cup (IF m \in above THEN {n} ELSE {})
      /\ Countering(n)' = {}
    BY <1>1, ChainsGrow
<1>4. \A j, m \in 1..N : Root(j, m)' = Root(j, m)
    BY <1>2, <1>3 DEF Root
<1>5. \A m \in 1..N : Ancestors(journals, m) \subseteq 1..N
    BY DEF TypeOK, Live, Database, Ancestors
<1>6. \A m \in 1..N : ~Root(n, m)'
    BY <1>1, <1>3, <1>5 DEF Root
<1>7. ASSUME NEW j \in 1..N PROVE Root(j, n)' = (i # 0 /\ Root(j, i))
    <2>1. j # n /\ journals'[j].reversalOf = journals[j].reversalOf
        BY <1>1, <1>2
    <2> QED
        BY <1>3, <2>1 DEF Root
<1>8. Root(n, n)' = (i = 0)
    BY <1>2 DEF Root
<1>9. ASSUME NEW k \in 1..N PROVE Top(k)' = (Top(k) /\ k # i)
    <2>1. Top(k)' = \A c \in 1..n : journals'[c].reversalOf # k
        BY <1>1 DEF Top
    <2>2. (\A c \in 1..n : journals'[c].reversalOf # k)
            = ((\A c \in 1..N : journals'[c].reversalOf # k) /\ i # k)
        BY <1>1, <1>2
    <2>3. (\A c \in 1..N : journals'[c].reversalOf # k)
            = \A c \in 1..N : journals[c].reversalOf # k
        BY <1>2
    <2> QED
        BY <2>1, <2>2, <2>3 DEF Top
<1>10. i # 0 => Top(i)
    BY <1>2 DEF Top
<1>11. ASSUME NEW m \in 1..N, journals[m].reversalOf = 0
       PROVE  Even(m)' = IF i # 0 /\ Root(m, i) THEN ~Even(m) ELSE Even(m)
    <2>1. m \in above <=> i # 0 /\ Root(m, i)
        BY <1>11 DEF Root
    <2>2. Countering(m)' = Countering(m) \cup (IF m \in above THEN {n} ELSE {})
        BY <1>3
    <2>3. m \notin above => Countering(m)' = Countering(m)
        BY <2>2
    <2>4. m \in above => Countering(m)' = Countering(m) \cup {n}
        BY <2>2
    <2> HIDE DEF above
    <2> QED
        BY <1>1, <2>1, <2>3, <2>4, EvenOdd
<1>12. Even(n)'
    BY <1>3, FS_EmptySet DEF Even
<1> QED
    BY <1>4, <1>6, <1>7, <1>8, <1>9, <1>10, <1>11, <1>12

\* Every entry has a source or counters a journal.
LEMMA NewSource ==
    ASSUME TypeOK, [Next]_vars, NEW i \in 0..Len(journals), Grows(i)
    PROVE  i = 0 <=> journals'[Len(journals) + 1].source \in Source
<1> DEFINE e == journals'[Len(journals) + 1]
<1>1. Len(journals) \in Nat /\ Len(journals') = Len(journals) + 1 /\ e.reversalOf = i
    BY DEF TypeOK, Live, Database, Grows
<1>2. ASSUME NEW w \in Worker, Post(w) PROVE i = 0 /\ e.source \in Source
    <2>1. e = Entry(req[w], next[req[w].branch]) /\ req[w] \in PostRequest
        BY <1>2, PostStep
    <2> QED
        BY <1>1, <2>1 DEF Entry, PostRequest
<1>3. ASSUME NEW w \in Worker, Reverse(w) PROVE i # 0 /\ e.source = NoSource
    <2>1. PICK k \in 1..Len(journals), y \in Year, d \in Nat :
             e = Counter(journals[k], k, y, d, next[journals[k].branch])
        BY <1>3, ReverseStep
    <2> QED
        BY <1>1, <2>1 DEF Counter
<1>4. CASE Quiet
    BY <1>1, <1>4, QuietSteps
<1> QED
    BY <1>2, <1>3, <1>4, StepKinds, LedgerConstants

LEMMA ChainsStep ==
    ASSUME TypeOK, TypeOK', Paired, Chains, [Next]_vars PROVE Chains'
<1>1. ASSUME NEW i \in 0..Len(journals), Grows(i) PROVE Chains'
    <2> DEFINE N == Len(journals)
    <2>1. PICK n : n = N + 1
        OBVIOUS
    <2>2. /\ N \in Nat /\ n \in 1..n /\ Len(journals') = n
          /\ \A k \in 1..n : k \in 1..N \/ k = n
          /\ 1..N \subseteq 1..n
          /\ \A k \in 1..N : journals[k] \in JournalEntry
        BY <1>1, <2>1 DEF TypeOK, Live, Database, Grows
    <2>3. /\ \A k \in 1..N : /\ journals'[k].reversalOf = journals[k].reversalOf
                             /\ journals'[k].source = journals[k].source
                             /\ journals'[k].lines = journals[k].lines
          /\ journals'[n].reversalOf = i
          /\ i # 0 => i \in 1..N /\ journals'[n].lines = Mirror(journals[i].lines)
        BY <1>1, <2>1, <2>2 DEF Grows, Same
    <2>4. /\ \A j, m \in 1..N : Root(j, m)' = Root(j, m)
          /\ \A m \in 1..N : ~Root(n, m)'
          /\ \A j \in 1..N : Root(j, n)' = (i # 0 /\ Root(j, i))
          /\ Root(n, n)' = (i = 0)
          /\ \A k \in 1..N : Top(k)' = (Top(k) /\ k # i)
          /\ i # 0 => Top(i)
          /\ \A m \in 1..N : journals[m].reversalOf = 0 =>
               Even(m)' = IF i # 0 /\ Root(m, i) THEN ~Even(m) ELSE Even(m)
          /\ Even(n)'
        BY <1>1, <2>1, ChainsAfter
    <2>5. \A k \in 1..n :
            journals'[k].reversalOf = 0 <=> journals'[k].source \in Source
        BY <1>1, <2>1, <2>2, <2>3, NewSource DEF Chains
    <2>6. ASSUME NEW k \in 1..n, Top(k)'
          PROVE  \E j \in 1..n :
                    /\ Root(j, k)'
                    /\ journals'[k].lines = Turned(journals'[j].lines, Even(j)')
        <3>1. CASE k \in 1..N
            <4>1. Top(k) /\ k # i
                BY <2>4, <2>6, <3>1
            <4>2. PICK j \in 1..N :
                    Root(j, k) /\ journals[k].lines = Turned(journals[j].lines, Even(j))
                BY <3>1, <4>1 DEF Chains
            <4>3. ~(i # 0 /\ Root(j, i))
                BY <2>3, <2>4, <3>1, <4>1, <4>2 DEF Chains
            <4>4. journals[j].reversalOf = 0
                BY <4>2 DEF Root
            <4>5. Even(j)' = Even(j) /\ Root(j, k)'
                BY <2>4, <3>1, <4>2, <4>3, <4>4
            <4>6. journals'[k].lines = Turned(journals'[j].lines, Even(j)')
                BY <2>3, <3>1, <4>2, <4>5
            <4> QED
                BY <2>2, <4>5, <4>6
        <3>2. CASE k = n /\ i = 0
            <4>1. journals'[n].lines = Turned(journals'[n].lines, Even(n)')
                BY <2>4 DEF Turned
            <4> QED
                BY <2>2, <2>4, <3>2, <4>1
        <3>3. CASE k = n /\ i # 0
            <4>1. PICK j \in 1..N :
                    Root(j, i) /\ journals[i].lines = Turned(journals[j].lines, Even(j))
                BY <2>3, <2>4, <3>3 DEF Chains
            <4>2. journals[j].reversalOf = 0
                BY <4>1 DEF Root
            <4>3. Even(j)' = ~Even(j) /\ Root(j, n)'
                BY <2>4, <3>3, <4>1, <4>2
            <4>4. journals[j].lines \in Lines
                BY <2>2 DEF JournalEntry
            <4>5. journals'[n].lines = Mirror(Turned(journals[j].lines, Even(j)))
                BY <2>3, <3>3, <4>1
            <4>6. journals'[n].lines = Turned(journals'[j].lines, Even(j)')
                BY <2>3, <4>3, <4>4, <4>5, MirrorTwice DEF Turned
            <4> QED
                BY <2>2, <3>3, <4>3, <4>6
        <3> QED
            BY <2>2, <3>1, <3>2, <3>3
    <2>7. ASSUME NEW k \in 1..n, NEW j \in 1..n, NEW l \in 1..n,
                 Root(j, k)', Root(l, k)'
          PROVE  j = l
        <3>1. CASE k \in 1..N
            <4>1. j \in 1..N /\ l \in 1..N
                BY <2>2, <2>4, <2>7, <3>1
            <4> QED
                BY <2>4, <2>7, <3>1, <4>1 DEF Chains
        <3>2. CASE k = n /\ i = 0
            BY <2>2, <2>4, <2>7, <3>2
        <3>3. CASE k = n /\ i # 0
            <4>1. j \in 1..N /\ l \in 1..N
                BY <2>2, <2>4, <2>7, <3>3
            <4> QED
                BY <2>3, <2>4, <2>7, <3>3, <4>1 DEF Chains
        <3> QED
            BY <2>2, <3>1, <3>2, <3>3
    <2>8. ASSUME NEW k \in 1..n, NEW l \in 1..n, NEW j \in 1..n,
                 Top(k)', Top(l)', Root(j, k)', Root(j, l)'
          PROVE  k = l
        <3>1. CASE k \in 1..N /\ l \in 1..N
            <4>1. j \in 1..N
                BY <2>2, <2>4, <2>8, <3>1
            <4> QED
                BY <2>4, <2>8, <3>1, <4>1 DEF Chains
        <3>2. ASSUME NEW m \in 1..N, Top(m)', Root(j, m)', Root(j, n)' PROVE FALSE
            <4>1. j \in 1..N
                BY <2>2, <2>4, <3>2
            <4>2. Top(m) /\ m # i /\ Root(j, m) /\ i # 0 /\ Root(j, i) /\ Top(i)
                BY <2>4, <3>2, <4>1
            <4> QED
                BY <2>3, <4>1, <4>2 DEF Chains
        <3> QED
            BY <2>2, <2>8, <3>1, <3>2
    <2>9. /\ \A k \in 1..n : Top(k)' => \E j \in 1..n :
                    /\ Root(j, k)'
                    /\ journals'[k].lines = Turned(journals'[j].lines, Even(j)')
          /\ \A k, j, l \in 1..n : Root(j, k)' /\ Root(l, k)' => j = l
          /\ \A k, l, j \in 1..n :
                Top(k)' /\ Top(l)' /\ Root(j, k)' /\ Root(j, l)' => k = l
        BY <2>6, <2>7, <2>8
    <2> QED
        BY <2>2, <2>5, <2>9 DEF Chains
<1>2. CASE UNCHANGED <<journals, next>>
    <2>1. \A m : Countering(m)' = Countering(m)
        BY <1>2 DEF Countering
    <2>2. \A m : Even(m)' = Even(m)
        BY <2>1 DEF Even
    <2>3. \A j, m : Root(j, m)' = Root(j, m) /\ Top(j)' = Top(j)
        BY <1>2 DEF Root, Top
    <2> QED
        BY <1>2, <2>2, <2>3 DEF Chains
<1> QED
    BY <1>1, <1>2, Growth

LEMMA ChainsInit == Init => Chains
BY DEF Init, Chains

LEMMA ChainsAlways ==
    Spec => [](TypeOK /\ Paired /\ SnapshotsOld /\ Chains /\ SourcePostedOnce)
<1>1. TypeOK /\ TypeOK' /\ Paired /\ Chains /\ [Next]_vars => Chains'
    BY ChainsStep
<1> QED
    BY <1>1, ChainsInit, TypeCorrect, SnapshotsAlways, PostedOnce, PTL DEF Spec

-----------------------------------------------------------------------------
(* The book. *)

\* what the book says of a source, by the journal that carries it
BookSays(s) ==
    /\ \A j \in 1..Len(journals) : journals[j].source = s =>
          /\ Entered[s] = journals[j].lines
          /\ s \in InForce <=> Even(j)
    /\ (\A j \in 1..Len(journals) : journals[j].source # s) =>
          Entered[s] = Nothing /\ s \notin InForce

\* The book has the lines of a source's only journal, and the source in force
\* when the reversals above that journal are even in number.
LEMMA BookOfSource ==
    TypeOK /\ SourcePostedOnce => \A s \in Source : BookSays(s)
<1> SUFFICES ASSUME TypeOK, SourcePostedOnce, NEW s \in Source
             PROVE  BookSays(s)
    OBVIOUS
<1>1. DOMAIN journals = 1..Len(journals) /\ s # NoSource
    BY LedgerConstants DEF TypeOK, Live, Database
<1>2. ASSUME NEW j \in 1..Len(journals), journals[j].source = s
      PROVE  /\ Entered[s] = journals[j].lines
             /\ s \in InForce <=> Even(j)
    <2>1. JournalOf(s) = {j}
        BY <1>1, <1>2 DEF SourcePostedOnce, JournalOf
    <2>2. (CHOOSE i \in JournalOf(s) : TRUE) = j
        BY <2>1
    <2>3. Entered[s] = journals[j].lines
        BY <2>1, <2>2 DEF Entered
    <2>4. s \in InForce <=> Even(j)
        BY <1>1, <2>1 DEF InForce, Effective, Even
    <2> QED
        BY <2>3, <2>4
<1>3. ASSUME \A j \in 1..Len(journals) : journals[j].source # s
      PROVE  Entered[s] = Nothing /\ s \notin InForce
    <2>1. JournalOf(s) = {}
        BY <1>1, <1>3 DEF JournalOf
    <2> QED
        BY <2>1 DEF Entered, InForce
<1> QED
    BY <1>2, <1>3 DEF BookSays

\* And so it does after a step.
LEMMA BookOfSourceNext ==
    (TypeOK /\ SourcePostedOnce => \A s \in Source : BookSays(s))'
BY BookOfSource, PTL

\* The difference of the sides of a journal's lines is an integer.
LEMMA NetInt ==
    ASSUME TypeOK, NEW i \in 1..Len(journals), NEW a \in Account
    PROVE  Net(i, a) \in Int
<1>1. journals[i] \in JournalEntry
    BY DEF TypeOK, Live, Database
<1> QED
    BY <1>1 DEF JournalEntry, Lines, Net

\* A new entry changes the balances by its own lines.
LEMMA BalanceGrows ==
    ASSUME TypeOK, TypeOK', NEW i \in 0..Len(journals), Grows(i),
           NEW n \in {Len(journals) + 1}, NEW a \in Account
    PROVE  Balance'[a] = Balance[a] + Net(n, a)' /\ Balance[a] \in Int
<1> DEFINE N == Len(journals)
<1> PICK f : f = [k \in DOMAIN journals |-> Net(k, a)]
    OBVIOUS
<1> PICK g : g = [k \in DOMAIN journals' |-> Net(k, a)']
    OBVIOUS
<1>1. /\ N \in Nat /\ n = N + 1 /\ Len(journals') = n /\ n \notin 1..N /\ n \in 1..n
      /\ DOMAIN journals = 1..N /\ DOMAIN journals' = 1..n
      /\ 1..n = (1..N) \cup {n}
    BY DEF TypeOK, Live, Database, Grows
<1>2. IsFiniteSet(1..N)
    BY <1>1, FS_Interval
<1>3. ASSUME NEW k \in 1..N PROVE Net(k, a) \in Int /\ Net(k, a)' = Net(k, a)
    <2>1. journals'[k].lines = journals[k].lines
        BY DEF Grows, Same
    <2> QED
        BY <2>1, NetInt DEF Net
<1>4. Net(n, a)' \in Int
    <2>1. journals'[n] \in JournalEntry
        BY <1>1 DEF TypeOK, Live, Database
    <2> QED
        BY <2>1 DEF JournalEntry, Lines, Net
<1>5. /\ \A k \in 1..N : f[k] \in Int /\ g[k] = f[k]
      /\ g[n] \in Int /\ g[n] = Net(n, a)'
    BY <1>1, <1>3, <1>4
<1>6. Balance[a] = SumFunctionOnSet(f, 1..N)
    <2>1. Balance[a] = SumFunction(f)
        BY DEF Balance
    <2>2. DOMAIN f = 1..N
        BY <1>1
    <2> QED
        BY <2>1, <2>2 DEF SumFunction
<1>7. Balance'[a] = SumFunctionOnSet(g, 1..n)
    <2>1. Balance'[a] = SumFunction(g)
        BY DEF Balance
    <2>2. DOMAIN g = 1..n
        BY <1>1
    <2> QED
        BY <2>1, <2>2 DEF SumFunction
<1> HIDE DEF N
<1>8. SumFunctionOnSet(g, 1..n) = SumFunctionOnSet(f, 1..N) + g[n]
    <2>1. \A k \in 1..N : f[k] \in Int /\ g[k] = f[k]
        BY <1>5
    <2>2. N \in Nat /\ g[N + 1] \in Int /\ n = N + 1
        BY <1>1, <1>5
    <2> QED
        BY ONLY <2>1, <2>2, SumAppendRow
<1>9. SumFunctionOnSet(f, 1..N) \in Int
    BY <1>2, <1>5, SumInt
<1> QED
    BY <1>1, <1>5, <1>6, <1>7, <1>8, <1>9

\* A posting enters its source into the book.
LEMMA PostEnters ==
    ASSUME TypeOK, TypeOK', Paired, SourcePostedOnce, SourcePostedOnce', Chains,
           Chains', [Next]_vars, NEW w \in Worker, Post(w)
    PROVE  \E s \in Source, lines \in Postable : Book!Enter(s, lines)
<1> DEFINE N == Len(journals)
<1>1. PICK n : n = N + 1
    OBVIOUS
<1>2. PICK r : r = req[w]
    OBVIOUS
<1>3. /\ r \in PostRequest /\ r \in Request
      /\ Len(journals') = n /\ N \in Nat /\ n \notin 1..N /\ n \in 1..n
      /\ \A k \in 1..n : k \in 1..N \/ k = n
      /\ 1..N \subseteq 1..n
      /\ \A k \in 1..N : journals'[k] = journals[k] /\ journals[k].source # r.source
      /\ journals'[n] = Entry(r, next[r.branch])
    <2>1. req[w] \in Request
        BY DEF TypeOK, Post, Running
    <2>2. /\ req[w] \in PostRequest
          /\ Len(journals') = N + 1
          /\ \A k \in 1..N : journals'[k] = journals[k]
          /\ journals'[N + 1] = Entry(req[w], next[req[w].branch])
          /\ \A k \in 1..N : journals[k].source # req[w].source
        BY PostStep
    <2>3. N \in Nat
        BY DEF TypeOK, Live, Database
    <2> QED
        BY <1>1, <1>2, <2>1, <2>2, <2>3
<1>4. /\ r.source \in Source /\ r.lines \in Postable
      /\ journals'[n].source = r.source /\ journals'[n].lines = r.lines
      /\ journals'[n].reversalOf = 0
    <2>1. r.op = "post" /\ Balanced(r.lines)
        BY <1>2 DEF Post, Running
    <2>2. r.lines \in Postable
        BY <1>3, <2>1 DEF Postable
    <2> QED
        BY <1>3, <2>2 DEF Entry, PostRequest
<1>5. PICK s : s = r.source
    OBVIOUS
<1>6. Grows(0)
    <2>1. PICK i \in 0..N : Grows(i)
        <3>1. Len(journals') # Len(journals)
            BY <1>1, <1>3
        <3> QED
            BY <3>1, Growth
    <2>2. i = 0
        BY <1>1, <1>4, <2>1 DEF Grows
    <2> QED
        BY <2>1, <2>2
<1>7. /\ Entered[s] = Nothing
      /\ Entered'[s] = r.lines
      /\ s \in InForce'
    <2>1. Entered[s] = Nothing
        BY <1>3, <1>4, <1>5, BookOfSource DEF BookSays
    <2>2. Even(n)'
        BY <1>1, <1>3, <1>6, ChainsAfter
    <2>3. \A t \in Source, j \in 1..n : journals'[j].source = t =>
                Entered'[t] = journals'[j].lines /\ (t \in InForce' <=> Even(j)')
        <3>1. ASSUME NEW t \in Source, NEW j \in 1..n, journals'[j].source = t
              PROVE  Entered'[t] = journals'[j].lines /\ (t \in InForce' <=> Even(j)')
            BY <1>3, <3>1, BookOfSourceNext DEF BookSays
        <3> QED
            BY <3>1
    <2> QED
        BY <1>3, <1>4, <1>5, <2>1, <2>2, <2>3
<1>8. ASSUME NEW t \in Source, t # s
      PROVE  Entered'[t] = Entered[t] /\ (t \in InForce' <=> t \in InForce)
    <2>1. CASE \E j \in 1..N : journals[j].source = t
        <3>1. PICK j \in 1..N : journals[j].source = t
            BY <2>1
        <3>2. journals[j].reversalOf = 0
            BY <3>1 DEF Chains
        <3>3. Even(j)' = Even(j)
            BY <1>3, <1>6, <3>2, ChainsAfter
        <3>4. Entered[t] = journals[j].lines /\ (t \in InForce <=> Even(j))
            BY <3>1, BookOfSource DEF BookSays
        <3>5. j \in 1..Len(journals') /\ journals'[j].source = t
            BY <1>3, <3>1
        <3>6. Entered'[t] = journals'[j].lines /\ (t \in InForce' <=> Even(j)')
            BY <3>5, BookOfSourceNext DEF BookSays
        <3> QED
            BY <1>3, <3>3, <3>4, <3>6
    <2>2. CASE \A j \in 1..N : journals[j].source # t
        <3>1. Entered[t] = Nothing /\ t \notin InForce
            BY <2>2, BookOfSource DEF BookSays
        <3>2. \A j \in 1..Len(journals') : journals'[j].source # t
            BY <1>3, <1>4, <1>5, <1>8, <2>2
        <3>3. Entered'[t] = Nothing /\ t \notin InForce'
            BY <3>2, BookOfSourceNext DEF BookSays
        <3> QED
            BY <3>1, <3>3
    <2> QED
        BY <2>1, <2>2
<1>9. Entered' = [Entered EXCEPT ![s] = r.lines]
    <2>1. DOMAIN Entered = Source /\ DOMAIN Entered' = Source
        BY DEF Entered
    <2>2. Entered = [t \in Source |-> Entered[t]]
        BY DEF Entered
    <2>3. Entered' = [t \in Source |-> Entered'[t]]
        BY DEF Entered
    <2> QED
        BY <1>4, <1>5, <1>7, <1>8, <2>1, <2>2, <2>3
<1>10. InForce' = InForce \cup {s}
    <2>1. InForce \subseteq Source /\ InForce' \subseteq Source
        BY DEF InForce
    <2> QED
        BY <1>4, <1>5, <1>7, <1>8, <2>1
<1>11. ASSUME NEW a \in Account
       PROVE  Balance'[a] = Balance[a] + 1 * (r.lines.debit[a] - r.lines.credit[a])
    <2>1. Balance'[a] = Balance[a] + Net(n, a)' /\ Balance[a] \in Int
        BY <1>1, <1>3, <1>6, BalanceGrows
    <2>2. Net(n, a)' = r.lines.debit[a] - r.lines.credit[a]
        BY <1>4 DEF Net
    <2>3. r.lines.debit[a] \in Int /\ r.lines.credit[a] \in Int
        BY <1>3 DEF PostRequest, Lines
    <2> QED
        BY <2>1, <2>2, <2>3
<1>12. Balance' = [a \in Account |->
                    Balance[a] + 1 * (r.lines.debit[a] - r.lines.credit[a])]
    <2>1. Balance' = [a \in Account |-> Balance'[a]]
        BY DEF Balance
    <2> QED
        BY <1>11, <2>1
<1>13. Book!Enter(s, r.lines)
    BY <1>7, <1>9, <1>10, <1>12 DEF Book!Enter, Book!Moved
<1> QED
    BY <1>4, <1>5, <1>13

\* A reversal adds the mirror image of the journal it was asked to reverse.
LEMMA ReverseGrows ==
    ASSUME TypeOK, [Next]_vars, NEW w \in Worker, Reverse(w)
    PROVE  req[w].journal \in 1..Len(journals) /\ Grows(req[w].journal)
<1> DEFINE i == req[w].journal
           N == Len(journals)
<1>1. /\ journals \in Seq(JournalEntry) /\ N \in Nat /\ DOMAIN journals = 1..N
      /\ i \in 1..N
    <2>1. journals \in Seq(JournalEntry) /\ DOMAIN journals = 1..N /\ N \in Nat
        BY DEF TypeOK, Live, Database
    <2>2. ReversalFree(w, i)
        BY DEF Reverse
    <2>3. i \in DOMAIN journals
        BY <2>2 DEF ReversalFree
    <2> QED
        BY <2>1, <2>3
<1>2. PICK y, d, m : journals' = Append(MarkReversed(journals, i),
                                        Counter(snap[w].journals[i], i, y, d, m))
    BY DEF Reverse
<1>3. MarkReversed(journals, i) \in Seq(JournalEntry)
      /\ Len(MarkReversed(journals, i)) = N
    <2> HIDE DEF i, N
    <2>1. i \in DOMAIN journals
        BY <1>1
    <2> QED
        BY <1>1, <2>1, MarkedType DEF N
<1>4. journals'[N + 1] = Counter(snap[w].journals[i], i, y, d, m)
    <2> DEFINE marked == MarkReversed(journals, i)
               e == Counter(snap[w].journals[i], i, y, d, m)
    <2>1. journals' = Append(marked, e) /\ marked \in Seq(JournalEntry)
          /\ Len(marked) = N
        BY <1>2, <1>3
    <2> HIDE DEF marked, e
    <2>2. journals'[N + 1] = e
        BY <2>1
    <2> QED
        BY <2>2 DEF e
<1>5. PICK k \in 0..N : Grows(k)
    <2>1. Len(journals') = N + 1
        BY ReverseStep
    <2>2. Len(journals') # N
        <3>1. \A k \in Nat : k + 1 # k
            OBVIOUS
        <3>2. Len(journals) \in Nat
            BY <1>1
        <3> QED
            BY <2>1, <3>1, <3>2
    <2> QED
        BY <2>2, Growth
<1>6. k = i
    <2>1. journals'[Len(journals) + 1].reversalOf = k
        BY ONLY <1>5 DEF Grows
    <2>2. journals'[Len(journals) + 1].reversalOf = i
        BY ONLY <1>4 DEF Counter
    <2> QED
        BY ONLY <2>1, <2>2
<1> QED
    BY <1>1, <1>5, <1>6

\* Mirrored lines have the opposite effect on an account.
LEMMA MirrorNegates ==
    ASSUME NEW l \in Lines, NEW a \in Account
    PROVE  /\ l.debit[a] - l.credit[a] \in Int
           /\ Mirror(l).debit[a] - Mirror(l).credit[a] = -(l.debit[a] - l.credit[a])
BY DEF Lines, Mirror

\* A journal whose root has been countered is reversed only when the kind of
\* that root's source allows it.
LEMMA RootIsChecked ==
    ASSUME TypeOK, Paired, SnapshotsOld, NEW w \in Worker, Reverse(w),
           NEW j \in Ancestors(journals, req[w].journal),
           req[w].journal \in 1..Len(journals)
    PROVE  journals[j].source \notin Corrected
<1> DEFINE i == req[w].journal
           js == snap[w].journals
<1>1. /\ journals \in Seq(JournalEntry) /\ js \in Seq(JournalEntry)
      /\ DOMAIN js = 1..Len(js) /\ Len(js) \in Nat
    BY DEF TypeOK, Live, Database
<1>2. i \in 1..Len(js) /\ ChainAllows(js, i)
    BY <1>1 DEF Reverse, ReversalAllowed, Unreversed
<1>3. /\ Len(js) <= Len(journals)
      /\ \A k \in 1..Len(js) : /\ journals[k].reversalOf = js[k].reversalOf
                               /\ journals[k].source = js[k].source
    BY DEF SnapshotsOld, Same
<1>4. Rooted(js)
    <2>1. ASSUME NEW k \in 1..Len(js) PROVE js[k].reversalOf \in 0..(k - 1)
        <3>1. k \in 1..Len(journals)
            BY <1>1, <1>3
        <3> QED
            BY <1>3, <3>1 DEF Paired
    <2> QED
        BY <2>1 DEF Rooted
<1>5. Ancestors(journals, i) = Ancestors(js, i)
    <2> HIDE DEF js, i
    <2> QED
        BY <1>1, <1>2, <1>3, <1>4, AncestorsOfPrefix
<1>6. j \in Ancestors(js, i) /\ j \in 1..Len(js)
    BY <1>1, <1>5 DEF Ancestors
<1>7. js[j].source \notin Corrected
    BY <1>2, <1>6 DEF ChainAllows
<1> QED
    BY <1>3, <1>6, <1>7

\* A reversal withdraws a source from the book or puts it back.
LEMMA ReverseMoves ==
    ASSUME TypeOK, TypeOK', Paired, SnapshotsOld, SourcePostedOnce,
           SourcePostedOnce', Chains, [Next]_vars, NEW w \in Worker, Reverse(w)
    PROVE  \E s \in Source : Book!Withdraw(s) \/ Book!PutBack(s)
<1> DEFINE N == Len(journals)
<1>1. PICK n : n = N + 1
    OBVIOUS
<1>2. PICK i \in 1..N : i = req[w].journal
    BY ReverseGrows
<1>3. /\ Grows(i) /\ i # 0 /\ i \in 0..N
      /\ Len(journals') = n /\ N \in Nat /\ n \in 1..n
      /\ \A k \in 1..n : k \in 1..N \/ k = n
      /\ 1..N \subseteq 1..n
      /\ \A k \in 1..N : journals[k] \in JournalEntry
    <2>1. Grows(i)
        BY <1>2, ReverseGrows
    <2>2. Len(journals') = N + 1
        BY <2>1 DEF Grows
    <2>3. N \in Nat /\ \A k \in 1..N : journals[k] \in JournalEntry
        BY DEF TypeOK, Live, Database
    <2> HIDE DEF N
    <2>4. i # 0 /\ i \in 0..N
        BY <1>2, <2>3
    <2> QED
        BY <1>1, <2>1, <2>2, <2>3, <2>4
<1>4. /\ \A k \in 1..N : /\ journals'[k].lines = journals[k].lines
                         /\ journals'[k].source = journals[k].source
      /\ journals'[n].lines = Mirror(journals[i].lines)
      /\ journals'[n].source \notin Source
    BY <1>1, <1>3, NewSource DEF Grows, Same
<1>5. /\ Top(i)
      /\ \A m \in 1..N : journals[m].reversalOf = 0 =>
            Even(m)' = IF Root(m, i) THEN ~Even(m) ELSE Even(m)
    BY <1>1, <1>3, ChainsAfter
<1>6. PICK j \in 1..N :
            Root(j, i) /\ journals[i].lines = Turned(journals[j].lines, Even(j))
    BY <1>5 DEF Chains
<1>7. PICK s : s = journals[j].source
    OBVIOUS
<1>8. /\ journals[j].reversalOf = 0 /\ s \in Source
      /\ journals[j].lines \in Lines
    BY <1>3, <1>6, <1>7 DEF Root, Chains, JournalEntry
<1>9. /\ Entered[s] = journals[j].lines
      /\ s \in InForce <=> Even(j)
      /\ s \in InForce' <=> ~Even(j)
    <2>1. Entered[s] = journals[j].lines /\ (s \in InForce <=> Even(j))
        BY <1>7, <1>8, BookOfSource DEF BookSays
    <2>2. j \in 1..Len(journals') /\ journals'[j].source = s
        BY <1>3, <1>4, <1>7
    <2>3. s \in InForce' <=> Even(j)'
        BY <1>8, <2>2, BookOfSourceNext DEF BookSays
    <2> QED
        BY <1>5, <1>6, <1>8, <2>1, <2>3
<1>10. ASSUME NEW t \in Source
       PROVE  Entered'[t] = Entered[t] /\ (t # s => (t \in InForce' <=> t \in InForce))
    <2>1. CASE \E m \in 1..N : journals[m].source = t
        <3>1. PICK m \in 1..N : journals[m].source = t
            BY <2>1
        <3>2. journals[m].reversalOf = 0
            BY <3>1 DEF Chains
        <3>3. Entered[t] = journals[m].lines /\ (t \in InForce <=> Even(m))
            BY <3>1, BookOfSource DEF BookSays
        <3>4. m \in 1..Len(journals') /\ journals'[m].source = t
            BY <1>3, <1>4, <3>1
        <3>5. Entered'[t] = journals'[m].lines /\ (t \in InForce' <=> Even(m)')
            BY <3>4, BookOfSourceNext DEF BookSays
        <3>6. ASSUME t # s PROVE Even(m)' = Even(m)
            <4>1. m # j
                BY <1>7, <3>1, <3>6
            <4>2. ~Root(m, i)
                BY <1>6, <4>1 DEF Chains
            <4> QED
                BY <1>5, <3>2, <4>2
        <3> QED
            BY <1>4, <3>3, <3>5, <3>6
    <2>2. CASE \A m \in 1..N : journals[m].source # t
        <3>1. Entered[t] = Nothing /\ t \notin InForce
            BY <2>2, BookOfSource DEF BookSays
        <3>2. \A m \in 1..Len(journals') : journals'[m].source # t
            BY <1>3, <1>4, <2>2
        <3>3. Entered'[t] = Nothing /\ t \notin InForce'
            BY <3>2, BookOfSourceNext DEF BookSays
        <3> QED
            BY <3>1, <3>3
    <2> QED
        BY <2>1, <2>2
<1>11. Entered' = Entered
    <2>1. Entered = [t \in Source |-> Entered[t]]
        BY DEF Entered
    <2>2. Entered' = [t \in Source |-> Entered'[t]]
        BY DEF Entered
    <2> QED
        BY <1>10, <2>1, <2>2
<1>12. InForce \subseteq Source /\ InForce' \subseteq Source
    BY DEF InForce
<1>13. ASSUME NEW a \in Account
       PROVE  LET l == journals[j].lines IN
              Balance'[a] = Balance[a]
                    + (IF Even(j) THEN -1 ELSE 1) * (l.debit[a] - l.credit[a])
    <2>1. PICK l : l = journals[j].lines
        OBVIOUS
    <2>2. Balance'[a] = Balance[a] + Net(n, a)' /\ Balance[a] \in Int
        BY <1>1, <1>3, BalanceGrows
    <2>3. Net(n, a)' = journals'[n].lines.debit[a] - journals'[n].lines.credit[a]
        BY DEF Net
    <2>4. journals'[n].lines = IF Even(j) THEN Mirror(l) ELSE l
        BY <1>4, <1>6, <1>8, <2>1, MirrorTwice DEF Turned
    <2>5. PICK x : x = l.debit[a] - l.credit[a]
        OBVIOUS
    <2>6. /\ x \in Int
          /\ Mirror(l).debit[a] - Mirror(l).credit[a] = -x
        BY <1>8, <2>1, <2>5, MirrorNegates
    <2>7. CASE Even(j)
        <3>1. Net(n, a)' = -x
            BY <2>3, <2>4, <2>6, <2>7
        <3>2. Balance'[a] = Balance[a] + (-1) * x
            BY <2>2, <2>6, <3>1
        <3> QED
            BY <2>1, <2>5, <2>7, <3>2
    <2>8. CASE ~Even(j)
        <3>1. Net(n, a)' = x
            BY <2>3, <2>4, <2>5, <2>8
        <3>2. Balance'[a] = Balance[a] + 1 * x
            BY <2>2, <2>6, <3>1
        <3> QED
            BY <2>1, <2>5, <2>8, <3>2
    <2> QED
        BY <2>7, <2>8
<1>14. Balance' = [a \in Account |-> Balance'[a]]
    BY DEF Balance
<1>15. CASE Even(j)
    <2>1. Balance' = [a \in Account |-> Balance[a] + (-1) *
                            (Entered[s].debit[a] - Entered[s].credit[a])]
        BY <1>9, <1>13, <1>14, <1>15
    <2>2. s \in InForce /\ InForce' = InForce \ {s}
        BY <1>8, <1>9, <1>10, <1>12, <1>15
    <2>3. Book!Withdraw(s)
        BY <1>11, <2>1, <2>2 DEF Book!Withdraw, Book!Moved
    <2> QED
        BY <1>8, <2>3
<1>16. CASE ~Even(j)
    <2>1. Balance' = [a \in Account |-> Balance[a] + 1 *
                            (Entered[s].debit[a] - Entered[s].credit[a])]
        BY <1>9, <1>13, <1>14, <1>16
    <2>2. s \notin InForce /\ InForce' = InForce \cup {s}
        BY <1>8, <1>9, <1>10, <1>12, <1>16
    <2>3. Entered[s] # Nothing
        BY <1>8, <1>9, NothingIsNoLines
    <2>4. j # i
        <3>1. ASSUME j = i PROVE FALSE
            <4>1. Rooted(journals) /\ journals \in Seq(JournalEntry)
                BY DEF Rooted, Paired, TypeOK, Live, Database
            <4>2. \A m \in 1..N : i \notin Ancestors(journals, m)
                BY <1>5, <4>1, AncestorsAreCountered DEF Top
            <4>3. Countering(i) = {}
                BY <4>1, <4>2 DEF Countering
            <4> QED
                BY <1>16, <3>1, <4>3, FS_EmptySet DEF Even
        <3> QED
            BY <3>1
    <2>5. j \in Ancestors(journals, req[w].journal)
        BY <1>2, <1>6, <2>4 DEF Root
    <2>6. s \notin Corrected
        BY <1>2, <1>7, <2>5, RootIsChecked
    <2>7. Book!PutBack(s)
        BY <1>11, <2>1, <2>2, <2>3, <2>6 DEF Book!PutBack, Book!Moved
    <2> QED
        BY <1>8, <2>7
<1> QED
    BY <1>15, <1>16

\* The empty ledger is the empty book.
LEMMA BookStarts == Init => Book!BookInit
<1> SUFFICES ASSUME Init PROVE Book!BookInit
    OBVIOUS
<1>1. journals = <<>> /\ DOMAIN journals = {}
    BY DEF Init
<1>2. Entered = [s \in Source |-> Nothing] /\ InForce = {}
    BY <1>1 DEF Entered, InForce, JournalOf
<1>3. ASSUME NEW a \in Account PROVE Balance[a] = 0
    <2>1. PICK f : f = [i \in DOMAIN journals |-> Net(i, a)]
        OBVIOUS
    <2>2. Balance[a] = SumFunction(f) /\ DOMAIN f = {}
        BY <1>1, <2>1 DEF Balance
    <2>3. SumFunction(f) = SumFunctionOnSet(f, {})
        BY <2>2 DEF SumFunction
    <2> QED
        BY <2>2, <2>3, SumEmpty
<1>4. Balance = [a \in Account |-> 0]
    BY <1>3 DEF Balance
<1> QED
    BY <1>2, <1>4 DEF Book!BookInit

\* A step of the ledger is a step of the book or leaves the book alone.
LEMMA BookMoves ==
    ASSUME TypeOK, TypeOK', Paired, SnapshotsOld, SourcePostedOnce,
           SourcePostedOnce', Chains, Chains', [Next]_vars
    PROVE  [Book!BookNext]_(Book!book)
<1>1. ASSUME NEW w \in Worker, Post(w) PROVE Book!BookNext
    BY <1>1, PostEnters DEF Book!BookNext
<1>2. ASSUME NEW w \in Worker, Reverse(w) PROVE Book!BookNext
    BY <1>2, ReverseMoves DEF Book!BookNext
<1>3. CASE Quiet
    <2>1. journals' = journals
        BY <1>3, QuietSteps
    <2>2. \A i : Countering(i)' = Countering(i)
        BY <2>1 DEF Countering
    <2>3. Effective' = Effective
        BY <2>1, <2>2 DEF Effective
    <2>4. Entered' = Entered /\ InForce' = InForce
        BY <2>1, <2>3 DEF Entered, InForce, JournalOf
    <2>5. Balance' = Balance
        BY <2>1 DEF Balance, Net
    <2> QED
        BY <2>4, <2>5 DEF Book!book
<1> QED
    BY <1>1, <1>2, <1>3, StepKinds

\* The ledger implements the book: however requests overlap, replay and retry,
\* a posting enters its source once, a reversal withdraws a source or puts it
\* back, and the balances are at every moment those of the sources in force.
THEOREM Implementation == Spec => ImplementsBook
<1> DEFINE Inv == TypeOK /\ Paired /\ SnapshotsOld /\ Chains /\ SourcePostedOnce
<1>1. Inv /\ Inv' /\ [Next]_vars => [Book!BookNext]_(Book!book)
    BY BookMoves
<1>2. Spec => []Inv
    BY ChainsAlways
<1> HIDE DEF Inv
<1> QED
    BY <1>1, <1>2, BookStarts, PTL DEF Spec, ImplementsBook, Book!BookSpec

-----------------------------------------------------------------------------
(* The trial balance. *)

\* the two sides of every journal are equal
JournalsBalance ==
    \A i \in 1..Len(journals) :
        Total(journals[i].lines.debit) = Total(journals[i].lines.credit)

\* The total of amounts is their sum.
LEMMA TotalIsSum ==
    ASSUME NEW amounts PROVE Total(amounts) = SumFunctionOnSet(amounts, Account)
BY DEF Total, MapThenSumSet, MapThenFoldSet, SumFunctionOnSet, FoldFunctionOnSet

\* The sides of an entry that is added are equal.
LEMMA NewEntryBalances ==
    ASSUME TypeOK, JournalsBalance, [Next]_vars, NEW i \in 0..Len(journals),
           Grows(i), NEW n \in {Len(journals) + 1}
    PROVE  Total(journals'[n].lines.debit) = Total(journals'[n].lines.credit)
<1>1. Len(journals) \in Nat /\ Len(journals') = Len(journals) + 1
    BY DEF TypeOK, Live, Database, Grows
<1>2. ASSUME NEW w \in Worker, Post(w)
      PROVE  Total(journals'[n].lines.debit) = Total(journals'[n].lines.credit)
    <2>1. journals'[n] = Entry(req[w], next[req[w].branch])
        BY <1>2, PostStep
    <2>2. journals'[n].lines = req[w].lines
        BY <2>1 DEF Entry
    <2>3. Balanced(req[w].lines)
        BY <1>2 DEF Post
    <2> QED
        BY <2>2, <2>3 DEF Balanced
<1>3. ASSUME NEW w \in Worker, Reverse(w)
      PROVE  Total(journals'[n].lines.debit) = Total(journals'[n].lines.credit)
    <2>1. PICK k \in 1..Len(journals), y \in Year, d \in Nat :
             journals'[Len(journals) + 1]
                = Counter(journals[k], k, y, d, next[journals[k].branch])
        BY <1>3, ReverseStep
    <2>2. journals'[n].lines = Mirror(journals[k].lines)
        BY <2>1 DEF Counter
    <2>3. Total(journals[k].lines.debit) = Total(journals[k].lines.credit)
        BY DEF JournalsBalance
    <2> QED
        BY <2>2, <2>3 DEF Mirror
<1>4. CASE Quiet
    BY <1>1, <1>4, QuietSteps
<1> QED
    BY <1>2, <1>3, <1>4, StepKinds

\* Lines with equal sides change the balances of all accounts by nothing.
LEMMA BalancedNet ==
    ASSUME NEW l \in Lines, Total(l.debit) = Total(l.credit),
           NEW f, \A a \in Account : f[a] = l.debit[a] - l.credit[a]
    PROVE  SumFunctionOnSet(f, Account) = 0
<1> DEFINE d == l.debit
           c == l.credit
<1>1. IsFiniteSet(Account)
    BY LedgerConstants
<1>2. \A a \in Account : d[a] \in Int /\ c[a] \in Int
    BY DEF Lines
<1>3. \A a \in Account : /\ f[a] \in Int /\ c[a] \in Int
                         /\ d[a] = f[a] + c[a]
    BY <1>2
<1>4. SumFunctionOnSet(d, Account) = SumFunctionOnSet(c, Account)
    BY TotalIsSum
<1> HIDE DEF d, c
<1>5. SumFunctionOnSet(d, Account)
        = SumFunctionOnSet(f, Account) + SumFunctionOnSet(c, Account)
    BY <1>1, <1>3, SumPlus
<1>6. SumFunctionOnSet(f, Account) \in Int /\ SumFunctionOnSet(c, Account) \in Int
    BY <1>1, <1>3, SumInt
<1> QED
    BY <1>4, <1>5, <1>6

LEMMA TrialStep ==
    ASSUME TypeOK, TypeOK', JournalsBalance, TrialBalances, [Next]_vars
    PROVE  JournalsBalance' /\ TrialBalances'
<1>1. ASSUME NEW i \in 0..Len(journals), Grows(i)
      PROVE  JournalsBalance' /\ TrialBalances'
    <2> DEFINE N == Len(journals)
    <2>1. PICK n : n = N + 1
        OBVIOUS
    <2>2. /\ N \in Nat /\ Len(journals') = n /\ n \in 1..n
          /\ \A k \in 1..n : k \in 1..N \/ k = n
          /\ \A k \in 1..N : journals'[k].lines = journals[k].lines
        BY <1>1, <2>1 DEF TypeOK, Live, Database, Grows, Same
    <2>3. Total(journals'[n].lines.debit) = Total(journals'[n].lines.credit)
        BY <1>1, <2>1, NewEntryBalances
    <2>4. JournalsBalance'
        BY <2>2, <2>3 DEF JournalsBalance
    <2>5. PICK l : l = journals'[n].lines
        OBVIOUS
    <2>6. l \in Lines
        <3>1. journals'[n] \in JournalEntry
            BY <2>2 DEF TypeOK, Live, Database
        <3> QED
            BY <2>5, <3>1 DEF JournalEntry
    <2>7. PICK f : f = [a \in Account |-> l.debit[a] - l.credit[a]]
        OBVIOUS
    <2>8. SumFunctionOnSet(f, Account) = 0
        BY <2>3, <2>5, <2>6, <2>7, BalancedNet
    <2>9. ASSUME NEW a \in Account
          PROVE  Balance[a] \in Int /\ f[a] \in Int /\ Balance'[a] = Balance[a] + f[a]
        <3>1. Balance'[a] = Balance[a] + Net(n, a)' /\ Balance[a] \in Int
            BY <1>1, <2>1, BalanceGrows
        <3>2. Net(n, a)' = f[a]
            BY <2>5, <2>7 DEF Net
        <3>3. f[a] \in Int
            BY <2>6, <2>7 DEF Lines
        <3> QED
            BY <3>1, <3>2, <3>3
    <2>10. DOMAIN Balance = Account /\ DOMAIN Balance' = Account
        BY DEF Balance
    <2>11. IsFiniteSet(Account)
        BY LedgerConstants
    <2>12. PICK b, c : b = Balance /\ c = Balance'
        OBVIOUS
    <2>13. SumFunctionOnSet(c, Account)
            = SumFunctionOnSet(b, Account) + SumFunctionOnSet(f, Account)
        <3>1. \A a \in Account : b[a] \in Int /\ f[a] \in Int /\ c[a] = b[a] + f[a]
            BY <2>9, <2>12
        <3> QED
            BY <2>11, <3>1, SumPlus
    <2>14. SumFunctionOnSet(b, Account) = 0
        BY <2>10, <2>12 DEF TrialBalances, SumFunction
    <2>15. SumFunctionOnSet(c, Account) = 0
        BY <2>8, <2>13, <2>14
    <2> QED
        BY <2>4, <2>10, <2>12, <2>15 DEF TrialBalances, SumFunction
<1>2. CASE UNCHANGED <<journals, next>>
    BY <1>2 DEF JournalsBalance, TrialBalances, Balance, Net
<1> QED
    BY <1>1, <1>2, Growth

\* The trial balance balances: over all accounts, whatever was posted and
\* reversed, debits and credits are equal.
THEOREM TrialBalance == Spec => []TrialBalances
<1>1. Init => JournalsBalance /\ TrialBalances
    <2> SUFFICES ASSUME Init PROVE JournalsBalance /\ TrialBalances
        OBVIOUS
    <2>1. Book!BookInit
        BY BookStarts
    <2>2. DOMAIN Balance = Account /\ \A a \in Account : Balance[a] = 0
        BY <2>1 DEF Book!BookInit
    <2>3. SumFunctionOnSet(Balance, Account) = 0
        BY <2>2, LedgerConstants, SumOfZeros
    <2>4. JournalsBalance
        BY DEF Init, JournalsBalance
    <2> QED
        BY <2>2, <2>3, <2>4 DEF TrialBalances, SumFunction
<1>2. TypeOK /\ TypeOK' /\ JournalsBalance /\ TrialBalances /\ [Next]_vars
        => JournalsBalance' /\ TrialBalances'
    BY TrialStep
<1> QED
    BY <1>1, <1>2, TypeCorrect, PTL DEF Spec

===============================================================================
