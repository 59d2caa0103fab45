------------------------------- MODULE MCLedger -------------------------------
(***************************************************************************)
(* Small instances of Ledger, and of what it implements, for TLC.          *)
(***************************************************************************)
EXTENDS LedgerBook, TLC

CONSTANTS Manual, Owner, Settlement, Cash, Income, North, South, Y1, Y2

MCYearStart == (Y1 :> 1) @@ (Y2 :> 3)
MCYearEnd == (Y1 :> 2) @@ (Y2 :> 4)

Sale(n) == [debit |-> (Cash :> n) @@ (Income :> 0),
            credit |-> (Cash :> 0) @@ (Income :> n)]
Lopsided == [debit |-> (Cash :> 2) @@ (Income :> 0),
             credit |-> (Cash :> 0) @@ (Income :> 1)]

PostOf(source, year, branch, date, lines) ==
    [op |-> "post", source |-> source, year |-> year, branch |-> branch,
     date |-> date, lines |-> lines]
ReverseOf(i, date, lifecycle) ==
    [op |-> "reverse", journal |-> i, date |-> date, lifecycle |-> lifecycle]
LockOf(year, through) == [op |-> "lock", year |-> year, through |-> through]

\* one key posted with equal and different content, a key of an owning service
\* in another branch and a managed one; corrections of the first two journals
\* in the later year, by hand and by the owner; locks of two dates
Requests ==
    {PostOf(Manual, Y1, North, 2, Sale(1)),
     PostOf(Manual, Y1, North, 2, Sale(2)),
     PostOf(Owner, Y1, South, 2, Sale(2)),
     PostOf(Settlement, Y1, North, 2, Sale(2)),
     ReverseOf(1, 4, FALSE), ReverseOf(2, 4, FALSE), ReverseOf(1, 4, TRUE),
     LockOf(Y1, 1), LockOf(Y1, 2)}

\* the second posting does not balance
PostingRequests ==
    {PostOf(Manual, Y1, North, 2, Sale(1)),
     PostOf(Manual, Y1, North, 2, Lopsided),
     PostOf(Settlement, Y1, North, 2, Sale(1)),
     LockOf(Y1, 1), LockOf(Y1, 2)}

Symmetry == Permutations(Worker)
===============================================================================
