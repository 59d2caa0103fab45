------------------------------ MODULE LedgerBook ------------------------------
(***************************************************************************)
(* The book that a ledger stands for: the mapping under which Ledger       *)
(* implements JournalBook.                                                 *)
(***************************************************************************)
EXTENDS Ledger, Functions

CONSTANT Nothing    \* the lines of a source that has not been entered

ASSUME NothingIsNoLines == Nothing \notin Lines

JournalOf(s) == {i \in DOMAIN journals : journals[i].source = s}

Entered ==
    [s \in Source |-> IF JournalOf(s) = {} THEN Nothing
                      ELSE journals[CHOOSE i \in JournalOf(s) : TRUE].lines]

\* the reversals that sit on top of a journal, and on one another
Countering(i) == {k \in DOMAIN journals : i \in Ancestors(journals, k)}

\* a journal is in force while they are even in number
Effective == {i \in DOMAIN journals : Cardinality(Countering(i)) % 2 = 0}

InForce == {s \in Source : JournalOf(s) \cap Effective # {}}

\* the balance the reports compute: every POSTED or REVERSED line counts
Net(i, a) == journals[i].lines.debit[a] - journals[i].lines.credit[a]
Balance ==
    [a \in Account |-> SumFunction([i \in DOMAIN journals |-> Net(i, a)])]

\* the lines a request may bring into the book
Postable ==
    {r.lines : r \in {q \in Request : q.op = "post" /\ Balanced(q.lines)}}

Book == INSTANCE JournalBook WITH
            LineSet <- Postable,
            entered <- Entered, inForce <- InForce, balance <- Balance

\* The reports' balances, which add up every posted and every reversed line,
\* always equal the effect of the sources in force, and change only as the
\* abstract book allows.
ImplementsBook == Book!BookSpec

\* The balances of all accounts add up to nothing: what the balance sheet shows
\* as its difference is 0, although each journal is checked only by itself and
\* a reversal not at all.
TrialBalances == SumFunction(Balance) = 0
===============================================================================
