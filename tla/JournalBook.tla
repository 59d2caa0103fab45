------------------------------ MODULE JournalBook ------------------------------
(***************************************************************************)
(* What the ledger promises its callers, without transactions, snapshots,  *)
(* numbers or retries: a book in which a source is entered once, can be    *)
(* withdrawn and, unless its kind forbids it, put back, and whose account  *)
(* balances are at every moment those of the sources in force.             *)
(***************************************************************************)
EXTENDS Integers

CONSTANTS Source, Account, Corrected, LineSet, Nothing

VARIABLES entered, inForce, balance

book == <<entered, inForce, balance>>

BookInit ==
    /\ entered = [s \in Source |-> Nothing]
    /\ inForce = {}
    /\ balance = [a \in Account |-> 0]

\* the change of the balances when lines take effect, in direction sign
Moved(lines, sign) ==
    [a \in Account |-> balance[a] + sign * (lines.debit[a] - lines.credit[a])]

Enter(s, lines) ==
    /\ entered[s] = Nothing
    /\ entered' = [entered EXCEPT ![s] = lines]
    /\ inForce' = inForce \cup {s}
    /\ balance' = Moved(lines, 1)

Withdraw(s) ==
    /\ s \in inForce
    /\ inForce' = inForce \ {s}
    /\ balance' = Moved(entered[s], -1)
    /\ UNCHANGED entered

PutBack(s) ==
    /\ s \notin inForce
    /\ entered[s] # Nothing
    /\ s \notin Corrected
    /\ inForce' = inForce \cup {s}
    /\ balance' = Moved(entered[s], 1)
    /\ UNCHANGED entered

BookNext ==
    \/ \E s \in Source, lines \in LineSet : Enter(s, lines)
    \/ \E s \in Source : Withdraw(s)
    \/ \E s \in Source : PutBack(s)

BookSpec == BookInit /\ [][BookNext]_book
=============================================================================
