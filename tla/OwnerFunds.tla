------------------------------ MODULE OwnerFunds ------------------------------
(***************************************************************************)
(* The capital of an owner: what he pays in, takes out and lends, which    *)
(* of the company's assets his contributions paid for, and what he is      *)
(* still to be paid back for them (src/lib/account: money.ts,              *)
(* owner-asset-funding.ts, owner-corrections.ts, assets.ts, and the        *)
(* reversals and journals of src/lib/accounting/service.ts).               *)
(*                                                                         *)
(* Every operation but the disposal of an asset holds the row lock of the  *)
(* company.  Those of this component are READ COMMITTED: they read after   *)
(* they have the lock, and are one step.  A reversal and a journal of the  *)
(* accountant are SERIALIZABLE: their snapshot is older than the lock      *)
(* when they had to wait for it.  They are computed from what they read,   *)
(* and written at once or after others have committed.  PostgreSQL aborts  *)
(* one that finds a row it must update changed (the number series of its   *)
(* branch, the journal it reverses), or that has read what a serializable  *)
(* transaction wrote and written what that one, or a later one, read.  Of  *)
(* READ COMMITTED transactions it takes no notice.                         *)
(*                                                                         *)
(* One owner and one money account, which other components do not use.     *)
(* Dates, years, roles, the confirmations of how an asset was paid for and *)
(* the replay of a request are left out.                                   *)
(***************************************************************************)
EXTENDS Integers, Sequences, FiniteSets, Functions

CONSTANTS
    Branch, Asset,
    OwnerAmount,    \* the amounts a request may name
    Value,          \* the purchase values of assets
    JournalAmount,  \* the changes of an account a journal by hand may make
    MaxEntries, MaxFundings,    \* bounds on the rows of the two tables,
    MaxCommits      \* and on the transactions that commit

ASSUME OwnerFundsConstants ==
    /\ OwnerAmount \subseteq Nat \ {0} /\ Value \subseteq Nat
    /\ JournalAmount \subseteq Int
    /\ IsFiniteSet(Asset)
    /\ {MaxEntries, MaxFundings, MaxCommits} \subseteq Nat

VARIABLES
    assets,         \* branch, purchase value and disposal of each asset
    entries,        \* owner_transactions with the state of their journals
    fundings,       \* asset_owner_fundings and their cancellations
    capital, cash,  \* sums of the lines of the two ledger accounts
    waiting,        \* what the transaction that waits for the lock will write
    unseen,         \* history: what was taken without a look at what others
                    \* had left: by what was written too late to see it, or
                    \* by journals of the accountant, which look at no balance
    writes          \* the transactions that have committed

tables == <<assets, entries, fundings, capital, cash>>
fundsVars == <<tables, waiting, unseen, writes>>

Incoming == {"INVESTMENT", "OWNER_LOAN"}
OfCapital == {"INVESTMENT", "CAPITAL_WITHDRAWAL"}
Type == Incoming \cup OfCapital \cup {"PROFIT_DISTRIBUTION"}

-----------------------------------------------------------------------------
(* What the rows say.                                                      *)

\* fundingRowsInTx: not cancelled, of an asset still owned, and paid by a
\* contribution that stands
Rows == {f \in DOMAIN fundings :
    /\ ~fundings[f].cancelled
    /\ ~assets[fundings[f].asset].disposed
    /\ entries[fundings[f].source].posted}

ReturnOf(i, f) ==
    IF f \in DOMAIN entries[i].returns THEN entries[i].returns[f] ELSE 0
Standing == {i \in DOMAIN entries : entries[i].posted}
Returned(f) == SumFunction([i \in Standing |-> ReturnOf(i, f)])
Remaining(f) == fundings[f].amount - Returned(f)

RowsOf(a) == {f \in Rows : fundings[f].asset = a}
OnAsset(a) == SumFunction([f \in RowsOf(a) |-> Remaining(f)])
Reserved == SumFunction([f \in Rows |-> Remaining(f)])

RowsFrom(i) == {f \in Rows : fundings[f].source = i}
SourceUsed(i) == SumFunction([f \in RowsFrom(i) |-> fundings[f].amount])

Total(returns) == SumFunction(returns)
Nothing == [f \in {} |-> 0]

-----------------------------------------------------------------------------
(* Transactions.  A serializable one is a record of what it has read and   *)
(* what it writes: the entry it reverses (0 for a journal), the changes of *)
(* the two accounts, and what it gives back to assets.  missed, a history: *)
(* the accounts it takes from without having seen what is there now.       *)

Writes(t) == {x \in {"capital", "cash"} : t[x] # 0}

\* t commits: what waits in its branch is aborted, ...
PassSnapshot(t) == waiting' = {w \in waiting : w.branch # t.branch}

\* ... and so is what has read something that t, or one before it, wrote,
\* and will write something that t has read.
PassSerializable(t) ==
    waiting' = {w \in {[v EXCEPT !.over = @ \/ v.reads \cap Writes(t) # {}] :
                          v \in waiting} :
        w.branch # t.branch /\ ~(w.over /\ Writes(w) \cap t.reads # {})}

\* what t takes out of an account, or gives back to assets
Takes(t) == [capital |-> -t.capital, cash |-> -t.cash,
             value |-> Total(t.returns)]

\* A READ COMMITTED transaction commits that posts in these branches and
\* leaves less of these than one that waits has seen.
Pass(branches, less) ==
    waiting' = {[w EXCEPT !.missed = @ \cup {x \in less : Takes(w)[x] > 0}] :
                   w \in {v \in waiting : v.branch \notin branches}}

Write(t) ==
    /\ entries' = [i \in DOMAIN entries |->
          [entries[i] EXCEPT !.posted = @ /\ i # t.of]]
    /\ capital' = capital + t.capital
    /\ cash' = cash + t.cash
    /\ unseen' = [x \in DOMAIN unseen |->
          unseen[x] + IF x \in t.missed THEN Takes(t)[x] ELSE 0]
    /\ writes' = writes + 1
    /\ UNCHANGED <<assets, fundings>>

\* written at once, or after others
Run(t) ==
    \/ Write(t) /\ PassSerializable(t)
    \/ /\ waiting = {} /\ writes + 1 < MaxCommits
       /\ waiting' = {t}
       /\ UNCHANGED <<tables, unseen, writes>>

-----------------------------------------------------------------------------
(* Owner transactions.                                                     *)

\* INVESTMENT and OWNER_LOAN
PayIn(type, b, n) ==
    /\ type \in Incoming /\ Len(entries) < MaxEntries
    /\ entries' = Append(entries, [type |-> type, branch |-> b, amount |-> n,
                                   returns |-> Nothing, posted |-> TRUE])
    /\ cash' = cash + n
    /\ capital' = capital + (IF type \in OfCapital THEN n ELSE 0)
    /\ writes' = writes + 1
    /\ Pass({b}, {})
    /\ UNCHANGED <<assets, fundings, unseen>>

\* what is not given back for an asset comes out of what is free of them
Attributed(n, returns) ==
    \/ n = Total(returns)
    \/ n - Total(returns) <= capital - Reserved

\* the same return twice
ReturnableTwice(b, n, returns) ==
    /\ Total(returns) <= n /\ n <= capital
    /\ \A f \in DOMAIN returns :
          /\ f \in Rows
          /\ entries[fundings[f].source].branch = b
          /\ returns[f] <= fundings[f].amount
    /\ Attributed(n, returns)

\* validateFundingReturnsInTx
Returnable(b, n, returns) ==
    /\ Total(returns) <= n /\ n <= capital
    /\ \A f \in DOMAIN returns :
          /\ f \in Rows
          /\ entries[fundings[f].source].branch = b
          /\ returns[f] <= Remaining(f)
    /\ Attributed(n, returns)

\* CAPITAL_WITHDRAWAL and PROFIT_DISTRIBUTION
TakeOut(type, b, n, returns) ==
    /\ Len(entries) < MaxEntries
    /\ n <= cash
    /\ \/ type = "CAPITAL_WITHDRAWAL" /\ Returnable(b, n, returns)
       \/ type = "PROFIT_DISTRIBUTION" /\ returns = Nothing
    /\ entries' = Append(entries, [type |-> type, branch |-> b, amount |-> n,
                                   returns |-> returns, posted |-> TRUE])
    /\ cash' = cash - n
    /\ capital' = capital - (IF type \in OfCapital THEN n ELSE 0)
    /\ writes' = writes + 1
    /\ Pass({b}, IF type \in OfCapital THEN {"capital", "cash"} ELSE {"cash"})
    /\ UNCHANGED <<assets, fundings, unseen>>

NotRestored(t, a) == 0

Restored(t, a) ==
    SumFunction([f \in RowsOf(a) \cap DOMAIN t.returns |-> t.returns[f]])

\* assertOwnerAssetFundingCapitalInTx
Permitted(t) == Rows # {} =>
    /\ \A a \in Asset : RowsOf(a) # {} =>
          OnAsset(a) + Restored(t, a) <= assets[a].value
    /\ LET reserved == Reserved
              + SumFunction([a \in Asset |-> Restored(t, a)])
       IN  t.capital # 0 /\ reserved > 0 => capital + t.capital >= reserved

\* The capital is summed only when there are fundings to compare it with.
CapitalRead(n) == IF n # 0 /\ Rows # {} THEN {"capital"} ELSE {}

Transaction(b, of, dcapital, dcash, returns, reads) ==
    [branch |-> b, of |-> of, capital |-> dcapital, cash |-> dcash,
     returns |-> returns, reads |-> reads, over |-> FALSE,
     missed |-> IF of = 0 /\ dcash < 0 THEN {"cash"} ELSE {}]

Unfunded(i) == entries[i].type = "INVESTMENT" =>
    \A f \in DOMAIN fundings : fundings[f].source = i => fundings[f].cancelled

Uncovered(i) == TRUE

Covered(i) == entries[i].type \in Incoming => entries[i].amount <= cash

\* reverseOwnerTransaction, or reverseJournal of its journal
Reverse(i) ==
    LET e == entries[i]
        n == IF e.type \in Incoming THEN -e.amount ELSE e.amount
        c == IF e.type \in OfCapital THEN n ELSE 0
        t == Transaction(e.branch, i, c, n, e.returns, CapitalRead(c) \cup
                 (IF e.type \in Incoming THEN {"cash"} ELSE {}))
    IN  /\ e.posted
        /\ Unfunded(i) /\ Covered(i) /\ Permitted(t)
        /\ Run(t)

\* A journal of the accountant, or the reversal of one: n to the owner's
\* capital, m to the money account, the rest to other accounts.  The ledger of
\* a money account allows posting; its balance is not looked at.
PostJournal(b, n, m) ==
    LET t == Transaction(b, 0, n, m, Nothing, CapitalRead(n))
    IN  /\ n # 0 \/ m # 0
        /\ Permitted(t)
        /\ Run(t)

-----------------------------------------------------------------------------
(* Assets and their funding.                                               *)

AllocateOwnerAssetFunding(i, a, n) ==
    /\ Len(fundings) < MaxFundings
    /\ entries[i].type = "INVESTMENT" /\ entries[i].posted
    /\ ~assets[a].disposed /\ assets[a].branch = entries[i].branch
    /\ SourceUsed(i) + n <= entries[i].amount
    /\ OnAsset(a) + n <= assets[a].value
    /\ Reserved + n <= capital
    /\ fundings' = Append(fundings, [asset |-> a, source |-> i, amount |-> n,
                                     cancelled |-> FALSE])
    /\ writes' = writes + 1
    /\ Pass({}, {"capital", "value"})
    /\ UNCHANGED <<assets, entries, capital, cash, unseen>>

CancelOwnerAssetFunding(f) ==
    LET a == fundings[f].asset IN
    /\ ~fundings[f].cancelled
    /\ Returned(f) = 0
    /\ ~assets[a].disposed
    /\ SumFunction([g \in RowsOf(a) \ {f} |-> Remaining(g)])
           <= assets[a].value
    /\ fundings' = [fundings EXCEPT ![f].cancelled = TRUE]
    /\ writes' = writes + 1
    /\ Pass({}, {})
    /\ UNCHANGED <<assets, entries, capital, cash, unseen>>

UpdateAsset(a, v) ==
    /\ v # assets[a].value
    /\ OnAsset(a) <= v
    /\ assets' = [assets EXCEPT ![a].value = v]
    /\ writes' = writes + 1
    /\ Pass({}, {"value"})
    /\ UNCHANGED <<entries, fundings, capital, cash, unseen>>

\* setAssetStatus does not take the lock of the company.
Dispose(a) ==
    /\ ~assets[a].disposed
    /\ assets' = [assets EXCEPT ![a].disposed = TRUE]
    /\ writes' = writes + 1
    /\ UNCHANGED <<entries, fundings, capital, cash, waiting, unseen>>

-----------------------------------------------------------------------------
(* The transaction that waits.                                             *)

Commit(t) ==
    /\ t.of # 0 => entries[t.of].posted
    /\ Write(t)
    /\ waiting' = waiting \ {t}

Abort(t) ==
    /\ waiting' = waiting \ {t}
    /\ UNCHANGED <<tables, unseen, writes>>

FundsInit ==
    /\ assets \in [Asset -> [branch : Branch, value : Value,
                             disposed : {FALSE}]]
    /\ entries = <<>> /\ fundings = <<>>
    /\ capital = 0 /\ cash = 0
    /\ waiting = {}
    /\ unseen = [capital |-> 0, cash |-> 0, value |-> 0]
    /\ writes = 0

PayNext == \E b \in Branch, n \in OwnerAmount :
    \/ \E type \in Type : PayIn(type, b, n)
    \/ \E type \in Type, s \in SUBSET DOMAIN fundings :
          \E returns \in [s -> OwnerAmount] : TakeOut(type, b, n, returns)

JournalNext == \E b \in Branch, n, m \in JournalAmount : PostJournal(b, n, m)

AssetNext ==
    \/ \E i \in DOMAIN entries, a \in Asset, n \in OwnerAmount :
          AllocateOwnerAssetFunding(i, a, n)
    \/ \E f \in DOMAIN fundings : CancelOwnerAssetFunding(f)
    \/ \E a \in Asset :
          \/ \E v \in Value : UpdateAsset(a, v)
          \/ Dispose(a)

FundsNext ==
    \/ /\ writes < MaxCommits
       /\ \/ PayNext \/ JournalNext \/ AssetNext
          \/ \E i \in DOMAIN entries : Reverse(i)
          \/ \E t \in waiting : Commit(t)
    \/ \E t \in waiting : Abort(t)

FundsSpec == FundsInit /\ [][FundsNext]_fundsVars

-----------------------------------------------------------------------------
(* Every row has the form of its table; no more is given back for a        *)
(* funding than it was, none of it once the funding is cancelled, and the  *)
(* fundings from a contribution do not exceed it.                          *)
FundsTypeOK ==
    /\ assets \in [Asset -> [branch : Branch, value : Value,
                             disposed : BOOLEAN]]
    /\ \A i \in DOMAIN entries : entries[i] \in
          [type : Type, branch : Branch, amount : OwnerAmount,
           posted : BOOLEAN,
           returns : UNION {[s -> OwnerAmount] : s \in SUBSET DOMAIN fundings}]
    /\ \A f \in DOMAIN fundings :
          /\ fundings[f] \in [asset : Asset, source : DOMAIN entries,
                              amount : OwnerAmount, cancelled : BOOLEAN]
          /\ Returned(f) \in 0..fundings[f].amount
          /\ fundings[f].cancelled => Returned(f) = 0
    /\ \A i \in DOMAIN entries : SourceUsed(i) <= entries[i].amount
    /\ {capital, cash} \subseteq Int

(* What the owner is still to be paid back for the assets the company has  *)
(* is in his capital, whatever is paid, corrected, posted by hand or       *)
(* withdrawn at the same time: but for what a reversal or a journal has    *)
(* taken that did not see an allocation or a withdrawal committed while it *)
(* waited.  Neither do withdrawals, distributions and reversals overdraw   *)
(* the money account: it lacks no more than what reversals took in the     *)
(* same way, and journals of the accountant, which do not look at what it  *)
(* holds.                                                                  *)
CapitalReserved ==
    /\ Reserved > 0 => Reserved <= capital + unseen.capital
    /\ cash + unseen.cash >= 0

\* the contributions taken back that a funding still names
Unbacked == {i \in DOMAIN entries \ Standing :
    \E f \in DOMAIN fundings : fundings[f].source = i /\ ~fundings[f].cancelled}

(* No asset is owed more for than it cost, when a withdrawal is corrected  *)
(* or the cost is, but for what a correction has restored that did not see *)
(* such a change; and a contribution is not taken back while it pays for   *)
(* an asset, but by a reversal that did not see the allocation.            *)
AssetsCovered ==
    /\ \A a \in Asset : OnAsset(a) <= assets[a].value + unseen.value
    /\ SumFunction([i \in Unbacked |-> entries[i].amount]) <= unseen.capital
=============================================================================
