------------------------------ MODULE MoneyProofs -----------------------------
(***************************************************************************)
(* What the two components of money going out and coming in guarantee:     *)
(* Expenses for any amounts, limits, accounts, schedules and request keys, *)
(* and OwnerFunds for any branches, assets, amounts and values, whatever   *)
(* the bounds are.                                                         *)
(***************************************************************************)
EXTENDS Expenses, OwnerFunds, SumFacts

-----------------------------------------------------------------------------
(* Expenses.                                                               *)
(*                                                                         *)
(* The operations write the list of expenses and the journals in four      *)
(* shapes: a new expense without a journal, new values of one whose        *)
(* journals stay, a posting, and a reversal.  Each property has one lemma  *)
(* for each shape that can disturb it, and each operation is of one shape. *)

\* An edit that is under way is of an expense that is still there, and of a
\* bill it keeps the due date.
EditsKeepDueDates ==
    \A e \in edits :
        /\ e.row \in DOMAIN rows
        /\ rows[e.row].template # 0 => e.date = rows[e.row].date

IInv ==
    /\ TypeOK
    /\ EditsKeepDueDates
    /\ BooksFollowExpenses
    /\ NothingUnreviewed
    /\ BillsPaidOnce

-----------------------------------------------------------------------------
(* The shapes of a step. *)

\* the list gets an expense at its end
Added(x) == rows' = Append(rows, x)

\* an expense gets new values
Written(r, x) == r \in DOMAIN rows /\ rows' = [rows EXCEPT ![r] = x]

\* the new values of an expense are of the same bill, if it is one, and of
\* the same payment, if it is paid
SameBill(r, x) ==
    /\ x.template = rows[r].template
    /\ x.template # 0 => x.date = rows[r].date
    /\ x.journal = rows[r].journal
    /\ x.journal # 0 => x.paid = rows[r].paid /\ x.account = rows[r].account

\* the new values of an expense whose journals are left alone
Harmless(r, x) ==
    /\ x.journal = rows[r].journal
    /\ x.reversal = rows[r].reversal
    /\ x.status = "REVERSED" <=> rows[r].status = "REVERSED"
    /\ x.status \in {"POSTED", "REVERSED"}
         <=> rows[r].status \in {"POSTED", "REVERSED"}
    /\ x.journal # 0 => /\ x.amount = rows[r].amount
                        /\ x.account = rows[r].account
                        /\ x.ledger = rows[r].ledger
                        /\ x.date = rows[r].date
                        /\ x.paid = rows[r].paid

\* an expense that is ready is posted at its place
Posted(r, x) ==
    /\ Postable(x)
    /\ x.reversal = 0
    /\ rows' = [i \in DOMAIN rows \cup {r} |->
                  IF i = r THEN PostedRow(x) ELSE rows[i]]
    /\ journals' = Append(journals, Posting(r, x))

LEMMA AddedRows ==
    ASSUME TypeOK, NEW x \in Expense, Added(x)
    PROVE  /\ rows' \in Seq(Expense)
           /\ DOMAIN rows' = DOMAIN rows \cup {Len(rows) + 1}
           /\ DOMAIN rows \subseteq DOMAIN rows'
           /\ Len(rows) + 1 \notin DOMAIN rows
           /\ rows'[Len(rows) + 1] = x
           /\ \A i \in DOMAIN rows : rows'[i] = rows[i]
BY DEF TypeOK, Added

LEMMA WrittenRows ==
    ASSUME TypeOK, NEW x \in Expense, NEW r, Written(r, x)
    PROVE  /\ rows' \in Seq(Expense)
           /\ DOMAIN rows' = DOMAIN rows
           /\ rows'[r] = x
           /\ \A i \in DOMAIN rows : i # r => rows'[i] = rows[i]
BY DEF TypeOK, Written

LEMMA ExpenseFields ==
    ASSUME NEW x \in Expense
    PROVE  /\ x.template \in Template \cup {0} /\ x.date \in Day
           /\ x.amount \in Amount /\ x.account \in Account
           /\ x.ledger \in Ledger \cup {NoLedger} /\ x.status \in Status
           /\ x.review \in Review /\ x.paid \in Day \cup {0}
           /\ x.journal \in Nat /\ x.reversal \in Nat /\ x.ceiling \in Nat
BY DEF Expense

LEMMA FreshFields ==
    ASSUME NEW template, NEW date, NEW amount, NEW account, NEW ledger
    PROVE  LET x == Fresh(template, date, amount, account, ledger)
           IN  /\ x.template = template /\ x.date = date
               /\ x.amount = amount /\ x.account = account
               /\ x.ledger = ledger /\ x.status = "DRAFT"
               /\ x.review = "NONE" /\ x.paid = 0 /\ x.journal = 0
               /\ x.reversal = 0 /\ x.ceiling = 0
BY DEF Fresh

LEMMA FreshType ==
    ASSUME NEW template \in Template \cup {0}, NEW date \in Day,
           NEW amount \in Amount, NEW account \in Account,
           NEW ledger \in Ledger \cup {NoLedger}
    PROVE  Fresh(template, date, amount, account, ledger) \in Expense
BY DEF Fresh, Expense, Status, Review

LEMMA PostedRowType ==
    ASSUME TypeOK, NEW x \in Expense
    PROVE  /\ PostedRow(x) \in Expense
           /\ PostedRow(x).journal = Len(journals) + 1
           /\ PostedRow(x).status = "POSTED"
           /\ PostedRow(x).template = x.template
           /\ PostedRow(x).date = x.date /\ PostedRow(x).paid = x.paid
           /\ PostedRow(x).amount = x.amount
           /\ PostedRow(x).account = x.account
           /\ PostedRow(x).ledger = x.ledger
           /\ PostedRow(x).review = x.review
           /\ PostedRow(x).reversal = x.reversal
           /\ PostedRow(x).ceiling = x.ceiling
<1>1. Len(journals) + 1 \in Nat /\ "POSTED" \in Status
    BY DEF TypeOK, Status
<1> QED
    BY <1>1 DEF PostedRow, Expense

LEMMA PostingType ==
    ASSUME TypeOK, NEW x \in Expense, NEW r \in Nat
    PROVE  /\ Posting(r, x) \in Journal
           /\ Posting(r, x).row = r /\ Posting(r, x).amount = x.amount
           /\ Posting(r, x).account = x.account
           /\ Posting(r, x).ledger = category.ledger
           /\ Posting(r, x).date = EntryDate(x) /\ Posting(r, x).of = 0
BY DEF TypeOK, Posting, Journal, Expense, EntryDate

\* A posting adds its journal and touches its own expense only.
LEMMA PostedRows ==
    ASSUME TypeOK, NEW x \in Expense, NEW r \in 1..Len(rows) + 1, Posted(r, x)
    PROVE  /\ rows' \in Seq(Expense)
           /\ DOMAIN rows' = DOMAIN rows \cup {r}
           /\ rows'[r] = PostedRow(x)
           /\ \A i \in DOMAIN rows : i # r => rows'[i] = rows[i]
           /\ journals' \in Seq(Journal)
           /\ DOMAIN journals' = DOMAIN journals \cup {Len(journals) + 1}
           /\ DOMAIN journals \subseteq DOMAIN journals'
           /\ Len(journals) + 1 \notin DOMAIN journals
           /\ journals'[Len(journals) + 1] = Posting(r, x)
           /\ \A j \in DOMAIN journals : journals'[j] = journals[j]
<1>1. rows \in Seq(Expense) /\ journals \in Seq(Journal)
    BY DEF TypeOK
<1>2. PostedRow(x) \in Expense
    BY PostedRowType
<1>3. Posting(r, x) \in Journal
    BY PostingType
<1>4. PICK n \in Nat : DOMAIN rows \cup {r} = 1..n
  <2>1. CASE r = Len(rows) + 1
    <3>1. DOMAIN rows \cup {r} = 1..Len(rows) + 1 /\ Len(rows) + 1 \in Nat
      BY <1>1, <2>1
    <3> QED
      BY <3>1
  <2>2. CASE r # Len(rows) + 1
    <3>1. DOMAIN rows \cup {r} = 1..Len(rows) /\ Len(rows) \in Nat
      BY <1>1, <2>2
    <3> QED
      BY <3>1
  <2> QED
    BY <2>1, <2>2
<1>5. rows' \in [1..n -> Expense]
  <2>1. \A i \in DOMAIN rows : rows[i] \in Expense
    BY <1>1
  <2> QED
    BY <1>2, <1>4, <2>1 DEF Posted
<1>6. rows' \in Seq(Expense) /\ DOMAIN rows' = DOMAIN rows \cup {r}
    BY <1>4, <1>5
<1>7. /\ rows'[r] = PostedRow(x)
      /\ \A i \in DOMAIN rows : i # r => rows'[i] = rows[i]
    BY DEF Posted
<1>8. /\ journals' \in Seq(Journal)
      /\ DOMAIN journals' = DOMAIN journals \cup {Len(journals) + 1}
      /\ Len(journals) + 1 \notin DOMAIN journals
      /\ journals'[Len(journals) + 1] = Posting(r, x)
      /\ \A j \in DOMAIN journals : journals'[j] = journals[j]
    BY <1>1, <1>3 DEF Posted
<1> QED
    BY <1>6, <1>7, <1>8

-----------------------------------------------------------------------------
(* The books. *)

LEMMA BooksAdded ==
    ASSUME TypeOK, BooksFollowExpenses, NEW x \in Expense, Added(x),
           UNCHANGED journals, x.journal = 0, x.reversal = 0,
           x.status \notin {"POSTED", "REVERSED"}
    PROVE  BooksFollowExpenses'
<1>1. /\ DOMAIN rows' = DOMAIN rows \cup {Len(rows) + 1}
      /\ rows'[Len(rows) + 1] = x
      /\ \A i \in DOMAIN rows : rows'[i] = rows[i]
    BY AddedRows
<1>2. ASSUME NEW r \in DOMAIN rows'
      PROVE  Booked(r)'
  <2>1. CASE r \in DOMAIN rows
    <3>1. Booked(r) /\ rows'[r] = rows[r]
      BY <1>1, <2>1 DEF BooksFollowExpenses
    <3> QED
      BY <3>1 DEF Booked, Matches
  <2>2. CASE r = Len(rows) + 1
    BY <1>1, <2>2 DEF Booked
  <2> QED
    BY <1>1, <2>1, <2>2
<1>3. \A j \in DOMAIN journals' : Owned(j)'
    BY <1>1 DEF BooksFollowExpenses, Owned
<1> QED
    BY <1>2, <1>3 DEF BooksFollowExpenses

LEMMA BooksWritten ==
    ASSUME TypeOK, BooksFollowExpenses, NEW x \in Expense, NEW r,
           Written(r, x), UNCHANGED journals, Harmless(r, x)
    PROVE  BooksFollowExpenses'
<1>1. /\ DOMAIN rows' = DOMAIN rows
      /\ r \in DOMAIN rows
      /\ rows'[r] = x
      /\ \A i \in DOMAIN rows : i # r => rows'[i] = rows[i]
    BY WrittenRows DEF Written
<1>2. ASSUME NEW i \in DOMAIN rows
      PROVE  Booked(i)'
  <2>1. Booked(i)
    BY DEF BooksFollowExpenses
  <2>2. CASE i # r
    BY <1>1, <2>1, <2>2 DEF Booked, Matches
  <2>3. CASE i = r
    <3>1. rows'[i] = x
      BY <1>1, <2>3
    <3>2. x.journal = 0 => x.reversal = 0
      BY <2>1, <2>3 DEF Booked, Harmless
    <3>3. CASE x.journal = 0
      BY <2>1, <2>3, <3>1, <3>2, <3>3 DEF Booked, Harmless
    <3>4. CASE x.journal # 0
      BY <2>1, <2>3, <3>1, <3>4 DEF Booked, Harmless, Matches, EntryDate
    <3> QED
      BY <3>3, <3>4
  <2> QED
    BY <2>2, <2>3
<1>3. ASSUME NEW j \in DOMAIN journals
      PROVE  Owned(j)'
  <2>1. Owned(j)
    BY DEF BooksFollowExpenses
  <2> QED
    BY <1>1, <2>1 DEF Owned, Harmless
<1> QED
    BY <1>1, <1>2, <1>3 DEF BooksFollowExpenses

LEMMA BooksPosted ==
    ASSUME TypeOK, BooksFollowExpenses, NEW x \in Expense,
           NEW r \in 1..Len(rows) + 1, Posted(r, x),
           r \in DOMAIN rows => rows[r].journal = 0
    PROVE  BooksFollowExpenses'
<1>1. /\ DOMAIN rows' = DOMAIN rows \cup {r}
      /\ rows'[r] = PostedRow(x)
      /\ \A i \in DOMAIN rows : i # r => rows'[i] = rows[i]
      /\ DOMAIN journals' = DOMAIN journals \cup {Len(journals) + 1}
      /\ Len(journals) + 1 \notin DOMAIN journals
      /\ journals'[Len(journals) + 1] = Posting(r, x)
      /\ \A j \in DOMAIN journals : journals'[j] = journals[j]
    BY PostedRows
<1>2. Len(journals) + 1 # 0
    BY DEF TypeOK
<1>3. ASSUME NEW i \in DOMAIN rows, i # r
      PROVE  Booked(i)'
  <2>1. Booked(i) /\ rows'[i] = rows[i]
    BY <1>1, <1>3 DEF BooksFollowExpenses
  <2>2. /\ rows[i].journal # 0 => rows[i].journal \in DOMAIN journals
        /\ rows[i].reversal # 0 => rows[i].reversal \in DOMAIN journals
    BY <2>1 DEF Booked
  <2> QED
    BY <1>1, <2>1, <2>2 DEF Booked, Matches
<1>4. Booked(r)'
  <2>1. x.ledger \in {NoLedger, category.ledger} /\ x.reversal = 0
    BY DEF Posted, Postable, MappingKept
  <2>2. /\ rows'[r].status = "POSTED" /\ rows'[r].reversal = 0
        /\ rows'[r].journal = Len(journals) + 1
        /\ rows'[r].date = x.date /\ rows'[r].paid = x.paid
        /\ rows'[r].amount = x.amount /\ rows'[r].account = x.account
        /\ rows'[r].ledger = x.ledger
    BY <1>1, <2>1, PostedRowType
  <2>3. Matches(journals[rows[r].journal], r)'
    BY <1>1, <2>1, <2>2, PostingType DEF Matches
  <2>4. /\ journals'[rows'[r].journal].date = EntryDate(rows'[r])
        /\ journals'[rows'[r].journal].of = 0
    BY <1>1, <2>2, PostingType DEF EntryDate
  <2> QED
    BY <1>1, <1>2, <2>2, <2>3, <2>4 DEF Booked
<1>5. ASSUME NEW j \in DOMAIN journals
      PROVE  Owned(j)'
  <2>1. Owned(j) /\ journals'[j] = journals[j]
    BY <1>1 DEF BooksFollowExpenses
  <2>2. j # 0
    BY DEF TypeOK
  <2>3. journals[j].row # r
    <3>1. SUFFICES ASSUME journals[j].row = r PROVE FALSE
      OBVIOUS
    <3>2. r \in DOMAIN rows /\ rows[r].journal = 0
      BY <2>1, <3>1 DEF Owned
    <3>3. rows[r].reversal = 0
      BY <3>2 DEF BooksFollowExpenses, Booked
    <3> QED
      BY <2>1, <2>2, <3>1, <3>2, <3>3 DEF Owned
  <2> QED
    BY <1>1, <2>1, <2>3 DEF Owned
<1>6. ASSUME NEW j, j = Len(journals) + 1
      PROVE  Owned(j)'
    BY <1>1, <1>6, PostedRowType, PostingType DEF Owned
<1> QED
    BY <1>1, <1>3, <1>4, <1>5, <1>6 DEF BooksFollowExpenses

LEMMA BooksReversed ==
    ASSUME TypeOK, BooksFollowExpenses, NEW r \in DOMAIN rows,
           ReverseExpense(r)
    PROVE  BooksFollowExpenses'
<1> DEFINE row == rows[r]
           x == [row EXCEPT !.status = "REVERSED",
                            !.reversal = Len(journals) + 1,
                            !.review = IF @ = "PENDING" THEN "CANCELLED"
                                                        ELSE @]
           mirror == [journals[row.journal] EXCEPT !.of = row.journal]
<1>1. row \in Expense /\ rows \in Seq(Expense) /\ journals \in Seq(Journal)
    BY DEF TypeOK
<1>2. /\ x.status = "REVERSED" /\ x.reversal = Len(journals) + 1
      /\ x.journal = row.journal /\ x.amount = row.amount
      /\ x.account = row.account /\ x.ledger = row.ledger
      /\ x.date = row.date /\ x.paid = row.paid
    BY <1>1 DEF Expense
<1>3. /\ Booked(r) /\ row.status = "POSTED" /\ row.reversal = 0
      /\ row.journal # 0 /\ row.journal \in DOMAIN journals
    BY DEF ReverseExpense, BooksFollowExpenses, Booked
<1>4. journals[row.journal] \in Journal
    BY <1>1, <1>3
<1>5. /\ mirror.of = row.journal
      /\ mirror.row = journals[row.journal].row
      /\ mirror.amount = journals[row.journal].amount
      /\ mirror.account = journals[row.journal].account
      /\ mirror.ledger = journals[row.journal].ledger
    BY <1>4 DEF Journal
<1>6. /\ DOMAIN rows' = DOMAIN rows
      /\ rows'[r] = x
      /\ \A i \in DOMAIN rows : i # r => rows'[i] = rows[i]
    BY DEF ReverseExpense
<1>7. /\ DOMAIN journals' = DOMAIN journals \cup {Len(journals) + 1}
      /\ Len(journals) + 1 \notin DOMAIN journals
      /\ Len(journals) + 1 # 0
      /\ journals'[Len(journals) + 1] = mirror
      /\ \A j \in DOMAIN journals : journals'[j] = journals[j]
  <2>1. journals' = Append(journals, mirror)
    BY DEF ReverseExpense
  <2> HIDE DEF mirror
  <2> QED
    BY <1>1, <2>1
<1> HIDE DEF x, mirror
<1>8. ASSUME NEW i \in DOMAIN rows
      PROVE  Booked(i)'
  <2>1. CASE i # r
    <3>1. Booked(i) /\ rows'[i] = rows[i]
      BY <1>6, <2>1 DEF BooksFollowExpenses
    <3>2. /\ rows[i].journal # 0 => rows[i].journal \in DOMAIN journals
          /\ rows[i].reversal # 0 => rows[i].reversal \in DOMAIN journals
      BY <3>1 DEF Booked
    <3> QED
      BY <1>7, <3>1, <3>2 DEF Booked, Matches
  <2>2. CASE i = r
    <3>1. Matches(journals[row.journal], r)
      BY <1>3 DEF Booked
    <3>2. rows'[i] = x
      BY <1>6, <2>2
    <3>3. Matches(journals[rows[i].journal], i)'
      BY <1>2, <1>3, <1>7, <2>2, <3>1, <3>2 DEF Matches
    <3>4. Matches(journals[rows[i].reversal], i)'
      BY <1>2, <1>3, <1>5, <1>7, <2>2, <3>1, <3>2 DEF Matches
    <3>5. EntryDate(rows'[i]) = EntryDate(row)
      BY <1>2, <3>2 DEF EntryDate
    <3> QED
      BY <1>2, <1>3, <1>5, <1>7, <2>2, <3>2, <3>3, <3>4, <3>5 DEF Booked
  <2> QED
    BY <2>1, <2>2
<1>9. ASSUME NEW j \in DOMAIN journals
      PROVE  Owned(j)'
  <2>1. Owned(j) /\ j # 0
    <3>1. j # 0
      BY <1>1
    <3> QED
      BY <3>1 DEF BooksFollowExpenses
  <2>2. CASE journals[j].row # r
    BY <1>6, <1>7, <2>1, <2>2 DEF Owned
  <2>3. CASE journals[j].row = r
    <3>1. journals[j].of = 0 /\ j = row.journal
      BY <1>3, <2>1, <2>3 DEF Owned
    <3> QED
      BY <1>2, <1>6, <1>7, <2>1, <2>3, <3>1 DEF Owned
  <2> QED
    BY <2>2, <2>3
<1>10. ASSUME NEW j, j = Len(journals) + 1
       PROVE  Owned(j)'
  <2>1. mirror.row = r /\ mirror.of # 0
    BY <1>3, <1>5 DEF Booked, Matches
  <2> QED
    BY <1>2, <1>6, <1>7, <1>10, <2>1 DEF Owned
<1> QED
    BY <1>6, <1>7, <1>8, <1>9, <1>10 DEF BooksFollowExpenses

-----------------------------------------------------------------------------
(* Approval. *)

LEMMA SeenAdded ==
    ASSUME TypeOK, NothingUnreviewed, NEW x \in Expense, Added(x), Seen(x)
    PROVE  NothingUnreviewed'
<1>1. ASSUME NEW r \in DOMAIN rows'
      PROVE  Seen(rows'[r])
    BY AddedRows DEF NothingUnreviewed
<1> QED
    BY <1>1 DEF NothingUnreviewed

LEMMA SeenWritten ==
    ASSUME TypeOK, NothingUnreviewed, NEW x \in Expense, NEW r,
           Written(r, x), Seen(x)
    PROVE  NothingUnreviewed'
<1>1. ASSUME NEW i \in DOMAIN rows'
      PROVE  Seen(rows'[i])
    BY WrittenRows DEF NothingUnreviewed
<1> QED
    BY <1>1 DEF NothingUnreviewed

LEMMA SeenPosted ==
    ASSUME TypeOK, NothingUnreviewed, NEW x \in Expense,
           NEW r \in 1..Len(rows) + 1, Posted(r, x), Seen(PostedRow(x))
    PROVE  NothingUnreviewed'
<1>1. ASSUME NEW i \in DOMAIN rows'
      PROVE  Seen(rows'[i])
    BY PostedRows DEF NothingUnreviewed
<1> QED
    BY <1>1 DEF NothingUnreviewed

-----------------------------------------------------------------------------
(* Bills and edits. *)

LEMMA EditsKept ==
    ASSUME EditsKeepDueDates, edits' \subseteq edits,
           DOMAIN rows \subseteq DOMAIN rows',
           \A r \in DOMAIN rows :
              /\ rows'[r].template = rows[r].template
              /\ rows'[r].template # 0 => rows'[r].date = rows[r].date
    PROVE  EditsKeepDueDates'
BY DEF EditsKeepDueDates

LEMMA BillsAdded ==
    ASSUME TypeOK, BillsPaidOnce, NEW x \in Expense, Added(x),
           x.journal = 0, x.template # 0 => ~Billed(x.template, x.date),
           UNCHANGED payments
    PROVE  BillsPaidOnce'
<1>1. /\ DOMAIN rows' = DOMAIN rows \cup {Len(rows) + 1}
      /\ rows'[Len(rows) + 1] = x
      /\ \A i \in DOMAIN rows : rows'[i] = rows[i]
    BY AddedRows
<1>2. OneBillPerDate'
    BY <1>1 DEF BillsPaidOnce, OneBillPerDate, Billed
<1>3. \A p \in payments : PaidAsAsked(p)'
    BY <1>1 DEF BillsPaidOnce, PaidAsAsked
<1>4. \A r \in DOMAIN rows' :
        rows'[r].template # 0 /\ rows'[r].journal # 0 =>
            \E p \in payments : p.row = r
    BY <1>1 DEF BillsPaidOnce
<1> QED
    BY <1>2, <1>3, <1>4 DEF BillsPaidOnce

LEMMA BillsWritten ==
    ASSUME TypeOK, BillsPaidOnce, NEW x \in Expense, NEW r, Written(r, x),
           SameBill(r, x), UNCHANGED payments
    PROVE  BillsPaidOnce'
<1>1. /\ DOMAIN rows' = DOMAIN rows
      /\ r \in DOMAIN rows
      /\ rows'[r] = x
      /\ \A i \in DOMAIN rows : i # r => rows'[i] = rows[i]
    BY WrittenRows DEF Written
<1>2. \A i \in DOMAIN rows :
        /\ rows'[i].template = rows[i].template
        /\ rows'[i].template # 0 => rows'[i].date = rows[i].date
        /\ rows'[i].journal = rows[i].journal
        /\ rows'[i].journal # 0 => /\ rows'[i].paid = rows[i].paid
                                   /\ rows'[i].account = rows[i].account
    BY <1>1 DEF SameBill
<1>3. OneBillPerDate'
    BY <1>1, <1>2 DEF BillsPaidOnce, OneBillPerDate
<1>4. \A p \in payments : PaidAsAsked(p)'
    BY <1>1, <1>2 DEF BillsPaidOnce, PaidAsAsked
<1>5. \A i \in DOMAIN rows' :
        rows'[i].template # 0 /\ rows'[i].journal # 0 =>
            \E p \in payments : p.row = i
    BY <1>1, <1>2 DEF BillsPaidOnce
<1> QED
    BY <1>3, <1>4, <1>5 DEF BillsPaidOnce

\* A posting of an ordinary expense has no payment; that of a bill has one,
\* with a key of its own.
LEMMA BillsPosted ==
    ASSUME TypeOK, BillsPaidOnce, NEW x \in Expense,
           NEW r \in 1..Len(rows) + 1, Posted(r, x),
           r \notin DOMAIN rows => x.template = 0,
           r \in DOMAIN rows => /\ rows[r].journal = 0
                                /\ x.template = rows[r].template
                                /\ x.date = rows[r].date,
           NEW q,
           payments' = IF x.template = 0 THEN payments
                                         ELSE payments \cup {q},
           x.template # 0 => /\ \A p \in payments : p.key # q.key
                             /\ q.row = r
                             /\ q.account = x.account
                             /\ q.date = x.paid
    PROVE  BillsPaidOnce'
<1>1. /\ DOMAIN rows' = DOMAIN rows \cup {r}
      /\ rows'[r] = PostedRow(x)
      /\ \A i \in DOMAIN rows : i # r => rows'[i] = rows[i]
    BY PostedRows
<1>2. /\ rows'[r].template = x.template /\ rows'[r].date = x.date
      /\ rows'[r].account = x.account /\ rows'[r].paid = x.paid
      /\ rows'[r].journal = Len(journals) + 1
      /\ Len(journals) + 1 # 0
  <2>1. Len(journals) + 1 # 0
    BY DEF TypeOK
  <2> QED
    BY <1>1, <2>1, PostedRowType
<1>3. OneBillPerDate'
    BY <1>1, <1>2 DEF BillsPaidOnce, OneBillPerDate
<1>4. \A p \in payments : p.row # r
    BY DEF BillsPaidOnce, PaidAsAsked
<1>5. \A p \in payments : PaidAsAsked(p)'
    BY <1>1, <1>4 DEF BillsPaidOnce, PaidAsAsked
<1>6. x.template # 0 => PaidAsAsked(q)'
    BY <1>1, <1>2 DEF PaidAsAsked
<1>7. \A p1, p2 \in payments' :
        p1.key = p2.key \/ p1.row = p2.row => p1 = p2
    BY <1>4 DEF BillsPaidOnce
<1>8. \A i \in DOMAIN rows' :
        rows'[i].template # 0 /\ rows'[i].journal # 0 =>
            \E p \in payments' : p.row = i
    BY <1>1, <1>2 DEF BillsPaidOnce
<1> QED
    BY <1>3, <1>5, <1>6, <1>7, <1>8 DEF BillsPaidOnce

-----------------------------------------------------------------------------
(* The operations.  A step of each shape keeps the whole invariant when its  *)
(* new values are right.                                                     *)

Parts == /\ EditsKeepDueDates
         /\ BooksFollowExpenses
         /\ NothingUnreviewed
         /\ BillsPaidOnce

\* the part of TypeOK about the list
RowsOK == /\ rows \in Seq(Expense)
          /\ \A r \in DOMAIN rows :
                rows[r].template # 0 => rows[r].date <= today

LEMMA StepAdded ==
    ASSUME IInv, NEW x \in Expense, Added(x),
           x.template # 0 => x.date <= today /\ ~Billed(x.template, x.date),
           x.journal = 0, x.reversal = 0,
           x.status \in {"DRAFT", "PENDING_APPROVAL"}, x.review = "NONE",
           UNCHANGED <<today, edits, payments, journals>>
    PROVE  Parts' /\ RowsOK'
<1>1. TypeOK /\ Parts
    BY DEF IInv, Parts
<1>2. Seen(x)
    BY DEF Seen
<1>3. EditsKeepDueDates'
    BY <1>1, AddedRows, EditsKept DEF Parts
<1>4. BooksFollowExpenses'
    BY <1>1, BooksAdded DEF Parts
<1>5. NothingUnreviewed'
    BY <1>1, <1>2, SeenAdded DEF Parts
<1>6. BillsPaidOnce'
    BY <1>1, BillsAdded DEF Parts
<1>7. RowsOK'
    BY <1>1, AddedRows DEF TypeOK, RowsOK
<1> QED
    BY <1>3, <1>4, <1>5, <1>6, <1>7 DEF Parts

LEMMA StepWritten ==
    ASSUME IInv, NEW x \in Expense, NEW r, Written(r, x), Harmless(r, x),
           SameBill(r, x), Seen(x), edits' \subseteq edits,
           UNCHANGED <<today, payments, journals>>
    PROVE  Parts' /\ RowsOK'
<1>1. TypeOK /\ Parts
    BY DEF IInv, Parts
<1>2. /\ DOMAIN rows' = DOMAIN rows
      /\ r \in DOMAIN rows
      /\ rows' \in Seq(Expense)
      /\ rows'[r] = x
      /\ \A i \in DOMAIN rows : i # r => rows'[i] = rows[i]
    BY <1>1, WrittenRows DEF Written
<1>3. \A i \in DOMAIN rows :
        /\ rows'[i].template = rows[i].template
        /\ rows'[i].template # 0 => rows'[i].date = rows[i].date
    BY <1>2 DEF SameBill
<1>4. EditsKeepDueDates'
    BY <1>1, <1>2, <1>3, EditsKept DEF Parts
<1>5. BooksFollowExpenses'
    BY <1>1, BooksWritten DEF Parts
<1>6. NothingUnreviewed'
    BY <1>1, SeenWritten DEF Parts
<1>7. BillsPaidOnce'
    BY <1>1, BillsWritten DEF Parts
<1>8. RowsOK'
    BY <1>1, <1>2, <1>3 DEF TypeOK, RowsOK
<1> QED
    BY <1>4, <1>5, <1>6, <1>7, <1>8 DEF Parts

LEMMA StepPosted ==
    ASSUME IInv, NEW x \in Expense, NEW r \in 1..Len(rows) + 1, Posted(r, x),
           Seen(PostedRow(x)), UNCHANGED <<today, edits>>,
           r \notin DOMAIN rows => x.template = 0,
           r \in DOMAIN rows => /\ rows[r].journal = 0
                                /\ x.template = rows[r].template
                                /\ x.date = rows[r].date,
           NEW q,
           payments' = IF x.template = 0 THEN payments
                                         ELSE payments \cup {q},
           x.template # 0 => /\ \A p \in payments : p.key # q.key
                             /\ q.row = r
                             /\ q.account = x.account
                             /\ q.date = x.paid
    PROVE  Parts' /\ RowsOK' /\ journals' \in Seq(Journal)
<1>1. TypeOK /\ Parts
    BY DEF IInv, Parts
<1>2. /\ rows' \in Seq(Expense)
      /\ DOMAIN rows' = DOMAIN rows \cup {r}
      /\ rows'[r] = PostedRow(x)
      /\ \A i \in DOMAIN rows : i # r => rows'[i] = rows[i]
      /\ journals' \in Seq(Journal)
    BY <1>1, PostedRows
<1>3. PostedRow(x).template = x.template /\ PostedRow(x).date = x.date
    BY <1>1, PostedRowType
<1>4. \A i \in DOMAIN rows :
        /\ rows'[i].template = rows[i].template
        /\ rows'[i].template # 0 => rows'[i].date = rows[i].date
    BY <1>2, <1>3
<1>5. EditsKeepDueDates'
    BY <1>1, <1>2, <1>4, EditsKept DEF Parts
<1>6. BooksFollowExpenses'
    BY <1>1, BooksPosted DEF Parts
<1>7. NothingUnreviewed'
    BY <1>1, SeenPosted DEF Parts
<1>8. BillsPaidOnce'
    BY <1>1, BillsPosted DEF Parts
<1>9. RowsOK'
  <2>1. ASSUME NEW i \in DOMAIN rows', rows'[i].template # 0
        PROVE  rows'[i].date <= today
    <3>1. i \in DOMAIN rows
      BY <1>2, <1>3, <2>1
    <3> QED
      BY <1>1, <1>4, <2>1, <3>1 DEF TypeOK
  <2> QED
    BY <1>2, <2>1 DEF RowsOK
<1> QED
    BY <1>2, <1>5, <1>6, <1>7, <1>8, <1>9 DEF Parts

\* The rest of the invariant is about what the step writes besides.
LEMMA StepType ==
    ASSUME TypeOK, Parts', RowsOK', edits' \subseteq Edit,
           templates' \in [Template -> Schedule], payments' \subseteq Payment,
           journals' \in Seq(Journal), changes' \in 0..MaxWrites,
           UNCHANGED <<today, limit, category>>
    PROVE  IInv'
BY DEF TypeOK, Parts, RowsOK, IInv

LEMMA Counted ==
    ASSUME TypeOK
    PROVE  /\ changes \in 0..MaxWrites
           /\ Change => changes' \in 0..MaxWrites
<1>1. changes \in 0..MaxWrites /\ MaxWrites \in Nat
    BY ExpensesConstants DEF TypeOK
<1>2. Change => changes < MaxWrites /\ changes' = changes + 1
  <2>1. rows \in Seq(Expense)
    BY DEF TypeOK
  <2>2. Len(rows) \in Nat
    BY <2>1
  <2> QED
    BY <1>1, <2>2 DEF Change, Room
<1> QED
    BY <1>1, <1>2

LEMMA StepCreateDraft ==
    ASSUME IInv, NEW date \in Day, NEW amount \in Amount,
           NEW account \in Account, CreateDraft(date, amount, account)
    PROVE  IInv'
<1> DEFINE x == Fresh(0, date, amount, account, category.ledger)
<1>1. TypeOK /\ category.ledger \in Ledger
    BY DEF IInv, TypeOK
<1>2. x \in Expense
    BY <1>1, FreshType
<1>3. /\ x.template = 0 /\ x.journal = 0 /\ x.reversal = 0
      /\ x.status = "DRAFT" /\ x.review = "NONE"
    BY FreshFields
<1>4. Added(x) /\ UNCHANGED <<today, limit, category, edits, templates,
                              payments, journals, changes>>
    BY DEF Added, CreateDraft
<1> HIDE DEF x
<1>5. Parts' /\ RowsOK'
    BY <1>2, <1>3, <1>4, StepAdded
<1> QED
    BY <1>1, <1>4, <1>5, StepType DEF TypeOK

LEMMA StepGenerateBill ==
    ASSUME IInv, NEW t \in Template, NEW account \in MoneyAccount,
           GenerateBill(t, account)
    PROVE  IInv'
<1> DEFINE schedule == templates[t]
           f == Fresh(t, schedule.due, schedule.amount, account, NoLedger)
           x == [f EXCEPT !.status = IF ApprovalRequired(schedule.amount)
                                     THEN "PENDING_APPROVAL" ELSE "DRAFT"]
<1>1. TypeOK /\ schedule \in Schedule /\ t # 0
    BY ExpensesConstants DEF IInv, TypeOK
<1>2. /\ schedule.due \in Nat \ {0} /\ schedule.amount \in Amount
      /\ schedule.every \in Nat \ {0}
    BY <1>1, ExpensesConstants DEF Schedule
<1>3. schedule.due <= today /\ today \in Day /\ ~Billed(t, schedule.due)
    BY <1>1 DEF GenerateBill, Due, TypeOK
<1>4. schedule.due \in Day
    BY <1>2, <1>3, ExpensesConstants DEF Day
<1>5. f \in Expense
    BY <1>2, <1>4, FreshType DEF Account
<1>6. x \in Expense
    BY <1>5 DEF Expense, Status
<1>7. /\ x.template = t /\ x.date = schedule.due
      /\ x.journal = 0 /\ x.reversal = 0
      /\ x.status \in {"DRAFT", "PENDING_APPROVAL"} /\ x.review = "NONE"
  <2>1. /\ x.template = f.template /\ x.date = f.date
        /\ x.journal = f.journal /\ x.reversal = f.reversal
        /\ x.status \in {"DRAFT", "PENDING_APPROVAL"} /\ x.review = f.review
    BY <1>5 DEF Expense
  <2> QED
    BY <2>1, FreshFields
<1>8. /\ Added(x)
      /\ templates' = [templates EXCEPT ![t].due = @ + schedule.every]
      /\ UNCHANGED <<today, limit, category, edits, payments, journals,
                     changes>>
    BY DEF Added, GenerateBill
<1> HIDE DEF x
<1>9. Parts' /\ RowsOK'
    BY <1>1, <1>3, <1>6, <1>7, <1>8, StepAdded
<1>10. templates' \in [Template -> Schedule]
  <2>1. templates \in [Template -> Schedule]
    BY <1>1 DEF TypeOK
  <2>2. schedule.due + schedule.every \in Nat \ {0}
    BY <1>2
  <2>3. [schedule EXCEPT !.due = @ + schedule.every] \in Schedule
    BY <1>1, <2>2 DEF Schedule
  <2> QED
    BY <1>8, <2>1, <2>3
<1> QED
    BY <1>1, <1>8, <1>9, <1>10, StepType DEF TypeOK

\* A step that gives one expense new values and writes nothing else.
LEMMA StepDecided ==
    ASSUME IInv, NEW r \in DOMAIN rows, NEW x \in Expense, Written(r, x),
           Harmless(r, x), SameBill(r, x), Seen(x),
           UNCHANGED <<today, limit, category, edits, templates, payments,
                       journals, changes>>
    PROVE  IInv'
<1>1. Parts' /\ RowsOK'
    BY StepWritten
<1> QED
    BY <1>1, StepType DEF IInv, TypeOK

\* A decision changes the status, the review and the ceiling.
LEMMA StepDecision ==
    ASSUME IInv, NEW r \in DOMAIN rows, NEW s \in Status, NEW c \in Nat,
           NEW v \in Review,
           rows' = [rows EXCEPT ![r] = [rows[r] EXCEPT !.status = s,
                                          !.review = v, !.ceiling = c]],
           \/ s = rows[r].status
           \/ {s, rows[r].status} \cap {"POSTED", "REVERSED"} = {},
           Seen([rows[r] EXCEPT !.status = s, !.review = v, !.ceiling = c]),
           UNCHANGED <<today, limit, category, edits, templates, payments,
                       journals, changes>>
    PROVE  IInv'
<1> DEFINE x == [rows[r] EXCEPT !.status = s, !.review = v, !.ceiling = c]
<1>1. rows[r] \in Expense
    BY DEF IInv, TypeOK
<1>2. /\ x \in Expense
      /\ x.template = rows[r].template /\ x.date = rows[r].date
      /\ x.amount = rows[r].amount /\ x.account = rows[r].account
      /\ x.ledger = rows[r].ledger /\ x.paid = rows[r].paid
      /\ x.journal = rows[r].journal /\ x.reversal = rows[r].reversal
      /\ x.status = s
    BY <1>1 DEF Expense
<1>3. Written(r, x) /\ Seen(x)
    BY DEF Written
<1> HIDE DEF x
<1>4. Harmless(r, x) /\ SameBill(r, x)
    BY <1>2 DEF Harmless, SameBill
<1> QED
    BY <1>2, <1>3, <1>4, StepDecided

LEMMA Row ==
    ASSUME IInv, NEW r \in DOMAIN rows
    PROVE  /\ rows[r] \in Expense
           /\ rows[r] = [rows[r] EXCEPT !.review = rows[r].review,
                                        !.ceiling = rows[r].ceiling]
           /\ Seen(rows[r]) /\ Booked(r)
           /\ limit \in Nat /\ rows[r].amount \in Nat
           /\ rows[r].status \in Status /\ rows[r].review \in Review
           /\ rows[r].ceiling \in Nat
<1>1. rows[r] \in Expense /\ limit \in Nat
    BY ExpensesConstants DEF IInv, TypeOK
<1>2. Seen(rows[r]) /\ Booked(r)
    BY DEF IInv, NothingUnreviewed, BooksFollowExpenses
<1>3. rows[r].amount \in Nat
    BY <1>1, ExpensesConstants DEF Expense
<1> QED
    BY <1>1, <1>2, <1>3 DEF Expense

LEMMA StepSubmit ==
    ASSUME IInv, NEW r \in DOMAIN rows, Submit(r)
    PROVE  IInv'
<1> DEFINE s == IF ApprovalRequired(rows[r].amount) THEN "PENDING_APPROVAL"
                                                    ELSE "APPROVED"
           v == rows[r].review
           x == [rows[r] EXCEPT !.status = s, !.review = v, !.ceiling = limit]
<1>1. /\ rows[r] \in Expense /\ limit \in Nat /\ rows[r].amount \in Nat
      /\ v \in Review /\ Seen(rows[r]) /\ rows[r].status = "DRAFT"
    BY Row DEF Submit
<1>2. s \in Status /\ s \notin {"POSTED", "REVERSED"}
    BY DEF Status
<1>3. rows' = [rows EXCEPT ![r] = x]
  <2>1. rows \in Seq(Expense)
    BY DEF IInv, TypeOK
  <2> QED
    BY <1>1, <2>1 DEF Submit, Expense
<1>4. Seen(x)
  <2>1. /\ x.status = s /\ x.amount = rows[r].amount /\ x.ceiling = limit
        /\ x.review = v
    BY <1>1 DEF Expense
  <2>2. v # "PENDING"
    BY <1>1 DEF Seen
  <2>3. s = "APPROVED" => rows[r].amount <= limit
    BY <1>1 DEF ApprovalRequired
  <2> QED
    BY <1>2, <2>1, <2>2, <2>3 DEF Seen
<1>5. UNCHANGED <<today, limit, category, edits, templates, payments,
                  journals, changes>>
    BY DEF Submit
<1> HIDE DEF s, v
<1> QED
    BY <1>1, <1>2, <1>3, <1>4, <1>5, StepDecision

LEMMA StepRefused ==
    ASSUME IInv, NEW r \in DOMAIN rows, Cancel(r) \/ Reject(r)
    PROVE  IInv'
<1> DEFINE s == IF Cancel(r) THEN "CANCELLED" ELSE "REJECTED"
           v == rows[r].review
           c == rows[r].ceiling
           x == [rows[r] EXCEPT !.status = s, !.review = v, !.ceiling = c]
<1>1. /\ rows[r] \in Expense /\ v \in Review /\ c \in Nat /\ Seen(rows[r])
      /\ rows[r].status \in {"DRAFT", "PENDING_APPROVAL"}
    BY Row DEF Cancel, Reject
<1>2. s \in Status /\ s \in {"CANCELLED", "REJECTED"}
    BY DEF Status
<1>3. rows' = [rows EXCEPT ![r] = x]
  <2>1. rows \in Seq(Expense)
    BY DEF IInv, TypeOK
  <2>2. rows' = [rows EXCEPT ![r].status = s]
    BY DEF Cancel, Reject
  <2>3. x = [rows[r] EXCEPT !.status = s]
    BY <1>1 DEF Expense
  <2> QED
    BY <2>1, <2>2, <2>3
<1>4. Seen(x)
  <2>1. x.status = s /\ x.review = v
    BY <1>1 DEF Expense
  <2>2. v # "PENDING"
    BY <1>1 DEF Seen
  <2> QED
    BY <1>2, <2>1, <2>2 DEF Seen
<1>5. UNCHANGED <<today, limit, category, edits, templates, payments,
                  journals, changes>>
    BY DEF Cancel, Reject
<1> HIDE DEF s, v, c
<1> QED
    BY <1>1, <1>2, <1>3, <1>4, <1>5, StepDecision

LEMMA StepApprove ==
    ASSUME IInv, NEW r \in DOMAIN rows, Approve(r)
    PROVE  IInv'
<1> DEFINE v == rows[r].review
           c == rows[r].amount
           x == [rows[r] EXCEPT !.status = "APPROVED", !.review = v,
                                !.ceiling = c]
<1>1. /\ rows[r] \in Expense /\ v \in Review /\ c \in Nat /\ Seen(rows[r])
      /\ rows[r].status = "PENDING_APPROVAL"
    BY Row DEF Approve
<1>2. rows' = [rows EXCEPT ![r] = x]
  <2>1. rows \in Seq(Expense)
    BY DEF IInv, TypeOK
  <2>2. x = [rows[r] EXCEPT !.status = "APPROVED", !.ceiling = c]
    BY <1>1 DEF Expense
  <2> QED
    BY <1>1, <2>1, <2>2 DEF Approve
<1>3. Seen(x)
  <2>1. x.amount = c /\ x.ceiling = c /\ x.review = v
    BY <1>1 DEF Expense
  <2>2. v # "PENDING"
    BY <1>1 DEF Seen
  <2> QED
    BY <1>1, <2>1, <2>2 DEF Seen
<1>4. UNCHANGED <<today, limit, category, edits, templates, payments,
                  journals, changes>>
    BY DEF Approve
<1>5. "APPROVED" \in Status
    BY DEF Status
<1> HIDE DEF v, c
<1> QED
    BY <1>1, <1>2, <1>3, <1>4, <1>5, StepDecision

LEMMA StepReviewPaid ==
    ASSUME IInv, NEW r \in DOMAIN rows, NEW v \in {"APPROVED", "REJECTED"},
           ReviewPaid(r, v)
    PROVE  IInv'
<1> DEFINE c == rows[r].ceiling
           x == [rows[r] EXCEPT !.status = "POSTED", !.review = v,
                                !.ceiling = c]
<1>1. /\ rows[r] \in Expense /\ c \in Nat /\ rows[r].status = "POSTED"
      /\ v \in Review /\ "POSTED" \in Status
    BY Row DEF ReviewPaid, Review, Status
<1>2. rows' = [rows EXCEPT ![r] = x]
  <2>1. rows \in Seq(Expense)
    BY DEF IInv, TypeOK
  <2>2. x = [rows[r] EXCEPT !.review = v]
    BY <1>1 DEF Expense
  <2> QED
    BY <1>1, <2>1, <2>2 DEF ReviewPaid
<1>3. Seen(x)
  <2>1. x.status = "POSTED" /\ x.review = v
    BY <1>1 DEF Expense
  <2> QED
    BY <2>1 DEF Seen, Review
<1>4. UNCHANGED <<today, limit, category, edits, templates, payments,
                  journals, changes>>
    BY DEF ReviewPaid
<1> HIDE DEF c
<1> QED
    BY <1>1, <1>2, <1>3, <1>4, StepDecision

LEMMA StepStoreDraft ==
    ASSUME IInv, NEW e \in edits, StoreDraft(e)
    PROVE  IInv'
<1> DEFINE r == e.row
           x == [rows[r] EXCEPT !.date = e.date, !.amount = e.amount,
                                !.account = e.account, !.ledger = e.ledger]
<1>1. /\ TypeOK /\ e \in Edit /\ r \in DOMAIN rows
      /\ rows[r].template # 0 => e.date = rows[r].date
    BY DEF IInv, TypeOK, EditsKeepDueDates
<1>2. /\ edits' \subseteq edits
      /\ UNCHANGED <<today, limit, category, templates, payments, journals,
                     changes>>
    BY DEF StoreDraft
<1>3. Parts' /\ RowsOK'
  <2>1. CASE ~Editable(rows[r])
    <3>1. UNCHANGED rows
      BY <2>1 DEF StoreDraft
    <3>2. EditsKeepDueDates'
      BY <1>2, <3>1 DEF IInv, EditsKeepDueDates
    <3>3. BooksFollowExpenses' /\ NothingUnreviewed'
      BY <1>2, <3>1 DEF IInv, BooksFollowExpenses, NothingUnreviewed, Booked,
                        Owned, Matches
    <3>4. BillsPaidOnce'
      BY <1>2, <3>1 DEF IInv, BillsPaidOnce, OneBillPerDate, PaidAsAsked
    <3>5. RowsOK'
      BY <1>1, <1>2, <3>1 DEF TypeOK, RowsOK
    <3> QED
      BY <3>2, <3>3, <3>4, <3>5 DEF Parts
  <2>2. CASE Editable(rows[r])
    <3>1. rows[r] \in Expense /\ Booked(r) /\ rows[r].status = "DRAFT"
          /\ Seen(rows[r])
      BY <1>1, <2>2, Row DEF Editable
    <3>2. rows[r].journal = 0 /\ rows[r].reversal = 0
      BY <3>1 DEF Booked
    <3>3. /\ e.date \in Day /\ e.amount \in Amount /\ e.account \in Account
          /\ e.ledger \in Ledger
      BY <1>1 DEF Edit
    <3>4. x \in Expense
      BY <3>1, <3>3 DEF Expense
    <3>5. /\ x.template = rows[r].template /\ x.date = e.date
          /\ x.status = "DRAFT" /\ x.review = rows[r].review
          /\ x.journal = 0 /\ x.reversal = 0
      BY <3>1, <3>2 DEF Expense
    <3>6. Written(r, x)
      <4>1. rows \in Seq(Expense)
        BY <1>1 DEF TypeOK
      <4> QED
        BY <1>1, <2>2, <4>1 DEF Written, StoreDraft
    <3> HIDE DEF x
    <3>7. Harmless(r, x) /\ SameBill(r, x)
      BY <1>1, <3>1, <3>2, <3>5 DEF Harmless, SameBill
    <3>8. Seen(x)
      BY <3>1, <3>5 DEF Seen
    <3> QED
      BY <1>2, <3>4, <3>6, <3>7, <3>8, StepWritten
  <2> QED
    BY <2>1, <2>2
<1> QED
    BY <1>1, <1>2, <1>3, StepType DEF TypeOK

\* A step that leaves the lists of expenses, payments and journals alone, and
\* begins no edit.
LEMMA StepElsewhere ==
    ASSUME IInv, TypeOK', UNCHANGED <<rows, edits, payments, journals>>
    PROVE  IInv'
<1>1. EditsKeepDueDates'
    BY DEF IInv, EditsKeepDueDates
<1>2. BooksFollowExpenses'
    BY DEF IInv, BooksFollowExpenses, Booked, Owned, Matches
<1>3. NothingUnreviewed'
    BY DEF IInv, NothingUnreviewed
<1>4. BillsPaidOnce'
    BY DEF IInv, BillsPaidOnce, OneBillPerDate, PaidAsAsked
<1> QED
    BY <1>1, <1>2, <1>3, <1>4 DEF IInv

LEMMA StepReadDraft ==
    ASSUME IInv, NEW r \in DOMAIN rows, NEW date \in Day,
           NEW amount \in Amount, NEW account \in Account,
           ReadDraft(r, date, amount, account)
    PROVE  IInv'
<1> DEFINE e == [row |-> r, date |-> date, amount |-> amount,
                 account |-> account, ledger |-> category.ledger]
<1>1. TypeOK /\ category.ledger \in Ledger /\ r \in Nat
    BY DEF IInv, TypeOK
<1>2. e \in Edit
    BY <1>1 DEF Edit
<1>3. /\ edits' = edits \cup {e}
      /\ rows[r].template # 0 => e.date = rows[r].date
      /\ e.row = r
      /\ changes' \in 0..MaxWrites
      /\ UNCHANGED <<today, limit, category, rows, templates, payments,
                     journals>>
    BY <1>1, Counted DEF ReadDraft
<1> HIDE DEF e
<1>4. TypeOK'
    BY <1>1, <1>2, <1>3 DEF TypeOK
<1>5. EditsKeepDueDates'
    BY <1>3 DEF IInv, EditsKeepDueDates
<1>6. BooksFollowExpenses'
    BY <1>3 DEF IInv, BooksFollowExpenses, Booked, Owned, Matches
<1>7. NothingUnreviewed'
    BY <1>3 DEF IInv, NothingUnreviewed
<1>8. BillsPaidOnce'
    BY <1>3 DEF IInv, BillsPaidOnce, OneBillPerDate, PaidAsAsked
<1> QED
    BY <1>4, <1>5, <1>6, <1>7, <1>8 DEF IInv

LEMMA StepSettings ==
    ASSUME IInv,
           \/ \E ledger \in Ledger : MapCategory(ledger)
           \/ DeactivateCategory
           \/ \E l \in Limit : SetLimit(l)
    PROVE  IInv'
<1>1. TypeOK /\ category \in [ledger: Ledger, isActive: BOOLEAN]
    BY DEF IInv, TypeOK
<1>2. /\ changes' \in 0..MaxWrites
      /\ UNCHANGED <<today, rows, edits, templates, payments, journals>>
    BY <1>1, Counted DEF MapCategory, DeactivateCategory, SetLimit
<1>3. category' \in [ledger: Ledger, isActive: BOOLEAN] /\ limit' \in Limit
  <2>1. CASE \E ledger \in Ledger : MapCategory(ledger)
    BY <1>1, <2>1 DEF TypeOK, MapCategory
  <2>2. CASE DeactivateCategory
    BY <1>1, <2>2 DEF TypeOK, DeactivateCategory
  <2>3. CASE \E l \in Limit : SetLimit(l)
    BY <1>1, <2>3 DEF TypeOK, SetLimit
  <2> QED
    BY <2>1, <2>2, <2>3
<1>4. TypeOK'
    BY <1>1, <1>2, <1>3 DEF TypeOK
<1> QED
    BY <1>2, <1>4, StepElsewhere

LEMMA StepSchedules ==
    ASSUME IInv, NEW t \in Template,
           \/ \E due \in Day, every \in Every, amount \in Amount :
                 \/ CreateTemplate(t, due, every, amount)
                 \/ EditTemplate(t, due, every, amount)
           \/ \E state \in {"ACTIVE", "PAUSED"} : SetTemplateActive(t, state)
    PROVE  IInv'
<1>1. TypeOK /\ templates \in [Template -> Schedule]
    BY DEF IInv, TypeOK
<1>2. templates[t] \in Schedule /\ Day \subseteq Nat \ {0}
    BY <1>1 DEF Day
<1>3. /\ changes' \in 0..MaxWrites
      /\ UNCHANGED <<today, limit, category, rows, edits, payments, journals>>
    BY <1>1, Counted DEF CreateTemplate, EditTemplate, SetTemplateActive
<1>4. templates' \in [Template -> Schedule]
  <2>1. ASSUME NEW due \in Day, NEW every \in Every, NEW amount \in Amount,
               CreateTemplate(t, due, every, amount)
        PROVE  templates' \in [Template -> Schedule]
    <3>1. [state |-> "ACTIVE", due |-> due, every |-> every,
           amount |-> amount] \in Schedule
      BY <1>2 DEF Schedule
    <3> QED
      BY <1>1, <2>1, <3>1 DEF CreateTemplate
  <2>2. ASSUME NEW due \in Day, NEW every \in Every, NEW amount \in Amount,
               EditTemplate(t, due, every, amount)
        PROVE  templates' \in [Template -> Schedule]
    <3>1. [templates[t] EXCEPT !.due = due, !.every = every,
                               !.amount = amount] \in Schedule
      BY <1>2 DEF Schedule
    <3> QED
      BY <1>1, <2>2, <3>1 DEF EditTemplate
  <2>3. ASSUME NEW state \in {"ACTIVE", "PAUSED"},
               SetTemplateActive(t, state)
        PROVE  templates' \in [Template -> Schedule]
    <3>1. [templates[t] EXCEPT !.state = state] \in Schedule
      BY <1>2 DEF Schedule
    <3> QED
      BY <1>1, <2>3, <3>1 DEF SetTemplateActive
  <2> QED
    BY <2>1, <2>2, <2>3
<1>5. TypeOK'
    BY <1>1, <1>3, <1>4 DEF TypeOK
<1> QED
    BY <1>3, <1>5, StepElsewhere

LEMMA StepTick ==
    ASSUME IInv, Tick
    PROVE  IInv'
<1>1. TypeOK /\ today \in 1..MaxDay /\ MaxDay \in Nat
    BY ExpensesConstants DEF IInv, TypeOK, Day
<1>2. /\ today < MaxDay /\ today' = today + 1
      /\ UNCHANGED <<limit, category, rows, edits, templates, payments,
                     journals, changes>>
    BY DEF Tick
<1>3. today' \in Day /\ today <= today'
    BY <1>1, <1>2 DEF Day
<1>4. \A r \in DOMAIN rows' : rows'[r].template # 0 => rows'[r].date <= today'
  <2>1. ASSUME NEW r \in DOMAIN rows, rows[r].template # 0
        PROVE  rows[r].date <= today'
    <3>1. rows[r].date <= today /\ rows[r] \in Expense
      BY <1>1, <2>1 DEF TypeOK
    <3>2. rows[r].date \in 1..MaxDay
      BY <3>1 DEF Expense, Day
    <3> QED
      BY <1>1, <1>2, <3>1, <3>2
  <2> QED
    BY <1>2, <2>1
<1>5. TypeOK'
    BY <1>1, <1>2, <1>3, <1>4 DEF TypeOK
<1> QED
    BY <1>2, <1>5, StepElsewhere

\* Without the tables that StepType leaves open.
LEMMA PostType ==
    ASSUME IInv, Parts', RowsOK', journals' \in Seq(Journal),
           payments' \subseteq Payment,
           UNCHANGED <<today, limit, category, edits, templates, changes>>
    PROVE  IInv'
BY StepType DEF IInv, TypeOK

LEMMA StepRecordPaid ==
    ASSUME IInv, NEW date \in Day, NEW amount \in Amount,
           NEW account \in MoneyAccount, RecordPaid(date, amount, account)
    PROVE  IInv'
<1> DEFINE f == Fresh(0, date, amount, account, category.ledger)
           x == [f EXCEPT !.status = "APPROVED", !.paid = date,
                          !.review = ReviewOf(amount), !.ceiling = limit]
           r == Len(rows) + 1
<1>1. /\ TypeOK /\ category.ledger \in Ledger /\ limit \in Nat
      /\ amount \in Nat
    BY ExpensesConstants DEF IInv, TypeOK
<1>2. f \in Expense
    BY <1>1, FreshType DEF Account
<1>3. /\ x \in Expense /\ x.template = f.template /\ x.status = "APPROVED"
      /\ x.review = ReviewOf(amount) /\ x.ceiling = limit
      /\ x.amount = f.amount /\ x.reversal = f.reversal
    BY <1>1, <1>2 DEF Expense, Status, Review, ReviewOf
<1>4. x.template = 0 /\ x.reversal = 0 /\ x.amount = amount
    BY <1>3, FreshFields
<1>5. /\ Postable(x)
      /\ rows' = Append(rows, PostedRow(x))
      /\ journals' = Append(journals, Posting(Len(rows) + 1, x))
      /\ UNCHANGED <<today, limit, category, edits, templates, payments,
                     changes>>
    BY DEF RecordPaid
<1> HIDE DEF x
<1>6. Posted(r, x)
  <2>1. rows \in Seq(Expense)
    BY <1>1 DEF TypeOK
  <2>2. DOMAIN rows \cup {r} = 1..Len(rows) + 1 /\ DOMAIN rows = 1..Len(rows)
    BY <2>1
  <2>3. PostedRow(x) \in Expense
    BY <1>1, <1>3, PostedRowType
  <2>4. /\ rows' \in Seq(Expense) /\ Len(rows') = Len(rows) + 1
        /\ rows'[r] = PostedRow(x)
        /\ \A i \in DOMAIN rows : rows'[i] = rows[i]
    BY <1>5, <2>1, <2>3
  <2>5. rows' = [i \in 1..Len(rows) + 1 |-> rows'[i]]
    BY <2>4
  <2>6. rows' = [i \in DOMAIN rows \cup {r} |->
                   IF i = r THEN PostedRow(x) ELSE rows[i]]
    BY <2>2, <2>4, <2>5
  <2> QED
    BY <1>4, <1>5, <2>6 DEF Posted
<1>7. Seen(PostedRow(x))
    BY <1>1, <1>3, <1>4, PostedRowType
       DEF Seen, Review, ReviewOf, ApprovalRequired
<1>8. r \in 1..Len(rows) + 1 /\ r \notin DOMAIN rows
    BY <1>1 DEF TypeOK
<1> HIDE DEF r
<1>9. Parts' /\ RowsOK' /\ journals' \in Seq(Journal)
    BY <1>3, <1>4, <1>5, <1>6, <1>7, <1>8, StepPosted
<1> QED
    BY <1>1, <1>5, <1>9, PostType DEF TypeOK

\* The posting of an expense that is stored.
LEMMA PostedInPlace ==
    ASSUME TypeOK, NEW r \in DOMAIN rows, NEW x, Postable(x), x.reversal = 0,
           rows' = [rows EXCEPT ![r] = PostedRow(x)],
           journals' = Append(journals, Posting(r, x))
    PROVE  Posted(r, x) /\ r \in 1..Len(rows) + 1
<1>1. rows \in Seq(Expense)
    BY DEF TypeOK
<1>2. DOMAIN rows \cup {r} = DOMAIN rows /\ r \in 1..Len(rows) + 1
  <2>1. DOMAIN rows = 1..Len(rows) /\ Len(rows) \in Nat
    BY <1>1
  <2>2. r \in 1..Len(rows)
    BY <2>1
  <2>3. r \in 1..Len(rows) + 1
    BY <2>1, <2>2
  <2> QED
    BY <2>3
<1>3. rows' = [i \in DOMAIN rows \cup {r} |->
                 IF i = r THEN PostedRow(x) ELSE rows[i]]
    BY <1>1, <1>2
<1> QED
    BY <1>2, <1>3 DEF Posted

LEMMA StepPostExpense ==
    ASSUME IInv, NEW r \in DOMAIN rows, PostExpense(r)
    PROVE  IInv'
<1> DEFINE x == rows[r]
<1>1. TypeOK /\ rows \in Seq(Expense)
    BY DEF IInv, TypeOK
<1>2. x \in Expense /\ Seen(x) /\ Booked(r)
    BY Row
<1>3. /\ x.template = 0 /\ Postable(x) /\ x.journal = 0
      /\ x.status = "APPROVED"
    BY DEF PostExpense, Ordinary, Postable
<1>4. x.reversal = 0
    BY <1>2, <1>3 DEF Booked
<1>5. /\ rows' = [rows EXCEPT ![r] = PostedRow(x)]
      /\ journals' = Append(journals, Posting(r, x))
      /\ UNCHANGED <<today, limit, category, edits, templates, payments,
                     changes>>
    BY DEF PostExpense
<1>6. Posted(r, x) /\ r \in 1..Len(rows) + 1
    BY <1>1, <1>3, <1>4, <1>5, PostedInPlace
<1>7. Seen(PostedRow(x))
    BY <1>1, <1>2, <1>3, PostedRowType DEF Seen
<1>8. Parts' /\ RowsOK' /\ journals' \in Seq(Journal)
    BY <1>2, <1>3, <1>5, <1>6, <1>7, StepPosted
<1> QED
    BY <1>1, <1>5, <1>8, PostType DEF TypeOK

LEMMA StepPayBill ==
    ASSUME IInv, NEW r \in DOMAIN rows, NEW key \in Key,
           NEW account \in MoneyAccount, NEW date \in Day,
           PayBill(r, key, account, date)
    PROVE  IInv'
<1> DEFINE row == rows[r]
           x == [row EXCEPT !.status = "APPROVED", !.paid = date,
                            !.account = account,
                            !.review = ReviewOf(row.amount),
                            !.ceiling = limit]
           q == [key |-> key, row |-> r, account |-> account, date |-> date]
<1>1. /\ TypeOK /\ rows \in Seq(Expense) /\ limit \in Nat /\ r \in Nat
      /\ payments \subseteq Payment
    BY ExpensesConstants DEF IInv, TypeOK
<1>2. row \in Expense /\ Booked(r) /\ row.amount \in Nat
    BY Row
<1>3. /\ \A p \in payments : p.key # key
      /\ row.template # 0 /\ row.journal = 0
      /\ row.status \in {"DRAFT", "PENDING_APPROVAL", "APPROVED"}
      /\ Postable(x)
      /\ rows' = [rows EXCEPT ![r] = PostedRow(x)]
      /\ journals' = Append(journals, Posting(r, x))
      /\ payments' = payments \cup {q}
      /\ UNCHANGED <<today, limit, category, edits, templates, changes>>
    BY DEF PayBill
<1>4. row.reversal = 0
    BY <1>2, <1>3 DEF Booked
<1>5. /\ x \in Expense
      /\ x.template = row.template /\ x.date = row.date
      /\ x.reversal = row.reversal /\ x.status = "APPROVED"
      /\ x.account = account /\ x.paid = date
      /\ x.review = ReviewOf(row.amount) /\ x.ceiling = limit
      /\ x.amount = row.amount
  <2>1. /\ account \in Account /\ "APPROVED" \in Status
        /\ ReviewOf(row.amount) \in Review
    BY DEF Account, Status, Review, ReviewOf
  <2> QED
    BY <1>1, <1>2, <2>1 DEF Expense
<1>6. q \in Payment /\ q.key = key /\ q.row = r /\ q.account = account
      /\ q.date = date
    BY <1>1 DEF Payment
<1> HIDE DEF x, q
<1>7. Posted(r, x) /\ r \in 1..Len(rows) + 1
    BY <1>1, <1>3, <1>4, <1>5, PostedInPlace
<1>8. Seen(PostedRow(x))
    BY <1>1, <1>2, <1>5, PostedRowType
       DEF Seen, Review, ReviewOf, ApprovalRequired
<1>9. Parts' /\ RowsOK' /\ journals' \in Seq(Journal)
    BY <1>3, <1>5, <1>6, <1>7, <1>8, StepPosted
<1>10. payments' \subseteq Payment
    BY <1>1, <1>3, <1>6
<1> QED
    BY <1>3, <1>9, <1>10, PostType

LEMMA StepReverse ==
    ASSUME IInv, NEW r \in DOMAIN rows, ReverseExpense(r)
    PROVE  IInv'
<1> DEFINE row == rows[r]
           x == [row EXCEPT !.status = "REVERSED",
                            !.reversal = Len(journals) + 1,
                            !.review = IF @ = "PENDING" THEN "CANCELLED"
                                                        ELSE @]
           mirror == [journals[row.journal] EXCEPT !.of = row.journal]
<1>1. /\ TypeOK /\ rows \in Seq(Expense) /\ journals \in Seq(Journal)
      /\ Len(journals) + 1 \in Nat
    BY DEF IInv, TypeOK
<1>2. row \in Expense /\ Seen(row) /\ Booked(r)
    BY Row
<1>3. /\ row.status = "POSTED"
      /\ rows' = [rows EXCEPT ![r] = x]
      /\ journals' = Append(journals, mirror)
      /\ UNCHANGED <<today, limit, category, edits, templates, payments,
                     changes>>
    BY DEF ReverseExpense
<1>4. row.journal \in DOMAIN journals /\ row.journal \in Nat
    BY <1>2, <1>3 DEF Booked, Expense
<1>5. mirror \in Journal
  <2>1. journals[row.journal] \in Journal
    BY <1>1, <1>4
  <2> QED
    BY <1>4, <2>1 DEF Journal
<1>6. /\ x \in Expense /\ x.template = row.template /\ x.date = row.date
      /\ x.journal = row.journal /\ x.paid = row.paid
      /\ x.account = row.account /\ x.status = "REVERSED"
      /\ x.amount = row.amount /\ x.ceiling = row.ceiling
      /\ x.review = IF row.review = "PENDING" THEN "CANCELLED"
                                              ELSE row.review
    BY <1>1, <1>2 DEF Expense, Status, Review
<1> HIDE DEF x, mirror
<1>7. Written(r, x)
    BY <1>3 DEF Written
<1>8. SameBill(r, x)
    BY <1>6 DEF SameBill
<1>9. Seen(x)
    BY <1>2, <1>3, <1>6 DEF Seen, Review
<1>10. BooksFollowExpenses'
    BY <1>1, BooksReversed DEF IInv
<1>11. NothingUnreviewed'
    BY <1>1, <1>6, <1>7, <1>9, SeenWritten DEF IInv
<1>12. BillsPaidOnce'
    BY <1>1, <1>3, <1>6, <1>7, <1>8, BillsWritten DEF IInv
<1>13. /\ DOMAIN rows' = DOMAIN rows /\ rows' \in Seq(Expense)
       /\ \A i \in DOMAIN rows :
            /\ rows'[i].template = rows[i].template
            /\ rows'[i].date = rows[i].date
    BY <1>1, <1>6, <1>7, WrittenRows
<1>14. EditsKeepDueDates'
    BY <1>3, <1>13, EditsKept DEF IInv
<1>15. RowsOK'
    BY <1>1, <1>3, <1>13 DEF TypeOK, RowsOK
<1>16. journals' \in Seq(Journal)
    BY <1>1, <1>3, <1>5
<1>17. Parts'
    BY <1>10, <1>11, <1>12, <1>14 DEF Parts
<1> QED
    BY <1>1, <1>3, <1>15, <1>16, <1>17, PostType DEF TypeOK

-----------------------------------------------------------------------------
(* The theorems. *)

LEMMA InvInit == Init => IInv
<1> SUFFICES ASSUME Init PROVE IInv
    OBVIOUS
<1>1. Absent \in Schedule
  <2>1. /\ (CHOOSE n \in Every : TRUE) \in Every
        /\ (CHOOSE a \in Amount : TRUE) \in Amount
    BY ExpensesConstants
  <2> QED
    BY <2>1 DEF Absent, Schedule
<1>2. 1 \in Day /\ NoLimit \in Limit /\ 0 \in 0..MaxWrites
    BY ExpensesConstants DEF Day
<1>3. category \in [ledger: Ledger, isActive: BOOLEAN]
    BY DEF Init
<1>4. TypeOK
    BY <1>1, <1>2, <1>3 DEF Init, TypeOK
<1> QED
    BY <1>4 DEF Init, IInv, EditsKeepDueDates, BooksFollowExpenses,
                NothingUnreviewed, BillsPaidOnce, OneBillPerDate

LEMMA InvNext == IInv /\ [Next]_vars => IInv'
<1> SUFFICES ASSUME IInv, [Next]_vars PROVE IInv'
    OBVIOUS
<1>1. ASSUME NEW date \in Day, NEW amount \in Amount, NEW account \in Account,
             CreateDraft(date, amount, account)
      PROVE  IInv'
    BY <1>1, StepCreateDraft
<1>2. ASSUME NEW date \in Day, NEW amount \in Amount,
             NEW account \in MoneyAccount, RecordPaid(date, amount, account)
      PROVE  IInv'
    BY <1>2, StepRecordPaid
<1>3. ASSUME NEW r \in DOMAIN rows, NEW date \in Day, NEW amount \in Amount,
             NEW account \in Account, ReadDraft(r, date, amount, account)
      PROVE  IInv'
    BY <1>3, StepReadDraft
<1>4. ASSUME NEW e \in edits, StoreDraft(e) PROVE IInv'
    BY <1>4, StepStoreDraft
<1>5. ASSUME NEW r \in DOMAIN rows,
             \/ Submit(r) \/ Cancel(r) \/ Approve(r) \/ Reject(r)
             \/ PostExpense(r) \/ ReverseExpense(r)
      PROVE  IInv'
    BY <1>5, StepSubmit, StepRefused, StepApprove, StepPostExpense,
       StepReverse
<1>6. ASSUME NEW r \in DOMAIN rows, NEW verdict \in {"APPROVED", "REJECTED"},
             ReviewPaid(r, verdict)
      PROVE  IInv'
    BY <1>6, StepReviewPaid
<1>7. ASSUME NEW t \in Template,
             \/ \E due \in Day, every \in Every, amount \in Amount :
                   \/ CreateTemplate(t, due, every, amount)
                   \/ EditTemplate(t, due, every, amount)
             \/ \E state \in {"ACTIVE", "PAUSED"} :
                   SetTemplateActive(t, state)
      PROVE  IInv'
    BY <1>7, StepSchedules
<1>8. ASSUME NEW t \in Template, NEW account \in MoneyAccount,
             GenerateBill(t, account)
      PROVE  IInv'
    BY <1>8, StepGenerateBill
<1>9. ASSUME NEW r \in DOMAIN rows, NEW key \in Key,
             NEW account \in MoneyAccount, NEW date \in Day,
             PayBill(r, key, account, date)
      PROVE  IInv'
    BY <1>9, StepPayBill
<1>10. CASE \/ \E ledger \in Ledger : MapCategory(ledger)
            \/ DeactivateCategory
            \/ \E l \in Limit : SetLimit(l)
    BY <1>10, StepSettings
<1>11. CASE Tick
    BY <1>11, StepTick
<1>12. CASE UNCHANGED vars
  <2>1. TypeOK'
    BY <1>12 DEF IInv, TypeOK, vars
  <2> QED
    BY <1>12, <2>1, StepElsewhere DEF vars
<1> QED
    BY <1>1, <1>2, <1>3, <1>4, <1>5, <1>6, <1>7, <1>8, <1>9, <1>10, <1>11,
       <1>12 DEF Next

LEMMA Invariant == Spec => []IInv
BY InvInit, InvNext, PTL DEF Spec

\* Every expense, bill, schedule, payment and journal is what its table holds,
\* and no bill is made before its due date.
THEOREM ExpensesTypeCorrect == Spec => []TypeOK
<1>1. IInv => TypeOK
    BY DEF IInv
<1> QED
    BY <1>1, Invariant, PTL

\* The journals are those of the posted expenses and of their reversals.
THEOREM ExpensesBooked == Spec => []BooksFollowExpenses
<1>1. IInv => BooksFollowExpenses
    BY DEF IInv
<1> QED
    BY <1>1, Invariant, PTL

\* Nothing above the limit is approved or paid without an approval or a
\* review.
THEOREM ExpensesReviewed == Spec => []NothingUnreviewed
<1>1. IInv => NothingUnreviewed
    BY DEF IInv
<1> QED
    BY <1>1, Invariant, PTL

\* A due date has one bill and a bill one payment.
THEOREM BillsArePaidOnce == Spec => []BillsPaidOnce
<1>1. IInv => BillsPaidOnce
    BY DEF IInv
<1> QED
    BY <1>1, Invariant, PTL

-----------------------------------------------------------------------------
(* The capital of the owner.                                               *)
(*                                                                         *)
(* The properties of the tables are inductive only together with what is   *)
(* known of the transaction that waits for the lock.  It was computed from *)
(* tables that have changed since, and its commit reads nothing again.     *)
(* What is known is that it is still safe to write (Safe): a transaction   *)
(* that has committed in the meantime either leaves it safe, or is noted   *)
(* in "missed", so that what it takes is counted in "unseen", or is itself *)
(* serializable, and then has written what the one that waits has read and *)
(* read what that one will write, so that the database aborts it.  The     *)
(* last case needs that the waiting one has read the capital               *)
(* (CapitalSeen), which the code reads only when there are fundings to     *)
(* compare it with.                                                        *)

Returns == UNION {[s -> OwnerAmount] : s \in SUBSET DOMAIN fundings}
Entry == [type : Type, branch : Branch, amount : OwnerAmount, returns : Returns,
          posted : BOOLEAN]
Funding == [asset : Asset, source : DOMAIN entries, amount : OwnerAmount,
            cancelled : BOOLEAN]
FundAccount == {"capital", "cash"}
Waiting == [branch : Branch, of : Nat, capital : Int, cash : Int,
            returns : Returns, reads : SUBSET FundAccount, over : BOOLEAN,
            missed : SUBSET {"capital", "cash", "value"}]

(* The rows have the form of their tables.                                 *)
Form ==
    /\ assets \in [Asset -> [branch : Branch, value : Value,
                             disposed : BOOLEAN]]
    /\ entries \in Seq(Entry)
    /\ fundings \in Seq(Funding)
    /\ capital \in Int /\ cash \in Int
    /\ unseen \in [{"capital", "cash", "value"} -> Nat]

(* Assets are funded from contributions, and given back for by             *)
(* withdrawals, no more than was withdrawn.                                *)
Kinds ==
    /\ \A f \in DOMAIN fundings :
          entries[fundings[f].source].type = "INVESTMENT"
    /\ \A i \in DOMAIN entries :
          /\ DOMAIN entries[i].returns # {} =>
                entries[i].type = "CAPITAL_WITHDRAWAL"
          /\ Total(entries[i].returns) <= entries[i].amount

(* What is given back for each funding, and paid for from each source.     *)
Given ==
    /\ \A f \in DOMAIN fundings :
          /\ Returned(f) \in 0..fundings[f].amount
          /\ fundings[f].cancelled => Returned(f) = 0
    /\ \A i \in DOMAIN entries : SourceUsed(i) <= entries[i].amount

Tables == Form /\ Kinds /\ Given /\ CapitalReserved /\ AssetsCovered

(* What the transaction t adds again to the reserved capital.              *)
Rest(t) == SumFunction([f \in Rows \cap DOMAIN t.returns |-> t.returns[f]])

\* t takes back the entry i
Undoes(t, i) ==
    /\ i \in DOMAIN entries
    /\ t.returns = entries[i].returns
    /\ t.cash = IF entries[i].type \in Incoming
                THEN -entries[i].amount ELSE entries[i].amount
    /\ t.capital = IF entries[i].type \in OfCapital THEN t.cash ELSE 0

\* what a transaction is computed as
Computed(t) ==
    /\ t \in Waiting
    /\ \/ /\ t.of = 0 /\ t.returns = Nothing
          /\ t.cash < 0 => "cash" \in t.missed
       \/ t.of # 0 /\ Undoes(t, t.of)
    /\ \A x \in t.missed : Takes(t)[x] > 0
    /\ "capital" \in t.reads => t.capital # 0

\* it may be written now
Safe(t) ==
    /\ "capital" \notin t.missed /\ t.of # 0 => Unfunded(t.of)
    /\ "capital" \notin t.missed /\ Reserved + Rest(t) > 0 =>
          Reserved + Rest(t) <= capital + unseen.capital + t.capital
    /\ "cash" \notin t.missed /\ t.cash < 0 =>
          cash + unseen.cash + t.cash >= 0
    /\ "value" \notin t.missed => \A a \in Asset :
          OnAsset(a) + Restored(t, a) <= assets[a].value + unseen.value

\* it has read what a serializable transaction may not change unnoticed
CapitalSeen(t) ==
    /\ t.capital < 0 /\ Rows # {} /\ "capital" \notin t.missed =>
          "capital" \in t.reads
    /\ Rows \cap DOMAIN t.returns # {} => "capital" \in t.reads
    /\ t.cash < 0 /\ "cash" \notin t.missed => "cash" \in t.reads

OneWaits == \A t, w \in waiting : t = w

FundsIInv ==
    /\ Tables
    /\ OneWaits
    /\ \A t \in waiting : Computed(t) /\ Safe(t) /\ CapitalSeen(t)

-----------------------------------------------------------------------------
(* The sums, as sums over the rows of a table.                             *)

Left == [f \in DOMAIN fundings |-> Remaining(f)]
Part(r) == [f \in DOMAIN fundings |-> IF f \in DOMAIN r THEN r[f] ELSE 0]
Paid(f) == [i \in DOMAIN entries |->
    IF entries[i].posted THEN ReturnOf(i, f) ELSE 0]

\* The tables are finite.
LEMMA Finite ==
    Form => /\ DOMAIN entries = 1..Len(entries) /\ Len(entries) \in Nat
            /\ DOMAIN fundings = 1..Len(fundings) /\ Len(fundings) \in Nat
            /\ IsFiniteSet(DOMAIN entries) /\ IsFiniteSet(Standing)
            /\ IsFiniteSet(DOMAIN fundings) /\ IsFiniteSet(Rows)
            /\ Rows \subseteq DOMAIN fundings
            /\ \A a : RowsOf(a) \subseteq Rows /\ IsFiniteSet(RowsOf(a))
            /\ \A i : RowsFrom(i) \subseteq Rows /\ IsFiniteSet(RowsFrom(i))
<1>. SUFFICES ASSUME Form
              PROVE  /\ DOMAIN entries = 1..Len(entries) /\ Len(entries) \in Nat
                     /\ DOMAIN fundings = 1..Len(fundings) /\ Len(fundings) \in Nat
                     /\ IsFiniteSet(DOMAIN entries) /\ IsFiniteSet(Standing)
                     /\ IsFiniteSet(DOMAIN fundings) /\ IsFiniteSet(Rows)
                     /\ Rows \subseteq DOMAIN fundings
                     /\ \A a : RowsOf(a) \subseteq Rows /\ IsFiniteSet(RowsOf(a))
                     /\ \A i : RowsFrom(i) \subseteq Rows /\ IsFiniteSet(RowsFrom(i))
    OBVIOUS
<1>1. /\ DOMAIN entries = 1..Len(entries) /\ Len(entries) \in Nat
      /\ DOMAIN fundings = 1..Len(fundings) /\ Len(fundings) \in Nat
    BY DEF Form
<1>2. IsFiniteSet(DOMAIN entries) /\ IsFiniteSet(DOMAIN fundings)
    BY <1>1, FS_Interval
<1>3. /\ Standing \subseteq DOMAIN entries /\ Rows \subseteq DOMAIN fundings
      /\ \A a : RowsOf(a) \subseteq Rows
      /\ \A i : RowsFrom(i) \subseteq Rows
    BY DEF Standing, Rows, RowsOf, RowsFrom
<1>4. IsFiniteSet(Standing) /\ IsFiniteSet(Rows)
    BY <1>2, <1>3, FS_Subset
<1>5. /\ \A a : IsFiniteSet(RowsOf(a))
      /\ \A i : IsFiniteSet(RowsFrom(i))
    BY <1>3, <1>4, FS_Subset
<1>. QED  BY <1>1, <1>2, <1>3, <1>4, <1>5

\* The columns of owner_transactions.
LEMMA EntryForm ==
    Form => \A i \in DOMAIN entries :
        /\ entries[i].type \in Type /\ entries[i].branch \in Branch
        /\ entries[i].amount \in OwnerAmount /\ entries[i].amount \in Nat \ {0}
        /\ entries[i].posted \in BOOLEAN
        /\ entries[i].returns \in Returns
        /\ entries[i] \in Entry
<1>. SUFFICES ASSUME Form, NEW i \in DOMAIN entries
              PROVE  entries[i] \in Entry
    BY OwnerFundsConstants DEF Entry
<1>. QED  BY DEF Form

\* What is given back with an entry is for fundings, and positive.
LEMMA ReturnsForm ==
    ASSUME NEW r \in Returns
    PROVE  /\ DOMAIN r \subseteq DOMAIN fundings
           /\ r = [f \in DOMAIN r |-> r[f]]
           /\ \A f \in DOMAIN r : r[f] \in OwnerAmount /\ r[f] \in Nat \ {0}
<1>1. PICK s \in SUBSET DOMAIN fundings : r \in [s -> OwnerAmount]
    BY DEF Returns
<1>2. DOMAIN r = s /\ \A f \in s : r[f] \in OwnerAmount
    BY <1>1
<1>3. r = [f \in DOMAIN r |-> r[f]]
    BY <1>1
<1>. QED  BY <1>2, <1>3, OwnerFundsConstants

\* The columns of asset_owner_fundings.
LEMMA FundingForm ==
    Form => \A f \in DOMAIN fundings :
        /\ fundings[f].asset \in Asset
        /\ fundings[f].source \in DOMAIN entries
        /\ fundings[f].amount \in OwnerAmount /\ fundings[f].amount \in Nat \ {0}
        /\ fundings[f].cancelled \in BOOLEAN
        /\ fundings[f] \in Funding
<1>. SUFFICES ASSUME Form, NEW f \in DOMAIN fundings
              PROVE  fundings[f] \in Funding
    BY OwnerFundsConstants DEF Funding
<1>. QED  BY DEF Form

\* The other numbers.
LEMMA Numbers ==
    Form => /\ capital \in Int /\ cash \in Int
            /\ unseen.capital \in Nat /\ unseen.cash \in Nat /\ unseen.value \in Nat
            /\ \A a \in Asset : assets[a].value \in Nat
BY OwnerFundsConstants DEF Form

\* What has been given back for a funding, over all entries.
LEMMA ReturnedSum ==
    Form => \A f : /\ \A i \in DOMAIN entries :
                        ReturnOf(i, f) \in Nat /\ Paid(f)[i] \in Nat
                   /\ Returned(f) = SumFunctionOnSet(Paid(f), DOMAIN entries)
                   /\ Returned(f) \in Nat
<1>. SUFFICES ASSUME Form, NEW f
              PROVE  /\ \A i \in DOMAIN entries :
                           ReturnOf(i, f) \in Nat /\ Paid(f)[i] \in Nat
                     /\ Returned(f) = SumFunctionOnSet(Paid(f), DOMAIN entries)
                     /\ Returned(f) \in Nat
    OBVIOUS
<1>1. ASSUME NEW i \in DOMAIN entries
      PROVE  ReturnOf(i, f) \in Nat /\ Paid(f)[i] \in Nat
  <2>1. entries[i].returns \in Returns
      BY EntryForm
  <2>2. ReturnOf(i, f) \in Nat
      BY <2>1, ReturnsForm DEF ReturnOf
  <2>. QED  BY <2>2 DEF Paid
<1>2. Returned(f) = SumFunctionOnSet([i \in Standing |-> ReturnOf(i, f)], Standing)
    BY DEF Returned, SumFunction
<1>3. SumFunctionOnSet([i \in Standing |-> ReturnOf(i, f)], Standing)
         = SumFunctionOnSet(Paid(f), Standing)
  <2>1. \A i \in Standing : [k \in Standing |-> ReturnOf(k, f)][i] = Paid(f)[i]
      BY DEF Paid, Standing
  <2>2. IsFiniteSet(Standing)
      BY Finite
  <2>. QED  BY <2>1, <2>2, SumSame
<1>4. SumFunctionOnSet(Paid(f), DOMAIN entries) = SumFunctionOnSet(Paid(f), Standing)
  <2>1. Standing \in SUBSET DOMAIN entries /\ IsFiniteSet(DOMAIN entries)
      BY Finite DEF Standing
  <2>2. \A i \in DOMAIN entries \ Standing : Paid(f)[i] = 0
      BY DEF Paid, Standing
  <2>3. \A i \in DOMAIN entries : Paid(f)[i] \in Int
      BY <1>1
  <2>. QED  BY <2>1, <2>2, <2>3, SumWithoutZeros
<1>5. SumFunctionOnSet(Paid(f), DOMAIN entries) \in Nat
    BY <1>1, Finite, SumNat
<1>. QED  BY <1>1, <1>2, <1>3, <1>4, <1>5

\* What is reserved, altogether and for an asset.
LEMMA ReservedSum ==
    Form => /\ \A f \in DOMAIN fundings : Left[f] \in Int /\ Left[f] = Remaining(f)
            /\ Reserved = SumFunctionOnSet(Left, Rows) /\ Reserved \in Int
            /\ \A a : /\ OnAsset(a) = SumFunctionOnSet(Left, RowsOf(a))
                      /\ OnAsset(a) \in Int
<1>. SUFFICES ASSUME Form
              PROVE  /\ \A f \in DOMAIN fundings :
                           Left[f] \in Int /\ Left[f] = Remaining(f)
                     /\ Reserved = SumFunctionOnSet(Left, Rows)
                     /\ Reserved \in Int
                     /\ \A a : /\ OnAsset(a) = SumFunctionOnSet(Left, RowsOf(a))
                               /\ OnAsset(a) \in Int
    OBVIOUS
<1>1. \A f \in DOMAIN fundings : Left[f] \in Int /\ Left[f] = Remaining(f)
  <2>. TAKE f \in DOMAIN fundings
  <2>1. fundings[f].amount \in Nat /\ Returned(f) \in Nat
      BY FundingForm, ReturnedSum
  <2>. QED  BY <2>1 DEF Left, Remaining
<1>2. ASSUME NEW S, S \subseteq DOMAIN fundings, IsFiniteSet(S)
      PROVE  /\ SumFunction([f \in S |-> Remaining(f)]) = SumFunctionOnSet(Left, S)
             /\ SumFunctionOnSet(Left, S) \in Int
  <2>1. \A f \in S : [g \in S |-> Remaining(g)][f] = Left[f] /\ Left[f] \in Int
      BY <1>1, <1>2
  <2>2. SumFunction([f \in S |-> Remaining(f)])
           = SumFunctionOnSet([f \in S |-> Remaining(f)], S)
      BY DEF SumFunction
  <2>. QED  BY <1>2, <2>1, <2>2, SumSame, SumInt
<1>3. Reserved = SumFunctionOnSet(Left, Rows) /\ Reserved \in Int
    BY <1>2, Finite DEF Reserved
<1>4. \A a : OnAsset(a) = SumFunctionOnSet(Left, RowsOf(a)) /\ OnAsset(a) \in Int
  <2>. TAKE a
  <2>1. RowsOf(a) \subseteq DOMAIN fundings /\ IsFiniteSet(RowsOf(a))
      BY Finite
  <2>. QED  BY <1>2, <2>1 DEF OnAsset
<1>. QED  BY <1>1, <1>3, <1>4

\* What is given back of the fundings in S.
LEMMA PartSum ==
    ASSUME Form, NEW r \in Returns,
           NEW S \in SUBSET DOMAIN fundings, IsFiniteSet(S)
    PROVE  /\ \A f \in DOMAIN fundings : Part(r)[f] \in Nat
           /\ SumFunction([f \in S \cap DOMAIN r |-> r[f]])
                 = SumFunctionOnSet(Part(r), S)
           /\ SumFunctionOnSet(Part(r), S) \in Nat
           /\ S \cap DOMAIN r = {} => SumFunctionOnSet(Part(r), S) = 0
<1>1. \A f \in DOMAIN fundings : Part(r)[f] \in Nat
    BY ReturnsForm DEF Part
<1>. DEFINE T == S \cap DOMAIN r
<1>2. T \in SUBSET S /\ IsFiniteSet(T)
    BY FS_Subset
<1>3. SumFunction([f \in T |-> r[f]]) = SumFunctionOnSet([f \in T |-> r[f]], T)
    BY DEF SumFunction
<1>4. \A f \in T : [g \in T |-> r[g]][f] = Part(r)[f]
    BY DEF Part
<1>5. \A f \in S \ T : Part(r)[f] = 0
    BY DEF Part
<1>6. SumFunctionOnSet([f \in T |-> r[f]], T) = SumFunctionOnSet(Part(r), T)
  <2>. HIDE DEF T
  <2>. QED  BY <1>2, <1>4, SumSame
<1>7. SumFunctionOnSet(Part(r), S) = SumFunctionOnSet(Part(r), T)
  <2>1. \A f \in S : Part(r)[f] \in Int
      BY <1>1
  <2>. HIDE DEF T
  <2>. QED  BY <1>2, <1>5, <2>1, SumWithoutZeros
<1>8. SumFunctionOnSet(Part(r), S) \in Nat
  <2>1. \A f \in S : Part(r)[f] \in Nat
      BY <1>1
  <2>. QED  BY <2>1, SumNat
<1>9. S \cap DOMAIN r = {} => SumFunctionOnSet(Part(r), S) = 0
    BY <1>7, SumEmpty
<1>. QED  BY <1>1, <1>3, <1>6, <1>7, <1>8, <1>9

\* What a transaction restores: altogether, for an asset, and over all assets.
LEMMA RestSum ==
    Form => \A t : t.returns \in Returns =>
        /\ \A f \in DOMAIN fundings : Part(t.returns)[f] \in Nat
        /\ Rest(t) = SumFunctionOnSet(Part(t.returns), Rows) /\ Rest(t) \in Nat
        /\ \A a : /\ Restored(t, a) = SumFunctionOnSet(Part(t.returns), RowsOf(a))
                  /\ Restored(t, a) \in Nat
        /\ SumFunction([a \in Asset |-> Restored(t, a)]) = Rest(t)
        /\ Rows \cap DOMAIN t.returns = {} =>
              Rest(t) = 0 /\ \A a : Restored(t, a) = 0
<1>. SUFFICES ASSUME Form, NEW t, t.returns \in Returns
              PROVE
        /\ \A f \in DOMAIN fundings : Part(t.returns)[f] \in Nat
        /\ Rest(t) = SumFunctionOnSet(Part(t.returns), Rows) /\ Rest(t) \in Nat
        /\ \A a : /\ Restored(t, a) = SumFunctionOnSet(Part(t.returns), RowsOf(a))
                  /\ Restored(t, a) \in Nat
        /\ SumFunction([a \in Asset |-> Restored(t, a)]) = Rest(t)
        /\ Rows \cap DOMAIN t.returns = {} =>
              Rest(t) = 0 /\ \A a : Restored(t, a) = 0
    OBVIOUS
<1>1. /\ \A f \in DOMAIN fundings : Part(t.returns)[f] \in Nat
      /\ Rest(t) = SumFunctionOnSet(Part(t.returns), Rows) /\ Rest(t) \in Nat
      /\ Rows \cap DOMAIN t.returns = {} => Rest(t) = 0
    BY Finite, PartSum DEF Rest
<1>2. ASSUME NEW a
      PROVE  /\ Restored(t, a) = SumFunctionOnSet(Part(t.returns), RowsOf(a))
             /\ Restored(t, a) \in Nat
             /\ Rows \cap DOMAIN t.returns = {} => Restored(t, a) = 0
  <2>1. /\ RowsOf(a) \in SUBSET DOMAIN fundings /\ IsFiniteSet(RowsOf(a))
        /\ RowsOf(a) \subseteq Rows
      BY Finite
  <2>. QED  BY <2>1, PartSum DEF Restored
<1>3. SumFunction([a \in Asset |-> Restored(t, a)]) = Rest(t)
  <2>. DEFINE g == [a \in Asset |-> Restored(t, a)]
              h == [f \in DOMAIN fundings |-> fundings[f].asset]
              p == Part(t.returns)
  <2>1. /\ SumFunction([a \in Asset |-> Restored(t, a)]) = SumFunctionOnSet(g, Asset)
        /\ Rest(t) = SumFunctionOnSet(p, Rows)
      BY <1>1 DEF SumFunction
  <2>2. /\ \A f \in Rows : p[f] \in Int
        /\ \A f \in Rows : h[f] \in Asset
        /\ IsFiniteSet(Rows) /\ IsFiniteSet(Asset)
      BY <1>1, Finite, FundingForm, OwnerFundsConstants
  <2>3. \A a \in Asset : g[a] = SumFunctionOnSet(p, Group(Rows, h, a))
    <3>. TAKE a \in Asset
    <3>1. Group(Rows, h, a) = RowsOf(a)
        BY Finite DEF RowsOf, Group
    <3>2. g[a] = Restored(t, a)
        OBVIOUS
    <3>. QED  BY <1>2, <3>1, <3>2
  <2>. HIDE DEF g, h, p
  <2>4. SumFunctionOnSet(p, Rows) = SumFunctionOnSet(g, Asset)
      BY <2>2, <2>3, SumByGroup
  <2>. QED  BY <2>1, <2>4
<1>. QED  BY <1>1, <1>2, <1>3

\* The total that is given back, and that it is not less than what is restored.
LEMMA TotalSum ==
    Form => \A t : t.returns \in Returns =>
        /\ Total(t.returns) \in Nat
        /\ Rest(t) <= Total(t.returns)
        /\ \A a : Restored(t, a) <= Total(t.returns)
        /\ DOMAIN t.returns # {} => Total(t.returns) > 0
        /\ DOMAIN t.returns \subseteq Rows => Total(t.returns) = Rest(t)
<1>. SUFFICES ASSUME Form, NEW t, t.returns \in Returns
              PROVE
        /\ Total(t.returns) \in Nat
        /\ Rest(t) <= Total(t.returns)
        /\ \A a : Restored(t, a) <= Total(t.returns)
        /\ DOMAIN t.returns # {} => Total(t.returns) > 0
        /\ DOMAIN t.returns \subseteq Rows => Total(t.returns) = Rest(t)
    OBVIOUS
<1>. DEFINE r == t.returns
            p == Part(r)
            D == DOMAIN fundings
<1>1. /\ DOMAIN r \subseteq D /\ IsFiniteSet(D) /\ IsFiniteSet(DOMAIN r)
      /\ \A f \in DOMAIN r : r[f] \in Nat \ {0} /\ p[f] = r[f]
      /\ \A f \in D : p[f] \in Nat
  <2>1. DOMAIN r \subseteq D /\ \A f \in DOMAIN r : r[f] \in Nat \ {0}
      BY ReturnsForm
  <2>2. IsFiniteSet(D) /\ IsFiniteSet(DOMAIN r)
      BY <2>1, Finite, FS_Subset
  <2>3. \A f \in DOMAIN r : p[f] = r[f]
      BY <2>1 DEF Part
  <2>4. \A f \in D : p[f] \in Nat
      BY RestSum
  <2>. QED  BY <2>1, <2>2, <2>3, <2>4
<1>2. Total(r) = SumFunctionOnSet(r, DOMAIN r)
    BY DEF Total, SumFunction
<1>3. Total(r) = SumFunctionOnSet(p, DOMAIN r)
  <2>. HIDE DEF p, r
  <2>. QED  BY <1>1, <1>2, SumSame
<1>4. Total(r) = SumFunctionOnSet(p, D)
  <2>1. \A f \in D \ DOMAIN r : p[f] = 0
      BY DEF Part
  <2>2. SumFunctionOnSet(p, D) = SumFunctionOnSet(p, DOMAIN r)
    <3>1. DOMAIN r \in SUBSET D /\ \A f \in D : p[f] \in Int
        BY <1>1
    <3>. HIDE DEF p, r, D
    <3>. QED  BY <1>1, <2>1, <3>1, SumWithoutZeros
  <2>. QED  BY <1>3, <2>2
<1>5. ASSUME NEW S \in SUBSET D
      PROVE  SumFunctionOnSet(p, S) <= Total(r)
  <2>1. SumFunctionOnSet(p, S) <= SumFunctionOnSet(p, D)
    <3>1. \A f \in D : p[f] \in Int /\ p[f] <= p[f] /\ p[f] >= 0
        BY <1>1
    <3>. HIDE DEF p, r, D
    <3>. QED  BY <1>1, <3>1, SumShrinks
  <2>. QED  BY <1>4, <2>1
<1>6. Rest(t) <= Total(r) /\ \A a : Restored(t, a) <= Total(r)
    BY <1>5, Finite, RestSum
<1>7. Total(r) \in Nat
  <2>. HIDE DEF p, r, D
  <2>. QED  BY <1>1, <1>4, SumNat
<1>8. ASSUME DOMAIN r # {} PROVE Total(r) > 0
  <2>1. PICK f \in DOMAIN r : TRUE
      BY <1>8
  <2>2. /\ SumFunctionOnSet(r, DOMAIN r) = r[f] + SumFunctionOnSet(r, DOMAIN r \ {f})
        /\ IsFiniteSet(DOMAIN r \ {f})
      BY <1>1, SumRemove, FS_Subset
  <2>3. SumFunctionOnSet(r, DOMAIN r \ {f}) \in Nat
    <3>. HIDE DEF r
    <3>. QED  BY <1>1, <2>2, SumNat
  <2>. QED  BY <1>1, <1>2, <2>2, <2>3
<1>9. ASSUME DOMAIN r \subseteq Rows PROVE Total(r) = Rest(t)
  <2>1. /\ Rows \subseteq D /\ IsFiniteSet(Rows)
        /\ \A f \in Rows \ DOMAIN r : p[f] = 0
      BY Finite DEF Part
  <2>2. SumFunctionOnSet(p, Rows) = SumFunctionOnSet(p, DOMAIN r)
    <3>1. DOMAIN r \in SUBSET Rows /\ \A f \in Rows : p[f] \in Int
        BY <1>1, <1>9, <2>1
    <3>. HIDE DEF p, r, D
    <3>. QED  BY <2>1, <3>1, SumWithoutZeros
  <2>. QED  BY <1>3, <2>2, RestSum
<1>. QED  BY <1>6, <1>7, <1>8, <1>9

\* Nothing is a form of returns, and nothing.
LEMMA NothingSum ==
    /\ Nothing \in Returns /\ DOMAIN Nothing = {} /\ Total(Nothing) = 0
<1>1. Nothing \in [{} -> OwnerAmount] /\ DOMAIN Nothing = {}
    BY DEF Nothing
<1>2. {} \in SUBSET DOMAIN fundings
    OBVIOUS
<1>3. Nothing \in Returns
    BY <1>1, <1>2 DEF Returns
<1>. QED  BY <1>1, <1>3, SumEmpty DEF Total, SumFunction

(* The same of the tables after a step.                                    *)

\* The tables are finite after a step.
LEMMA FiniteNext ==
    (Form => /\ DOMAIN entries = 1..Len(entries) /\ Len(entries) \in Nat
             /\ DOMAIN fundings = 1..Len(fundings) /\ Len(fundings) \in Nat
             /\ IsFiniteSet(DOMAIN entries) /\ IsFiniteSet(Standing)
             /\ IsFiniteSet(DOMAIN fundings) /\ IsFiniteSet(Rows)
             /\ Rows \subseteq DOMAIN fundings
             /\ \A a : RowsOf(a) \subseteq Rows /\ IsFiniteSet(RowsOf(a))
             /\ \A i : RowsFrom(i) \subseteq Rows /\ IsFiniteSet(RowsFrom(i)))'
BY Finite, PTL

\* The other numbers after a step.
LEMMA NumbersNext ==
   (Form => /\ capital \in Int /\ cash \in Int
            /\ unseen.capital \in Nat /\ unseen.cash \in Nat /\ unseen.value \in Nat
            /\ \A a \in Asset : assets[a].value \in Nat)'
BY Numbers, PTL

\* What has been given back for a funding after a step.
LEMMA ReturnedNext ==
    (Form => \A f : /\ \A i \in DOMAIN entries :
                         ReturnOf(i, f) \in Nat /\ Paid(f)[i] \in Nat
                    /\ Returned(f) = SumFunctionOnSet(Paid(f), DOMAIN entries)
                    /\ Returned(f) \in Nat)'
BY ReturnedSum, PTL

\* What is reserved after a step.
LEMMA ReservedNext ==
    (Form => /\ \A f \in DOMAIN fundings : Left[f] \in Int /\ Left[f] = Remaining(f)
             /\ Reserved = SumFunctionOnSet(Left, Rows) /\ Reserved \in Int
             /\ \A a : /\ OnAsset(a) = SumFunctionOnSet(Left, RowsOf(a))
                       /\ OnAsset(a) \in Int)'
BY ReservedSum, PTL

\* What a transaction restores after a step.
LEMMA RestNext ==
    (Form => \A t : t.returns \in Returns =>
         /\ \A f \in DOMAIN fundings : Part(t.returns)[f] \in Nat
         /\ Rest(t) = SumFunctionOnSet(Part(t.returns), Rows) /\ Rest(t) \in Nat
         /\ \A a : /\ Restored(t, a) = SumFunctionOnSet(Part(t.returns), RowsOf(a))
                   /\ Restored(t, a) \in Nat
         /\ SumFunction([a \in Asset |-> Restored(t, a)]) = Rest(t)
         /\ Rows \cap DOMAIN t.returns = {} =>
               Rest(t) = 0 /\ \A a : Restored(t, a) = 0)'
BY RestSum, PTL

\* The columns of owner_transactions after a step.
LEMMA EntryNext ==
    (Form => \A i \in DOMAIN entries :
         /\ entries[i].type \in Type /\ entries[i].branch \in Branch
         /\ entries[i].amount \in OwnerAmount /\ entries[i].amount \in Nat \ {0}
         /\ entries[i].posted \in BOOLEAN
         /\ entries[i].returns \in Returns
         /\ entries[i] \in Entry)'
BY EntryForm, PTL

\* The columns of asset_owner_fundings after a step.
LEMMA FundingNext ==
    (Form => \A f \in DOMAIN fundings :
         /\ fundings[f].asset \in Asset
         /\ fundings[f].source \in DOMAIN entries
         /\ fundings[f].amount \in OwnerAmount /\ fundings[f].amount \in Nat \ {0}
         /\ fundings[f].cancelled \in BOOLEAN
         /\ fundings[f] \in Funding)'
BY FundingForm, PTL

-----------------------------------------------------------------------------
(* What a step does to the sums.                                           *)

(* Rows are added and marked, but what they name stays.                    *)
Grows ==
    /\ \A i \in DOMAIN entries :
          /\ i \in DOMAIN entries'
          /\ entries'[i].type = entries[i].type
          /\ entries'[i].amount = entries[i].amount
          /\ entries'[i].returns = entries[i].returns
          /\ entries'[i].posted => entries[i].posted
    /\ \A f \in DOMAIN fundings :
          /\ f \in DOMAIN fundings'
          /\ fundings'[f].asset = fundings[f].asset
          /\ fundings'[f].source = fundings[f].source
          /\ fundings'[f].amount = fundings[f].amount
          /\ fundings[f].cancelled => fundings'[f].cancelled
    /\ \A a \in Asset : assets[a].disposed => assets'[a].disposed

\* A row once gone does not come back, and returns stay well-formed.
LEMMA GrowsKeeps ==
    ASSUME Form, Form', Grows
    PROVE  /\ Rows' \cap DOMAIN fundings \subseteq Rows
           /\ Returns \subseteq Returns'
<1>1. Rows' \cap DOMAIN fundings \subseteq Rows
  <2>. SUFFICES ASSUME NEW f \in DOMAIN fundings, f \in Rows' PROVE f \in Rows
      OBVIOUS
  <2>1. fundings[f].asset \in Asset /\ fundings[f].source \in DOMAIN entries
      BY FundingForm
  <2>. QED  BY <2>1 DEF Rows, Grows
<1>2. DOMAIN fundings \subseteq DOMAIN fundings'
    BY DEF Grows
<1>3. Returns \subseteq Returns'
  <2>. SUFFICES ASSUME NEW r \in Returns PROVE r \in Returns'
      OBVIOUS
  <2>1. PICK s \in SUBSET DOMAIN fundings : r \in [s -> OwnerAmount]
      BY DEF Returns
  <2>2. s \in SUBSET DOMAIN fundings'
      BY <1>2
  <2>. QED  BY <2>1, <2>2 DEF Returns
<1>. QED  BY <1>1, <1>3

\* When no row is added, and what remains for a row grows by no more than r
\* gives, then so does what is reserved, altogether and for an asset.
LEMMA LeftGrows ==
    ASSUME Form, Form', Grows, NEW r \in Returns,
           Rows' \subseteq Rows,
           \A f \in Rows : Remaining(f) >= 0,
           \A f \in Rows' : Remaining(f)' <= Remaining(f) + Part(r)[f]
    PROVE  /\ Reserved' <= Reserved + SumFunctionOnSet(Part(r), Rows)
           /\ \A a \in Asset :
                 OnAsset(a)' <= OnAsset(a) + SumFunctionOnSet(Part(r), RowsOf(a))
<1>. DEFINE D == DOMAIN fundings
            l == [f \in D |-> Remaining(f)]
            m == [f \in DOMAIN fundings' |-> Remaining(f)']
            p == Part(r)
            g == [f \in D |-> l[f] + p[f]]
<1>1. /\ \A f \in D : l[f] \in Int /\ l[f] = Remaining(f)
      /\ Reserved = SumFunctionOnSet(l, Rows) /\ Reserved \in Int
      /\ \A a : OnAsset(a) = SumFunctionOnSet(l, RowsOf(a)) /\ OnAsset(a) \in Int
    BY ReservedSum DEF Left
<1>2. /\ \A f \in DOMAIN fundings' : m[f] \in Int /\ m[f] = Remaining(f)'
      /\ Reserved' = SumFunctionOnSet(m, Rows')
      /\ \A a : OnAsset(a)' = SumFunctionOnSet(m, RowsOf(a)')
    BY ReservedNext DEF Left
<1>3. \A f \in D : p[f] \in Nat
    BY PartSum, Finite
<1>4. ASSUME NEW S \in SUBSET D, NEW T \in SUBSET S, T \subseteq Rows',
             S \subseteq Rows, IsFiniteSet(S)
      PROVE  SumFunctionOnSet(m, T) <= SumFunctionOnSet(l, S) + SumFunctionOnSet(p, S)
  <2>1. SumFunctionOnSet(g, S) = SumFunctionOnSet(l, S) + SumFunctionOnSet(p, S)
    <3>1. \A f \in S : l[f] \in Int /\ p[f] \in Int /\ g[f] = l[f] + p[f]
        BY <1>1, <1>3
    <3>. HIDE DEF l, p, g
    <3>. QED  BY <1>4, <3>1, SumPlus
  <2>2. \A f \in S : g[f] \in Int /\ g[f] >= 0
    <3>. TAKE f \in S
    <3>1. l[f] \in Int /\ l[f] >= 0 /\ p[f] \in Nat
        BY <1>1, <1>3, <1>4
    <3>. QED  BY <3>1, <1>4
  <2>3. \A f \in T : m[f] \in Int /\ m[f] <= g[f]
    <3>. TAKE f \in T
    <3>1. f \in Rows' /\ f \in D /\ f \in DOMAIN fundings'
        BY <1>4 DEF Grows
    <3>2. m[f] \in Int /\ m[f] = Remaining(f)' /\ l[f] = Remaining(f)
        BY <1>1, <1>2, <3>1
    <3>. QED  BY <3>1, <3>2
  <2>. HIDE DEF l, m, p, g
  <2>4. SumFunctionOnSet(m, T) <= SumFunctionOnSet(g, S)
      BY <1>4, <2>2, <2>3, SumShrinks
  <2>. QED  BY <2>1, <2>4
<1>5. Reserved' <= Reserved + SumFunctionOnSet(p, Rows)
  <2>1. Rows \in SUBSET D /\ Rows' \in SUBSET Rows /\ IsFiniteSet(Rows)
      BY Finite
  <2>2. SumFunctionOnSet(m, Rows') <= SumFunctionOnSet(l, Rows) + SumFunctionOnSet(p, Rows)
      BY <1>4, <2>1
  <2>. QED  BY <1>1, <1>2, <2>2
<1>6. ASSUME NEW a \in Asset
      PROVE  OnAsset(a)' <= OnAsset(a) + SumFunctionOnSet(p, RowsOf(a))
  <2>1. RowsOf(a) \in SUBSET D /\ RowsOf(a) \subseteq Rows /\ IsFiniteSet(RowsOf(a))
      BY Finite
  <2>2. RowsOf(a)' \in SUBSET RowsOf(a) /\ RowsOf(a)' \subseteq Rows'
      BY Finite DEF RowsOf, Grows
  <2>3. SumFunctionOnSet(m, RowsOf(a)')
           <= SumFunctionOnSet(l, RowsOf(a)) + SumFunctionOnSet(p, RowsOf(a))
      BY <1>4, <2>1, <2>2
  <2>. QED  BY <1>1, <1>2, <2>3
<1>. QED  BY <1>5, <1>6

\* When no row is added and for no row more remains, no more is reserved.
LEMMA LeftShrinks ==
    ASSUME Form, Form', Grows,
           Rows' \subseteq Rows,
           \A f \in Rows : Remaining(f) >= 0,
           \A f \in Rows' : Remaining(f)' <= Remaining(f)
    PROVE  /\ Reserved' <= Reserved
           /\ \A a \in Asset : OnAsset(a)' <= OnAsset(a)
<1>1. Nothing \in Returns /\ DOMAIN Nothing = {}
    BY NothingSum
<1>2. /\ \A f \in DOMAIN fundings : Part(Nothing)[f] = 0
      /\ SumFunctionOnSet(Part(Nothing), Rows) = 0
      /\ \A a : SumFunctionOnSet(Part(Nothing), RowsOf(a)) = 0
  <2>1. \A f \in DOMAIN fundings : Part(Nothing)[f] = 0
      BY <1>1 DEF Part
  <2>. QED  BY <1>1, <2>1, Finite, PartSum
<1>3. \A f \in Rows' : Remaining(f)' <= Remaining(f) + Part(Nothing)[f]
  <2>. TAKE f \in Rows'
  <2>1. f \in DOMAIN fundings /\ Remaining(f) \in Int
      BY Finite, ReservedSum
  <2>. QED  BY <1>2, <2>1
<1>4. /\ Reserved' <= Reserved + SumFunctionOnSet(Part(Nothing), Rows)
      /\ \A a \in Asset :
            OnAsset(a)' <= OnAsset(a) + SumFunctionOnSet(Part(Nothing), RowsOf(a))
    BY <1>1, <1>3, LeftGrows
<1>. QED  BY <1>2, <1>4, ReservedSum

\* What a transaction restores does not grow while others commit.
LEMMA RestShrinks ==
    ASSUME Form, Form', Grows, NEW r \in Returns,
           NEW t, t.returns = r, NEW u, u.returns = r
    PROVE  /\ Rest(u)' <= Rest(t) /\ Rest(u)' \in Nat /\ Rest(t) \in Nat
           /\ \A a \in Asset : /\ Restored(u, a)' <= Restored(t, a)
                               /\ Restored(u, a)' \in Nat
                               /\ Restored(t, a) \in Nat
<1>. DEFINE p == Part(r)
            q == [f \in DOMAIN fundings' |-> IF f \in DOMAIN r THEN r[f] ELSE 0]
<1>0. r \in Returns'
    BY GrowsKeeps
<1>1. /\ \A f \in DOMAIN fundings : p[f] \in Nat
      /\ Rest(t) = SumFunctionOnSet(p, Rows) /\ Rest(t) \in Nat
      /\ \A a : Restored(t, a) = SumFunctionOnSet(p, RowsOf(a)) /\ Restored(t, a) \in Nat
    BY RestSum
<1>2. /\ Rest(u)' = SumFunctionOnSet(q, Rows') /\ Rest(u)' \in Nat
      /\ \A a : Restored(u, a)' = SumFunctionOnSet(q, RowsOf(a)') /\ Restored(u, a)' \in Nat
    BY <1>0, RestNext DEF Part
<1>3. ASSUME NEW S \in SUBSET DOMAIN fundings, IsFiniteSet(S),
             NEW T \in SUBSET DOMAIN fundings', IsFiniteSet(T),
             T \cap DOMAIN fundings \subseteq S
      PROVE  SumFunctionOnSet(q, T) <= SumFunctionOnSet(p, S)
  <2>. DEFINE R == T \cap DOMAIN fundings
  <2>1. R \in SUBSET T /\ R \in SUBSET S
      BY <1>3
  <2>2. DOMAIN r \subseteq DOMAIN fundings /\ \A f \in DOMAIN r : r[f] \in Nat
      BY ReturnsForm
  <2>3. \A f \in T \ R : q[f] = 0
      BY <2>2
  <2>4. \A f \in T : q[f] \in Int
      BY <2>2
  <2>5. \A f \in R : q[f] \in Int /\ q[f] <= p[f]
      BY <2>2 DEF Part
  <2>6. \A f \in S : p[f] \in Int /\ p[f] >= 0
      BY <1>1
  <2>. HIDE DEF R, p, q
  <2>7. SumFunctionOnSet(q, T) = SumFunctionOnSet(q, R)
      BY <1>3, <2>1, <2>3, <2>4, SumWithoutZeros
  <2>8. SumFunctionOnSet(q, R) <= SumFunctionOnSet(p, S)
      BY <1>3, <2>1, <2>5, <2>6, SumShrinks
  <2>. QED  BY <2>7, <2>8
<1>4. /\ Rows \subseteq DOMAIN fundings /\ IsFiniteSet(Rows)
      /\ \A a : RowsOf(a) \subseteq DOMAIN fundings /\ IsFiniteSet(RowsOf(a))
    BY Finite
<1>5. /\ Rows' \subseteq DOMAIN fundings' /\ IsFiniteSet(Rows')
      /\ \A a : RowsOf(a)' \subseteq DOMAIN fundings' /\ IsFiniteSet(RowsOf(a)')
    BY FiniteNext
<1>6. Rest(u)' <= Rest(t)
    BY <1>1, <1>2, <1>3, <1>4, <1>5, GrowsKeeps
<1>7. \A a \in Asset : Restored(u, a)' <= Restored(t, a)
  <2>. TAKE a \in Asset
  <2>1. RowsOf(a)' \cap DOMAIN fundings \subseteq RowsOf(a)
      BY GrowsKeeps DEF RowsOf, Grows
  <2>2. SumFunctionOnSet(q, RowsOf(a)') <= SumFunctionOnSet(p, RowsOf(a))
      BY <1>3, <1>4, <1>5, <2>1
  <2>. QED  BY <1>1, <1>2, <2>2
<1>. QED  BY <1>1, <1>2, <1>6, <1>7

-----------------------------------------------------------------------------
(* The transaction that waits while others commit.                         *)

\* The changes a transaction is computed with have the signs of its kind, and
\* what it gives back it also adds to the capital.
LEMMA ComputedFacts ==
    ASSUME Form, Kinds, NEW t, Computed(t)
    PROVE  /\ t.returns \in Returns /\ t.capital \in Int /\ t.cash \in Int
           /\ Takes(t)["capital"] = -t.capital /\ Takes(t)["cash"] = -t.cash
           /\ Takes(t)["value"] = Total(t.returns) /\ Total(t.returns) \in Nat
           /\ Rest(t) \in Nat /\ Rest(t) <= Total(t.returns)
           /\ \A a : Restored(t, a) \in Nat /\ Restored(t, a) <= Total(t.returns)
           /\ t.capital >= 0 => Total(t.returns) <= t.capital
           /\ t.capital <= 0 => DOMAIN t.returns = {} /\ Total(t.returns) = 0
           /\ t.of # 0 => t.of \in DOMAIN entries
           /\ t.of # 0 /\ entries[t.of].type = "INVESTMENT" =>
                 t.capital = -entries[t.of].amount
<1>1. t.returns \in Returns /\ t.capital \in Int /\ t.cash \in Int
    BY DEF Computed, Waiting
<1>2. /\ Takes(t)["capital"] = -t.capital /\ Takes(t)["cash"] = -t.cash
      /\ Takes(t)["value"] = Total(t.returns)
    BY DEF Takes
<1>3. /\ Total(t.returns) \in Nat
      /\ Rest(t) \in Nat /\ Rest(t) <= Total(t.returns)
      /\ \A a : Restored(t, a) \in Nat /\ Restored(t, a) <= Total(t.returns)
    BY <1>1, RestSum, TotalSum
<1>4. CASE t.of = 0
  <2>1. t.returns = Nothing
      BY <1>4 DEF Computed
  <2>. QED  BY <1>1, <1>2, <1>3, <1>4, <2>1, NothingSum
<1>5. CASE t.of # 0
  <2>. DEFINE e == entries[t.of]
  <2>1. Undoes(t, t.of)
      BY <1>5 DEF Computed
  <2>2. /\ t.of \in DOMAIN entries /\ t.returns = e.returns
        /\ e.type \in Type /\ e.amount \in Nat \ {0}
      BY <2>1, EntryForm DEF Undoes
  <2>3. /\ DOMAIN e.returns # {} => e.type = "CAPITAL_WITHDRAWAL"
        /\ Total(e.returns) <= e.amount
      BY <2>2 DEF Kinds
  <2>4. DOMAIN e.returns = {} => Total(e.returns) = 0
    <3>1. e.returns = [f \in DOMAIN e.returns |-> e.returns[f]]
        BY <1>1, <2>2, ReturnsForm
    <3>2. DOMAIN e.returns = {} => Total(e.returns) = SumFunctionOnSet(e.returns, {})
        BY <3>1 DEF Total, SumFunction
    <3>. QED  BY <3>2, SumEmpty
  <2>5. /\ t.cash = IF e.type \in Incoming THEN -e.amount ELSE e.amount
        /\ t.capital = IF e.type \in OfCapital THEN t.cash ELSE 0
      BY <2>1 DEF Undoes
  <2>6. e.type = "INVESTMENT" => t.capital = -e.amount
      BY <2>5 DEF Incoming, OfCapital
  <2>7. e.type = "CAPITAL_WITHDRAWAL" => t.capital = e.amount
      BY <2>5 DEF Incoming, OfCapital
  <2>. HIDE DEF e
  <2>8. /\ t.capital >= 0 => Total(t.returns) <= t.capital
        /\ t.capital <= 0 => DOMAIN t.returns = {} /\ Total(t.returns) = 0
      BY <1>1, <1>3, <2>2, <2>3, <2>4, <2>7
  <2>. QED  BY <1>1, <1>2, <1>3, <2>2, <2>6, <2>8 DEF e
<1>. QED  BY <1>4, <1>5

\* What a transaction was computed as does not change while it waits.
LEMMA StaysComputed ==
    ASSUME Form, Kinds, Form', Grows,
           NEW w, Computed(w), NEW u, u \in Waiting',
           u.branch = w.branch, u.of = w.of, u.capital = w.capital,
           u.cash = w.cash, u.returns = w.returns, u.reads = w.reads,
           w.missed \subseteq u.missed,
           \A x \in u.missed : Takes(w)[x] > 0
    PROVE  Computed(u)'
<1>1. u.of = 0 \/ Undoes(u, u.of)'
    BY DEF Computed, Undoes, Grows
<1>2. \A x \in u.missed : Takes(u)[x] > 0
    BY DEF Takes, Total
<1>3. u.of = 0 => u.returns = Nothing /\ (u.cash < 0 => "cash" \in u.missed)
    BY DEF Computed, Undoes
<1>4. "capital" \in u.reads => u.capital # 0
    BY DEF Computed
<1>. QED  BY <1>1, <1>2, <1>3, <1>4 DEF Computed, Takes, Total, Nothing

\* A transaction that waits stays safe to write, and has seen what it must,
\* when one commits that does no harm but to what it is noted to have less of.
LEMMA StaysSafe ==
    ASSUME Tables, Tables', Grows, unseen' = unseen,
           NEW w, Computed(w), Safe(w), CapitalSeen(w),
           NEW u, u \in Waiting',
           u.branch = w.branch, u.of = w.of, u.capital = w.capital,
           u.cash = w.cash, u.returns = w.returns, u.reads = w.reads,
           NEW less,
           u.missed = w.missed \cup {x \in less : Takes(w)[x] > 0},
           "capital" \notin less =>
              /\ Rows' \subseteq Rows /\ DOMAIN fundings' = DOMAIN fundings
              /\ Reserved' <= Reserved /\ capital <= capital',
           \/ Reserved' <= capital'
           \/ Reserved' - capital' <= Reserved - capital /\ Reserved' <= Reserved,
           "cash" \notin less => cash <= cash',
           "value" \notin less => \A a \in Asset :
              OnAsset(a)' <= OnAsset(a) /\ assets[a].value <= assets'[a].value
    PROVE  Computed(u)' /\ Safe(u)' /\ CapitalSeen(u)'
<1>. USE DEF Tables
<1>1. /\ w.returns \in Returns /\ w.capital \in Int /\ w.cash \in Int
      /\ Takes(w)["capital"] = -w.capital /\ Takes(w)["cash"] = -w.cash
      /\ Takes(w)["value"] = Total(w.returns) /\ Total(w.returns) \in Nat
      /\ Rest(w) \in Nat /\ Rest(w) <= Total(w.returns)
      /\ \A a : Restored(w, a) \in Nat /\ Restored(w, a) <= Total(w.returns)
      /\ w.capital >= 0 => Total(w.returns) <= w.capital
      /\ w.of # 0 => w.of \in DOMAIN entries
      /\ w.of # 0 /\ entries[w.of].type = "INVESTMENT" =>
            w.capital = -entries[w.of].amount
    BY ComputedFacts
<1>2. Computed(u)'
  <2>1. \A x \in u.missed : Takes(w)[x] > 0
      BY DEF Computed
  <2>2. w.missed \subseteq u.missed
      OBVIOUS
  <2>. QED  BY <2>1, <2>2, StaysComputed
<1>3. /\ Rest(u)' <= Rest(w) /\ Rest(u)' \in Nat
      /\ \A a \in Asset : Restored(u, a)' <= Restored(w, a) /\ Restored(u, a)' \in Nat
    BY <1>1, RestShrinks
<1>4. /\ Reserved \in Int /\ Reserved' \in Int /\ capital \in Int /\ capital' \in Int
      /\ unseen.capital \in Nat /\ unseen.value \in Nat /\ unseen.cash \in Nat
      /\ cash \in Int /\ cash' \in Int
      /\ \A a : OnAsset(a) \in Int /\ OnAsset(a)' \in Int
      /\ \A a \in Asset : assets[a].value \in Nat /\ assets'[a].value \in Nat
    BY ReservedSum, ReservedNext, OwnerFundsConstants DEF Form
<1>5. "capital" \notin u.missed => "capital" \notin w.missed
    OBVIOUS
<1>6. "capital" \notin u.missed /\ w.capital < 0 => "capital" \notin less
    BY <1>1
<1>7. ASSUME "capital" \notin u.missed, u.of # 0 PROVE Unfunded(u.of)'
  <2>. SUFFICES ASSUME entries[w.of].type = "INVESTMENT",
                       NEW f \in DOMAIN fundings', fundings'[f].source = w.of
                PROVE  fundings'[f].cancelled
      BY <1>1, <1>7 DEF Unfunded, Grows
  <2>1. w.capital = -entries[w.of].amount /\ entries[w.of].amount \in Nat \ {0}
      BY <1>1, <1>7, EntryForm
  <2>2. DOMAIN fundings' = DOMAIN fundings
      BY <1>1, <1>6, <1>7, <2>1
  <2>3. fundings[f].source = w.of /\ Unfunded(w.of)
      BY <1>5, <1>7, <2>2 DEF Grows, Safe
  <2>. QED  BY <2>2, <2>3 DEF Unfunded, Grows
<1>8. ASSUME "capital" \notin u.missed, Reserved' + Rest(u)' > 0
      PROVE  Reserved' + Rest(u)' <= capital' + unseen'.capital + u.capital
  <2>1. Reserved + Rest(w) > 0 =>
           Reserved + Rest(w) <= capital + unseen.capital + w.capital
      BY <1>5, <1>8 DEF Safe
  <2>2. CASE w.capital < 0
    <3>1. Reserved' <= Reserved /\ capital <= capital'
        BY <1>6, <1>8, <2>2
    <3>. QED  BY <1>1, <1>3, <1>4, <1>8, <2>1, <3>1
  <2>3. CASE w.capital >= 0 /\ Reserved' <= capital'
      BY <1>1, <1>3, <1>4, <2>3
  <2>4. CASE /\ Reserved' - capital' <= Reserved - capital
             /\ Reserved' <= Reserved
    <3>1. Reserved + Rest(w) > 0 /\ Rest(u)' <= Rest(w)
        BY <1>1, <1>3, <1>4, <1>8, <2>4
    <3>2. unseen'.capital = unseen.capital /\ u.capital = w.capital
        OBVIOUS
    <3>3. Reserved + Rest(w) <= capital + unseen.capital + w.capital
        BY <2>1, <3>1
    <3>4. /\ Rest(w) \in Int /\ Rest(u)' \in Int /\ w.capital \in Int
          /\ unseen.capital \in Int
        BY <1>1, <1>3, <1>4
    <3>5. Reserved' - capital' + Rest(u)' <= Reserved - capital + Rest(w)
        BY <1>4, <2>4, <3>1, <3>4
    <3>. QED  BY <1>4, <3>2, <3>3, <3>4, <3>5
  <2>. QED  BY <1>1, <2>2, <2>3, <2>4
<1>9. ASSUME "cash" \notin u.missed, u.cash < 0
      PROVE  cash' + unseen'.cash + u.cash >= 0
  <2>1. "cash" \notin w.missed /\ "cash" \notin less
      BY <1>1, <1>9
  <2>2. cash + unseen.cash + w.cash >= 0
      BY <1>9, <2>1 DEF Safe
  <2>. QED  BY <1>1, <1>4, <2>1, <2>2
<1>10. ASSUME "value" \notin u.missed, NEW a \in Asset
       PROVE  OnAsset(a)' + Restored(u, a)' <= assets'[a].value + unseen'.value
  <2>1. OnAsset(a) + Restored(w, a) <= assets[a].value + unseen.value
      BY <1>10 DEF Safe
  <2>2. OnAsset(a)' <= assets'[a].value + unseen'.value
      BY DEF AssetsCovered
  <2>3. CASE "value" \in less
    <3>1. Total(w.returns) = 0
        BY <1>1, <1>10, <2>3
    <3>2. Restored(w, a) \in Nat /\ Restored(w, a) <= Total(w.returns)
        BY <1>1
    <3>3. Restored(u, a)' \in Nat /\ Restored(u, a)' <= Restored(w, a)
        BY <1>3
    <3>4. Restored(u, a)' = 0
        BY <3>1, <3>2, <3>3
    <3>. QED  BY <1>4, <2>2, <3>4
  <2>4. CASE "value" \notin less
    <3>1. OnAsset(a)' <= OnAsset(a) /\ assets[a].value <= assets'[a].value
        BY <2>4
    <3>2. Restored(u, a)' \in Nat /\ Restored(u, a)' <= Restored(w, a)
        BY <1>3
    <3>3. Restored(w, a) \in Nat /\ OnAsset(a) \in Int /\ OnAsset(a)' \in Int
          /\ assets[a].value \in Nat /\ assets'[a].value \in Nat
        BY <1>1, <1>4
    <3>. QED  BY <1>4, <2>1, <3>1, <3>2, <3>3
  <2>. QED  BY <2>3, <2>4
<1>11. Safe(u)'
    BY <1>7, <1>8, <1>9, <1>10 DEF Safe
<1>12. CapitalSeen(u)'
  <2>1. ASSUME u.capital < 0, Rows' # {}, "capital" \notin u.missed
        PROVE  "capital" \in u.reads
      BY <1>1, <1>5, <1>6, <2>1 DEF CapitalSeen
  <2>2. ASSUME Rows' \cap DOMAIN u.returns # {} PROVE "capital" \in u.reads
    <3>1. DOMAIN w.returns \subseteq DOMAIN fundings
        BY <1>1, ReturnsForm
    <3>2. Rows \cap DOMAIN w.returns # {}
        BY <2>2, <3>1, GrowsKeeps
    <3>. QED  BY <3>2 DEF CapitalSeen
  <2>3. u.cash < 0 /\ "cash" \notin u.missed => "cash" \in u.reads
      BY DEF CapitalSeen
  <2>. QED  BY <2>1, <2>2, <2>3 DEF CapitalSeen
<1>. QED  BY <1>2, <1>11, <1>12

\* The invariant is kept by a READ COMMITTED transaction that keeps that of
\* the tables, and does harm only to what it is noted to leave less of.
LEMMA Passing ==
    ASSUME FundsIInv, Tables', Grows, unseen' = unseen,
           NEW less \in SUBSET {"capital", "cash", "value"},
           NEW branches,
           Pass(branches, less) \/ (waiting' = waiting /\ less = {}),
           "capital" \notin less =>
              /\ Rows' \subseteq Rows /\ DOMAIN fundings' = DOMAIN fundings
              /\ Reserved' <= Reserved /\ capital <= capital',
           \/ Reserved' <= capital'
           \/ Reserved' - capital' <= Reserved - capital /\ Reserved' <= Reserved,
           "cash" \notin less => cash <= cash',
           "value" \notin less => \A a \in Asset :
              OnAsset(a)' <= OnAsset(a) /\ assets[a].value <= assets'[a].value
    PROVE  FundsIInv'
<1>1. ASSUME NEW u \in waiting'
      PROVE  \E w \in waiting :
                /\ u \in Waiting'
                /\ u.branch = w.branch /\ u.of = w.of /\ u.capital = w.capital
                /\ u.cash = w.cash /\ u.returns = w.returns /\ u.reads = w.reads
                /\ u.missed = w.missed \cup {x \in less : Takes(w)[x] > 0}
                /\ u = [w EXCEPT !.missed = @ \cup {x \in less : Takes(w)[x] > 0}]
  <2>1. PICK w \in waiting :
           u = [w EXCEPT !.missed = @ \cup {x \in less : Takes(w)[x] > 0}]
    <3>1. CASE Pass(branches, less)
        BY <3>1 DEF Pass
    <3>2. CASE waiting' = waiting /\ less = {}
      <4>1. u \in waiting /\ u \in Waiting
          BY <3>2 DEF FundsIInv, Computed
      <4>2. u = [u EXCEPT !.missed = @ \cup {x \in less : Takes(u)[x] > 0}]
          BY <3>2, <4>1 DEF Waiting
      <4>. QED  BY <4>1, <4>2
    <3>. QED  BY <3>1, <3>2
  <2>2. w \in Waiting
      BY DEF FundsIInv, Computed
  <2>3. {x \in less : Takes(w)[x] > 0} \in SUBSET {"capital", "cash", "value"}
      OBVIOUS
  <2>4. Returns \subseteq Returns'
      BY GrowsKeeps DEF FundsIInv, Tables
  <2>. DEFINE more == {x \in less : Takes(w)[x] > 0}
  <2>5. /\ u \in Waiting
        /\ u.branch = w.branch /\ u.of = w.of /\ u.capital = w.capital
        /\ u.cash = w.cash /\ u.returns = w.returns /\ u.reads = w.reads
        /\ u.missed = w.missed \cup more
    <3>. HIDE DEF more
    <3>. QED  BY <2>1, <2>2, <2>3 DEF Waiting, more
  <2>6. u \in Waiting'
      BY <2>4, <2>5 DEF Waiting
  <2>. QED  BY <2>1, <2>5, <2>6
<1>2. ASSUME NEW u \in waiting' PROVE Computed(u)' /\ Safe(u)' /\ CapitalSeen(u)'
  <2>1. PICK w \in waiting :
                /\ u \in Waiting'
                /\ u.branch = w.branch /\ u.of = w.of /\ u.capital = w.capital
                /\ u.cash = w.cash /\ u.returns = w.returns /\ u.reads = w.reads
                /\ u.missed = w.missed \cup {x \in less : Takes(w)[x] > 0}
      BY <1>1
  <2>2. Tables /\ Computed(w) /\ Safe(w) /\ CapitalSeen(w)
      BY DEF FundsIInv
  <2>. QED  BY <2>1, <2>2, StaysSafe
<1>3. OneWaits'
  <2>. SUFFICES ASSUME NEW t \in waiting', NEW u \in waiting' PROVE t = u
      BY DEF OneWaits
  <2>1. PICK v \in waiting :
           t = [v EXCEPT !.missed = @ \cup {x \in less : Takes(v)[x] > 0}]
      BY <1>1
  <2>2. PICK w \in waiting :
           u = [w EXCEPT !.missed = @ \cup {x \in less : Takes(w)[x] > 0}]
      BY <1>1
  <2>3. v = w
      BY DEF FundsIInv, OneWaits
  <2>. QED  BY <2>1, <2>2, <2>3
<1>. QED  BY <1>2, <1>3 DEF FundsIInv

-----------------------------------------------------------------------------
(* What a step does to the columns of the tables.                          *)

\* A row is added at the end.
LEMMA AppendRow ==
    ASSUME NEW S, NEW s \in Seq(S), NEW e
    PROVE  /\ DOMAIN s = 1..Len(s) /\ Len(s) \in Nat
           /\ DOMAIN Append(s, e) = 1..(Len(s) + 1)
           /\ Append(s, e)[Len(s) + 1] = e
           /\ \A i \in 1..Len(s) : Append(s, e)[i] = s[i]
OBVIOUS

\* An entry more gives back what it names.
LEMMA ReturnedAppend ==
    ASSUME Form, Form', NEW e, e.posted = TRUE,
           entries' = Append(entries, e)
    PROVE  \A f : Returned(f)' = Returned(f)
              + (IF f \in DOMAIN e.returns THEN e.returns[f] ELSE 0)
<1>. TAKE f
<1>. DEFINE n == Len(entries) + 1
            D == DOMAIN entries
            p == Paid(f)
            q == [i \in DOMAIN entries' |->
                     IF entries'[i].posted
                     THEN IF f \in DOMAIN entries'[i].returns
                          THEN entries'[i].returns[f] ELSE 0
                     ELSE 0]
<1>1. /\ \A i \in D : p[i] \in Nat
      /\ Returned(f) = SumFunctionOnSet(p, D) /\ Returned(f) \in Nat
    BY ReturnedSum
<1>2. /\ \A i \in DOMAIN entries' : q[i] \in Nat
      /\ Returned(f)' = SumFunctionOnSet(q, DOMAIN entries')
  <2>1. /\ \A i \in DOMAIN entries' :
              ReturnOf(i, f)' \in Nat /\ Paid(f)'[i] \in Nat
        /\ Returned(f)' = SumFunctionOnSet(Paid(f)', DOMAIN entries')
      BY ReturnedNext
  <2>2. Paid(f)' = q
      BY DEF Paid, ReturnOf
  <2>. QED  BY <2>1, <2>2
<1>3. /\ n \in DOMAIN entries' /\ D = DOMAIN entries' \ {n} /\ n \notin D
      /\ D \in SUBSET DOMAIN entries' /\ DOMAIN entries' = D \cup {n}
      /\ entries'[n] = e /\ \A i \in D : entries'[i] = entries[i]
  <2>1. entries \in Seq(Entry)
      BY DEF Form
  <2>2. /\ DOMAIN entries = 1..Len(entries) /\ Len(entries) \in Nat
        /\ DOMAIN entries' = 1..(Len(entries) + 1)
        /\ entries'[Len(entries) + 1] = e
        /\ \A i \in 1..Len(entries) : entries'[i] = entries[i]
      BY <2>1, AppendRow
  <2>3. entries'[n] = e /\ \A i \in D : entries'[i] = entries[i]
      BY <2>2
  <2>4. n \notin D /\ DOMAIN entries' = D \cup {n}
      BY <2>2
  <2>. QED  BY <2>3, <2>4
<1>4. \A i \in D : q[i] = p[i]
    BY <1>3 DEF Paid, ReturnOf
<1>5. q[n] = IF f \in DOMAIN e.returns THEN e.returns[f] ELSE 0
    BY <1>3
<1>6. IsFiniteSet(D) /\ IsFiniteSet(DOMAIN entries')
    BY Finite, FiniteNext
<1>7. SumFunctionOnSet(q, D) = SumFunctionOnSet(p, D)
  <2>. HIDE DEF p, q, D
  <2>. QED  BY <1>4, <1>6, SumSame
<1>8. SumFunctionOnSet(q, DOMAIN entries') = SumFunctionOnSet(q, D) + q[n]
  <2>1. \A i \in DOMAIN entries' : q[i] \in Int
      BY <1>2
  <2>. DEFINE E == DOMAIN entries'
  <2>2. /\ IsFiniteSet(E) /\ \A i \in E : q[i] \in Int
        /\ D \in SUBSET E /\ n \in E /\ n \notin D /\ E = D \cup {n}
      BY <1>3, <1>6, <2>1
  <2>. HIDE DEF q, D, n, E
  <2>3. SumFunctionOnSet(q, D \cup {n}) = SumFunctionOnSet(q, D) + q[n]
      BY <2>2, SumAdd
  <2>4. E = DOMAIN entries'
      BY DEF E
  <2>. QED  BY <2>2, <2>3, <2>4
<1>. QED  BY <1>1, <1>2, <1>5, <1>7, <1>8

\* When entries keep their returns and one of them may be taken back, what
\* that gave is given no longer.
LEMMA ReturnedUndone ==
    ASSUME Form, Form', NEW k,
           DOMAIN entries' = DOMAIN entries,
           \A i \in DOMAIN entries :
              /\ entries'[i].returns = entries[i].returns
              /\ entries'[i].posted = (entries[i].posted /\ i # k),
           k \in DOMAIN entries => entries[k].posted
    PROVE  \A f : Returned(f)' = Returned(f)
              - (IF k \in DOMAIN entries THEN ReturnOf(k, f) ELSE 0)
<1>. TAKE f
<1>. DEFINE D == DOMAIN entries
            p == Paid(f)
            q == [i \in D |-> IF i = k THEN 0 ELSE p[i]]
<1>1. /\ \A i \in D : p[i] \in Nat /\ ReturnOf(i, f) \in Nat
      /\ Returned(f) = SumFunctionOnSet(p, D) /\ Returned(f) \in Nat
    BY ReturnedSum
<1>2. Returned(f)' = SumFunctionOnSet(q, D) /\ Returned(f)' \in Nat
  <2>1. /\ Returned(f)' = SumFunctionOnSet(Paid(f)', DOMAIN entries')
        /\ Returned(f)' \in Nat
      BY ReturnedNext
  <2>2. Paid(f)' = q
      BY DEF Paid, ReturnOf
  <2>. QED  BY <2>1, <2>2
<1>3. IsFiniteSet(D)
    BY Finite
<1>4. CASE k \notin D
  <2>1. \A i \in D : q[i] = p[i]
      BY <1>4
  <2>2. SumFunctionOnSet(q, D) = SumFunctionOnSet(p, D)
    <3>. HIDE DEF p, q, D
    <3>. QED  BY <1>3, <2>1, SumSame
  <2>. QED  BY <1>1, <1>2, <1>4, <2>2
<1>5. CASE k \in D
  <2>1. /\ \A i \in D : p[i] \in Int
        /\ \A i \in D : q[i] \in Int
        /\ \A i \in D : i # k => p[i] = q[i]
      BY <1>1
  <2>2. q[k] = 0 /\ p[k] = ReturnOf(k, f)
      BY <1>5 DEF Paid
  <2>3. SumFunctionOnSet(q, D) = SumFunctionOnSet(p, D) + (q[k] - p[k])
    <3>. HIDE DEF p, q, D
    <3>. QED  BY ONLY <1>3, <1>5, <2>1, SumChange
  <2>. QED  BY <1>1, <1>2, <1>5, <2>2, <2>3
<1>. QED  BY <1>4, <1>5

\* No row more, nothing more paid for from a source.
LEMMA UsedShrinks ==
    ASSUME Form, Form', Grows, Rows' \subseteq Rows
    PROVE  \A i : SourceUsed(i)' <= SourceUsed(i)
<1>. TAKE i
<1>. DEFINE A == RowsFrom(i)
            B == RowsFrom(i)'
            f == [x \in A |-> fundings[x].amount]
            g == [x \in B |-> fundings'[x].amount]
<1>1. SourceUsed(i) = SumFunctionOnSet(f, A) /\ SourceUsed(i)' = SumFunctionOnSet(g, B)
    BY DEF SourceUsed, SumFunction
<1>2. IsFiniteSet(A) /\ A \subseteq DOMAIN fundings /\ B \in SUBSET A
    BY Finite DEF RowsFrom, Grows
<1>3. /\ \A x \in B : g[x] \in Int /\ g[x] <= f[x]
      /\ \A x \in A : f[x] \in Int /\ f[x] >= 0
    BY <1>2, FundingForm DEF Grows
<1>. HIDE DEF A, B, f, g
<1>. QED  BY <1>1, <1>2, <1>3, SumShrinks

\* what contributions that were taken back still pay for
Owed == SumFunction([i \in Unbacked |-> entries[i].amount])

\* When contributions are taken back that still pay for something, what those
\* pay for grows by no more than their amounts.
LEMMA UnbackedGrows ==
    ASSUME Form, Form', Grows,
           NEW S \in SUBSET DOMAIN entries, IsFiniteSet(S),
           Unbacked' \subseteq Unbacked \cup S
    PROVE  Owed' <= Owed
              + SumFunctionOnSet([i \in DOMAIN entries |-> entries[i].amount], S)
<1>. DEFINE D == DOMAIN entries
            h == [i \in D |-> entries[i].amount]
            g == [i \in Unbacked' |-> entries'[i].amount]
            f == [i \in Unbacked |-> entries[i].amount]
            A == Unbacked
            B == Unbacked'
            R == S \ A
<1>1. A \subseteq D /\ B \subseteq D /\ \A i \in D : h[i] \in Nat /\ entries'[i].amount = h[i]
    BY EntryForm DEF Unbacked, Grows
<1>2. Owed' = SumFunctionOnSet(g, B) /\ Owed = SumFunctionOnSet(f, A)
    BY DEF SumFunction, Owed
<1>3. /\ \A i \in B : g[i] = h[i] /\ g[i] \in Int
      /\ \A i \in A : f[i] = h[i]
    BY <1>1
<1>4. IsFiniteSet(D) /\ IsFiniteSet(A) /\ IsFiniteSet(A \cup S) /\ IsFiniteSet(R)
    BY <1>1, Finite, FS_Subset
<1>. HIDE DEF A, B, D, f, g, h
<1>5. SumFunctionOnSet(f, A) = SumFunctionOnSet(h, A)
    BY <1>3, <1>4, SumSame
<1>6. SumFunctionOnSet(g, B) <= SumFunctionOnSet(h, A \cup S)
  <2>1. B \in SUBSET (A \cup S)
      BY DEF A, B
  <2>2. \A i \in B : g[i] \in Int /\ g[i] <= h[i]
      BY <1>1, <1>3
  <2>3. \A i \in A \cup S : h[i] \in Int /\ h[i] >= 0
      BY <1>1 DEF D
  <2>. QED  BY <1>4, <2>1, <2>2, <2>3, SumShrinks
<1>7. SumFunctionOnSet(h, A \cup S) = SumFunctionOnSet(h, A) + SumFunctionOnSet(h, R)
  <2>1. (A \cup S) \ A = R /\ A \in SUBSET (A \cup S)
      OBVIOUS
  <2>2. \A i \in A \cup S : h[i] \in Int
      BY <1>1 DEF D
  <2>. HIDE DEF R
  <2>. QED  BY <1>4, <2>1, <2>2, SumUnion
<1>8. SumFunctionOnSet(h, R) <= SumFunctionOnSet(h, S)
  <2>1. \A i \in S : h[i] \in Int /\ h[i] >= 0 /\ h[i] <= h[i]
      BY <1>1 DEF D
  <2>2. R \in SUBSET S
      OBVIOUS
  <2>3. \A i \in R : h[i] \in Int /\ h[i] <= h[i]
      BY <2>1
  <2>. HIDE DEF R
  <2>. QED  BY <2>1, <2>2, <2>3, SumShrinks
<1>9. /\ SumFunctionOnSet(h, A) \in Int /\ SumFunctionOnSet(h, R) \in Int
      /\ SumFunctionOnSet(h, S) \in Int /\ SumFunctionOnSet(g, B) \in Int
      /\ SumFunctionOnSet(h, A \cup S) \in Int
  <2>1. \A i \in A \cup S : h[i] \in Int
      BY <1>1 DEF D
  <2>2. IsFiniteSet(B)
    <3>1. B \subseteq A \cup S
        BY DEF A, B
    <3>. QED  BY <1>4, <3>1, FS_Subset
  <2>. QED  BY <1>3, <1>4, <2>1, <2>2, SumInt
<1>. QED  BY <1>2, <1>5, <1>6, <1>7, <1>8, <1>9 DEF D, f, g, h

\* The amounts of contributions are numbers, and so is their sum.
LEMMA OwedSum ==
    Form => Owed \in Int
<1>. DEFINE f == [i \in Unbacked |-> entries[i].amount]
<1>. SUFFICES ASSUME Form PROVE Owed \in Int
    OBVIOUS
<1>1. /\ IsFiniteSet(Unbacked) /\ \A i \in Unbacked : f[i] \in Int
      /\ Owed = SumFunctionOnSet(f, Unbacked)
    BY Finite, FS_Subset, EntryForm DEF Unbacked, SumFunction, Owed
<1>. HIDE DEF f
<1>. QED  BY <1>1, SumInt

\* The same, of the next state.
LEMMA OwedNext ==
    (Form => Owed \in Int)'
BY OwedSum, PTL

\* When no more of them are, what they pay for does not grow.
LEMMA UnbackedShrinks ==
    ASSUME Form, Form', Grows, Unbacked' \subseteq Unbacked
    PROVE  Owed' <= Owed /\ Owed \in Int /\ Owed' \in Int
<1>. DEFINE h == [i \in DOMAIN entries |-> entries[i].amount]
<1>1. {} \in SUBSET DOMAIN entries /\ IsFiniteSet({}) /\ Unbacked' \subseteq Unbacked \cup {}
    BY FS_EmptySet
<1>2. Owed' <= Owed + SumFunctionOnSet(h, {})
    BY <1>1, UnbackedGrows
<1>3. SumFunctionOnSet(h, {}) = 0
    BY SumEmpty
<1>. QED  BY <1>2, <1>3, OwedSum, OwedNext

\* An asset is covered after a step when it is by what is unseen then, and no
\* contribution is taken back that pays for something.
LEMMA StaysCovered ==
    ASSUME Form, Form', Grows, AssetsCovered, Unbacked' \subseteq Unbacked,
           unseen.capital <= unseen'.capital,
           \A a \in Asset : OnAsset(a)' <= assets'[a].value + unseen'.value
    PROVE  AssetsCovered'
<1>1. Owed' <= Owed /\ Owed \in Int /\ Owed' \in Int
    BY UnbackedShrinks
<1>2. Owed <= unseen.capital
    BY DEF AssetsCovered, Owed
<1>3. unseen.capital \in Int /\ unseen'.capital \in Int
    BY Numbers, NumbersNext
<1>4. Owed' <= unseen'.capital
    BY <1>1, <1>2, <1>3
<1>. QED  BY <1>4 DEF AssetsCovered, Owed

\* A sequence over a set is one over a larger set.
LEMMA Wider ==
    ASSUME NEW S, NEW T, S \subseteq T, NEW s \in Seq(S)
    PROVE  s \in Seq(T)
<1>1. \A i \in 1..Len(s) : s[i] \in T
    OBVIOUS
<1>2. s = [i \in 1..Len(s) |-> s[i]] /\ Len(s) \in Nat
    OBVIOUS
<1>. QED  BY <1>1, <1>2

\* An entry more keeps the tables, and what it gives back is not reserved
\* any more.
LEMMA AppendEntry ==
    ASSUME Tables, NEW e \in Entry, e.posted = TRUE,
           entries' = Append(entries, e),
           UNCHANGED <<assets, fundings, unseen>>,
           capital' \in Int, cash' \in Int,
           DOMAIN e.returns # {} => e.type = "CAPITAL_WITHDRAWAL",
           Total(e.returns) <= e.amount,
           \A f \in DOMAIN e.returns :
              f \in Rows /\ e.returns[f] <= Remaining(f)
    PROVE  /\ Form' /\ Grows /\ Kinds' /\ Given' /\ AssetsCovered'
           /\ Rows' = Rows
           /\ Reserved' = Reserved - Total(e.returns)
           /\ \A a \in Asset : OnAsset(a)' <= OnAsset(a)
<1>. USE DEF Tables
<1>. DEFINE n == Len(entries) + 1
            r == e.returns
<1>1. /\ e.returns \in Returns /\ e.type \in Type /\ e.amount \in Nat \ {0}
      /\ Returns' = Returns
    BY OwnerFundsConstants DEF Entry, Returns
<1>2. /\ n \in DOMAIN entries' /\ n \notin DOMAIN entries
      /\ DOMAIN entries' = DOMAIN entries \cup {n}
      /\ entries'[n] = e /\ \A i \in DOMAIN entries : entries'[i] = entries[i]
  <2>1. entries \in Seq(Entry)
      BY DEF Form
  <2>2. /\ DOMAIN entries = 1..Len(entries) /\ Len(entries) \in Nat
        /\ DOMAIN entries' = 1..(Len(entries) + 1)
        /\ entries'[Len(entries) + 1] = e
        /\ \A i \in 1..Len(entries) : entries'[i] = entries[i]
      BY <2>1, AppendRow
  <2>3. entries'[n] = e /\ \A i \in DOMAIN entries : entries'[i] = entries[i]
      BY <2>2
  <2>4. n \notin DOMAIN entries /\ DOMAIN entries' = DOMAIN entries \cup {n}
      BY <2>2
  <2>. QED  BY <2>3, <2>4
<1>3. Form'
  <2>1. Entry' = Entry
      BY <1>1 DEF Entry
  <2>2. entries' \in Seq(Entry)
      BY DEF Form
  <2>3. Funding \subseteq Funding'
    <3>1. DOMAIN entries \subseteq DOMAIN entries'
        BY <1>2
    <3>. QED  BY <3>1 DEF Funding
  <2>4. fundings' \in Seq(Funding')
    <3>1. fundings \in Seq(Funding)
        BY DEF Form
    <3>2. fundings \in Seq(Funding')
        BY <2>3, <3>1, Wider
    <3>. QED  BY <3>2
  <2>. QED  BY <2>1, <2>2, <2>4 DEF Form
<1>4. Grows
    BY <1>2 DEF Grows
<1>5. Rows' = Rows
  <2>1. \A f \in DOMAIN fundings : fundings[f].source \in DOMAIN entries
      BY FundingForm
  <2>. QED  BY <1>2, <2>1 DEF Rows
<1>6. \A f : /\ Returned(f)' = Returned(f) + (IF f \in DOMAIN r THEN r[f] ELSE 0)
             /\ Returned(f) \in Nat /\ (f \in DOMAIN r => r[f] \in Nat)
  <2>1. \A f : Returned(f)' = Returned(f) + (IF f \in DOMAIN r THEN r[f] ELSE 0)
      BY <1>3, ReturnedAppend
  <2>. QED  BY <1>1, <2>1, ReturnedSum, ReturnsForm
<1>7. \A f \in DOMAIN fundings :
         /\ Remaining(f)' = Remaining(f) - Part(r)[f]
         /\ Remaining(f) \in Int /\ Part(r)[f] \in Nat /\ Remaining(f)' \in Int
  <2>. TAKE f \in DOMAIN fundings
  <2>1. fundings'[f].amount = fundings[f].amount /\ fundings[f].amount \in Nat
      BY FundingForm
  <2>2. Remaining(f)' = fundings[f].amount - Returned(f)'
      BY <2>1 DEF Remaining
  <2>3. Remaining(f) = fundings[f].amount - Returned(f)
      BY DEF Remaining
  <2>4. Part(r)[f] = IF f \in DOMAIN r THEN r[f] ELSE 0
      BY DEF Part
  <2>. HIDE DEF r
  <2>. QED  BY <1>6, <2>1, <2>2, <2>3, <2>4
<1>8. Reserved' = Reserved - Total(r)
  <2>. DEFINE l == Left
              p == Part(r)
              m == [f \in DOMAIN fundings' |-> Remaining(f)']
  <2>1. /\ Reserved' = SumFunctionOnSet(m, Rows)
        /\ Reserved = SumFunctionOnSet(l, Rows) /\ Reserved \in Int
        /\ Reserved' \in Int
      BY <1>3, <1>5, ReservedSum, ReservedNext DEF Left
  <2>2. \A f \in Rows : m[f] \in Int /\ p[f] \in Int /\ l[f] = m[f] + p[f]
      BY <1>7, Finite DEF Left
  <2>3. IsFiniteSet(Rows)
      BY Finite
  <2>4. SumFunctionOnSet(l, Rows) = SumFunctionOnSet(m, Rows) + SumFunctionOnSet(p, Rows)
    <3>. HIDE DEF l, m, p
    <3>. QED  BY ONLY <2>2, <2>3, SumPlus
  <2>5. Total(r) = SumFunctionOnSet(p, Rows) /\ Total(r) \in Nat
      BY <1>1, TotalSum, RestSum
  <2>. QED  BY <2>1, <2>4, <2>5
<1>9. Reserved' <= Reserved /\ \A a \in Asset : OnAsset(a)' <= OnAsset(a)
  <2>1. \A f \in Rows : Remaining(f) >= 0
    <3>1. \A f \in DOMAIN fundings : Returned(f) \in 0..fundings[f].amount
        BY DEF Given
    <3>. QED  BY <3>1, Finite, FundingForm DEF Remaining
  <2>2. \A f \in Rows' : Remaining(f)' <= Remaining(f)
      BY <1>5, <1>7, Finite
  <2>. QED  BY <1>3, <1>4, <1>5, <2>1, <2>2, LeftShrinks
<1>10. Kinds'
  <2>1. \A f \in DOMAIN fundings : fundings[f].source \in DOMAIN entries
      BY FundingForm
  <2>2. \A i \in DOMAIN entries' :
          /\ DOMAIN entries'[i].returns # {} =>
                entries'[i].type = "CAPITAL_WITHDRAWAL"
          /\ Total(entries'[i].returns) <= entries'[i].amount
      BY <1>2 DEF Kinds
  <2>. QED  BY <1>2, <2>1, <2>2 DEF Kinds, Total
<1>11. Given'
  <2>1. ASSUME NEW f \in DOMAIN fundings
        PROVE  /\ Returned(f)' \in 0..fundings[f].amount
               /\ fundings[f].cancelled => Returned(f)' = 0
    <3>1. /\ Returned(f) \in 0..fundings[f].amount
          /\ fundings[f].cancelled => Returned(f) = 0
        BY DEF Given
    <3>2. f \in DOMAIN r => /\ r[f] <= fundings[f].amount - Returned(f)
                            /\ ~fundings[f].cancelled
        BY DEF Remaining, Rows
    <3>3. fundings[f].amount \in Nat
        BY FundingForm
    <3>. HIDE DEF r
    <3>. QED  BY <1>6, <3>1, <3>2, <3>3
  <2>2. ASSUME NEW i \in DOMAIN entries'
        PROVE  SourceUsed(i)' <= entries'[i].amount
    <3>1. CASE i \in DOMAIN entries
      <4>1. SourceUsed(i) <= entries[i].amount /\ SourceUsed(i)' <= SourceUsed(i)
          BY <1>3, <1>4, <1>5, <3>1, UsedShrinks DEF Given
      <4>2. SourceUsed(i) \in Int /\ SourceUsed(i)' \in Int
        <5>1. ASSUME NEW S, NEW h, S \subseteq DOMAIN fundings, IsFiniteSet(S),
                     h = [f \in S |-> fundings[f].amount]
              PROVE  SumFunction(h) \in Int
          <6>1. \A f \in S : h[f] \in Int
              BY <5>1, FundingForm
          <6>2. SumFunction(h) = SumFunctionOnSet(h, S)
              BY <5>1 DEF SumFunction
          <6>. QED  BY <5>1, <6>1, <6>2, SumInt
        <5>2. RowsFrom(i)' = RowsFrom(i)
            BY <1>5 DEF RowsFrom
        <5>. QED  BY <5>1, <5>2, Finite DEF SourceUsed
      <4>3. entries'[i].amount = entries[i].amount /\ entries[i].amount \in Nat
          BY <1>2, <3>1, EntryForm
      <4>. QED  BY <4>1, <4>2, <4>3
    <3>2. CASE i = n
      <4>1. RowsFrom(i)' = {}
        <5>1. \A f \in Rows : fundings[f].source \in DOMAIN entries
            BY Finite, FundingForm
        <5>. QED  BY <1>2, <1>5, <3>2, <5>1 DEF RowsFrom
      <4>2. SourceUsed(i)' = 0
        <5>1. SourceUsed(i)' = SumFunctionOnSet([f \in {} |-> fundings'[f].amount], {})
            BY <4>1 DEF SourceUsed, SumFunction
        <5>. QED  BY <5>1, SumEmpty
      <4>. QED  BY <1>1, <1>2, <3>2, <4>2
    <3>. QED  BY <1>2, <3>1, <3>2
  <2>. QED  BY <2>1, <2>2 DEF Given
<1>12. AssetsCovered'
  <2>1. Unbacked' \subseteq Unbacked
      BY <1>2 DEF Unbacked, Standing
  <2>2. \A a \in Asset : OnAsset(a) <= assets[a].value + unseen.value
      BY DEF AssetsCovered
  <2>3. unseen' = unseen /\ assets' = assets
      OBVIOUS
  <2>4. \A a \in Asset : OnAsset(a) \in Int /\ OnAsset(a)' \in Int
      BY <1>3, ReservedSum, ReservedNext
  <2>5. \A a \in Asset : OnAsset(a)' <= assets'[a].value + unseen'.value
      BY <1>9, <2>2, <2>3, <2>4, Numbers
  <2>. QED  BY <1>3, <1>4, <2>1, <2>3, <2>5, Numbers, StaysCovered
<1>. QED  BY <1>3, <1>4, <1>5, <1>8, <1>9, <1>10, <1>11, <1>12

-----------------------------------------------------------------------------
(* The steps of READ COMMITTED transactions.                               *)

\* The reserved capital stays in the capital when it is checked to be, and
\* when it shrinks with what the capital loses.
LEMMA StillReserved ==
    ASSUME NEW r \in Int, NEW c \in Int, NEW s \in Int, NEW d \in Int,
           NEW l \in Nat, r > 0 => r <= c + l,
           s <= d \/ (s - d <= r - c /\ s <= r)
    PROVE  s > 0 => s <= d + l
OBVIOUS

\* What is free grows with what the reserved capital loses.
LEMMA SameCapital ==
    ASSUME NEW r \in Int, NEW s \in Int, NEW c \in Int, s <= r
    PROVE  s - c <= r - c
OBVIOUS

\* An owner pays in: nothing is given back, and both accounts grow.
LEMMA PayInKeeps ==
    ASSUME FundsIInv, NEW type, NEW b \in Branch, NEW n \in OwnerAmount,
           PayIn(type, b, n)
    PROVE  FundsIInv'
<1>. DEFINE e == [type |-> type, branch |-> b, amount |-> n,
                  returns |-> Nothing, posted |-> TRUE]
<1>1. Tables
    BY DEF FundsIInv
<1>2. n \in Nat \ {0} /\ type \in Type
    BY OwnerFundsConstants DEF PayIn, Type
<1>3. e \in Entry /\ e.returns = Nothing /\ e.amount = n
    BY <1>2, NothingSum DEF Entry
<1>4. capital \in Int /\ cash \in Int /\ unseen.capital \in Nat /\ unseen.cash \in Nat
    BY <1>1, Numbers DEF Tables
<1>5. /\ capital' \in Int /\ capital <= capital'
      /\ cash' \in Int /\ cash <= cash'
    BY <1>2, <1>4 DEF PayIn
<1>6. /\ Form' /\ Grows /\ Kinds' /\ Given' /\ AssetsCovered'
      /\ Rows' = Rows /\ Reserved' = Reserved - Total(e.returns)
      /\ \A a \in Asset : OnAsset(a)' <= OnAsset(a)
  <2>1. DOMAIN e.returns = {} /\ Total(e.returns) <= e.amount
      BY <1>2, <1>3, NothingSum
  <2>2. /\ entries' = Append(entries, e) /\ e.posted = TRUE
        /\ assets' = assets /\ fundings' = fundings /\ unseen' = unseen
      BY DEF PayIn
  <2>. HIDE DEF e
  <2>. QED  BY <1>1, <1>3, <1>5, <2>1, <2>2, AppendEntry
<1>7. Reserved' = Reserved /\ Reserved \in Int
    BY <1>1, <1>3, <1>6, NothingSum, ReservedSum DEF Tables
<1>8. CapitalReserved'
    BY <1>1, <1>4, <1>5, <1>7 DEF Tables, CapitalReserved, PayIn
<1>9. Tables'
    BY <1>6, <1>8 DEF Tables
<1>10. /\ unseen' = unseen /\ assets' = assets /\ fundings' = fundings
       /\ Pass({b}, {})
    BY DEF PayIn
<1>11. /\ Rows' \subseteq Rows /\ DOMAIN fundings' = DOMAIN fundings
       /\ Reserved' <= Reserved /\ capital <= capital'
       /\ Reserved' - capital' <= Reserved - capital
       /\ cash <= cash'
    BY <1>4, <1>5, <1>6, <1>7, <1>10
<1>12. \A a \in Asset :
           OnAsset(a)' <= OnAsset(a) /\ assets[a].value <= assets'[a].value
    BY <1>1, <1>6, <1>10, Numbers DEF Tables
<1>. QED  BY ONLY FundsIInv, <1>6, <1>9, <1>10, <1>11, <1>12, Passing

\* An owner takes out: what is not given back for assets comes out of what
\* is free, and a transaction that waits has seen more.
LEMMA TakeOutKeeps ==
    ASSUME FundsIInv, NEW type \in Type, NEW b \in Branch, NEW n \in OwnerAmount,
           NEW returns \in Returns, TakeOut(type, b, n, returns)
    PROVE  FundsIInv'
<1>. DEFINE e == [type |-> type, branch |-> b, amount |-> n,
                  returns |-> returns, posted |-> TRUE]
            less == IF type \in OfCapital THEN {"capital", "cash"} ELSE {"cash"}
            t == [returns |-> returns]
<1>1. Tables
    BY DEF FundsIInv
<1>2. n \in Nat \ {0}
    BY OwnerFundsConstants
<1>3. e \in Entry /\ e.returns = returns /\ e.amount = n /\ e.type = type
    BY <1>2 DEF Entry
<1>4. /\ capital \in Int /\ cash \in Int /\ unseen.capital \in Nat /\ unseen.cash \in Nat
      /\ Reserved \in Int
    BY <1>1, Numbers, ReservedSum DEF Tables
<1>5. Total(returns) \in Nat
  <2>1. t.returns = returns
      OBVIOUS
  <2>. QED  BY <1>1, <2>1, TotalSum DEF Tables
<1>6. /\ n <= cash /\ cash' = cash - n
      /\ \/ /\ type = "CAPITAL_WITHDRAWAL" /\ capital' = capital - n
            /\ Returnable(b, n, returns) /\ less = {"capital", "cash"}
         \/ /\ type = "PROFIT_DISTRIBUTION" /\ capital' = capital
            /\ returns = Nothing /\ less = {"cash"}
    BY <1>2, <1>4 DEF TakeOut, OfCapital
<1>. HIDE DEF t
<1>7. Total(returns) <= n /\ (DOMAIN returns # {} => type = "CAPITAL_WITHDRAWAL")
    BY <1>2, <1>6, NothingSum DEF Returnable
<1>8. \A f \in DOMAIN returns : f \in Rows /\ returns[f] <= Remaining(f)
    BY <1>6, NothingSum DEF Returnable
<1>9. capital' \in Int /\ cash' \in Int
    BY <1>2, <1>4, <1>6
<1>10. /\ entries' = Append(entries, e) /\ e.posted = TRUE
       /\ assets' = assets /\ fundings' = fundings /\ unseen' = unseen
       /\ Pass({b}, less)
    BY DEF TakeOut
<1>11. /\ Form' /\ Grows /\ Kinds' /\ Given' /\ AssetsCovered'
       /\ Rows' = Rows /\ Reserved' = Reserved - Total(returns)
       /\ \A a \in Asset : OnAsset(a)' <= OnAsset(a)
  <2>. HIDE DEF e
  <2>. QED  BY <1>1, <1>3, <1>7, <1>8, <1>9, <1>10, AppendEntry
<1>12. \/ Reserved' <= capital'
       \/ Reserved' - capital' <= Reserved - capital /\ Reserved' <= Reserved
  <2>1. CASE type = "CAPITAL_WITHDRAWAL"
    <3>1. capital' = capital - n /\ Attributed(n, returns)
        BY <1>6, <2>1 DEF Returnable
    <3>. QED  BY <1>2, <1>4, <1>5, <1>11, <3>1 DEF Attributed
  <2>2. CASE type = "PROFIT_DISTRIBUTION"
    <3>1. capital' = capital /\ Total(returns) = 0
        BY <1>6, <2>2, NothingSum
    <3>. QED  BY <1>4, <1>11, <3>1
  <2>. QED  BY <1>6, <2>1, <2>2
<1>13. CapitalReserved'
  <2>1. Reserved > 0 => Reserved <= capital + unseen.capital
      BY <1>1 DEF Tables, CapitalReserved
  <2>2. cash' >= 0
      BY <1>2, <1>4, <1>6
  <2>3. Reserved' \in Int /\ unseen' = unseen /\ Reserved' <= Reserved
      BY <1>4, <1>5, <1>10, <1>11
  <2>4. Reserved' > 0 => Reserved' <= capital' + unseen'.capital
    <3>1. unseen'.capital = unseen.capital
        BY <2>3
    <3>2. /\ Reserved \in Int /\ Reserved' \in Int /\ unseen.capital \in Nat
          /\ capital \in Int /\ capital' \in Int
        BY <1>4, <1>9, <2>3
    <3>3. Reserved' > 0 => Reserved' <= capital' + unseen.capital
        BY ONLY <1>12, <2>1, <3>2, StillReserved
    <3>. QED  BY <3>1, <3>3
  <2>. QED  BY <1>4, <1>9, <2>2, <2>3, <2>4 DEF CapitalReserved
<1>14. Tables'
    BY <1>11, <1>13 DEF Tables
<1>15. "capital" \notin less =>
          /\ Rows' \subseteq Rows /\ DOMAIN fundings' = DOMAIN fundings
          /\ Reserved' <= Reserved /\ capital <= capital'
    BY <1>4, <1>5, <1>6, <1>10, <1>11
<1>16. "value" \notin less => \A a \in Asset :
           OnAsset(a)' <= OnAsset(a) /\ assets[a].value <= assets'[a].value
    BY <1>1, <1>10, <1>11, Numbers DEF Tables
<1>17. /\ less \in SUBSET {"capital", "cash", "value"}
       /\ "cash" \notin less => cash <= cash'
    OBVIOUS
<1>. HIDE DEF less
<1>. QED  BY ONLY FundsIInv, <1>10, <1>11, <1>12, <1>14, <1>15, <1>16, <1>17, Passing

Cost == [f \in DOMAIN fundings |-> fundings[f].amount]

\* What is paid for from a source, as a sum over its rows.
LEMMA UsedSum ==
    Form => /\ \A f \in DOMAIN fundings : Cost[f] \in Int
            /\ \A i : /\ SourceUsed(i) = SumFunctionOnSet(Cost, RowsFrom(i))
                      /\ SourceUsed(i) \in Int
<1>. SUFFICES ASSUME Form
              PROVE  /\ \A f \in DOMAIN fundings : Cost[f] \in Int
                     /\ \A i : /\ SourceUsed(i) = SumFunctionOnSet(Cost, RowsFrom(i))
                               /\ SourceUsed(i) \in Int
    OBVIOUS
<1>1. \A f \in DOMAIN fundings : Cost[f] \in Int
    BY FundingForm DEF Cost
<1>2. ASSUME NEW i
      PROVE  /\ SourceUsed(i) = SumFunctionOnSet(Cost, RowsFrom(i))
             /\ SourceUsed(i) \in Int
  <2>. DEFINE h == [f \in RowsFrom(i) |-> fundings[f].amount]
  <2>1. SourceUsed(i) = SumFunctionOnSet(h, RowsFrom(i))
      BY DEF SourceUsed, SumFunction
  <2>2. RowsFrom(i) \subseteq DOMAIN fundings /\ IsFiniteSet(RowsFrom(i))
      BY Finite
  <2>3. \A f \in RowsFrom(i) : h[f] = Cost[f] /\ Cost[f] \in Int
      BY <1>1, <2>2 DEF Cost
  <2>. HIDE DEF h
  <2>4. SumFunctionOnSet(h, RowsFrom(i)) = SumFunctionOnSet(Cost, RowsFrom(i))
      BY <2>2, <2>3, SumSame
  <2>5. SumFunctionOnSet(Cost, RowsFrom(i)) \in Int
      BY <2>2, <2>3, SumInt
  <2>. QED  BY <2>1, <2>4, <2>5
<1>. QED  BY <1>1, <1>2

\* The same, of the next state.
LEMMA UsedNext ==
    (Form => /\ \A f \in DOMAIN fundings : Cost[f] \in Int
             /\ \A i : /\ SourceUsed(i) = SumFunctionOnSet(Cost, RowsFrom(i))
                       /\ SourceUsed(i) \in Int)'
BY UsedSum, PTL

\* The tables after a contribution is allocated to an asset: the new row is
\* the only one that anything is added for.
LEMMA Allocated ==
    ASSUME Tables, NEW i \in DOMAIN entries, NEW a \in Asset,
           NEW n \in OwnerAmount,
           AllocateOwnerAssetFunding(i, a, n)
    PROVE  /\ Form' /\ Grows /\ Kinds' /\ Given'
           /\ Reserved' = Reserved + n
           /\ \A b \in Asset : OnAsset(b)' = OnAsset(b) + IF b = a THEN n ELSE 0
           /\ Unbacked' \subseteq Unbacked
<1>. USE DEF Tables
<1>. DEFINE x == [asset |-> a, source |-> i, amount |-> n, cancelled |-> FALSE]
<1>. PICK k : k = Len(fundings) + 1
    OBVIOUS
<1>1. /\ entries[i].type = "INVESTMENT" /\ entries[i].posted
      /\ ~assets[a].disposed
      /\ SourceUsed(i) + n <= entries[i].amount
      /\ fundings' = Append(fundings, x)
      /\ assets' = assets /\ entries' = entries
      /\ capital' = capital /\ cash' = cash /\ unseen' = unseen
    BY DEF AllocateOwnerAssetFunding
<1>2. /\ k \notin DOMAIN fundings
      /\ DOMAIN fundings' = DOMAIN fundings \cup {k}
      /\ fundings'[k] = x /\ \A f \in DOMAIN fundings : fundings'[f] = fundings[f]
  <2>1. fundings \in Seq(Funding)
      BY DEF Form
  <2>. HIDE DEF x
  <2>2. /\ DOMAIN fundings = 1..Len(fundings) /\ Len(fundings) \in Nat
        /\ DOMAIN fundings' = 1..(Len(fundings) + 1)
        /\ fundings'[Len(fundings) + 1] = x
        /\ \A f \in 1..Len(fundings) : fundings'[f] = fundings[f]
      BY <1>1, <2>1, AppendRow
  <2>. QED  BY <2>2
<1>3. n \in Nat \ {0}
    BY OwnerFundsConstants
<1>4. Form'
  <2>1. x \in Funding /\ Funding' = Funding
      BY <1>1 DEF Funding
  <2>2. fundings' \in Seq(Funding')
    <3>. HIDE DEF x
    <3>. QED  BY <1>1, <2>1 DEF Form
  <2>3. Returns \subseteq Returns'
    <3>1. DOMAIN fundings \subseteq DOMAIN fundings'
        BY <1>2
    <3>2. \A s \in SUBSET DOMAIN fundings : s \in SUBSET DOMAIN fundings'
        BY <3>1
    <3>. QED  BY <3>2 DEF Returns
  <2>4. Entry \subseteq Entry'
      BY <2>3 DEF Entry
  <2>5. entries' \in Seq(Entry')
    <3>1. entries \in Seq(Entry)
        BY DEF Form
    <3>2. entries \in Seq(Entry')
        BY <2>4, <3>1, Wider
    <3>. QED  BY <1>1, <3>2
  <2>. QED  BY <1>1, <2>2, <2>5 DEF Form
<1>5. Grows
    BY <1>1, <1>2 DEF Grows
<1>6. Rows' = Rows \cup {k}
    BY <1>1, <1>2 DEF Rows
<1>7. Standing' = Standing /\ \A f : Returned(f)' = Returned(f)
    BY <1>1 DEF Standing, Returned, ReturnOf
<1>8. Returned(k) = 0
  <2>1. \A j \in DOMAIN entries : DOMAIN entries[j].returns \subseteq DOMAIN fundings
      BY EntryForm, ReturnsForm
  <2>2. \A j \in DOMAIN entries : Paid(k)[j] = 0
      BY <1>2, <2>1 DEF Paid, ReturnOf
  <2>3. SumFunctionOnSet(Paid(k), DOMAIN entries) = 0
      BY <2>2, Finite, SumOfZeros
  <2>. QED  BY <2>3, ReturnedSum
<1>9. /\ Left'[k] = n /\ \A f \in DOMAIN fundings : Left'[f] = Left[f]
      /\ Cost'[k] = n /\ \A f \in DOMAIN fundings : Cost'[f] = Cost[f]
  <2>1. Remaining(k)' = n
      BY <1>2, <1>3, <1>7, <1>8 DEF Remaining
  <2>2. \A f \in DOMAIN fundings : Remaining(f)' = Remaining(f)
      BY <1>2, <1>7 DEF Remaining
  <2>. QED  BY <1>2, <2>1, <2>2 DEF Left, Cost
<1>10. /\ IsFiniteSet(DOMAIN fundings) /\ Rows \subseteq DOMAIN fundings
       /\ \A b : RowsOf(b) \subseteq DOMAIN fundings
       /\ \A j : RowsFrom(j) \subseteq DOMAIN fundings
    BY Finite
<1>11. Reserved' = Reserved + n
  <2>1. \A f \in DOMAIN fundings : Left[f] \in Int
      BY ReservedSum
  <2>2. SumFunctionOnSet(Left', Rows')
           = SumFunctionOnSet(Left, Rows) + (IF k \in Rows' THEN Left'[k] ELSE 0)
      BY ONLY <1>2, <1>3, <1>6, <1>9, <1>10, <2>1, SumAppend
  <2>3. k \in Rows'
      BY <1>6
  <2>. QED  BY <1>4, <1>9, <2>2, <2>3, ReservedSum, ReservedNext
<1>12. ASSUME NEW b \in Asset
       PROVE  OnAsset(b)' = OnAsset(b) + IF b = a THEN n ELSE 0
  <2>1. \A f \in DOMAIN fundings : Left[f] \in Int
      BY ReservedSum
  <2>2. RowsOf(b)' = IF b = a THEN RowsOf(b) \cup {k} ELSE RowsOf(b)
      BY <1>2, <1>6, <1>10 DEF RowsOf
  <2>3. k \in RowsOf(b)' <=> b = a
      BY <1>2, <1>10, <2>2
  <2>4. RowsOf(b)' = RowsOf(b) \/ RowsOf(b)' = RowsOf(b) \cup {k}
      BY <2>2
  <2>5. SumFunctionOnSet(Left', RowsOf(b)')
           = SumFunctionOnSet(Left, RowsOf(b))
                + (IF k \in RowsOf(b)' THEN Left'[k] ELSE 0)
      BY ONLY <1>2, <1>3, <1>9, <1>10, <2>1, <2>4, SumAppend
  <2>. QED  BY <1>4, <1>9, <2>3, <2>5, ReservedSum, ReservedNext
<1>13. ASSUME NEW j \in DOMAIN entries
       PROVE  SourceUsed(j)' = SourceUsed(j) + IF j = i THEN n ELSE 0
  <2>1. \A f \in DOMAIN fundings : Cost[f] \in Int
      BY UsedSum
  <2>2. RowsFrom(j)' = IF j = i THEN RowsFrom(j) \cup {k} ELSE RowsFrom(j)
      BY <1>2, <1>6, <1>10 DEF RowsFrom
  <2>3. k \in RowsFrom(j)' <=> j = i
      BY <1>2, <1>10, <2>2
  <2>4. RowsFrom(j)' = RowsFrom(j) \/ RowsFrom(j)' = RowsFrom(j) \cup {k}
      BY <2>2
  <2>5. SumFunctionOnSet(Cost', RowsFrom(j)')
           = SumFunctionOnSet(Cost, RowsFrom(j))
                + (IF k \in RowsFrom(j)' THEN Cost'[k] ELSE 0)
      BY ONLY <1>2, <1>3, <1>9, <1>10, <2>1, <2>4, SumAppend
  <2>. QED  BY <1>4, <1>9, <2>3, <2>5, UsedSum, UsedNext
<1>14. Kinds'
    BY <1>1, <1>2 DEF Kinds, Total
<1>15. Given'
  <2>1. ASSUME NEW f \in DOMAIN fundings'
        PROVE  /\ Returned(f)' \in 0..fundings'[f].amount
               /\ fundings'[f].cancelled => Returned(f)' = 0
      BY <1>2, <1>3, <1>7, <1>8 DEF Given
  <2>2. ASSUME NEW j \in DOMAIN entries'
        PROVE  SourceUsed(j)' <= entries'[j].amount
    <3>1. SourceUsed(j) <= entries[j].amount /\ SourceUsed(j) \in Int
        BY <1>1, UsedSum DEF Given
    <3>2. SourceUsed(j)' = SourceUsed(j) + IF j = i THEN n ELSE 0
        BY <1>1, <1>13
    <3>. QED  BY <1>1, <1>3, <3>1, <3>2
  <2>. QED  BY <2>1, <2>2 DEF Given
<1>16. Unbacked' \subseteq Unbacked
    BY <1>1, <1>2, <1>7 DEF Unbacked, Standing
<1>. QED  BY <1>4, <1>5, <1>11, <1>12, <1>14, <1>15, <1>16

\* A contribution is allocated to an asset: there is room for it in the
\* capital and in the value of the asset, and a transaction that waits has
\* seen more of both.
LEMMA AllocateKeeps ==
    ASSUME FundsIInv, NEW i \in DOMAIN entries, NEW a \in Asset,
           NEW n \in OwnerAmount,
           AllocateOwnerAssetFunding(i, a, n)
    PROVE  FundsIInv'
<1>1. Tables
    BY DEF FundsIInv
<1>2. n \in Nat \ {0}
    BY OwnerFundsConstants
<1>3. /\ Form' /\ Grows /\ Kinds' /\ Given'
      /\ Reserved' = Reserved + n
      /\ \A b \in Asset : OnAsset(b)' = OnAsset(b) + IF b = a THEN n ELSE 0
      /\ Unbacked' \subseteq Unbacked
    BY <1>1, Allocated
<1>4. /\ OnAsset(a) + n <= assets[a].value /\ Reserved + n <= capital
      /\ assets' = assets /\ capital' = capital /\ cash' = cash /\ unseen' = unseen
      /\ Pass({}, {"capital", "value"})
    BY DEF AllocateOwnerAssetFunding
<1>5. /\ capital \in Int /\ cash \in Int /\ unseen.capital \in Nat
      /\ unseen.cash \in Nat /\ unseen.value \in Nat
      /\ \A b \in Asset : assets[b].value \in Nat
      /\ Reserved \in Int /\ \A b : OnAsset(b) \in Int
    BY <1>1, Numbers, ReservedSum DEF Tables
<1>6. Reserved' <= capital'
    BY <1>2, <1>3, <1>4, <1>5
<1>7. CapitalReserved'
  <2>1. cash + unseen.cash >= 0
      BY <1>1 DEF Tables, CapitalReserved
  <2>2. unseen'.capital = unseen.capital /\ Reserved' \in Int
      BY <1>2, <1>3, <1>4, <1>5
  <2>3. Reserved' <= capital' + unseen'.capital
      BY <1>4, <1>5, <1>6, <2>2
  <2>. QED  BY <1>4, <2>1, <2>3 DEF CapitalReserved
<1>8. AssetsCovered'
  <2>1. ASSUME NEW b \in Asset PROVE OnAsset(b)' <= assets'[b].value + unseen'.value
    <3>1. OnAsset(b) <= assets[b].value + unseen.value
        BY <1>1 DEF Tables, AssetsCovered
    <3>2. assets'[b].value = assets[b].value /\ unseen'.value = unseen.value
        BY <1>4
    <3>3. CASE b = a
      <4>1. OnAsset(b)' = OnAsset(b) + n /\ OnAsset(b) + n <= assets[b].value
          BY <1>3, <1>4, <3>3
      <4>2. OnAsset(b) \in Int /\ assets[b].value \in Nat
          BY <1>5
      <4>. QED  BY <1>2, <1>5, <3>2, <4>1, <4>2
    <3>4. CASE b # a
      <4>1. OnAsset(b)' = OnAsset(b)
          BY <1>3, <1>5, <3>4
      <4>. QED  BY <3>1, <3>2, <4>1
    <3>. QED  BY <3>3, <3>4
  <2>. QED  BY <1>1, <1>3, <1>4, <1>5, <2>1, StaysCovered DEF Tables
<1>9. Tables'
    BY <1>3, <1>7, <1>8 DEF Tables
<1>. DEFINE less == {"capital", "value"}
<1>10. /\ less \in SUBSET {"capital", "cash", "value"}
       /\ "capital" \in less /\ "value" \in less /\ cash <= cash'
    BY <1>4, <1>5
<1>11. Pass({}, less)
    BY <1>4
<1>. HIDE DEF less
<1>. QED  BY ONLY FundsIInv, <1>3, <1>4, <1>6, <1>9, <1>10, <1>11, Passing

\* What is reserved shrinks when rows are only marked.
LEMMA Released ==
    ASSUME Tables, Form', Grows,
           UNCHANGED <<entries, capital, cash, unseen>>,
           DOMAIN fundings' = DOMAIN fundings,
           \A f \in DOMAIN fundings :
              fundings'[f].cancelled => fundings[f].cancelled \/ Returned(f) = 0
    PROVE  /\ Kinds' /\ Given' /\ CapitalReserved'
           /\ Rows' \subseteq Rows /\ Unbacked' \subseteq Unbacked
           /\ Reserved' <= Reserved
           /\ Reserved' \in Int /\ Reserved \in Int
           /\ \A a \in Asset : OnAsset(a)' <= OnAsset(a)
<1>. USE DEF Tables
<1>1. Rows' \subseteq Rows
    BY GrowsKeeps, FiniteNext
<1>2. Standing' = Standing /\ \A f : Returned(f)' = Returned(f)
    BY DEF Standing, Returned, ReturnOf
<1>3. \A f \in DOMAIN fundings : Remaining(f)' = Remaining(f)
    BY <1>2 DEF Remaining, Grows
<1>4. /\ Reserved' <= Reserved
      /\ \A a \in Asset : OnAsset(a)' <= OnAsset(a)
  <2>1. \A f \in Rows : Remaining(f) >= 0
    <3>1. \A f \in DOMAIN fundings : Returned(f) \in 0..fundings[f].amount
        BY DEF Given
    <3>. QED  BY <3>1, Finite, FundingForm DEF Remaining
  <2>2. \A f \in Rows' : Remaining(f)' <= Remaining(f)
    <3>1. \A f \in Rows' : Remaining(f)' = Remaining(f) /\ Remaining(f) \in Int
        BY <1>1, <1>3, Finite, ReservedSum
    <3>. QED  BY <3>1
  <2>. QED  BY <1>1, <2>1, <2>2, LeftShrinks
<1>5. Reserved \in Int /\ Reserved' \in Int
    BY ReservedSum, ReservedNext
<1>6. Kinds'
    BY DEF Kinds, Grows, Total
<1>7. Given'
  <2>1. \A f \in DOMAIN fundings' :
          /\ Returned(f)' \in 0..fundings'[f].amount
          /\ fundings'[f].cancelled => Returned(f)' = 0
      BY <1>2 DEF Given, Grows
  <2>2. \A i \in DOMAIN entries' : SourceUsed(i)' <= entries'[i].amount
    <3>. TAKE i \in DOMAIN entries'
    <3>1. SourceUsed(i)' <= SourceUsed(i) /\ SourceUsed(i) <= entries[i].amount
        BY <1>1, UsedShrinks DEF Given
    <3>2. SourceUsed(i) \in Int /\ SourceUsed(i)' \in Int /\ entries[i].amount \in Int
        BY UsedSum, UsedNext, EntryForm
    <3>. QED  BY <3>1, <3>2
  <2>. QED  BY <2>1, <2>2 DEF Given
<1>8. CapitalReserved'
  <2>1. capital \in Int /\ unseen.capital \in Nat
      BY Numbers
  <2>2. /\ Reserved > 0 => Reserved <= capital + unseen.capital
        /\ cash + unseen.cash >= 0
      BY DEF CapitalReserved
  <2>3. Reserved' > 0 => Reserved' <= capital + unseen.capital
      BY <1>4, <1>5, <2>1, <2>2
  <2>. QED  BY <2>2, <2>3 DEF CapitalReserved
<1>9. Unbacked' \subseteq Unbacked
    BY <1>2 DEF Unbacked, Grows
<1>. QED  BY <1>1, <1>4, <1>5, <1>6, <1>7, <1>8, <1>9

\* An allocation is cancelled that nothing has been given back for.
LEMMA CancelKeeps ==
    ASSUME FundsIInv, NEW f \in DOMAIN fundings, CancelOwnerAssetFunding(f)
    PROVE  FundsIInv'
<1>1. Tables
    BY DEF FundsIInv
<1>2. /\ Returned(f) = 0 /\ ~fundings[f].cancelled
      /\ fundings' = [fundings EXCEPT ![f].cancelled = TRUE]
      /\ assets' = assets /\ entries' = entries
      /\ capital' = capital /\ cash' = cash /\ unseen' = unseen
      /\ Pass({}, {})
    BY DEF CancelOwnerAssetFunding
<1>3. /\ DOMAIN fundings' = DOMAIN fundings
      /\ \A g \in DOMAIN fundings :
            /\ fundings'[g] \in Funding
            /\ fundings'[g].asset = fundings[g].asset
            /\ fundings'[g].source = fundings[g].source
            /\ fundings'[g].amount = fundings[g].amount
            /\ g # f => fundings'[g] = fundings[g]
            /\ fundings[g].cancelled => fundings'[g].cancelled
  <2>1. fundings[f] \in Funding /\ fundings' = [fundings EXCEPT ![f] = fundings'[f]]
      BY <1>1, <1>2, FundingForm DEF Tables
  <2>2. /\ fundings'[f] \in Funding
        /\ fundings'[f].asset = fundings[f].asset
        /\ fundings'[f].source = fundings[f].source
        /\ fundings'[f].amount = fundings[f].amount
      BY <1>2, <2>1 DEF Funding
  <2>3. \A g \in DOMAIN fundings : fundings[g] \in Funding
      BY <1>1, FundingForm DEF Tables
  <2>4. /\ DOMAIN fundings' = DOMAIN fundings
        /\ \A g \in DOMAIN fundings : g # f => fundings'[g] = fundings[g]
      BY <1>2
  <2>. QED  BY <1>2, <2>2, <2>3, <2>4
<1>4. Form'
  <2>1. /\ Funding' = Funding /\ Returns' = Returns
      BY <1>2, <1>3 DEF Funding, Returns
  <2>2. Entry' = Entry
      BY <2>1 DEF Entry
  <2>3. fundings' \in Seq(Funding)
    <3>1. fundings \in Seq(Funding)
        BY <1>1 DEF Tables, Form
    <3>2. DOMAIN fundings = 1..Len(fundings) /\ Len(fundings) \in Nat
        BY <3>1
    <3>3. fundings' = [g \in DOMAIN fundings |-> fundings'[g]]
        BY <1>2
    <3>4. fundings' \in [1..Len(fundings) -> Funding]
        BY <1>3, <3>2, <3>3
    <3>. QED  BY <3>2, <3>4
  <2>. QED  BY <1>1, <1>2, <2>1, <2>2, <2>3 DEF Tables, Form
<1>5. Grows
    BY <1>2, <1>3 DEF Grows
<1>6. /\ Kinds' /\ Given' /\ CapitalReserved'
      /\ Rows' \subseteq Rows /\ Unbacked' \subseteq Unbacked
      /\ Reserved' <= Reserved
      /\ Reserved' \in Int /\ Reserved \in Int
      /\ \A a \in Asset : OnAsset(a)' <= OnAsset(a)
    BY <1>1, <1>2, <1>3, <1>4, <1>5, Released
<1>7. /\ capital \in Int /\ cash \in Int /\ unseen.capital \in Nat
      /\ unseen.value \in Nat
      /\ \A a \in Asset : assets[a].value \in Nat
      /\ \A a : OnAsset(a) \in Int /\ OnAsset(a)' \in Int
    BY <1>1, <1>4, Numbers, ReservedSum, ReservedNext DEF Tables
<1>8. AssetsCovered'
  <2>1. ASSUME NEW a \in Asset PROVE OnAsset(a)' <= assets'[a].value + unseen'.value
    <3>1. OnAsset(a) <= assets[a].value + unseen.value /\ OnAsset(a)' <= OnAsset(a)
        BY <1>1, <1>6 DEF Tables, AssetsCovered
    <3>2. assets'[a].value = assets[a].value /\ unseen'.value = unseen.value
        BY <1>2
    <3>. QED  BY <1>7, <3>1, <3>2
  <2>. QED  BY <1>1, <1>2, <1>4, <1>5, <1>6, <1>7, <2>1, StaysCovered DEF Tables
<1>9. Tables'
    BY <1>4, <1>6, <1>8 DEF Tables
<1>10. /\ capital <= capital' /\ cash <= cash'
       /\ Reserved' - capital' <= Reserved - capital
       /\ \A a \in Asset : assets[a].value <= assets'[a].value
    BY <1>2, <1>6, <1>7
<1>. DEFINE less == {}
<1>11. /\ less \in SUBSET {"capital", "cash", "value"} /\ Pass({}, less)
    BY <1>2
<1>. HIDE DEF less
<1>. QED  BY ONLY FundsIInv, <1>2, <1>3, <1>5, <1>6, <1>9, <1>10, <1>11, Passing

\* The cost of an asset is corrected to no less than is reserved for it; an
\* asset is sold, and nothing is reserved for it any more.
LEMMA AssetKeeps ==
    ASSUME FundsIInv, NEW a \in Asset,
           (\E v \in Value : UpdateAsset(a, v)) \/ Dispose(a)
    PROVE  FundsIInv'
<1>1. Tables
    BY DEF FundsIInv
<1>2. PICK less \in SUBSET {"value"} :
         /\ entries' = entries /\ fundings' = fundings
         /\ capital' = capital /\ cash' = cash /\ unseen' = unseen
         /\ assets' \in [Asset -> [branch : Branch, value : Value,
                                   disposed : BOOLEAN]]
         /\ \A b \in Asset : assets[b].disposed => assets'[b].disposed
         /\ \A b \in Asset : \/ assets'[b].value = assets[b].value
                             \/ /\ b = a /\ OnAsset(a) <= assets'[a].value
                                /\ less = {"value"}
         /\ Pass({}, less) \/ (waiting' = waiting /\ less = {})
  <2>1. assets \in [Asset -> [branch : Branch, value : Value,
                              disposed : BOOLEAN]]
      BY <1>1 DEF Tables, Form
  <2>2. CASE \E v \in Value : UpdateAsset(a, v)
    <3>1. PICK v \in Value : UpdateAsset(a, v)
        BY <2>2
    <3>2. assets' = [assets EXCEPT ![a].value = v] /\ OnAsset(a) <= v
        BY <3>1 DEF UpdateAsset
    <3>3. /\ \A b \in Asset : assets'[b].disposed = assets[b].disposed
          /\ \A b \in Asset \ {a} : assets'[b].value = assets[b].value
          /\ assets'[a].value = v
        BY <2>1, <3>2
    <3>4. assets' \in [Asset -> [branch : Branch, value : Value,
                                 disposed : BOOLEAN]]
        BY <2>1, <3>2
    <3>. QED  BY <3>1, <3>2, <3>3, <3>4 DEF UpdateAsset
  <2>3. CASE Dispose(a)
    <3>1. assets' = [assets EXCEPT ![a].disposed = TRUE]
        BY <2>3 DEF Dispose
    <3>2. /\ \A b \in Asset : assets[b].disposed => assets'[b].disposed
          /\ \A b \in Asset : assets'[b].value = assets[b].value
        BY <2>1, <3>1
    <3>3. assets' \in [Asset -> [branch : Branch, value : Value,
                                 disposed : BOOLEAN]]
        BY <2>1, <3>1
    <3>4. assets[a].value \in Value
        BY <2>1
    <3>. QED  BY <2>3, <3>2, <3>3, <3>4 DEF Dispose
  <2>. QED  BY <2>2, <2>3
<1>3. Form'
    BY <1>1, <1>2 DEF Tables, Form, Entry, Returns, Funding
<1>4. Grows
    BY <1>2 DEF Grows
<1>5. /\ Kinds' /\ Given' /\ CapitalReserved'
      /\ Rows' \subseteq Rows /\ Unbacked' \subseteq Unbacked
      /\ Reserved' <= Reserved
      /\ Reserved' \in Int /\ Reserved \in Int
      /\ \A b \in Asset : OnAsset(b)' <= OnAsset(b)
    BY <1>1, <1>2, <1>3, <1>4, Released
<1>6. /\ capital \in Int /\ cash \in Int /\ unseen.capital \in Nat
      /\ unseen.value \in Nat
      /\ \A b \in Asset : assets[b].value \in Nat /\ assets'[b].value \in Nat
      /\ \A b : OnAsset(b) \in Int /\ OnAsset(b)' \in Int
    BY <1>1, <1>3, Numbers, NumbersNext, ReservedSum, ReservedNext DEF Tables
<1>7. AssetsCovered'
  <2>1. ASSUME NEW b \in Asset PROVE OnAsset(b)' <= assets'[b].value + unseen'.value
    <3>1. OnAsset(b) <= assets[b].value + unseen.value /\ OnAsset(b)' <= OnAsset(b)
        BY <1>1, <1>5 DEF Tables, AssetsCovered
    <3>2. unseen'.value = unseen.value
        BY <1>2
    <3>3. CASE assets'[b].value = assets[b].value
        BY <1>6, <3>1, <3>2, <3>3
    <3>4. CASE b = a /\ OnAsset(a) <= assets'[a].value
      <4>1. OnAsset(b)' <= assets'[b].value
          BY <1>6, <3>1, <3>4
      <4>. QED  BY <1>6, <3>2, <4>1
    <3>. QED  BY <1>2, <3>3, <3>4
  <2>. QED  BY <1>1, <1>2, <1>3, <1>4, <1>5, <1>6, <2>1, StaysCovered DEF Tables
<1>8. Tables'
    BY <1>3, <1>5, <1>7 DEF Tables
<1>9. /\ capital <= capital' /\ cash <= cash' /\ DOMAIN fundings' = DOMAIN fundings
      /\ Reserved' - capital' <= Reserved - capital
  <2>1. /\ capital' = capital /\ cash' = cash
        /\ DOMAIN fundings' = DOMAIN fundings
      BY <1>2
  <2>2. /\ capital \in Int /\ cash \in Int /\ Reserved' <= Reserved
        /\ Reserved' \in Int /\ Reserved \in Int
      BY <1>5, <1>6
  <2>3. capital <= capital' /\ cash <= cash'
      BY ONLY <2>1, <2>2
  <2>4. Reserved' - capital <= Reserved - capital
      BY ONLY <2>2, SameCapital
  <2>. QED  BY <2>1, <2>3, <2>4
<1>10. less \in SUBSET {"capital", "cash", "value"}
    OBVIOUS
<1>11. "value" \notin less => \A b \in Asset :
           OnAsset(b)' <= OnAsset(b) /\ assets[b].value <= assets'[b].value
  <2>1. "value" \notin less => \A b \in Asset : assets'[b].value = assets[b].value
      BY <1>2
  <2>. QED  BY <1>5, <1>6, <2>1
<1>. QED  BY ONLY FundsIInv, <1>2, <1>4, <1>5, <1>8, <1>9, <1>10, <1>11, Passing

-----------------------------------------------------------------------------
(* The steps of serializable transactions.                                 *)

\* When there are no rows nothing is reserved.
LEMMA NoRows ==
    Form => /\ Rows = {} => Reserved = 0
            /\ \A a : RowsOf(a) = {} =>
                  OnAsset(a) = 0 /\ \A t : t.returns \in Returns => Restored(t, a) = 0
<1>. SUFFICES ASSUME Form
              PROVE  /\ Rows = {} => Reserved = 0
                     /\ \A a : RowsOf(a) = {} =>
                           /\ OnAsset(a) = 0
                           /\ \A t : t.returns \in Returns => Restored(t, a) = 0
    OBVIOUS
<1>1. Rows = {} => Reserved = 0
    BY ReservedSum, SumEmpty
<1>2. ASSUME NEW a, RowsOf(a) = {}
      PROVE  /\ OnAsset(a) = 0
             /\ \A t : t.returns \in Returns => Restored(t, a) = 0
  <2>1. OnAsset(a) = 0
      BY <1>2, ReservedSum, SumEmpty
  <2>2. ASSUME NEW t, t.returns \in Returns PROVE Restored(t, a) = 0
    <3>1. Restored(t, a) = SumFunctionOnSet(Part(t.returns), RowsOf(a))
        BY <2>2, RestSum
    <3>. QED  BY <1>2, <3>1, SumEmpty
  <2>. QED  BY <2>1, <2>2
<1>. QED  BY <1>1, <1>2

\* The same, of the next state.
LEMMA NoRowsNext ==
    (Form => /\ Rows = {} => Reserved = 0
             /\ \A a : RowsOf(a) = {} =>
                   OnAsset(a) = 0 /\ \A t : t.returns \in Returns => Restored(t, a) = 0)'
BY NoRows, PTL

\* What a transaction has just checked makes it safe to write.
LEMMA FreshIsSafe ==
    ASSUME Tables, NEW t, Computed(t), Permitted(t),
           t.of # 0 => Unfunded(t.of),
           t.cash < 0 /\ "cash" \notin t.missed =>
              cash + t.cash >= 0 /\ "cash" \in t.reads,
           t.capital # 0 /\ Rows # {} => "capital" \in t.reads
    PROVE  Safe(t) /\ CapitalSeen(t)
<1>. USE DEF Tables
<1>1. /\ t.returns \in Returns /\ t.capital \in Int /\ t.cash \in Int
      /\ Total(t.returns) \in Nat
      /\ Rest(t) \in Nat /\ Rest(t) <= Total(t.returns)
      /\ t.capital <= 0 => DOMAIN t.returns = {} /\ Total(t.returns) = 0
    BY ComputedFacts
<1>2. /\ Reserved \in Int /\ capital \in Int /\ cash \in Int
      /\ unseen.capital \in Nat /\ unseen.cash \in Nat /\ unseen.value \in Nat
      /\ \A a \in Asset : assets[a].value \in Nat
      /\ \A a : OnAsset(a) \in Int
    BY Numbers, ReservedSum
<1>3. ASSUME Reserved + Rest(t) > 0
      PROVE  Reserved + Rest(t) <= capital + unseen.capital + t.capital
  <2>1. CASE Rows = {}
    <3>1. Reserved = 0 /\ Rows \cap DOMAIN t.returns = {}
        BY <2>1, NoRows
    <3>2. Rest(t) = 0
        BY <1>1, <3>1, RestSum
    <3>. QED  BY <1>3, <3>1, <3>2
  <2>2. CASE t.capital = 0
    <3>1. Rest(t) = 0
        BY <1>1, <2>2
    <3>2. Reserved > 0 => Reserved <= capital + unseen.capital
        BY DEF CapitalReserved
    <3>. QED  BY <1>2, <1>3, <2>2, <3>1, <3>2
  <2>3. CASE Rows # {} /\ t.capital # 0
    <3>1. SumFunction([a \in Asset |-> Restored(t, a)]) = Rest(t)
        BY <1>1, RestSum
    <3>2. capital + t.capital >= Reserved + Rest(t)
        BY <1>3, <2>3, <3>1 DEF Permitted
    <3>. QED  BY <1>1, <1>2, <3>2
  <2>. QED  BY <2>1, <2>2, <2>3
<1>4. ASSUME t.cash < 0, "cash" \notin t.missed
      PROVE  cash + unseen.cash + t.cash >= 0
    BY <1>1, <1>2, <1>4
<1>5. ASSUME NEW a \in Asset
      PROVE  OnAsset(a) + Restored(t, a) <= assets[a].value + unseen.value
  <2>1. CASE RowsOf(a) = {}
    <3>1. OnAsset(a) = 0 /\ Restored(t, a) = 0
        BY <1>1, <2>1, NoRows
    <3>. QED  BY <1>2, <3>1
  <2>2. CASE RowsOf(a) # {}
    <3>1. Rows # {}
        BY <2>2, Finite
    <3>2. OnAsset(a) + Restored(t, a) <= assets[a].value
        BY <2>2, <3>1 DEF Permitted
    <3>3. Restored(t, a) \in Nat
        BY <1>1, RestSum
    <3>. QED  BY <1>2, <3>2, <3>3
  <2>. QED  BY <2>1, <2>2
<1>6. Safe(t)
    BY <1>3, <1>4, <1>5 DEF Safe
<1>7. CapitalSeen(t)
  <2>1. ASSUME Rows \cap DOMAIN t.returns # {} PROVE "capital" \in t.reads
      BY <1>1, <2>1
  <2>. QED  BY <1>1, <2>1 DEF CapitalSeen
<1>. QED  BY <1>6, <1>7

\* The tables after a transaction is written, and what remains for each row.
LEMMA RunWritten ==
    ASSUME Tables, NEW t, Computed(t), t.of # 0 => entries[t.of].posted, Write(t)
    PROVE  /\ Form' /\ Grows /\ Kinds' /\ Given'
           /\ Rows' \subseteq Rows
           /\ Unbacked' \subseteq Unbacked \cup ({t.of} \cap DOMAIN entries)
           /\ Reserved' <= Reserved + Rest(t)
           /\ \A a \in Asset : OnAsset(a)' <= OnAsset(a) + Restored(t, a)
<1>. USE DEF Tables
<1>1. /\ t.returns \in Returns /\ t.capital \in Int /\ t.cash \in Int
      /\ Takes(t)["capital"] = -t.capital /\ Takes(t)["cash"] = -t.cash
      /\ Takes(t)["value"] = Total(t.returns) /\ Total(t.returns) \in Nat
      /\ t.of # 0 => t.of \in DOMAIN entries
    BY ComputedFacts
<1>2. /\ DOMAIN entries' = DOMAIN entries
      /\ \A i \in DOMAIN entries :
            /\ entries'[i] \in Entry
            /\ entries'[i].type = entries[i].type
            /\ entries'[i].amount = entries[i].amount
            /\ entries'[i].returns = entries[i].returns
            /\ entries'[i].posted = (entries[i].posted /\ i # t.of)
  <2>1. entries' = [i \in DOMAIN entries |->
                      [entries[i] EXCEPT !.posted = @ /\ i # t.of]]
      BY DEF Write
  <2>2. \A i \in DOMAIN entries : entries[i] \in Entry
      BY EntryForm
  <2>3. DOMAIN entries' = DOMAIN entries
      BY <2>1
  <2>4. ASSUME NEW i \in DOMAIN entries
        PROVE  /\ entries'[i] \in Entry
               /\ entries'[i].type = entries[i].type
               /\ entries'[i].amount = entries[i].amount
               /\ entries'[i].returns = entries[i].returns
               /\ entries'[i].posted = (entries[i].posted /\ i # t.of)
    <3>. DEFINE q == entries[i].posted /\ i # t.of
    <3>1. entries'[i] = [entries[i] EXCEPT !.posted = q] /\ q \in BOOLEAN
        BY <2>1
    <3>2. entries[i] \in Entry
        BY <2>2
    <3>3. /\ entries'[i] \in Entry
          /\ entries'[i].type = entries[i].type
          /\ entries'[i].amount = entries[i].amount
          /\ entries'[i].returns = entries[i].returns
          /\ entries'[i].posted = q
      <4>. HIDE DEF q
      <4>. QED  BY <3>1, <3>2 DEF Entry
    <3>. QED  BY <3>3
  <2>. QED  BY <2>3, <2>4
<1>3. /\ assets' = assets /\ fundings' = fundings
      /\ capital' = capital + t.capital /\ cash' = cash + t.cash
      /\ unseen' = [x \in DOMAIN unseen |->
                    unseen[x] + IF x \in t.missed THEN Takes(t)[x] ELSE 0]
    BY DEF Write
<1>4. Form'
  <2>1. Funding' = Funding /\ Entry' = Entry
      BY <1>2, <1>3 DEF Funding, Entry, Returns
  <2>2. entries' \in Seq(Entry)
    <3>1. DOMAIN entries = 1..Len(entries) /\ Len(entries) \in Nat
        BY Finite
    <3>2. entries' = [i \in DOMAIN entries |-> entries'[i]]
        BY DEF Write
    <3>3. entries' \in [1..Len(entries) -> Entry]
        BY <1>2, <3>1, <3>2
    <3>. QED  BY <3>1, <3>3
  <2>3. unseen' \in [{"capital", "cash", "value"} -> Nat]
    <3>1. unseen \in [{"capital", "cash", "value"} -> Nat]
        BY DEF Form
    <3>2. \A x \in {"capital", "cash", "value"} :
             x \in t.missed => Takes(t)[x] \in Nat
        BY <1>1 DEF Computed
    <3>. QED  BY <1>3, <3>1, <3>2
  <2>4. capital' \in Int /\ cash' \in Int
    <3>1. capital \in Int /\ cash \in Int
        BY Numbers
    <3>. QED  BY <1>1, <1>3, <3>1
  <2>5. assets' \in [Asset -> [branch : Branch, value : Value,
                               disposed : BOOLEAN]]
      BY <1>3 DEF Form
  <2>6. fundings' \in Seq(Funding)
      BY <1>3 DEF Form
  <2>. QED  BY <2>1, <2>2, <2>3, <2>4, <2>5, <2>6 DEF Form
<1>5. Grows
    BY <1>2, <1>3 DEF Grows
<1>6. Rows' \subseteq Rows
    BY <1>3, <1>4, <1>5, FiniteNext, GrowsKeeps
<1>7. \A f \in DOMAIN fundings :
         Returned(f)' = Returned(f) - Part(t.returns)[f]
  <2>. TAKE f \in DOMAIN fundings
  <2>1. Returned(f)' = Returned(f)
            - (IF t.of \in DOMAIN entries THEN ReturnOf(t.of, f) ELSE 0)
    <3>1. t.of \in DOMAIN entries => entries[t.of].posted
      <4>1. 0 \notin DOMAIN entries
          BY Finite
      <4>. QED  BY <4>1
    <3>. QED  BY <1>2, <1>4, <3>1, ReturnedUndone
  <2>2. CASE t.of = 0
    <3>1. 0 \notin DOMAIN entries /\ DOMAIN t.returns = {}
        BY <2>2, Finite, NothingSum DEF Computed
    <3>2. Part(t.returns)[f] = 0
        BY <3>1 DEF Part
    <3>. QED  BY <2>1, <2>2, <3>1, <3>2
  <2>3. CASE t.of # 0
    <3>1. t.returns = entries[t.of].returns
        BY <2>3 DEF Computed, Undoes
    <3>2. Part(t.returns)[f] = ReturnOf(t.of, f)
        BY <3>1 DEF Part, ReturnOf
    <3>. QED  BY <1>1, <2>1, <2>3, <3>2
  <2>. QED  BY <2>2, <2>3
<1>8. \A f \in DOMAIN fundings :
         /\ Returned(f) \in Nat /\ Returned(f)' \in Nat
         /\ Part(t.returns)[f] \in Nat
         /\ Returned(f) \in 0..fundings[f].amount /\ fundings[f].amount \in Nat
  <2>1. \A f \in DOMAIN fundings : Part(t.returns)[f] \in Nat
      BY <1>1, RestSum
  <2>2. \A f : Returned(f) \in Nat /\ Returned(f)' \in Nat
      BY <1>4, ReturnedSum, ReturnedNext
  <2>. QED  BY <2>1, <2>2, FundingForm DEF Given
<1>9. /\ Reserved' <= Reserved + Rest(t)
      /\ \A a \in Asset : OnAsset(a)' <= OnAsset(a) + Restored(t, a)
  <2>1. \A f \in Rows : Remaining(f) >= 0
      BY <1>8, Finite DEF Remaining
  <2>2. \A f \in Rows' : Remaining(f)' <= Remaining(f) + Part(t.returns)[f]
    <3>. TAKE f \in Rows'
    <3>1. f \in DOMAIN fundings
        BY <1>6, Finite
    <3>2. Remaining(f)' = fundings[f].amount - Returned(f)'
        BY <1>3 DEF Remaining
    <3>3. Remaining(f) = fundings[f].amount - Returned(f)
        BY DEF Remaining
    <3>. QED  BY <1>7, <1>8, <3>1, <3>2, <3>3
  <2>3. /\ Reserved' <= Reserved + SumFunctionOnSet(Part(t.returns), Rows)
        /\ \A a \in Asset : OnAsset(a)' <=
              OnAsset(a) + SumFunctionOnSet(Part(t.returns), RowsOf(a))
      BY <1>1, <1>4, <1>5, <1>6, <2>1, <2>2, LeftGrows
  <2>. QED  BY <1>1, <2>3, RestSum
<1>10. Kinds'
  <2>1. \A f \in DOMAIN fundings : fundings[f].source \in DOMAIN entries
      BY FundingForm
  <2>. QED  BY <1>2, <1>3, <2>1 DEF Kinds, Total
<1>11. Given'
  <2>1. \A f \in DOMAIN fundings' :
          /\ Returned(f)' \in 0..fundings'[f].amount
          /\ fundings'[f].cancelled => Returned(f)' = 0
    <3>. TAKE f \in DOMAIN fundings'
    <3>1. fundings' = fundings /\ f \in DOMAIN fundings
        BY <1>3
    <3>2. fundings[f].cancelled => Returned(f) = 0
        BY <3>1 DEF Given
    <3>. QED  BY <1>7, <1>8, <3>1, <3>2
  <2>2. \A i \in DOMAIN entries' : SourceUsed(i)' <= entries'[i].amount
    <3>. TAKE i \in DOMAIN entries'
    <3>1. SourceUsed(i)' <= SourceUsed(i) /\ SourceUsed(i) <= entries[i].amount
        BY <1>2, <1>4, <1>5, <1>6, UsedShrinks DEF Given
    <3>2. SourceUsed(i) \in Int /\ SourceUsed(i)' \in Int
        BY <1>4, UsedSum, UsedNext
    <3>3. entries'[i].amount = entries[i].amount /\ entries[i].amount \in Int
        BY <1>2, EntryForm
    <3>. QED  BY <3>1, <3>2, <3>3
  <2>. QED  BY <2>1, <2>2 DEF Given
<1>12. Unbacked' \subseteq Unbacked \cup ({t.of} \cap DOMAIN entries)
    BY <1>2, <1>3 DEF Unbacked, Standing
<1>. QED  BY <1>4, <1>5, <1>6, <1>9, <1>10, <1>11, <1>12

\* Writing a transaction that is safe keeps the properties of the tables:
\* what it takes without seeing is counted in "unseen".
LEMMA WriteKeeps ==
    ASSUME Tables, NEW t, Computed(t), Safe(t),
           t.of # 0 => entries[t.of].posted, Write(t)
    PROVE  /\ Tables' /\ Grows /\ Rows' \subseteq Rows
           /\ Reserved' <= Reserved + Rest(t)
           /\ \A a \in Asset : OnAsset(a)' <= OnAsset(a) + Restored(t, a)
<1>. USE DEF Tables
<1>1. /\ t.returns \in Returns /\ t.capital \in Int /\ t.cash \in Int
      /\ Takes(t)["capital"] = -t.capital /\ Takes(t)["cash"] = -t.cash
      /\ Takes(t)["value"] = Total(t.returns) /\ Total(t.returns) \in Nat
      /\ Rest(t) \in Nat /\ Rest(t) <= Total(t.returns)
      /\ \A a : Restored(t, a) \in Nat /\ Restored(t, a) <= Total(t.returns)
      /\ t.capital <= 0 => DOMAIN t.returns = {} /\ Total(t.returns) = 0
      /\ t.of # 0 => t.of \in DOMAIN entries
      /\ t.of # 0 /\ entries[t.of].type = "INVESTMENT" =>
            t.capital = -entries[t.of].amount
    BY ComputedFacts
<1>2. /\ Form' /\ Grows /\ Kinds' /\ Given'
      /\ Rows' \subseteq Rows
      /\ Unbacked' \subseteq Unbacked \cup ({t.of} \cap DOMAIN entries)
      /\ Reserved' <= Reserved + Rest(t)
      /\ \A a \in Asset : OnAsset(a)' <= OnAsset(a) + Restored(t, a)
    BY RunWritten
<1>3. /\ Reserved \in Int /\ Reserved' \in Int /\ capital \in Int /\ cash \in Int
      /\ unseen.capital \in Nat /\ unseen.cash \in Nat /\ unseen.value \in Nat
      /\ \A a \in Asset : assets[a].value \in Nat
      /\ \A a : OnAsset(a) \in Int /\ OnAsset(a)' \in Int
    BY <1>2, Numbers, ReservedSum, ReservedNext
<1>4. /\ assets' = assets /\ fundings' = fundings
      /\ capital' = capital + t.capital /\ cash' = cash + t.cash
      /\ unseen'.capital = unseen.capital
            + (IF "capital" \in t.missed THEN -t.capital ELSE 0)
      /\ unseen'.cash = unseen.cash + (IF "cash" \in t.missed THEN -t.cash ELSE 0)
      /\ unseen'.value = unseen.value
            + (IF "value" \in t.missed THEN Total(t.returns) ELSE 0)
  <2>1. unseen \in [{"capital", "cash", "value"} -> Nat]
      BY DEF Form
  <2>2. unseen' = [x \in DOMAIN unseen |->
                    unseen[x] + IF x \in t.missed THEN Takes(t)[x] ELSE 0]
      BY DEF Write
  <2>. QED  BY <1>1, <2>1, <2>2 DEF Write
<1>5. CapitalReserved'
  <2>1. ASSUME Reserved' > 0 PROVE Reserved' <= capital' + unseen'.capital
    <3>1. CASE "capital" \in t.missed
      <4>1. t.capital < 0
          BY <1>1, <3>1 DEF Computed
      <4>2. Rest(t) = 0
          BY <1>1, <4>1
      <4>3. Reserved > 0 => Reserved <= capital + unseen.capital
          BY DEF CapitalReserved
      <4>4. Reserved <= capital + unseen.capital
          BY <1>2, <1>3, <2>1, <4>2, <4>3
      <4>5. capital' + unseen'.capital = capital + unseen.capital
          BY <1>1, <1>3, <1>4, <3>1
      <4>. QED  BY <1>2, <1>3, <4>2, <4>4, <4>5
    <3>2. CASE "capital" \notin t.missed
      <4>1. Reserved + Rest(t) > 0
          BY <1>1, <1>2, <1>3, <2>1
      <4>2. Reserved + Rest(t) <= capital + unseen.capital + t.capital
          BY <3>2, <4>1 DEF Safe
      <4>3. capital' + unseen'.capital = capital + unseen.capital + t.capital
          BY <1>1, <1>3, <1>4, <3>2
      <4>. QED  BY <1>1, <1>2, <1>3, <4>2, <4>3
    <3>. QED  BY <3>1, <3>2
  <2>2. cash' + unseen'.cash >= 0
    <3>1. cash + unseen.cash >= 0
        BY DEF CapitalReserved
    <3>2. "cash" \notin t.missed /\ t.cash < 0 => cash + unseen.cash + t.cash >= 0
        BY DEF Safe
    <3>. QED  BY <1>1, <1>3, <1>4, <3>1, <3>2
  <2>. QED  BY <2>1, <2>2 DEF CapitalReserved
<1>6. ASSUME NEW a \in Asset PROVE OnAsset(a)' <= assets'[a].value + unseen'.value
  <2>1. OnAsset(a)' <= OnAsset(a) + Restored(t, a) /\ assets'[a].value = assets[a].value
      BY <1>2, <1>4
  <2>2. /\ OnAsset(a) \in Int /\ OnAsset(a)' \in Int /\ assets[a].value \in Nat
        /\ Restored(t, a) \in Nat /\ Restored(t, a) <= Total(t.returns)
      BY <1>1, <1>3
  <2>3. CASE "value" \in t.missed
    <3>1. OnAsset(a) <= assets[a].value + unseen.value
        BY DEF AssetsCovered
    <3>2. unseen'.value = unseen.value + Total(t.returns)
        BY <1>4, <2>3
    <3>. QED  BY <1>1, <1>3, <2>1, <2>2, <3>1, <3>2
  <2>4. CASE "value" \notin t.missed
    <3>1. OnAsset(a) + Restored(t, a) <= assets[a].value + unseen.value
        BY <2>4 DEF Safe
    <3>2. unseen'.value = unseen.value
        BY <1>3, <1>4, <2>4
    <3>. QED  BY <1>3, <2>1, <2>2, <3>1, <3>2
  <2>. QED  BY <2>3, <2>4
<1>7. unseen.capital <= unseen'.capital
  <2>1. "capital" \in t.missed => -t.capital > 0
      BY <1>1 DEF Computed
  <2>. QED  BY <1>1, <1>3, <1>4, <2>1
<1>8. AssetsCovered'
  <2>1. CASE Unbacked' \subseteq Unbacked
      BY <1>2, <1>6, <1>7, <2>1, StaysCovered
  <2>2. CASE ~(Unbacked' \subseteq Unbacked)
    <3>1. t.of \in DOMAIN entries /\ t.of \in Unbacked'
        BY <1>2, <2>2
    <3>2. t.of # 0
        BY <3>1, Finite
    <3>3. PICK f \in DOMAIN fundings : fundings[f].source = t.of /\ ~fundings[f].cancelled
        BY <1>4, <3>1 DEF Unbacked
    <3>4. entries[t.of].type = "INVESTMENT"
        BY <3>3 DEF Kinds
    <3>5. "capital" \in t.missed
        BY <3>2, <3>3, <3>4 DEF Safe, Unfunded
    <3>6. t.capital = -entries[t.of].amount /\ entries[t.of].amount \in Nat
        BY <1>1, <3>1, <3>2, <3>4, EntryForm
    <3>7. unseen'.capital = unseen.capital + entries[t.of].amount
        BY <1>1, <1>3, <1>4, <3>5, <3>6
    <3>. DEFINE S == {t.of}
                g == [i \in DOMAIN entries |-> entries[i].amount]
    <3>8. /\ S \in SUBSET DOMAIN entries /\ IsFiniteSet(S)
          /\ Unbacked' \subseteq Unbacked \cup S
        BY <1>2, <3>1, FS_Singleton
    <3>9. Owed' <= Owed + SumFunctionOnSet(g, S)
      <4>. HIDE DEF S
      <4>. QED  BY <1>2, <3>8, UnbackedGrows
    <3>10. SumFunctionOnSet(g, S) = entries[t.of].amount
      <4>1. g[t.of] = entries[t.of].amount /\ g[t.of] \in Int
          BY <3>1, <3>6
      <4>. HIDE DEF g
      <4>. QED  BY <4>1, SumSingle
    <3>11. Owed <= unseen.capital /\ Owed \in Int /\ Owed' \in Int
      <4>1. Owed <= unseen.capital
          BY DEF AssetsCovered, Owed
      <4>. QED  BY <1>2, <4>1, OwedSum, OwedNext
    <3>12. Owed' <= unseen'.capital
        BY <1>3, <3>6, <3>7, <3>9, <3>10, <3>11
    <3>. QED  BY <1>6, <3>12 DEF AssetsCovered, Owed
  <2>. QED  BY <2>1, <2>2
<1>. QED  BY <1>2, <1>5, <1>8

\* A transaction that waits and is not aborted when another, just computed,
\* is written is still safe: either it has not read the capital, and then
\* takes none of it and restores nothing, or the other changed none of it.
LEMMA SurvivorSafe ==
    ASSUME Tables, Tables', NEW t, Computed(t), Write(t), Grows,
           t.missed \subseteq {"cash"},
           Rows' \subseteq Rows,
           Reserved' <= Reserved + Rest(t),
           \A a \in Asset : OnAsset(a)' <= OnAsset(a) + Restored(t, a),
           t.capital # 0 /\ Rows # {} => "capital" \in t.reads,
           t.cash < 0 /\ "cash" \notin t.missed => "cash" \in t.reads,
           NEW w, Computed(w), Safe(w), CapitalSeen(w),
           NEW u, u \in Waiting',
           u.branch = w.branch, u.of = w.of, u.capital = w.capital,
           u.cash = w.cash, u.returns = w.returns, u.reads = w.reads,
           u.missed = w.missed,
           u.over = (w.over \/ w.reads \cap Writes(t) # {}),
           ~(u.over /\ Writes(u) \cap t.reads # {})
    PROVE  Computed(u)' /\ Safe(u)' /\ CapitalSeen(u)'
<1>. USE DEF Tables
<1>1. /\ w.returns \in Returns /\ w.capital \in Int /\ w.cash \in Int
      /\ t.returns \in Returns /\ t.capital \in Int /\ t.cash \in Int
      /\ Rest(w) \in Nat /\ Rest(t) \in Nat
      /\ \A a : Restored(t, a) \in Nat
      /\ Rest(t) <= Total(t.returns) /\ Total(t.returns) \in Nat
      /\ \A a : Restored(t, a) <= Total(t.returns)
      /\ t.capital <= 0 => Total(t.returns) = 0
    BY ComputedFacts
<1>2. /\ Rest(u)' <= Rest(w) /\ Rest(u)' \in Nat
      /\ \A a \in Asset : /\ Restored(u, a)' <= Restored(w, a)
                          /\ Restored(u, a)' \in Nat /\ Restored(w, a) \in Nat
    BY <1>1, RestShrinks
<1>3. /\ Reserved \in Int /\ Reserved' \in Int /\ capital \in Int /\ cash \in Int
      /\ capital' \in Int /\ cash' \in Int
      /\ unseen.capital \in Nat /\ unseen.cash \in Nat /\ unseen.value \in Nat
      /\ \A a \in Asset : assets[a].value \in Nat
      /\ \A a : OnAsset(a) \in Int /\ OnAsset(a)' \in Int
    BY Numbers, NumbersNext, ReservedSum, ReservedNext
<1>4. /\ assets' = assets /\ fundings' = fundings
      /\ capital' = capital + t.capital /\ cash' = cash + t.cash
    BY DEF Write
<1>5. /\ unseen'.capital = unseen.capital /\ unseen'.value = unseen.value
      /\ unseen'.cash = unseen.cash + (IF "cash" \in t.missed THEN -t.cash ELSE 0)
  <2>1. unseen \in [{"capital", "cash", "value"} -> Nat]
      BY DEF Form
  <2>2. unseen' = [x \in DOMAIN unseen |->
                    unseen[x] + IF x \in t.missed THEN Takes(t)[x] ELSE 0]
      BY DEF Write
  <2>3. Takes(t)["cash"] = -t.cash
      BY DEF Takes
  <2>4. "capital" \notin t.missed /\ "value" \notin t.missed
      OBVIOUS
  <2>. QED  BY <1>3, <2>1, <2>2, <2>3, <2>4
<1>6. "capital" \in Writes(t) <=> t.capital # 0
    BY DEF Writes
<1>7. "capital" \in Writes(u) <=> w.capital # 0
    BY DEF Writes
<1>8. /\ "cash" \in Writes(t) <=> t.cash # 0
      /\ "cash" \in Writes(u) <=> w.cash # 0
    BY DEF Writes
<1>9. Computed(u)'
  <2>1. \A x \in u.missed : Takes(w)[x] > 0
      BY DEF Computed
  <2>2. w.missed \subseteq u.missed
      OBVIOUS
  <2>. QED  BY <2>1, <2>2, StaysComputed
\* there is nothing reserved, the capital stays, or w has not read it
<1>10. \/ Rows = {}
       \/ t.capital = 0 /\ Rest(t) = 0 /\ \A a : Restored(t, a) = 0
       \/ "capital" \notin w.reads
  <2>1. CASE t.capital = 0
      BY <1>1, <2>1
  <2>2. CASE t.capital # 0 /\ Rows # {} /\ "capital" \in w.reads
    <3>1. "capital" \in t.reads /\ u.over
        BY <1>6, <2>2
    <3>2. w.capital = 0
        BY <1>7, <3>1
    <3>. QED  BY <2>2, <3>2 DEF Computed
  <2>. QED  BY <2>1, <2>2
<1>11. "capital" \notin w.reads =>
          /\ Rest(u)' = 0 /\ \A a \in Asset : Restored(u, a)' = 0
          /\ "capital" \in w.missed \/ w.capital >= 0 \/ Rows = {}
  <2>. SUFFICES ASSUME "capital" \notin w.reads
                PROVE  /\ Rest(u)' = 0 /\ \A a \in Asset : Restored(u, a)' = 0
                       /\ "capital" \in w.missed \/ w.capital >= 0 \/ Rows = {}
      OBVIOUS
  <2>1. Rows \cap DOMAIN w.returns = {}
      BY DEF CapitalSeen
  <2>2. Rest(w) = 0 /\ \A a : Restored(w, a) = 0
      BY <1>1, <2>1, RestSum
  <2>3. Rest(u)' = 0 /\ \A a \in Asset : Restored(u, a)' = 0
      BY <1>2, <2>2
  <2>4. "capital" \in w.missed \/ w.capital >= 0 \/ Rows = {}
      BY <1>1 DEF CapitalSeen
  <2>. QED  BY <2>3, <2>4
<1>12. ASSUME "capital" \notin u.missed, u.of # 0 PROVE Unfunded(u.of)'
  <2>1. Unfunded(w.of) /\ w.of \in DOMAIN entries
      BY <1>12, ComputedFacts DEF Safe
  <2>. QED  BY <1>4, <2>1 DEF Unfunded, Grows
<1>13. ASSUME "capital" \notin u.missed, Reserved' + Rest(u)' > 0
       PROVE  Reserved' + Rest(u)' <= capital' + unseen'.capital + u.capital
  <2>1. CASE Rows = {}
    <3>1. Rows' = {} /\ u.returns \in Returns'
        BY <2>1, GrowsKeeps, <1>1
    <3>2. Reserved' = 0
        BY <3>1, NoRowsNext
    <3>3. (Rows \cap DOMAIN u.returns = {})'
        BY <3>1
    <3>4. Rest(u)' = 0
        BY <3>1, <3>3, RestNext
    <3>. QED  BY <1>13, <3>2, <3>4
  <2>2. CASE t.capital = 0 /\ Rest(t) = 0
    <3>1. Reserved' <= Reserved /\ capital' = capital
        BY <1>3, <1>4, <2>2
    <3>2. Reserved + Rest(w) > 0
        BY <1>1, <1>2, <1>3, <1>13, <3>1
    <3>3. Reserved + Rest(w) <= capital + unseen.capital + w.capital
        BY <1>13, <3>2 DEF Safe
    <3>. QED  BY <1>1, <1>2, <1>3, <1>5, <3>1, <3>3
  <2>3. CASE "capital" \notin w.reads /\ Rows # {}
    <3>1. Rest(u)' = 0 /\ w.capital >= 0
        BY <1>11, <1>13, <2>3
    <3>2. Reserved' > 0
      <4>. DEFINE n == Reserved'
                  m == Rest(u)'
      <4>1. n \in Int
          BY <1>3
      <4>2. m \in Int
          BY <1>2
      <4>3. n + m > 0
          BY <1>13
      <4>4. m = 0
          BY <3>1
      <4>. HIDE DEF n, m
      <4>5. n > 0
          BY <4>1, <4>2, <4>3, <4>4
      <4>. QED  BY <4>5 DEF n
    <3>3. Reserved' <= capital' + unseen'.capital
        BY <3>2 DEF CapitalReserved
    <3>. QED  BY <1>1, <1>3, <1>5, <3>1, <3>3
  <2>. QED  BY <1>10, <2>1, <2>2, <2>3
<1>14. ASSUME "cash" \notin u.missed, u.cash < 0
       PROVE  cash' + unseen'.cash + u.cash >= 0
  <2>1. cash + unseen.cash + w.cash >= 0 /\ "cash" \in w.reads
      BY <1>14 DEF Safe, CapitalSeen
  <2>2. CASE "cash" \in t.missed
    <3>1. cash' + unseen'.cash = cash + unseen.cash
        BY <1>1, <1>3, <1>4, <1>5, <2>2
    <3>. QED  BY <2>1, <3>1
  <2>3. CASE "cash" \notin t.missed
    <3>1. t.cash >= 0
      <4>. SUFFICES ASSUME t.cash < 0 PROVE FALSE
          BY <1>1
      <4>1. "cash" \in t.reads /\ "cash" \in Writes(t) /\ "cash" \in Writes(u)
          BY <1>8, <1>14, <2>3
      <4>. QED  BY <2>1, <4>1
    <3>. QED  BY <1>1, <1>3, <1>4, <1>5, <2>1, <2>3, <3>1
  <2>. QED  BY <2>2, <2>3
<1>15. ASSUME "value" \notin u.missed, NEW a \in Asset
       PROVE  OnAsset(a)' + Restored(u, a)' <= assets'[a].value + unseen'.value
  <2>1. assets'[a].value = assets[a].value
      BY <1>4
  <2>2. OnAsset(a)' <= assets'[a].value + unseen'.value
      BY DEF AssetsCovered
  <2>3. OnAsset(a) + Restored(w, a) <= assets[a].value + unseen.value
      BY <1>15 DEF Safe
  <2>4. /\ OnAsset(a) \in Int /\ OnAsset(a)' \in Int /\ assets[a].value \in Nat
        /\ Restored(w, a) \in Nat /\ Restored(u, a)' \in Nat
        /\ Restored(u, a)' <= Restored(w, a)
        /\ OnAsset(a)' <= OnAsset(a) + Restored(t, a)
      BY <1>2, <1>3
  <2>5. CASE Rows = {}
    <3>1. u.returns \in Returns'
        BY <1>1, GrowsKeeps
    <3>2. (Rows \cap DOMAIN u.returns = {})'
        BY <2>5
    <3>3. Restored(u, a)' = 0
        BY <3>1, <3>2, RestNext
    <3>. QED  BY <2>2, <2>4, <3>3
  <2>6. CASE \A b : Restored(t, b) = 0
    <3>1. Restored(t, a) = 0
        BY <2>6
    <3>. QED  BY <1>3, <1>5, <2>1, <2>3, <2>4, <3>1
  <2>7. CASE "capital" \notin w.reads
    <3>1. Restored(u, a)' = 0
        BY <1>11, <2>7
    <3>. QED  BY <2>2, <2>4, <3>1
  <2>. QED  BY <1>10, <2>5, <2>6, <2>7
<1>16. Safe(u)'
    BY <1>12, <1>13, <1>14, <1>15 DEF Safe
<1>17. CapitalSeen(u)'
    BY DEF CapitalSeen
<1>. QED  BY <1>9, <1>16, <1>17

\* When the tables stay, so does what is known of them and of a transaction.
LEMMA SameTables ==
    ASSUME tables' = tables, unseen' = unseen
    PROVE  /\ Tables => Tables'
           /\ \A t : /\ Computed(t) => Computed(t)'
                     /\ Safe(t) => Safe(t)'
                     /\ CapitalSeen(t) => CapitalSeen(t)'
<1>1. /\ assets' = assets /\ entries' = entries /\ fundings' = fundings
      /\ capital' = capital /\ cash' = cash /\ unseen' = unseen
    BY DEF tables
<1>2. /\ Rows' = Rows /\ Standing' = Standing /\ Returns' = Returns
      /\ \A a : RowsOf(a)' = RowsOf(a) /\ \A i : RowsFrom(i)' = RowsFrom(i)
    BY <1>1 DEF Rows, Standing, Returns, RowsOf, RowsFrom
<1>3. \A f : Returned(f)' = Returned(f)
    BY <1>1, <1>2 DEF Returned, ReturnOf
<1>4. \A f : Remaining(f)' = Remaining(f)
    BY <1>1, <1>3 DEF Remaining
<1>5. Reserved' = Reserved /\ \A a : OnAsset(a)' = OnAsset(a)
    BY <1>2, <1>4 DEF Reserved, OnAsset
<1>6. \A i : SourceUsed(i)' = SourceUsed(i)
    BY <1>1, <1>2 DEF SourceUsed
<1>7. Unbacked' = Unbacked
    BY <1>1, <1>2 DEF Unbacked
<1>8. Form' = Form /\ Waiting' = Waiting
    BY <1>1, <1>2 DEF Form, Entry, Funding, Waiting
<1>9. Kinds => Kinds'
    BY <1>1 DEF Kinds, Total
<1>10. Given => Given'
    BY <1>1, <1>3, <1>6 DEF Given
<1>11. CapitalReserved => CapitalReserved'
    BY <1>1, <1>5 DEF CapitalReserved
<1>12. AssetsCovered => AssetsCovered'
    BY <1>1, <1>5, <1>7 DEF AssetsCovered
<1>13. ASSUME NEW t PROVE Rest(t)' = Rest(t) /\ \A a : Restored(t, a)' = Restored(t, a)
    BY <1>2 DEF Rest, Restored
<1>14. ASSUME NEW t, Computed(t) PROVE Computed(t)'
    BY <1>1, <1>8, <1>14 DEF Computed, Undoes, Takes, Total
<1>15. ASSUME NEW t, Safe(t) PROVE Safe(t)'
  <2>1. "capital" \notin t.missed /\ t.of # 0 => Unfunded(t.of)'
      BY <1>1, <1>15 DEF Safe, Unfunded
  <2>. QED  BY <1>1, <1>5, <1>13, <1>15, <2>1 DEF Safe
<1>16. ASSUME NEW t, CapitalSeen(t) PROVE CapitalSeen(t)'
    BY <1>2, <1>16 DEF CapitalSeen
<1>. QED  BY <1>8, <1>9, <1>10, <1>11, <1>12, <1>14, <1>15, <1>16 DEF Tables

\* A transaction that has just been computed is written at once, or waits.
LEMMA RunKeeps ==
    ASSUME FundsIInv, NEW t, Computed(t), Permitted(t),
           t.missed \subseteq {"cash"},
           t.of # 0 => Unfunded(t.of) /\ entries[t.of].posted,
           t.cash < 0 /\ "cash" \notin t.missed =>
              cash + t.cash >= 0 /\ "cash" \in t.reads,
           t.capital # 0 /\ Rows # {} => "capital" \in t.reads,
           Run(t)
    PROVE  FundsIInv'
<1>1. Tables
    BY DEF FundsIInv
<1>2. Safe(t) /\ CapitalSeen(t)
    BY <1>1, FreshIsSafe
<1>3. CASE Write(t) /\ PassSerializable(t)
  <2>1. /\ Tables' /\ Grows /\ Rows' \subseteq Rows
        /\ Reserved' <= Reserved + Rest(t)
        /\ \A a \in Asset : OnAsset(a)' <= OnAsset(a) + Restored(t, a)
      BY <1>1, <1>2, <1>3, WriteKeeps
  <2>2. ASSUME NEW u \in waiting'
        PROVE  \E w \in waiting :
                  /\ u = [w EXCEPT !.over = @ \/ w.reads \cap Writes(t) # {}]
                  /\ u \in Waiting'
                  /\ u.branch = w.branch /\ u.of = w.of /\ u.capital = w.capital
                  /\ u.cash = w.cash /\ u.returns = w.returns /\ u.reads = w.reads
                  /\ u.missed = w.missed
                  /\ u.over = (w.over \/ w.reads \cap Writes(t) # {})
                  /\ ~(u.over /\ Writes(u) \cap t.reads # {})
    <3>1. PICK w \in waiting :
             /\ u = [w EXCEPT !.over = @ \/ w.reads \cap Writes(t) # {}]
             /\ ~(u.over /\ Writes(u) \cap t.reads # {})
        BY <1>3 DEF PassSerializable
    <3>2. w \in Waiting
        BY DEF FundsIInv, Computed
    <3>. DEFINE q == w.over \/ w.reads \cap Writes(t) # {}
    <3>3. u = [w EXCEPT !.over = q] /\ q \in BOOLEAN
        BY <3>1
    <3>4. /\ u \in Waiting
          /\ u.branch = w.branch /\ u.of = w.of /\ u.capital = w.capital
          /\ u.cash = w.cash /\ u.returns = w.returns /\ u.reads = w.reads
          /\ u.missed = w.missed /\ u.over = q
      <4>. HIDE DEF q
      <4>. QED  BY <3>2, <3>3 DEF Waiting
    <3>5. u \in Waiting'
      <4>1. Returns \subseteq Returns'
          BY <1>1, <2>1, GrowsKeeps DEF Tables
      <4>. QED  BY <3>4, <4>1 DEF Waiting
    <3>. QED  BY <3>1, <3>4, <3>5
  <2>3. ASSUME NEW u \in waiting' PROVE Computed(u)' /\ Safe(u)' /\ CapitalSeen(u)'
    <3>1. PICK w \in waiting :
                  /\ u \in Waiting'
                  /\ u.branch = w.branch /\ u.of = w.of /\ u.capital = w.capital
                  /\ u.cash = w.cash /\ u.returns = w.returns /\ u.reads = w.reads
                  /\ u.missed = w.missed
                  /\ u.over = (w.over \/ w.reads \cap Writes(t) # {})
                  /\ ~(u.over /\ Writes(u) \cap t.reads # {})
        BY <2>2
    <3>2. Computed(w) /\ Safe(w) /\ CapitalSeen(w)
        BY DEF FundsIInv
    <3>. QED  BY <1>1, <1>3, <2>1, <3>1, <3>2, SurvivorSafe
  <2>4. OneWaits'
    <3>. SUFFICES ASSUME NEW u \in waiting', NEW v \in waiting' PROVE u = v
        BY DEF OneWaits
    <3>1. PICK w \in waiting : u = [w EXCEPT !.over = @ \/ w.reads \cap Writes(t) # {}]
        BY <2>2
    <3>2. PICK x \in waiting : v = [x EXCEPT !.over = @ \/ x.reads \cap Writes(t) # {}]
        BY <2>2
    <3>3. w = x
        BY DEF FundsIInv, OneWaits
    <3>. QED  BY <3>1, <3>2, <3>3
  <2>. QED  BY <2>1, <2>3, <2>4 DEF FundsIInv
<1>4. CASE waiting' = {t} /\ UNCHANGED <<tables, unseen, writes>>
  <2>1. tables' = tables /\ unseen' = unseen
      BY <1>4
  <2>2. /\ Tables => Tables'
        /\ Computed(t) => Computed(t)'
        /\ Safe(t) => Safe(t)'
        /\ CapitalSeen(t) => CapitalSeen(t)'
      BY <2>1, SameTables
  <2>3. Tables' /\ Computed(t)' /\ Safe(t)' /\ CapitalSeen(t)'
      BY <1>1, <1>2, <2>2
  <2>4. OneWaits'
      BY <1>4 DEF OneWaits
  <2>. QED  BY <1>4, <2>3, <2>4 DEF FundsIInv
<1>. QED  BY <1>3, <1>4 DEF Run

\* A reversal is computed from the entry it takes back.
LEMMA ReverseKeeps ==
    ASSUME FundsIInv, NEW i \in DOMAIN entries, Reverse(i)
    PROVE  FundsIInv'
<1>. DEFINE e == entries[i]
            n == IF e.type \in Incoming THEN -e.amount ELSE e.amount
            c == IF e.type \in OfCapital THEN n ELSE 0
            r == CapitalRead(c) \cup (IF e.type \in Incoming THEN {"cash"} ELSE {})
            t == Transaction(e.branch, i, c, n, e.returns, r)
<1>1. Form /\ Kinds
    BY DEF FundsIInv, Tables
<1>2. /\ e.branch \in Branch /\ e.amount \in Nat \ {0} /\ e.returns \in Returns
      /\ i \in Nat /\ i # 0
    BY <1>1, EntryForm, Finite
<1>3. e.posted /\ Unfunded(i) /\ Covered(i) /\ Permitted(t) /\ Run(t)
    BY DEF Reverse
<1>4. n \in Int /\ c \in Int /\ r \in SUBSET FundAccount
    BY <1>2 DEF CapitalRead, FundAccount
<1>5. /\ t.branch = e.branch /\ t.of = i /\ t.capital = c /\ t.cash = n
      /\ t.returns = e.returns /\ t.reads = r /\ t.over = FALSE /\ t.missed = {}
      /\ t \in Waiting
  <2>. HIDE DEF c, n, r, e
  <2>. QED  BY <1>2, <1>4 DEF Transaction, Waiting
<1>6. Computed(t)
  <2>1. Undoes(t, i)
    <3>. HIDE DEF t
    <3>. QED  BY <1>5 DEF Undoes
  <2>2. "capital" \in r => c # 0
      BY DEF CapitalRead
  <2>. HIDE DEF t, r, c
  <2>. QED  BY <1>2, <1>5, <2>1, <2>2 DEF Computed
<1>7. t.cash < 0 => cash + t.cash >= 0 /\ "cash" \in t.reads
  <2>. SUFFICES ASSUME n < 0 PROVE cash + n >= 0 /\ "cash" \in r
    <3>. HIDE DEF t, n, r
    <3>. QED  BY <1>5
  <2>1. e.type \in Incoming /\ n = -e.amount
      BY <1>2
  <2>2. e.amount <= cash
      BY <1>3, <2>1 DEF Covered
  <2>3. cash \in Int
      BY <1>1, Numbers
  <2>. QED  BY <1>2, <2>1, <2>2, <2>3
<1>8. t.capital # 0 /\ Rows # {} => "capital" \in t.reads
  <2>1. c # 0 /\ Rows # {} => "capital" \in r
      BY DEF CapitalRead
  <2>. HIDE DEF t, c, r
  <2>. QED  BY <1>5, <2>1
<1>. HIDE DEF t
<1>. QED  BY <1>2, <1>3, <1>5, <1>6, <1>7, <1>8, RunKeeps

\* A journal takes back nothing; what it takes of the money is noted.
LEMMA JournalKeeps ==
    ASSUME FundsIInv, NEW b \in Branch, NEW n \in Int, NEW m \in Int,
           PostJournal(b, n, m)
    PROVE  FundsIInv'
<1>. DEFINE r == CapitalRead(n)
            x == IF m < 0 THEN {"cash"} ELSE {}
            t == Transaction(b, 0, n, m, Nothing, r)
<1>1. Permitted(t) /\ Run(t)
    BY DEF PostJournal
<1>2. Nothing \in Returns /\ DOMAIN Nothing = {} /\ r \in SUBSET FundAccount
    BY NothingSum DEF CapitalRead, FundAccount
<1>3. /\ x \subseteq {"cash"} /\ (m < 0 => "cash" \in x)
      /\ "cash" \in x => m < 0
    OBVIOUS
<1>4. /\ t.of = 0 /\ t.capital = n /\ t.cash = m
      /\ t.returns = Nothing /\ t.reads = r /\ t.missed = x
      /\ t \in Waiting
  <2>. HIDE DEF r
  <2>. QED  BY <1>2 DEF Transaction, Waiting
<1>5. ("capital" \in r => n # 0) /\ (n # 0 /\ Rows # {} => "capital" \in r)
    BY DEF CapitalRead
<1>. HIDE DEF t, r, x
<1>6. \A y \in t.missed : Takes(t)[y] > 0
  <2>. TAKE y \in t.missed
  <2>1. y = "cash" /\ m < 0
      BY <1>3, <1>4
  <2>2. Takes(t)["cash"] = -m
      BY <1>4 DEF Takes
  <2>. QED  BY <2>1, <2>2
<1>7. Computed(t)
    BY <1>3, <1>4, <1>5, <1>6 DEF Computed
<1>8. t.capital # 0 /\ Rows # {} => "capital" \in t.reads
    BY <1>4, <1>5
<1>9. /\ t.missed \subseteq {"cash"}
      /\ t.cash < 0 => "cash" \in t.missed
    BY <1>3, <1>4
<1>. QED  BY <1>1, <1>4, <1>7, <1>8, <1>9, RunKeeps

\* The transaction that waits is written, or aborted, and no other waits.
LEMMA EndKeeps ==
    ASSUME FundsIInv, NEW t \in waiting, Commit(t) \/ Abort(t)
    PROVE  FundsIInv'
<1>1. waiting' = {}
    BY DEF FundsIInv, OneWaits, Commit, Abort
<1>2. Tables /\ Computed(t) /\ Safe(t)
    BY DEF FundsIInv
<1>3. Tables'
  <2>1. CASE Commit(t)
      BY <1>2, <2>1, WriteKeeps DEF Commit
  <2>2. CASE Abort(t)
      BY <1>2, <2>2, SameTables DEF Abort
  <2>. QED  BY <2>1, <2>2
<1>. QED  BY <1>1, <1>3 DEF FundsIInv, OneWaits

-----------------------------------------------------------------------------
(* The theorems.                                                           *)

\* At the start nothing is paid in, allocated or reserved, and nothing waits.
LEMMA Initially ==
    FundsInit => FundsIInv
<1>. SUFFICES ASSUME FundsInit PROVE FundsIInv
    OBVIOUS
<1>. USE DEF FundsInit
<1>1. DOMAIN entries = {} /\ DOMAIN fundings = {}
    OBVIOUS
<1>2. Form
  <2>1. entries \in Seq(Entry) /\ fundings \in Seq(Funding)
      OBVIOUS
  <2>2. assets \in [Asset -> [branch : Branch, value : Value,
                              disposed : BOOLEAN]]
    <3>1. {FALSE} \subseteq BOOLEAN
        OBVIOUS
    <3>. QED  BY <3>1
  <2>3. unseen \in [{"capital", "cash", "value"} -> Nat]
      OBVIOUS
  <2>. QED  BY <2>1, <2>2, <2>3 DEF Form
<1>3. Rows = {} /\ Unbacked = {} /\ \A a : RowsOf(a) = {}
    BY <1>1 DEF Rows, Unbacked, RowsOf
<1>4. Reserved = 0 /\ \A a : OnAsset(a) = 0
    BY <1>2, <1>3, NoRows
<1>5. Owed = 0
  <2>1. Owed = SumFunctionOnSet([i \in {} |-> entries[i].amount], {})
      BY <1>3 DEF Owed, SumFunction
  <2>. QED  BY <2>1, SumEmpty
<1>6. Kinds /\ Given
    BY <1>1 DEF Kinds, Given
<1>7. CapitalReserved
    BY <1>4 DEF CapitalReserved
<1>8. AssetsCovered
  <2>1. \A a \in Asset : assets[a].value \in Nat
      BY <1>2, Numbers
  <2>. QED  BY <1>4, <1>5, <2>1 DEF AssetsCovered, Owed
<1>. QED  BY <1>2, <1>6, <1>7, <1>8 DEF FundsIInv, Tables, OneWaits

\* Every step keeps the invariant, whichever transaction makes it.
LEMMA StepKeeps ==
    FundsIInv /\ [FundsNext]_fundsVars => FundsIInv'
<1>. SUFFICES ASSUME FundsIInv, [FundsNext]_fundsVars PROVE FundsIInv'
    OBVIOUS
<1>1. CASE PayNext
  <2>1. PICK b \in Branch, n \in OwnerAmount :
           \/ \E type \in Type : PayIn(type, b, n)
           \/ \E type \in Type, s \in SUBSET DOMAIN fundings :
                 \E returns \in [s -> OwnerAmount] : TakeOut(type, b, n, returns)
      BY <1>1 DEF PayNext
  <2>2. CASE \E type \in Type : PayIn(type, b, n)
      BY <2>2, PayInKeeps
  <2>3. CASE \E type \in Type, s \in SUBSET DOMAIN fundings :
                \E returns \in [s -> OwnerAmount] : TakeOut(type, b, n, returns)
    <3>1. PICK type \in Type, s \in SUBSET DOMAIN fundings :
             \E returns \in [s -> OwnerAmount] : TakeOut(type, b, n, returns)
        BY <2>3
    <3>2. PICK returns \in [s -> OwnerAmount] : TakeOut(type, b, n, returns)
        BY <3>1
    <3>3. returns \in Returns
        BY DEF Returns
    <3>. QED  BY <3>2, <3>3, TakeOutKeeps
  <2>. QED  BY <2>1, <2>2, <2>3
<1>2. CASE AssetNext
    BY <1>2, AllocateKeeps, CancelKeeps, AssetKeeps DEF AssetNext
<1>3. CASE \E i \in DOMAIN entries : Reverse(i)
    BY <1>3, ReverseKeeps
<1>4. CASE \E t \in waiting : Commit(t) \/ Abort(t)
    BY <1>4, EndKeeps
<1>5. CASE UNCHANGED fundsVars
  <2>1. tables' = tables /\ unseen' = unseen /\ waiting' = waiting
      BY <1>5 DEF fundsVars
  <2>2. Tables'
      BY <2>1, SameTables DEF FundsIInv
  <2>3. ASSUME NEW t \in waiting' PROVE Computed(t)' /\ Safe(t)' /\ CapitalSeen(t)'
    <3>1. Computed(t) /\ Safe(t) /\ CapitalSeen(t)
        BY <2>1 DEF FundsIInv
    <3>2. /\ Computed(t) => Computed(t)'
          /\ Safe(t) => Safe(t)'
          /\ CapitalSeen(t) => CapitalSeen(t)'
        BY <2>1, SameTables
    <3>. QED  BY <3>1, <3>2
  <2>4. OneWaits'
      BY <2>1 DEF FundsIInv, OneWaits
  <2>. QED  BY <2>2, <2>3, <2>4 DEF FundsIInv
<1>6. CASE JournalNext
  <2>1. PICK b \in Branch, n \in JournalAmount, m \in JournalAmount : PostJournal(b, n, m)
      BY <1>6 DEF JournalNext
  <2>2. n \in Int /\ m \in Int
      BY OwnerFundsConstants
  <2>. QED  BY <2>1, <2>2, JournalKeeps
<1>. QED  BY <1>1, <1>2, <1>3, <1>4, <1>5, <1>6 DEF FundsNext

\* The rows say the same of an owner, his assets and the transaction that
\* waits, after any steps (src/lib/account/owner-asset-funding.ts).
THEOREM OwnerFundsInvariant == FundsSpec => []FundsIInv
BY Initially, StepKeeps, PTL DEF FundsSpec

\* Every row keeps the form of its table, no more is given back for a funding
\* than it was, and no contribution pays for more than it is: whatever is
\* allocated, returned, cancelled and reversed.
THEOREM OwnerFundsTypes == FundsSpec => []FundsTypeOK
<1>1. FundsIInv => FundsTypeOK
  <2>. SUFFICES ASSUME Form, Given PROVE FundsTypeOK
      BY DEF FundsIInv, Tables
  <2>1. \A i \in DOMAIN entries : entries[i] \in Entry
      BY EntryForm
  <2>2. \A f \in DOMAIN fundings : fundings[f] \in Funding
      BY FundingForm
  <2>. QED  BY <2>1, <2>2 DEF FundsTypeOK, Form, Given, Entry, Funding, Returns
<1>. QED  BY <1>1, OwnerFundsInvariant, PTL

\* The owner's capital holds what is reserved for his assets, but for what a
\* reversal or a journal took that did not see what was committed before it;
\* and the money account lacks no more than what reversals took in this way,
\* and what journals posted by hand took, which look at no balance
\* (src/lib/accounting/service.ts).
THEOREM OwnerCapitalReserved == FundsSpec => []CapitalReserved
<1>1. FundsIInv => CapitalReserved
    BY DEF FundsIInv, Tables
<1>. QED  BY <1>1, OwnerFundsInvariant, PTL

\* No asset is owed more for than it cost, and no contribution that pays for
\* one is taken back, with the same exception.
THEOREM OwnerAssetsCovered == FundsSpec => []AssetsCovered
<1>1. FundsIInv => AssetsCovered
    BY DEF FundsIInv, Tables
<1>. QED  BY <1>1, OwnerFundsInvariant, PTL

===============================================================================
