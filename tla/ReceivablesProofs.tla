-------------------------- MODULE ReceivablesProofs ---------------------------
(***************************************************************************)
(* Proofs about Receivables, for any amounts, discounts and bounds.        *)
(*                                                                         *)
(* A transaction is a composition of operators from books to books, so     *)
(* what is invariant is stated of books, and proved of one operator at a   *)
(* time.  An operator that folds a call over many rows stays in any set of *)
(* books that the single call stays in.  The calls, the transactions and   *)
(* what they keep are defined in ReceivablesCalls.                         *)
(***************************************************************************)
EXTENDS ReceivablesCalls, SumFacts

-----------------------------------------------------------------------------
(* Folds from the lowest number.                                           *)

IsFold(g, base, f, S) ==
    g = [P \in SUBSET S |-> IF P = {} THEN base ELSE f[P][g[P \ {Max(P)}]]]

\* The fold of any function over the rows exists.
LEMMA FoldTable ==
    ASSUME NEW S, IsFiniteSet(S), S \subseteq Nat, NEW base, NEW f
    PROVE  \E g : IsFold(g, base, f, S)
<1>. DEFINE F(g, P) == IF P = {} THEN base ELSE f[P][g[P \ {Max(P)}]]
            Sub(n) == {P \in SUBSET S : Cardinality(P) <= n}
            N == {n \in Nat : \E g : g = [P \in Sub(n) |-> F(g, P)]}
<1>1. 0 \in N
  <2>1. Sub(0) = {{}}
      BY FS_EmptySet, FS_Subset, FS_CardinalityType
  <2>2. [P \in Sub(0) |-> base] = [P \in Sub(0) |-> F([U \in Sub(0) |-> base], P)]
      BY <2>1
  <2>. QED  BY <2>2
<1>2. ASSUME NEW n \in Nat, n \in N PROVE n + 1 \in N
  <2>1. PICK g : g = [P \in Sub(n) |-> F(g, P)]
      BY <1>2
  <2>. DEFINE h == [P \in Sub(n+1) |-> F(g, P)]
  <2>2. ASSUME NEW P \in Sub(n + 1), P # {}
        PROVE  h[P \ {Max(P)}] = g[P \ {Max(P)}]
    <3>1. IsFiniteSet(P) /\ Cardinality(P) \in Nat
        BY FS_Subset, FS_CardinalityType
    <3>2. Max(P) \in P
        BY <2>2, <3>1, MaxOfSet
    <3>3. P \ {Max(P)} \in Sub(n) /\ P \ {Max(P)} \in Sub(n + 1)
      <4>2. Cardinality(P \ {Max(P)}) = Cardinality(P) - 1
          BY <3>1, <3>2, FS_RemoveElement
      <4>3. P \in SUBSET S /\ Cardinality(P) <= n + 1
          BY <2>2
      <4>4. Cardinality(P \ {Max(P)}) <= n /\ Cardinality(P \ {Max(P)}) <= n + 1
        <5>. HIDE DEF F, Sub, N
        <5>. QED  BY <3>1, <4>2, <4>3
      <4>. QED  BY <4>3, <4>4
    <3>. QED
      <4>. HIDE DEF F, Sub
      <4>1. g[P \ {Max(P)}] = F(g, P \ {Max(P)})
          BY <2>1, <3>3
      <4>. QED  BY <3>3, <4>1
  <2>3. ASSUME NEW P \in Sub(n + 1) PROVE F(g, P) = F(h, P)
    <3>. HIDE DEF h, Sub
    <3>. QED  BY <2>2
  <2>4. h = [P \in Sub(n+1) |-> F(h, P)]
    <3>. HIDE DEF F, Sub
    <3>. QED  BY <2>3
  <2>5. \E k : k = [P \in Sub(n+1) |-> F(k, P)]
    <3>. HIDE DEF h, Sub, F
    <3>. QED  BY <2>4
  <2>6. n + 1 \in Nat
      OBVIOUS
  <2>. QED  BY <2>5, <2>6, Zenon
<1>3. Cardinality(S) \in N
  <2>1. Nat \subseteq N
    <3>. HIDE DEF N
    <3>. QED  BY <1>1, <1>2, NaturalInduction
  <2>. QED  BY <2>1, FS_CardinalityType
<1>4. Sub(Cardinality(S)) = SUBSET S
    BY FS_Subset
<1>. QED  BY <1>3, <1>4 DEF IsFold

\* A fold stays in the sets, one for each set of rows done, that its single
\* steps lead from one into the next.
LEMMA FoldIn ==
    ASSUME NEW S, IsFiniteSet(S), S \subseteq Nat, NEW base, NEW f,
           NEW T, base \in T[{}],
           \A P \in SUBSET S : P # {} =>
                \A t \in T[P \ {Max(P)}] : f[P][t] \in T[P]
    PROVE  \E g : /\ IsFold(g, base, f, S)
                  /\ \A P \in SUBSET S : g[P] \in T[P]
<1>1. PICK g : IsFold(g, base, f, S)
    BY FoldTable
<1>. DEFINE B == {P \in SUBSET S : g[P] \in T[P]}
<1>2. {} \in B
    BY <1>1 DEF IsFold
<1>3. ASSUME NEW P \in SUBSET S, P # {}, P \ {Max(P)} \in B
      PROVE  P \in B
  <2>1. g[P] = f[P][g[P \ {Max(P)}]]
      BY <1>1, <1>3 DEF IsFold
  <2>. QED  BY <1>3, <2>1
<1>4. SUBSET S \subseteq B
  <2>. HIDE DEF B
  <2>. QED  BY <1>2, <1>3, MaxInduction
<1>. QED  BY <1>1, <1>4

\* A function that recurs so stays in those sets as well.
LEMMA FoldStays ==
    ASSUME NEW S, IsFiniteSet(S), S \subseteq Nat, NEW g, NEW T,
           g[{}] \in T[{}],
           \A P \in SUBSET S :
                P # {} /\ g[P \ {Max(P)}] \in T[P \ {Max(P)}] => g[P] \in T[P]
    PROVE  g[S] \in T[S]
<1>. DEFINE B == {P \in SUBSET S : g[P] \in T[P]}
<1>1. {} \in B
    OBVIOUS
<1>2. \A P \in SUBSET S : P # {} /\ P \ {Max(P)} \in B => P \in B
    OBVIOUS
<1>3. SUBSET S \subseteq B
  <2>. HIDE DEF B
  <2>. QED  BY <1>1, <1>2, MaxInduction
<1>. QED  BY <1>3

IsApplyFold(g, b, S, d) ==
    g = [P \in SUBSET S |-> IF P = {} THEN b
                            ELSE ApplyStep(g[P \ {Max(P)}], Max(P), d)]

\* The definition of AppliedAll.
LEMMA ApplyAllShape ==
    ASSUME NEW b, NEW S, NEW d
    PROVE  AppliedAll(b, S, d) = (CHOOSE g : IsApplyFold(g, b, S, d))[S]
BY Zenon DEF AppliedAll, FoldOldestFirst, MapThenFoldSet, ApplyStep, IsApplyFold

\* AppliedAll stays in the sets of books, one for each set of advances done,
\* that the application of one advance leads from one into the next.
LEMMA ApplyAllIn ==
    ASSUME NEW b, NEW S, NEW d,
           IsFiniteSet(S), S \subseteq Nat, NEW T, b \in T[{}],
           \A P \in SUBSET S : \A s \in S \ P, c \in T[P] :
                ApplyStep(c, s, d) \in T[P \cup {s}]
    PROVE  AppliedAll(b, S, d) \in T[S]
<1>. DEFINE f == [P \in SUBSET S |->
                    [t \in T[P \ {Max(P)}] |-> ApplyStep(t, Max(P), d)]]
<1>0. ASSUME NEW P \in SUBSET S, P # {}
      PROVE  /\ P \ {Max(P)} \in SUBSET S
             /\ \A t \in T[P \ {Max(P)}] : ApplyStep(t, Max(P), d) \in T[P]
  <2>1. IsFiniteSet(P)
      BY FS_Subset
  <2>2. Max(P) \in P
      BY <1>0, <2>1, MaxOfSet
  <2>3. (P \ {Max(P)}) \cup {Max(P)} = P /\ Max(P) \in S \ (P \ {Max(P)})
      BY <2>2
  <2>. QED  BY <2>3
<1>1. PICK k : IsFold(k, b, f, S) /\ \A P \in SUBSET S : k[P] \in T[P]
  <2>2. ASSUME NEW P \in SUBSET S, P # {}, NEW t \in T[P \ {Max(P)}]
        PROVE  f[P][t] \in T[P]
    <3>1. f[P][t] = ApplyStep(t, Max(P), d)
        OBVIOUS
    <3>. QED  BY <1>0, <2>2, <3>1
  <2>. HIDE DEF f
  <2>. QED  BY <2>2, FoldIn
<1>2. \E g : IsApplyFold(g, b, S, d)
  <2>2. ASSUME NEW P \in SUBSET S, P # {}
        PROVE  f[P][k[P \ {Max(P)}]] = ApplyStep(k[P \ {Max(P)}], Max(P), d)
    <3>1. k[P \ {Max(P)}] \in T[P \ {Max(P)}]
        BY <1>0, <1>1, <2>2
    <3>. QED  BY <3>1
  <2>. HIDE DEF f
  <2>3. IsApplyFold(k, b, S, d)
      BY <1>1, <2>2 DEF IsFold, IsApplyFold
  <2>. QED  BY <2>3
<1>. DEFINE h == CHOOSE g : IsApplyFold(g, b, S, d)
<1>3. IsApplyFold(h, b, S, d)
    BY <1>2
<1>4. h[S] \in T[S]
  <2>. HIDE DEF h
  <2>1. h[{}] \in T[{}]
      BY <1>3 DEF IsApplyFold
  <2>2. ASSUME NEW P \in SUBSET S, P # {}, h[P \ {Max(P)}] \in T[P \ {Max(P)}]
        PROVE  h[P] \in T[P]
    <3>1. h[P] = ApplyStep(h[P \ {Max(P)}], Max(P), d)
        BY <1>3, <2>2 DEF IsApplyFold
    <3>. QED  BY <1>0, <2>2, <3>1
  <2>. QED  BY <2>1, <2>2, FoldStays
<1>. QED  BY <1>4, ApplyAllShape

ReceiptsReleased(b, S, d) ==
    FoldOldestFirst(
        LAMBDA c, s : LET row == b.settlements[s].allocations[d]
                      IN  Credit(c, <<"RECEIPT", s, d>>, row.amount,
                                 row.discount),
        b, S)

IsReceiptFold(g, b, S, d) ==
    g = [P \in SUBSET S |-> IF P = {} THEN b
                            ELSE ReceiptStep(g[P \ {Max(P)}], Max(P), b, d)]

\* The definition of ReceiptsReleased.
LEMMA ReceiptAllShape ==
    ASSUME NEW b, NEW S, NEW d
    PROVE  ReceiptsReleased(b, S, d) = (CHOOSE g : IsReceiptFold(g, b, S, d))[S]
BY Zenon DEF ReceiptsReleased, FoldOldestFirst, MapThenFoldSet, ReceiptStep,
             IsReceiptFold

\* So does the release of receipts,
LEMMA ReceiptAllIn ==
    ASSUME NEW b, NEW S, NEW d,
           IsFiniteSet(S), S \subseteq Nat, NEW T, b \in T[{}],
           \A P \in SUBSET S : \A s \in S \ P, c \in T[P] :
                ReceiptStep(c, s, b, d) \in T[P \cup {s}]
    PROVE  ReceiptsReleased(b, S, d) \in T[S]
<1>. DEFINE f == [P \in SUBSET S |->
                    [t \in T[P \ {Max(P)}] |-> ReceiptStep(t, Max(P), b, d)]]
<1>0. ASSUME NEW P \in SUBSET S, P # {}
      PROVE  /\ P \ {Max(P)} \in SUBSET S
             /\ \A t \in T[P \ {Max(P)}] : ReceiptStep(t, Max(P), b, d) \in T[P]
  <2>1. IsFiniteSet(P)
      BY FS_Subset
  <2>2. Max(P) \in P
      BY <1>0, <2>1, MaxOfSet
  <2>3. (P \ {Max(P)}) \cup {Max(P)} = P /\ Max(P) \in S \ (P \ {Max(P)})
      BY <2>2
  <2>. QED  BY <2>3
<1>1. PICK k : IsFold(k, b, f, S) /\ \A P \in SUBSET S : k[P] \in T[P]
  <2>2. ASSUME NEW P \in SUBSET S, P # {}, NEW t \in T[P \ {Max(P)}]
        PROVE  f[P][t] \in T[P]
    <3>1. f[P][t] = ReceiptStep(t, Max(P), b, d)
        OBVIOUS
    <3>. QED  BY <1>0, <2>2, <3>1
  <2>. HIDE DEF f
  <2>. QED  BY <2>2, FoldIn
<1>2. \E g : IsReceiptFold(g, b, S, d)
  <2>2. ASSUME NEW P \in SUBSET S, P # {}
        PROVE  f[P][k[P \ {Max(P)}]] = ReceiptStep(k[P \ {Max(P)}], Max(P), b, d)
    <3>1. k[P \ {Max(P)}] \in T[P \ {Max(P)}]
        BY <1>0, <1>1, <2>2
    <3>. QED  BY <3>1
  <2>. HIDE DEF f
  <2>3. IsReceiptFold(k, b, S, d)
      BY <1>1, <2>2 DEF IsFold, IsReceiptFold
  <2>. QED  BY <2>3
<1>. DEFINE h == CHOOSE g : IsReceiptFold(g, b, S, d)
<1>3. IsReceiptFold(h, b, S, d)
    BY <1>2
<1>4. h[S] \in T[S]
  <2>. HIDE DEF h
  <2>1. h[{}] \in T[{}]
      BY <1>3 DEF IsReceiptFold
  <2>2. ASSUME NEW P \in SUBSET S, P # {}, h[P \ {Max(P)}] \in T[P \ {Max(P)}]
        PROVE  h[P] \in T[P]
    <3>1. h[P] = ReceiptStep(h[P \ {Max(P)}], Max(P), b, d)
        BY <1>3, <2>2 DEF IsReceiptFold
    <3>. QED  BY <1>0, <2>2, <3>1
  <2>. QED  BY <2>1, <2>2, FoldStays
<1>. QED  BY <1>4, ReceiptAllShape

ApplicationsReleased(b, S, start) ==
    FoldOldestFirst(
        LAMBDA c, a : Credit(c, <<"APPLICATION", a>>,
                             b.applications[a].amount, 0),
        start, S)

IsReleaseFold(g, b, S, start) ==
    g = [P \in SUBSET S |-> IF P = {} THEN start
                            ELSE ApplicationStep(g[P \ {Max(P)}], Max(P), b)]

\* The definition of ApplicationsReleased.
LEMMA ReleaseAllShape ==
    ASSUME NEW b, NEW S, NEW start
    PROVE  ApplicationsReleased(b, S, start) = (CHOOSE g : IsReleaseFold(g, b, S, start))[S]
BY Zenon DEF ApplicationsReleased, FoldOldestFirst, MapThenFoldSet,
             ApplicationStep, IsReleaseFold

\* the release of applications
LEMMA ReleaseAllIn ==
    ASSUME NEW b, NEW S, NEW start,
           IsFiniteSet(S), S \subseteq Nat, NEW T, start \in T[{}],
           \A P \in SUBSET S : \A s \in S \ P, c \in T[P] :
                ApplicationStep(c, s, b) \in T[P \cup {s}]
    PROVE  ApplicationsReleased(b, S, start) \in T[S]
<1>. DEFINE f == [P \in SUBSET S |->
                    [t \in T[P \ {Max(P)}] |-> ApplicationStep(t, Max(P), b)]]
<1>0. ASSUME NEW P \in SUBSET S, P # {}
      PROVE  /\ P \ {Max(P)} \in SUBSET S
             /\ \A t \in T[P \ {Max(P)}] : ApplicationStep(t, Max(P), b) \in T[P]
  <2>1. IsFiniteSet(P)
      BY FS_Subset
  <2>2. Max(P) \in P
      BY <1>0, <2>1, MaxOfSet
  <2>3. (P \ {Max(P)}) \cup {Max(P)} = P /\ Max(P) \in S \ (P \ {Max(P)})
      BY <2>2
  <2>. QED  BY <2>3
<1>1. PICK k : IsFold(k, start, f, S) /\ \A P \in SUBSET S : k[P] \in T[P]
  <2>2. ASSUME NEW P \in SUBSET S, P # {}, NEW t \in T[P \ {Max(P)}]
        PROVE  f[P][t] \in T[P]
    <3>1. f[P][t] = ApplicationStep(t, Max(P), b)
        OBVIOUS
    <3>. QED  BY <1>0, <2>2, <3>1
  <2>. HIDE DEF f
  <2>. QED  BY <2>2, FoldIn
<1>2. \E g : IsReleaseFold(g, b, S, start)
  <2>2. ASSUME NEW P \in SUBSET S, P # {}
        PROVE  f[P][k[P \ {Max(P)}]] = ApplicationStep(k[P \ {Max(P)}], Max(P), b)
    <3>1. k[P \ {Max(P)}] \in T[P \ {Max(P)}]
        BY <1>0, <1>1, <2>2
    <3>. QED  BY <3>1
  <2>. HIDE DEF f
  <2>3. IsReleaseFold(k, b, S, start)
      BY <1>1, <2>2 DEF IsFold, IsReleaseFold
  <2>. QED  BY <2>3
<1>. DEFINE h == CHOOSE g : IsReleaseFold(g, b, S, start)
<1>3. IsReleaseFold(h, b, S, start)
    BY <1>2
<1>4. h[S] \in T[S]
  <2>. HIDE DEF h
  <2>1. h[{}] \in T[{}]
      BY <1>3 DEF IsReleaseFold
  <2>2. ASSUME NEW P \in SUBSET S, P # {}, h[P \ {Max(P)}] \in T[P \ {Max(P)}]
        PROVE  h[P] \in T[P]
    <3>1. h[P] = ApplicationStep(h[P \ {Max(P)}], Max(P), b)
        BY <1>3, <2>2 DEF IsReleaseFold
    <3>. QED  BY <1>0, <2>2, <3>1
  <2>. QED  BY <2>1, <2>2, FoldStays
<1>. QED  BY <1>4, ReleaseAllShape

Carriers(S, start, replacement) ==
    LET Carry1(acc, n) ==
            LET available == Available(acc.books, n)
                applied == Lesser(acc.left, available)
                carried == [acc.books EXCEPT !.carries = Append(@,
                    [note |-> n, invoice |-> replacement,
                     available |-> available, applied |-> applied])]
            IN  [books |-> ExcessCredited(carried, Len(carried.carries)),
                 left |-> acc.left - applied]
    IN  FoldOldestFirst(Carry1, start, S)

IsCarryFold(g, S, start, replacement) ==
    g = [P \in SUBSET S |-> IF P = {} THEN start
                            ELSE CarryStep(g[P \ {Max(P)}], Max(P), replacement)]

\* The definition of Carriers.
LEMMA CarryAllShape ==
    ASSUME NEW S, NEW start, NEW replacement
    PROVE  Carriers(S, start, replacement) = (CHOOSE g : IsCarryFold(g, S, start, replacement))[S]
BY Zenon DEF Carriers, FoldOldestFirst, MapThenFoldSet, CarryStep, IsCarryFold

\* and the carrying of returns.
LEMMA CarryAllIn ==
    ASSUME NEW S, NEW start, NEW replacement,
           IsFiniteSet(S), S \subseteq Nat, NEW T, start \in T[{}],
           \A P \in SUBSET S : \A s \in S \ P, c \in T[P] :
                CarryStep(c, s, replacement) \in T[P \cup {s}]
    PROVE  Carriers(S, start, replacement) \in T[S]
<1>. DEFINE f == [P \in SUBSET S |->
                    [t \in T[P \ {Max(P)}] |-> CarryStep(t, Max(P), replacement)]]
<1>0. ASSUME NEW P \in SUBSET S, P # {}
      PROVE  /\ P \ {Max(P)} \in SUBSET S
             /\ \A t \in T[P \ {Max(P)}] : CarryStep(t, Max(P), replacement) \in T[P]
  <2>1. IsFiniteSet(P)
      BY FS_Subset
  <2>2. Max(P) \in P
      BY <1>0, <2>1, MaxOfSet
  <2>3. (P \ {Max(P)}) \cup {Max(P)} = P /\ Max(P) \in S \ (P \ {Max(P)})
      BY <2>2
  <2>. QED  BY <2>3
<1>1. PICK k : IsFold(k, start, f, S) /\ \A P \in SUBSET S : k[P] \in T[P]
  <2>2. ASSUME NEW P \in SUBSET S, P # {}, NEW t \in T[P \ {Max(P)}]
        PROVE  f[P][t] \in T[P]
    <3>1. f[P][t] = CarryStep(t, Max(P), replacement)
        OBVIOUS
    <3>. QED  BY <1>0, <2>2, <3>1
  <2>. HIDE DEF f
  <2>. QED  BY <2>2, FoldIn
<1>2. \E g : IsCarryFold(g, S, start, replacement)
  <2>2. ASSUME NEW P \in SUBSET S, P # {}
        PROVE  f[P][k[P \ {Max(P)}]] = CarryStep(k[P \ {Max(P)}], Max(P), replacement)
    <3>1. k[P \ {Max(P)}] \in T[P \ {Max(P)}]
        BY <1>0, <1>1, <2>2
    <3>. QED  BY <3>1
  <2>. HIDE DEF f
  <2>3. IsCarryFold(k, S, start, replacement)
      BY <1>1, <2>2 DEF IsFold, IsCarryFold
  <2>. QED  BY <2>3
<1>. DEFINE h == CHOOSE g : IsCarryFold(g, S, start, replacement)
<1>3. IsCarryFold(h, S, start, replacement)
    BY <1>2
<1>4. h[S] \in T[S]
  <2>. HIDE DEF h
  <2>1. h[{}] \in T[{}]
      BY <1>3 DEF IsCarryFold
  <2>2. ASSUME NEW P \in SUBSET S, P # {}, h[P \ {Max(P)}] \in T[P \ {Max(P)}]
        PROVE  h[P] \in T[P]
    <3>1. h[P] = CarryStep(h[P \ {Max(P)}], Max(P), replacement)
        BY <1>3, <2>2 DEF IsCarryFold
    <3>. QED  BY <1>0, <2>2, <3>1
  <2>. QED  BY <2>1, <2>2, FoldStays
<1>. QED  BY <1>4, CarryAllShape

-----------------------------------------------------------------------------
(* Books, and what single calls make of them.                              *)

\* A journal changes the accounts by its lines, and nothing else.
LEMMA JournalIs ==
    ASSUME NEW b \in BooksType, NEW receivable \in Int, NEW advances \in Int,
           NEW cash \in Int, NEW sales \in Int
    PROVE  /\ Journal(b, receivable, advances, cash, sales) \in BooksType
           /\ SameBut(Journal(b, receivable, advances, cash, sales), b, {})
           /\ Due(Journal(b, receivable, advances, cash, sales))
                = Due(b) + receivable + advances
<1>. DEFINE x == b.accounts
            y == Entered(x, receivable, advances, cash, sales)
            r == Journal(b, receivable, advances, cash, sales)
<1>1. x \in [Account -> Int]
    BY DEF BooksType
<1>2. /\ y \in [Account -> Int]
      /\ y["ACCOUNTS_RECEIVABLE"] = x["ACCOUNTS_RECEIVABLE"] + receivable
      /\ y["CUSTOMER_ADVANCES"] = x["CUSTOMER_ADVANCES"] + advances
  <2>. HIDE DEF x
  <2>. QED  BY <1>1 DEF Account, Entered
<1>3. r = [b EXCEPT !.accounts = y]
    BY DEF Journal
<1>4. /\ r \in BooksType
      /\ r.accounts = y
      /\ SameBut(r, b, {})
  <2>. HIDE DEF y, r
  <2>. QED  BY <1>2, <1>3 DEF BooksType, SameBut
<1>5. Due(r) = Due(b) + receivable + advances
  <2>. HIDE DEF y, r
  <2>1. x["ACCOUNTS_RECEIVABLE"] \in Int /\ x["CUSTOMER_ADVANCES"] \in Int
      BY <1>1 DEF Account
  <2>. QED  BY <2>1, <1>2, <1>4 DEF Due
<1>. QED  BY <1>4, <1>5

\* Books with one table exchanged are books.
LEMMA BooksWith ==
    ASSUME NEW b \in BooksType
    PROVE  /\ b.settlements \in Seq(Settlement) /\ b.invoices \in Seq(Invoice)
           /\ b.notes \in Seq(Note) /\ b.applications \in Seq(Application)
           /\ b.carries \in Seq(Carry) /\ b.cheques \in Seq(Cheque)
           /\ \A t \in Seq(Settlement) :
                /\ [b EXCEPT !.settlements = t] \in BooksType
                /\ SameBut([b EXCEPT !.settlements = t], b, {"settlements"})
                /\ [b EXCEPT !.settlements = t].settlements = t
                /\ Due([b EXCEPT !.settlements = t]) = Due(b)
           /\ \A t \in Seq(Invoice) :
                /\ [b EXCEPT !.invoices = t] \in BooksType
                /\ SameBut([b EXCEPT !.invoices = t], b, {"invoices"})
                /\ [b EXCEPT !.invoices = t].invoices = t
                /\ Due([b EXCEPT !.invoices = t]) = Due(b)
           /\ \A t \in Seq(Note) :
                /\ [b EXCEPT !.notes = t] \in BooksType
                /\ SameBut([b EXCEPT !.notes = t], b, {"notes"})
                /\ [b EXCEPT !.notes = t].notes = t
                /\ Due([b EXCEPT !.notes = t]) = Due(b)
           /\ \A t \in Seq(Carry) :
                /\ [b EXCEPT !.carries = t] \in BooksType
                /\ SameBut([b EXCEPT !.carries = t], b, {"carries"})
                /\ [b EXCEPT !.carries = t].carries = t
                /\ Due([b EXCEPT !.carries = t]) = Due(b)
           /\ \A t \in Seq(Cheque) :
                /\ [b EXCEPT !.cheques = t] \in BooksType
                /\ SameBut([b EXCEPT !.cheques = t], b, {"cheques"})
                /\ [b EXCEPT !.cheques = t].cheques = t
                /\ Due([b EXCEPT !.cheques = t]) = Due(b)
BY DEF BooksType, SameBut, Due

\* An advance made by a correction or a return.
LEMMA AdvanceType ==
    ASSUME NEW amount \in Nat \ {0}, NEW origin \in Origin
    PROVE  Advance(amount, origin, 0) \in Settlement
<1>1. <<>> \in AllocationTable
  <2>1. {} \in SUBSET (1..MaxInvoices)
      OBVIOUS
  <2>2. <<>> \in [{} -> [amount: Amount, discount: Discount]]
      OBVIOUS
  <2>. QED  BY <2>1, <2>2 DEF AllocationTable
<1>. QED  BY <1>1 DEF Advance, Settlement

\* A credit adds an advance.
LEMMA CreditIs ==
    ASSUME NEW b \in BooksType, NEW origin \in Origin,
           NEW gross \in Nat, NEW given \in Nat, given < gross
    PROVE  LET r == Credit(b, origin, gross, given)
           IN  /\ r \in BooksType
               /\ SameBut(r, b, {"settlements"})
               /\ r.settlements = Append(b.settlements,
                                         Advance(gross - given, origin, 0))
               /\ Due(r) = Due(b) + given
<1>. DEFINE t == Append(b.settlements, Advance(gross - given, origin, 0))
            c == [b EXCEPT !.settlements = t]
            r == Credit(b, origin, gross, given)
<1>1. gross - given \in Nat \ {0}
    OBVIOUS
<1>2. t \in Seq(Settlement)
    BY <1>1, AdvanceType, BooksWith
<1>3. r = Journal(c, gross, given - gross, 0, -given)
    BY DEF Credit
<1>4. /\ c \in BooksType
      /\ SameBut(c, b, {"settlements"})
      /\ c.settlements = t
      /\ Due(c) = Due(b)
  <2>. HIDE DEF t
  <2>. QED  BY <1>2, BooksWith
<1>5. Due(b) \in Int
    BY DEF Due, BooksType, Account
<1>6. /\ r \in BooksType
      /\ SameBut(r, c, {})
      /\ Due(r) = Due(c) + gross + (given - gross)
  <2>1. gross \in Int /\ given - gross \in Int /\ 0 \in Int /\ -given \in Int
      OBVIOUS
  <2>. HIDE DEF c, r
  <2>. QED  BY ONLY <1>3, <1>4, <2>1, JournalIs
<1>. QED
  <2>. HIDE DEF c, r, t
  <2>1. SameBut(r, b, {"settlements"}) /\ r.settlements = t
      BY <1>4, <1>6 DEF SameBut
  <2>2. Due(r) = Due(b) + given
      BY <1>4, <1>5, <1>6
  <2>3. QED  BY <1>6, <2>1, <2>2 DEF r, t

\* An application takes its amount from the advance.
LEMMA AppliedIs ==
    ASSUME NEW b \in BooksType, NEW s \in DOMAIN b.settlements, NEW d \in Nat,
           NEW amount \in Nat \ {0}, amount <= b.settlements[s].remaining
    PROVE  LET r == Applied(b, s, d, amount)
           IN  /\ r \in BooksType
               /\ SameBut(r, b, {"settlements", "applications"})
               /\ r.settlements = AdvanceDrawn(b, s, amount)
               /\ r.applications =
                    Append(b.applications, [advance |-> s, document |-> d,
                                    amount |-> amount, journal |-> "POSTED"])
               /\ Due(r) = Due(b)
<1>. DEFINE row == [advance |-> s, document |-> d, amount |-> amount,
                    journal |-> "POSTED"]
            c == [b EXCEPT !.applications = Append(@, row),
                           !.settlements[s].remaining = @ - amount]
            r == Applied(b, s, d, amount)
<1>1. /\ b.settlements \in Seq(Settlement) /\ b.applications \in Seq(Application)
      /\ Due(b) \in Int
    BY DEF BooksType, Due, Account
<1>2. AdvanceDrawn(b, s, amount) \in Seq(Settlement)
  <2>. DEFINE e == [b.settlements[s] EXCEPT !.remaining = @ - amount]
  <2>1. b.settlements[s] \in Settlement
      BY <1>1
  <2>2. e \in Settlement
      BY <2>1 DEF Settlement
  <2>3. AdvanceDrawn(b, s, amount) = [b.settlements EXCEPT ![s] = e]
      BY DEF AdvanceDrawn
  <2>. HIDE DEF e
  <2>. QED  BY <1>1, <2>2, <2>3, RowChanged
<1>3. Append(b.applications, row) \in Seq(Application)
  <2>1. row \in Application
      BY <1>1 DEF Application
  <2>. HIDE DEF row
  <2>. QED  BY <1>1, <2>1
<1>4. /\ c \in BooksType
      /\ SameBut(c, b, {"settlements", "applications"})
      /\ c.settlements = AdvanceDrawn(b, s, amount)
      /\ c.applications = Append(b.applications, row)
      /\ Due(c) = Due(b)
  <2>1. c.settlements = AdvanceDrawn(b, s, amount)
      BY DEF BooksType, AdvanceDrawn
  <2>. HIDE DEF row
  <2>. QED  BY <1>2, <1>3, <2>1 DEF BooksType, SameBut, Due
<1>5. r = Journal(c, -amount, amount, 0, 0)
    BY DEF Applied
<1>6. /\ r \in BooksType
      /\ SameBut(r, c, {})
      /\ Due(r) = Due(c) + (-amount) + amount
  <2>1. amount \in Int /\ 0 \in Int /\ -amount \in Int
      OBVIOUS
  <2>. HIDE DEF c, r
  <2>. QED  BY ONLY <1>5, <1>4, <2>1, JournalIs
<1>. QED
  <2>. HIDE DEF c, r, row
  <2>1. /\ SameBut(r, b, {"settlements", "applications"})
        /\ r.settlements = c.settlements
        /\ r.applications = c.applications
      BY <1>4, <1>6 DEF SameBut
  <2>2. Due(r) = Due(b)
      BY <1>1, <1>4, <1>6
  <2>3. QED  BY <1>4, <1>6, <2>1, <2>2 DEF r, row

\* A credit note is one row more.
LEMMA NoteIs ==
    ASSUME NEW b \in BooksType, NEW d \in Nat, NEW amount \in Amount
    PROVE  LET r == NotePosted(b, d, amount)
           IN  /\ r \in BooksType
               /\ SameBut(r, b, {"notes"})
               /\ r.notes = Append(b.notes, [source |-> d, total |-> amount,
                                             reversals |-> 0])
               /\ Due(r) = Due(b) - amount
<1>. DEFINE row == [source |-> d, total |-> amount, reversals |-> 0]
            t == Append(b.notes, row)
            c == [b EXCEPT !.notes = t]
            r == NotePosted(b, d, amount)
<1>0. amount \in Int /\ -amount \in Int /\ 0 \in Int
    BY ReceivablesConstants
<1>1. t \in Seq(Note)
  <2>1. row \in Note
      BY ReceivablesConstants DEF Note
  <2>. HIDE DEF row
  <2>. QED  BY <2>1, BooksWith
<1>2. /\ c \in BooksType
      /\ SameBut(c, b, {"notes"})
      /\ c.notes = t
      /\ Due(c) = Due(b)
  <2>. HIDE DEF t
  <2>. QED  BY <1>1, BooksWith
<1>3. r = Journal(c, -amount, 0, 0, amount)
    BY DEF NotePosted
<1>4. /\ r \in BooksType
      /\ SameBut(r, c, {})
      /\ Due(r) = Due(c) + (-amount) + 0
  <2>. HIDE DEF c, r
  <2>. QED  BY ONLY <1>0, <1>2, <1>3, JournalIs
<1>5. Due(b) \in Int
    BY DEF BooksType, Due, Account
<1>. QED
  <2>. HIDE DEF c, r, t
  <2>1. SameBut(r, b, {"notes"}) /\ r.notes = t
      BY <1>2, <1>4 DEF SameBut
  <2>2. Due(r) = Due(b) - amount
      BY <1>0, <1>2, <1>4, <1>5
  <2>3. QED  BY <1>4, <2>1, <2>2 DEF r, t

\* An invoice is one row more.
LEMMA InvoiceIs ==
    ASSUME NEW b \in BooksType, NEW total \in Amount, NEW previous \in Nat
    PROVE  LET r == InvoiceEntered(b, total, previous)
           IN  /\ r \in BooksType
               /\ SameBut(r, b, {"invoices"})
               /\ r.invoices = Append(b.invoices,
                    [total |-> total, reversals |-> 0, state |-> "LIVE",
                     correction |-> 0, previous |-> previous])
               /\ Due(r) = Due(b) + total
<1>. DEFINE row == [total |-> total, reversals |-> 0, state |-> "LIVE",
                    correction |-> 0, previous |-> previous]
            t == Append(b.invoices, row)
            c == [b EXCEPT !.invoices = t]
            r == InvoiceEntered(b, total, previous)
<1>0. total \in Int /\ -total \in Int /\ 0 \in Int
    BY ReceivablesConstants
<1>1. t \in Seq(Invoice)
  <2>1. row \in Invoice
      BY ReceivablesConstants DEF Invoice
  <2>. HIDE DEF row
  <2>. QED  BY <2>1, BooksWith
<1>2. /\ c \in BooksType
      /\ SameBut(c, b, {"invoices"})
      /\ c.invoices = t
      /\ Due(c) = Due(b)
  <2>. HIDE DEF t
  <2>. QED  BY <1>1, BooksWith
<1>3. r = Journal(c, total, 0, 0, -total)
    BY DEF InvoiceEntered
<1>4. /\ r \in BooksType
      /\ SameBut(r, c, {})
      /\ Due(r) = Due(c) + total + 0
  <2>. HIDE DEF c, r
  <2>. QED  BY ONLY <1>0, <1>2, <1>3, JournalIs
<1>5. Due(b) \in Int
    BY DEF BooksType, Due, Account
<1>. QED
  <2>. HIDE DEF c, r, t
  <2>1. SameBut(r, b, {"invoices"}) /\ r.invoices = t
      BY <1>2, <1>4 DEF SameBut
  <2>2. Due(r) = Due(b) + total
      BY <1>0, <1>2, <1>4, <1>5
  <2>3. QED  BY <1>4, <2>1, <2>2 DEF r, t

\* The allocations of a settlement are finitely many, and positive amounts.
LEMMA AllocationsType ==
    ASSUME NEW row \in Settlement
    PROVE  /\ IsFiniteSet(DOMAIN row.allocations)
           /\ DOMAIN row.allocations \subseteq Nat \ {0}
           /\ \A d \in DOMAIN row.allocations :
                /\ row.allocations[d].amount \in Nat \ {0}
                /\ row.allocations[d].amount \in Amount
                /\ row.allocations[d].discount \in Nat
           /\ DiscountOf(row) \in Nat
<1>0. row.allocations \in AllocationTable
    BY DEF Settlement
<1>1. PICK D \in SUBSET (1..MaxInvoices) :
            row.allocations \in [D -> [amount: Amount, discount: Discount]]
    BY <1>0 DEF AllocationTable
<1>2. IsFiniteSet(1..MaxInvoices) /\ 1..MaxInvoices \subseteq Nat \ {0}
  <2>1. MaxInvoices \in Nat
      BY ReceivablesConstants
  <2>. QED  BY <2>1, FS_Interval
<1>3. IsFiniteSet(DOMAIN row.allocations)
    BY <1>1, <1>2, FS_Subset
<1>4. \A d \in DOMAIN row.allocations :
                /\ row.allocations[d].amount \in Nat \ {0}
                /\ row.allocations[d].amount \in Amount
                /\ row.allocations[d].discount \in Nat
    BY <1>1, ReceivablesConstants
<1>5. DiscountOf(row) \in Nat
  <2>. DEFINE S == DOMAIN row.allocations
              f == [d \in S |-> row.allocations[d].discount]
  <2>1. DiscountOf(row) = SumFunctionOnSet(f, S)
      BY DEF DiscountOf, SumFunction
  <2>2. \A d \in S : f[d] \in Nat
      BY <1>4
  <2>. HIDE DEF f, S
  <2>3. IsFiniteSet(S)
      BY <1>3 DEF S
  <2>. QED  BY <2>1, <2>2, <2>3, SumNat
<1>. QED  BY <1>1, <1>2, <1>3, <1>4, <1>5

\* what a payment takes from what is due
Worth(row) == IF row.type = "CUSTOMER_ADVANCE" THEN row.amount
                                               ELSE row.amount + DiscountOf(row)

\* The posting of a settlement changes its status and what remains of it.
LEMMA PostedIs ==
    ASSUME NEW b \in BooksType, NEW s \in DOMAIN b.settlements
    PROVE  LET r == SettlementPosted(b, s)
           IN  /\ r \in BooksType
               /\ SameBut(r, b, {"settlements"})
               /\ r.settlements =
                    [b.settlements EXCEPT ![s] = PostedRow(b.settlements[s])]
               /\ Due(r) = Due(b) - Worth(b.settlements[s])
<1>. DEFINE row == b.settlements[s]
            advance == row.type = "CUSTOMER_ADVANCE"
            given == DiscountOf(row)
            t == [b.settlements EXCEPT ![s] = PostedRow(row)]
            c == [b EXCEPT !.settlements = t]
            r == SettlementPosted(b, s)
<1>1. row \in Settlement
    BY DEF BooksType
<1>2. given \in Nat /\ row.amount \in Nat
    BY <1>1, AllocationsType DEF Settlement
<1>3. PostedRow(row) \in Settlement
  <2>. HIDE DEF row
  <2>1. (IF row.type = "CUSTOMER_ADVANCE" THEN row.amount ELSE 0) \in Nat
      BY <1>2
  <2>. QED  BY <1>1, <2>1 DEF PostedRow, Settlement
<1>4. t \in Seq(Settlement)
  <2>. HIDE DEF row
  <2>. QED  BY <1>3, BooksWith, RowChanged
<1>5. /\ c \in BooksType
      /\ SameBut(c, b, {"settlements"})
      /\ c.settlements = t
      /\ Due(c) = Due(b)
  <2>. HIDE DEF t
  <2>. QED  BY <1>4, BooksWith
<1>6. r = Journal(c, IF advance THEN 0 ELSE -(row.amount + given),
                  IF advance THEN -row.amount ELSE 0, row.amount, given)
    BY DEF SettlementPosted, PostedRow
<1>7. Due(b) \in Int
    BY DEF BooksType, Due, Account
<1>8. /\ r \in BooksType
      /\ SameBut(r, c, {})
      /\ Due(r) = Due(c) + (IF advance THEN 0 ELSE -(row.amount + given))
                         + (IF advance THEN -row.amount ELSE 0)
  <2>. HIDE DEF c, r, given, row
  <2>1. /\ (IF advance THEN 0 ELSE -(row.amount + given)) \in Int
        /\ (IF advance THEN -row.amount ELSE 0) \in Int
        /\ row.amount \in Int /\ given \in Int
      BY <1>2
  <2>. HIDE DEF advance
  <2>. QED  BY ONLY <1>5, <1>6, <2>1, JournalIs
<1>. QED
  <2>. HIDE DEF c, r, t, row, given
  <2>1. SameBut(r, b, {"settlements"}) /\ r.settlements = t
      BY <1>5, <1>8 DEF SameBut
  <2>2. Due(r) = Due(b) - Worth(row)
    <3>1. Worth(row) = IF advance THEN row.amount ELSE row.amount + given
        BY DEF Worth, given
    <3>. QED  BY <1>2, <1>5, <1>7, <1>8, <3>1
  <2>3. QED  BY <1>8, <2>1, <2>2 DEF r, t, row

\* A reversal takes the settlement back, and with an advance its applications.
LEMMA ReversedIs ==
    ASSUME NEW b \in BooksType, NEW s \in DOMAIN b.settlements
    PROVE  LET r == SettlementReversed(b, s)
           IN  /\ r \in BooksType
               /\ SameBut(r, b, {"settlements", "applications"})
               /\ r.settlements =
                    [b.settlements EXCEPT ![s] = ReversedRow(b.settlements[s])]
               /\ r.applications = WithoutApplications(b, s)
               /\ Due(r) = Due(b) + Worth(b.settlements[s])
<1>. DEFINE row == b.settlements[s]
            receipt == row.type = "CUSTOMER_RECEIPT"
            given == DiscountOf(row)
            S == UndoneWith(b, s)
            f == [a \in S |-> b.applications[a].amount]
            applied == SumFunctionOnSet(f, S)
            t == [b.settlements EXCEPT ![s] = ReversedRow(row)]
            u == WithoutApplications(b, s)
            c == [b EXCEPT !.applications = u, !.settlements = t]
            r == SettlementReversed(b, s)
<1>1. row \in Settlement /\ b.applications \in Seq(Application)
    BY DEF BooksType
<1>2. given \in Nat /\ row.amount \in Nat
    BY <1>1, AllocationsType DEF Settlement
<1>3. applied \in Int
  <2>1. IsFiniteSet(S)
    <3>1. IsFiniteSet(1..Len(b.applications)) /\ DOMAIN b.applications = 1..Len(b.applications)
        BY <1>1, FS_Interval
    <3>. QED  BY <3>1, FS_Subset DEF UndoneWith
  <2>2. \A a \in S : f[a] \in Int
    <3>1. \A a \in DOMAIN b.applications : b.applications[a] \in Application
        BY <1>1
    <3>. QED  BY <3>1 DEF UndoneWith, Application
  <2>. HIDE DEF f, S
  <2>. QED  BY <2>1, <2>2, SumInt
<1>4. t \in Seq(Settlement)
  <2>. HIDE DEF row
  <2>1. ReversedRow(row) \in Settlement
      BY <1>1 DEF ReversedRow, Settlement
  <2>. QED  BY <2>1, BooksWith, RowChanged
<1>5. u \in Seq(Application)
  <2>1. \A a \in DOMAIN b.applications : u[a] \in Application
    <3>1. ASSUME NEW a \in DOMAIN b.applications
          PROVE  /\ b.applications[a] \in Application
                 /\ [b.applications[a] EXCEPT !.journal = "REVERSED"] \in Application
      <4>1. b.applications[a] \in Application
          BY <1>1
      <4>. QED  BY <4>1 DEF Application
    <3>. QED  BY <3>1 DEF WithoutApplications
  <2>2. DOMAIN u = 1..Len(b.applications) /\ Len(b.applications) \in Nat
      BY <1>1 DEF WithoutApplications
  <2>3. u = [a \in 1..Len(b.applications) |-> u[a]]
      BY <2>2, <1>1 DEF WithoutApplications
  <2>. HIDE DEF u
  <2>. QED  BY <1>1, <2>1, <2>2, <2>3
<1>6. /\ c \in BooksType
      /\ SameBut(c, b, {"settlements", "applications"})
      /\ c.settlements = t
      /\ c.applications = u
      /\ Due(c) = Due(b)
  <2>. HIDE DEF t, u
  <2>. QED  BY <1>4, <1>5 DEF BooksType, SameBut, Due
<1>7. r = Journal(c, IF receipt THEN row.amount + given ELSE applied,
                  IF receipt THEN 0 ELSE row.amount - applied,
                  -row.amount, -given)
  <2>1. SumFunction(f) = applied
      BY DEF SumFunction
  <2>. QED  BY <2>1 DEF SettlementReversed, ReversedRow, UndoneWith, WithoutApplications
<1>8. Due(b) \in Int
    BY DEF BooksType, Due, Account
<1>9. /\ r \in BooksType
      /\ SameBut(r, c, {})
      /\ Due(r) = Due(c) + (IF receipt THEN row.amount + given ELSE applied)
                         + (IF receipt THEN 0 ELSE row.amount - applied)
  <2>. HIDE DEF c, r, given, row, applied
  <2>1. /\ (IF receipt THEN row.amount + given ELSE applied) \in Int
        /\ (IF receipt THEN 0 ELSE row.amount - applied) \in Int
        /\ -row.amount \in Int /\ -given \in Int
      BY <1>2, <1>3
  <2>. HIDE DEF receipt
  <2>. QED  BY ONLY <1>6, <1>7, <2>1, JournalIs
<1>. QED
  <2>. HIDE DEF c, r, t, row, given, u, applied
  <2>1. SameBut(r, b, {"settlements", "applications"}) /\ r.settlements = t
        /\ r.applications = u
      BY <1>6, <1>9 DEF SameBut
  <2>2. Due(r) = Due(b) + Worth(row)
    <3>1. receipt <=> ~(row.type = "CUSTOMER_ADVANCE")
        BY <1>1 DEF Settlement
    <3>2. Worth(row) = IF receipt THEN row.amount + given ELSE row.amount
        BY <3>1 DEF Worth, given
    <3>. QED  BY <1>2, <1>3, <1>6, <1>8, <1>9, <3>2
  <2>3. QED  BY <1>9, <2>1, <2>2 DEF r, t, row, u

-----------------------------------------------------------------------------
(* What links the tables.                                                  *)

\* A row linked in the books is linked in all later ones.
LEMMA RowLinkedKept ==
    ASSUME NEW b \in BooksType, NEW r \in BooksType, Kept(b, r),
           NEW x, NEW y, RowLinked(b, x), SameRow(x, y)
    PROVE  RowLinked(r, y)
<1>1. Len(b.cheques) \in Nat /\ Len(r.cheques) \in Nat
    BY DEF BooksType
<1>2. y.cheque \in 0..Len(r.cheques)
    BY <1>1 DEF Kept, RowLinked, SameRow
<1>3. DOMAIN y.allocations \subseteq DOMAIN r.invoices
    BY DEF Kept, RowLinked, SameRow
<1>4. OriginLinked(b, x.origin) => OriginLinked(r, y.origin)
    BY DEF Kept, SameRow, OriginLinked
<1>. QED  BY <1>2, <1>3, <1>4 DEF RowLinked, SameRow

\* The links of books r that have all rows of linked books b are those of the
\* rows that have come or changed.
LEMMA LinkedStep ==
    ASSUME NEW b \in BooksType, NEW r \in BooksType, Linked(b), Kept(b, r),
           \A s \in DOMAIN r.settlements : RowStatus(r.settlements[s]),
           \A s \in DOMAIN r.settlements \ DOMAIN b.settlements :
                RowLinked(r, r.settlements[s]),
           \A a \in DOMAIN r.applications \ DOMAIN b.applications :
                ApplicationLinked(r, r.applications[a]),
           \A n \in DOMAIN r.notes \ DOMAIN b.notes :
                r.notes[n].source \in DOMAIN r.invoices,
           \A c \in DOMAIN r.carries \ DOMAIN b.carries :
                r.carries[c].note \in DOMAIN r.notes,
           \A q \in DOMAIN r.cheques : ChequeLinked(r, q)
    PROVE  Linked(r)
<1>1. \A s \in DOMAIN r.settlements : RowLinked(r, r.settlements[s])
  <2>1. ASSUME NEW s \in DOMAIN b.settlements
        PROVE  RowLinked(r, r.settlements[s])
    <3>1. RowLinked(b, b.settlements[s]) /\ SameRow(b.settlements[s], r.settlements[s])
        BY DEF Linked, Kept
    <3>. QED  BY <3>1, RowLinkedKept
  <2>. QED  BY <2>1
<1>2. \A a \in DOMAIN r.applications : ApplicationLinked(r, r.applications[a])
  <2>1. ASSUME NEW a \in DOMAIN b.applications
        PROVE  ApplicationLinked(r, r.applications[a])
    <3>1. ApplicationLinked(b, b.applications[a])
        BY DEF Linked
    <3>. QED  BY <3>1 DEF Kept, ApplicationLinked, SameRow
  <2>. QED  BY <2>1
<1>3. \A n \in DOMAIN r.notes : r.notes[n].source \in DOMAIN r.invoices
    BY DEF Linked, Kept
<1>4. \A c \in DOMAIN r.carries : r.carries[c].note \in DOMAIN r.notes
    BY DEF Linked, Kept
<1>. QED  BY <1>1, <1>2, <1>3, <1>4 DEF Linked

-----------------------------------------------------------------------------
(* What of a return has become advances.                                   *)

\* The excess of a note is a sum over rows of a table.
LEMMA ExcessSum ==
    ASSUME NEW b \in BooksType, NEW n
    PROVE  /\ ExcessOf(b, n) = SumFunctionOnSet(Amounts(b), ReturnCredits(b, n))
           /\ ReturnCredits(b, n) \subseteq DOMAIN b.settlements
           /\ IsFiniteSet(ReturnCredits(b, n))
           /\ ExcessOf(b, n) \in Nat
           /\ \A s \in DOMAIN b.settlements : Amounts(b)[s] \in Nat
           /\ IsFiniteSet(DOMAIN b.settlements)
<1>. DEFINE S == ReturnCredits(b, n)
            f == [s \in S |-> b.settlements[s].amount]
            g == Amounts(b)
<1>1. b.settlements \in Seq(Settlement)
    BY DEF BooksType
<1>2. /\ IsFiniteSet(DOMAIN b.settlements)
      /\ \A s \in DOMAIN b.settlements : b.settlements[s] \in Settlement
    BY <1>1, TableRows
<1>3. S \subseteq DOMAIN b.settlements
    BY DEF ReturnCredits
<1>4. IsFiniteSet(S)
    BY <1>2, <1>3, FS_Subset
<1>5. ExcessOf(b, n) = SumFunctionOnSet(f, S)
    BY DEF ExcessOf, SumFunction
<1>6. \A s \in S : f[s] = g[s] /\ g[s] \in Nat
    BY <1>2, <1>3 DEF Amounts, Settlement
<1>7. \A s \in DOMAIN b.settlements : Amounts(b)[s] \in Nat
    BY <1>2 DEF Amounts, Settlement
<1>. HIDE DEF S, f, g
<1>8. SumFunctionOnSet(f, S) = SumFunctionOnSet(g, S)
    BY <1>4, <1>6, SumSame
<1>9. SumFunctionOnSet(g, S) \in Nat
    BY <1>4, <1>6, SumNat
<1>. QED  BY <1>2, <1>3, <1>4, <1>5, <1>7, <1>8, <1>9 DEF S, g

\* the settlement rows that have come make nothing of a return
NoReturnCredit(b, r) ==
    \A s \in DOMAIN r.settlements \ DOMAIN b.settlements :
        r.settlements[s].origin # <<>> => r.settlements[s].origin[1] # "RETURN"

\* Without new credits of returns, the excess of every note stays.
LEMMA ExcessSame ==
    ASSUME NEW b \in BooksType, NEW r \in BooksType, Linked(b), Kept(b, r),
           NoReturnCredit(b, r), NEW n
    PROVE  ExcessOf(r, n) = ExcessOf(b, n)
<1>1. ReturnCredits(r, n) = ReturnCredits(b, n)
  <2>1. ASSUME NEW s \in ReturnCredits(r, n) PROVE s \in ReturnCredits(b, n)
    <3>1. s \in DOMAIN b.settlements
        BY DEF ReturnCredits, NoReturnCredit
    <3>2. b.settlements[s].origin = r.settlements[s].origin
        BY <3>1 DEF Kept, SameRow
    <3>3. b.settlements[s].origin[2] \in DOMAIN b.carries
        BY <3>1, <3>2 DEF Linked, RowLinked, OriginLinked, ReturnCredits
    <3>. QED  BY <3>1, <3>2, <3>3 DEF Kept, ReturnCredits
  <2>2. ASSUME NEW s \in ReturnCredits(b, n) PROVE s \in ReturnCredits(r, n)
    <3>1. s \in DOMAIN b.settlements /\ s \in DOMAIN r.settlements
        BY DEF ReturnCredits, Kept
    <3>2. b.settlements[s].origin = r.settlements[s].origin
        BY <3>1 DEF Kept, SameRow
    <3>3. b.settlements[s].origin[2] \in DOMAIN b.carries
        BY <3>1, <3>2 DEF Linked, RowLinked, OriginLinked, ReturnCredits
    <3>. QED  BY <3>1, <3>2, <3>3 DEF Kept, ReturnCredits
  <2>. QED  BY <2>1, <2>2
<1>. DEFINE S == ReturnCredits(b, n)
            f == Amounts(b)
            g == Amounts(r)
<1>2. \A s \in S : f[s] = g[s]
    BY DEF ReturnCredits, Kept, SameRow, Amounts
<1>3. IsFiniteSet(S) /\ ExcessOf(b, n) = SumFunctionOnSet(f, S)
    BY ExcessSum
<1>4. ExcessOf(r, n) = SumFunctionOnSet(g, S)
    BY <1>1, ExcessSum
<1>. QED
  <2>. HIDE DEF S, f, g
  <2>1. SumFunctionOnSet(f, S) = SumFunctionOnSet(g, S)
      BY <1>2, <1>3, SumSame
  <2>. QED  BY <1>3, <1>4, <2>1

\* So the returns stay honoured.
LEMMA HonouredSame ==
    ASSUME NEW b \in BooksType, NEW r \in BooksType, Linked(b), Kept(b, r),
           NoReturnCredit(b, r), r.carries = b.carries, Honoured(b)
    PROVE  Honoured(r)
<1> SUFFICES ASSUME NEW n \in DOMAIN r.notes PROVE HonouredNote(r, n)
    BY DEF Honoured
<1>1. CarriesOf(r, n) = CarriesOf(b, n)
    BY DEF CarriesOf
<1>2. CASE n \in DOMAIN b.notes
  <2>1. HonouredNote(b, n)
      BY <1>2 DEF Honoured
  <2>2. ExcessOf(r, n) = ExcessOf(b, n)
      BY ExcessSame
  <2>3. r.notes[n].total = b.notes[n].total
      BY <1>2 DEF Kept
  <2>. QED  BY <1>1, <2>1, <2>2, <2>3 DEF HonouredNote
<1>3. CASE n \notin DOMAIN b.notes
  <2>1. CarriesOf(b, n) = {}
      BY <1>3 DEF CarriesOf, Linked
  <2>. QED  BY <1>1, <2>1 DEF HonouredNote
<1>. QED  BY <1>2, <1>3

\* What of a note is still available is never negative.
LEMMA AvailableType ==
    ASSUME NEW b \in BooksType, Linked(b), Honoured(b), NEW n \in DOMAIN b.notes
    PROVE  Available(b, n) \in Nat /\ ExcessOf(b, n) \in Nat
<1>1. b.notes[n] \in Note /\ b.notes[n].total \in Nat
  <2>1. b.notes \in Seq(Note)
      BY DEF BooksType
  <2>2. b.notes[n] \in Note
      BY <2>1
  <2>. QED  BY <2>2, ReceivablesConstants DEF Note
<1>2. ExcessOf(b, n) \in Nat
    BY ExcessSum
<1>3. CASE CarriesOf(b, n) = {}
  <2>1. ReturnCredits(b, n) = {}
    <3>1. ASSUME NEW s \in ReturnCredits(b, n) PROVE FALSE
      <4>1. b.settlements[s].origin[2] \in DOMAIN b.carries
          BY DEF Linked, RowLinked, OriginLinked, ReturnCredits
      <4>. QED  BY <1>3, <4>1 DEF ReturnCredits, CarriesOf
    <3>. QED  BY <3>1
  <2>2. ExcessOf(b, n) = 0
    <3>1. ExcessOf(b, n) = SumFunctionOnSet(Amounts(b), {})
        BY <2>1, ExcessSum
    <3>. QED  BY <3>1, SumEmpty
  <2>. QED  BY <1>1, <2>2 DEF Available
<1>4. CASE CarriesOf(b, n) # {}
  <2>1. PICK last \in CarriesOf(b, n) :
            b.carries[last].applied + ExcessOf(b, n) = b.notes[n].total
      BY <1>4 DEF Honoured, HonouredNote
  <2>2. b.carries[last].applied \in Nat
    <3>1. b.carries \in Seq(Carry) /\ last \in DOMAIN b.carries
        BY DEF BooksType, CarriesOf
    <3>2. b.carries[last] \in Carry
        BY <3>1
    <3>. QED  BY <3>2 DEF Carry
  <2>. QED  BY <1>1, <1>2, <2>1, <2>2 DEF Available
<1>. QED  BY <1>2, <1>3, <1>4

-----------------------------------------------------------------------------
(* Sound books, and steps that leave cheques and their payments alone.     *)

\* What is kept by two steps is kept by both together.
LEMMA OntoTransitive ==
    ASSUME NEW b, NEW c, NEW r, Onto(b, c), Onto(c, r)
    PROVE  Onto(b, r)
<1>1. Kept(b, c) /\ Kept(c, r) => Kept(b, r)
  <2> SUFFICES ASSUME Kept(b, c), Kept(c, r) PROVE Kept(b, r)
      OBVIOUS
  <2>1. \A s \in DOMAIN b.settlements :
            /\ s \in DOMAIN r.settlements
            /\ SameRow(b.settlements[s], r.settlements[s])
      BY DEF Kept, SameRow
  <2>2. Len(b.cheques) <= Len(r.cheques)
    <3>1. b.cheques = c.cheques /\ c.cheques = r.cheques /\ r.cheques \in Seq(Cheque)
        BY DEF Onto, Steady, Sound, BooksType
    <3>2. Len(r.cheques) \in Nat
        BY <3>1
    <3>. QED  BY <3>1, <3>2
  <2>3. \A a \in DOMAIN b.applications :
            /\ a \in DOMAIN r.applications
            /\ r.applications[a].advance = b.applications[a].advance
            /\ r.applications[a].document = b.applications[a].document
            /\ r.applications[a].amount = b.applications[a].amount
      BY DEF Kept
  <2>4. \A x \in DOMAIN b.carries :
            x \in DOMAIN r.carries /\ r.carries[x] = b.carries[x]
      BY DEF Kept
  <2>5. \A n \in DOMAIN b.notes :
            /\ n \in DOMAIN r.notes
            /\ r.notes[n].source = b.notes[n].source
            /\ r.notes[n].total = b.notes[n].total
      BY DEF Kept
  <2>6. \A d \in DOMAIN b.invoices :
            /\ d \in DOMAIN r.invoices
            /\ r.invoices[d].total = b.invoices[d].total
      BY DEF Kept
  <2>. QED  BY <2>1, <2>2, <2>3, <2>4, <2>5, <2>6 DEF Kept
<1>2. Steady(b, r)
  <2>1. ASSUME NEW s \in DOMAIN r.settlements \ DOMAIN b.settlements
        PROVE  r.settlements[s].cheque = 0
      BY DEF Onto, Steady, Kept, SameRow
  <2>. QED  BY <2>1 DEF Onto, Steady, Kept
<1>. QED  BY <1>1, <1>2 DEF Onto

\* Sound books are kept by doing nothing.
LEMMA OntoItself ==
    ASSUME NEW b, Sound(b)
    PROVE  Onto(b, b)
<1>1. Len(b.cheques) \in Nat
  <2>1. b.cheques \in Seq(Cheque)
      BY DEF Sound, BooksType
  <2>. QED  BY <2>1
<1>. QED  BY <1>1 DEF Onto, Kept, Steady, SameRow

\* A credit of a correction leaves the books sound.
LEMMA CreditOnto ==
    ASSUME NEW b, Sound(b), NEW origin \in Origin, origin # <<>>,
           OriginLinked(b, origin), origin[1] # "RETURN",
           NEW gross \in Nat, NEW given \in Nat, given < gross
    PROVE  Onto(b, Credit(b, origin, gross, given))
<1>. DEFINE r == Credit(b, origin, gross, given)
            row == Advance(gross - given, origin, 0)
            k == Len(b.settlements) + 1
<1>1. b \in BooksType /\ Linked(b) /\ Honoured(b)
    BY DEF Sound
<1>2. /\ r \in BooksType
      /\ SameBut(r, b, {"settlements"})
      /\ r.settlements = Append(b.settlements, row)
    BY <1>1, CreditIs
<1>3. /\ DOMAIN r.settlements = DOMAIN b.settlements \cup {k}
      /\ r.settlements[k] = row
      /\ \A s \in DOMAIN b.settlements : r.settlements[s] = b.settlements[s]
  <2>1. b.settlements \in Seq(Settlement)
      BY <1>1 DEF BooksType
  <2>. HIDE DEF r, row
  <2>. QED  BY <1>2, <2>1, RowAdded
<1>4. /\ row.cheque = 0 /\ row.origin = origin /\ row.status = "POSTED"
      /\ row.type = "CUSTOMER_ADVANCE" /\ DOMAIN row.allocations = {}
    BY DEF Advance
<1>. HIDE DEF r, row, k
<1>5. /\ r.invoices = b.invoices /\ r.notes = b.notes
      /\ r.applications = b.applications /\ r.carries = b.carries
      /\ r.cheques = b.cheques
    BY <1>2 DEF SameBut
<1>6. Len(b.cheques) \in Nat
  <2>1. b.cheques \in Seq(Cheque)
      BY <1>1 DEF BooksType
  <2>. QED  BY <2>1
<1>7. Kept(b, r)
    BY <1>3, <1>5, <1>6 DEF Kept, SameRow
<1>8. Steady(b, r)
    BY <1>3, <1>4, <1>5 DEF Steady
<1>9. Linked(r)
  <2>1. \A s \in DOMAIN r.settlements : RowStatus(r.settlements[s])
      BY <1>1, <1>3, <1>4 DEF Linked, RowStatus
  <2>2. OriginLinked(r, origin)
      BY <1>3, <1>5 DEF OriginLinked
  <2>3. RowLinked(r, row)
      BY <1>4, <1>5, <1>6, <2>2 DEF RowLinked
  <2>4. \A s \in DOMAIN r.settlements \ DOMAIN b.settlements :
                RowLinked(r, r.settlements[s])
      BY <1>3, <2>3
  <2>5. \A q \in DOMAIN r.cheques : ChequeLinked(r, q)
      BY <1>1, <1>3, <1>5 DEF Linked, ChequeLinked
  <2>. QED  BY <1>1, <1>2, <1>5, <1>7, <2>1, <2>4, <2>5, LinkedStep
<1>10. Honoured(r)
  <2>1. NoReturnCredit(b, r)
      BY <1>3, <1>4 DEF NoReturnCredit
  <2>. QED  BY <1>1, <1>2, <1>5, <1>7, <2>1, HonouredSame
<1>. QED  BY <1>2, <1>7, <1>8, <1>9, <1>10 DEF Onto, Sound, r

\* The application of an advance leaves the books sound.
LEMMA AppliedOnto ==
    ASSUME NEW b, Sound(b), NEW s \in DOMAIN b.settlements,
           NEW d \in DOMAIN b.invoices, NEW amount \in Nat \ {0},
           amount <= b.settlements[s].remaining,
           b.settlements[s].type = "CUSTOMER_ADVANCE",
           b.settlements[s].status = "POSTED"
    PROVE  Onto(b, Applied(b, s, d, amount))
<1>. DEFINE r == Applied(b, s, d, amount)
            row == [advance |-> s, document |-> d, amount |-> amount,
                    journal |-> "POSTED"]
            k == Len(b.applications) + 1
<1>1. b \in BooksType /\ Linked(b) /\ Honoured(b)
    BY DEF Sound
<1>2. /\ b.settlements \in Seq(Settlement) /\ b.applications \in Seq(Application)
      /\ b.invoices \in Seq(Invoice) /\ b.cheques \in Seq(Cheque)
    BY <1>1 DEF BooksType
<1>3. d \in Nat /\ Len(b.cheques) \in Nat
    BY <1>2
<1>4. /\ r \in BooksType
      /\ SameBut(r, b, {"settlements", "applications"})
      /\ r.settlements = AdvanceDrawn(b, s, amount)
      /\ r.applications = Append(b.applications, row)
    BY <1>1, <1>3, AppliedIs
<1>5. /\ DOMAIN r.settlements = DOMAIN b.settlements
      /\ \A t \in DOMAIN b.settlements :
            /\ SameRow(b.settlements[t], r.settlements[t])
            /\ r.settlements[t].status = b.settlements[t].status
            /\ t # s => r.settlements[t].remaining = b.settlements[t].remaining
  <2>. DEFINE e == [b.settlements[s] EXCEPT !.remaining = @ - amount]
  <2>1. r.settlements = [b.settlements EXCEPT ![s] = e]
      BY <1>4 DEF AdvanceDrawn
  <2>2. SameRow(b.settlements[s], e) /\ e.status = b.settlements[s].status
    <3>1. b.settlements[s] \in Settlement
        BY <1>2
    <3>. QED  BY <3>1 DEF Settlement, SameRow
  <2>. HIDE DEF e, r
  <2>3. \A t \in DOMAIN b.settlements : SameRow(b.settlements[t], b.settlements[t])
      BY DEF SameRow
  <2>. QED  BY <1>2, <2>1, <2>2, <2>3
<1>6. /\ DOMAIN r.applications = DOMAIN b.applications \cup {k}
      /\ r.applications[k] = row
      /\ \A a \in DOMAIN b.applications : r.applications[a] = b.applications[a]
  <2>. HIDE DEF r, row
  <2>. QED  BY <1>2, <1>4, RowAdded
<1>7. row.advance = s /\ row.document = d
    OBVIOUS
<1>. HIDE DEF r, row, k
<1>8. /\ r.invoices = b.invoices /\ r.notes = b.notes
      /\ r.carries = b.carries /\ r.cheques = b.cheques
    BY <1>4 DEF SameBut
<1>9. Kept(b, r)
    BY <1>3, <1>5, <1>6, <1>8 DEF Kept
<1>10. Steady(b, r)
    BY <1>5, <1>8 DEF Steady
<1>11. Linked(r)
  <2>1. ASSUME NEW t \in DOMAIN r.settlements
        PROVE  RowStatus(r.settlements[t])
    <3>1. RowStatus(b.settlements[t])
        BY <1>1, <1>5 DEF Linked
    <3>. QED  BY <1>5, <3>1 DEF RowStatus, SameRow
  <2>2. ApplicationLinked(r, row)
      BY <1>5, <1>7, <1>8 DEF ApplicationLinked, SameRow
  <2>3. \A a \in DOMAIN r.applications \ DOMAIN b.applications :
                ApplicationLinked(r, r.applications[a])
      BY <1>6, <2>2
  <2>4. \A q \in DOMAIN r.cheques : ChequeLinked(r, q)
      BY <1>1, <1>5, <1>8 DEF Linked, ChequeLinked, SameRow
  <2>. QED  BY <1>1, <1>4, <1>5, <1>8, <1>9, <2>1, <2>3, <2>4, LinkedStep
<1>12. Honoured(r)
  <2>1. NoReturnCredit(b, r)
      BY <1>5 DEF NoReturnCredit
  <2>. QED  BY <1>1, <1>4, <1>8, <1>9, <2>1, HonouredSame
<1>. QED  BY <1>4, <1>9, <1>10, <1>11, <1>12 DEF Onto, Sound, r

\* So does a credit note.
LEMMA NoteOnto ==
    ASSUME NEW b, Sound(b), NEW d \in DOMAIN b.invoices, NEW amount \in Amount
    PROVE  Onto(b, NotePosted(b, d, amount))
<1>. DEFINE r == NotePosted(b, d, amount)
            row == [source |-> d, total |-> amount, reversals |-> 0]
            k == Len(b.notes) + 1
<1>1. b \in BooksType /\ Linked(b) /\ Honoured(b)
    BY DEF Sound
<1>2. /\ b.notes \in Seq(Note) /\ b.invoices \in Seq(Invoice)
      /\ b.cheques \in Seq(Cheque)
    BY <1>1 DEF BooksType
<1>3. d \in Nat /\ Len(b.cheques) \in Nat
    BY <1>2
<1>4. /\ r \in BooksType
      /\ SameBut(r, b, {"notes"})
      /\ r.notes = Append(b.notes, row)
    BY <1>1, <1>3, NoteIs
<1>5. /\ DOMAIN r.notes = DOMAIN b.notes \cup {k}
      /\ r.notes[k] = row
      /\ \A n \in DOMAIN b.notes : r.notes[n] = b.notes[n]
  <2>. HIDE DEF r, row
  <2>. QED  BY <1>2, <1>4, RowAdded
<1>6. row.source = d
    OBVIOUS
<1>. HIDE DEF r, row, k
<1>7. /\ r.invoices = b.invoices /\ r.settlements = b.settlements
      /\ r.applications = b.applications
      /\ r.carries = b.carries /\ r.cheques = b.cheques
    BY <1>4 DEF SameBut
<1>8. Kept(b, r)
    BY <1>3, <1>5, <1>7 DEF Kept, SameRow
<1>9. Steady(b, r)
    BY <1>7 DEF Steady
<1>10. Linked(r)
  <2>1. \A s \in DOMAIN r.settlements : RowStatus(r.settlements[s])
      BY <1>1, <1>7 DEF Linked
  <2>2. \A n \in DOMAIN r.notes \ DOMAIN b.notes :
                r.notes[n].source \in DOMAIN r.invoices
      BY <1>5, <1>6, <1>7
  <2>3. \A q \in DOMAIN r.cheques : ChequeLinked(r, q)
      BY <1>1, <1>7 DEF Linked, ChequeLinked
  <2>. QED  BY <1>1, <1>4, <1>7, <1>8, <2>1, <2>2, <2>3, LinkedStep
<1>11. Honoured(r)
  <2>1. NoReturnCredit(b, r)
      BY <1>7 DEF NoReturnCredit
  <2>. QED  BY <1>1, <1>4, <1>7, <1>8, <2>1, HonouredSame
<1>. QED  BY <1>4, <1>8, <1>9, <1>10, <1>11 DEF Onto, Sound, r

\* So does an invoice.
LEMMA InvoiceOnto ==
    ASSUME NEW b, Sound(b), NEW total \in Amount, NEW previous \in Nat
    PROVE  Onto(b, InvoiceEntered(b, total, previous))
<1>. DEFINE r == InvoiceEntered(b, total, previous)
            row == [total |-> total, reversals |-> 0, state |-> "LIVE",
                    correction |-> 0, previous |-> previous]
            k == Len(b.invoices) + 1
<1>1. b \in BooksType /\ Linked(b) /\ Honoured(b)
    BY DEF Sound
<1>2. b.invoices \in Seq(Invoice) /\ b.cheques \in Seq(Cheque)
    BY <1>1 DEF BooksType
<1>3. Len(b.cheques) \in Nat
    BY <1>2
<1>4. /\ r \in BooksType
      /\ SameBut(r, b, {"invoices"})
      /\ r.invoices = Append(b.invoices, row)
    BY <1>1, InvoiceIs
<1>5. /\ DOMAIN r.invoices = DOMAIN b.invoices \cup {k}
      /\ \A d \in DOMAIN b.invoices : r.invoices[d] = b.invoices[d]
  <2>. HIDE DEF r, row
  <2>. QED  BY <1>2, <1>4, RowAdded
<1>. HIDE DEF r, row, k
<1>7. /\ r.notes = b.notes /\ r.settlements = b.settlements
      /\ r.applications = b.applications
      /\ r.carries = b.carries /\ r.cheques = b.cheques
    BY <1>4 DEF SameBut
<1>8. Kept(b, r)
    BY <1>3, <1>5, <1>7 DEF Kept, SameRow
<1>9. Steady(b, r)
    BY <1>7 DEF Steady
<1>10. Linked(r)
  <2>1. \A s \in DOMAIN r.settlements : RowStatus(r.settlements[s])
      BY <1>1, <1>7 DEF Linked
  <2>3. \A q \in DOMAIN r.cheques : ChequeLinked(r, q)
      BY <1>1, <1>7 DEF Linked, ChequeLinked
  <2>. QED  BY <1>1, <1>4, <1>7, <1>8, <2>1, <2>3, LinkedStep
<1>11. Honoured(r)
  <2>1. NoReturnCredit(b, r)
      BY <1>7 DEF NoReturnCredit
  <2>. QED  BY <1>1, <1>4, <1>7, <1>8, <2>1, HonouredSame
<1>. QED  BY <1>4, <1>8, <1>9, <1>10, <1>11 DEF Onto, Sound, r

\* A carried return adds its row, and an advance of what is in excess.
LEMMA CarryIs ==
    ASSUME NEW b, Sound(b), NEW left \in Nat, NEW n \in DOMAIN b.notes,
           NEW replacement \in Nat
    PROVE  LET acc == [books |-> b, left |-> left]
               applied == Lesser(left, Available(b, n))
               excess == Available(b, n) - applied
               k == Len(b.carries) + 1
               r == CarryStep(acc, n, replacement).books
           IN  /\ Available(b, n) \in Nat /\ applied \in Nat /\ excess \in Nat
               /\ CarryStep(acc, n, replacement).left = left - applied
               /\ left - applied \in Nat
               /\ r \in BooksType
               /\ SameBut(r, b, {"settlements", "carries"})
               /\ r.carries = Append(b.carries,
                                     CarryRow(b, n, replacement, applied))
               /\ r.settlements =
                    IF excess = 0 THEN b.settlements
                    ELSE Append(b.settlements,
                                Advance(excess, <<"RETURN", k>>, 0))
               /\ Due(r) = Due(b)
<1>. DEFINE acc == [books |-> b, left |-> left]
            available == Available(b, n)
            applied == Lesser(left, available)
            excess == available - applied
            k == Len(b.carries) + 1
            row == CarryRow(b, n, replacement, applied)
            t == Append(b.carries, row)
            c == [b EXCEPT !.carries = t]
            r == CarryStep(acc, n, replacement).books
            u == Append(c.settlements, Advance(excess, <<"RETURN", k>>, 0))
            e == [c EXCEPT !.settlements = u]
<1>1. b \in BooksType /\ Linked(b) /\ Honoured(b)
    BY DEF Sound
<1>2. available \in Nat
    BY <1>1, AvailableType
<1>3. applied \in Nat /\ excess \in Nat /\ left - applied \in Nat
  <2>. HIDE DEF available
  <2>. QED  BY <1>2 DEF Lesser
<1>4. b.carries \in Seq(Carry) /\ b.notes \in Seq(Note)
    BY <1>1 DEF BooksType
<1>5. t \in Seq(Carry)
  <2>1. row \in Carry
    <3>1. n \in Nat
        BY <1>4
    <3>. HIDE DEF available, applied
    <3>. QED  BY <1>2, <1>3, <3>1 DEF Carry, CarryRow, available
  <2>. HIDE DEF row
  <2>. QED  BY <1>4, <2>1
<1>6. /\ c \in BooksType
      /\ SameBut(c, b, {"carries"})
      /\ c.carries = t
      /\ Due(c) = Due(b)
  <2>. HIDE DEF t
  <2>. QED  BY <1>1, <1>5, BooksWith
<1>7. c.settlements = b.settlements
    BY <1>6 DEF SameBut
<1>8. Len(c.carries) = k /\ k \in Nat /\ c.carries[k] = row
  <2>. HIDE DEF row, c
  <2>. QED  BY <1>4, <1>6, RowAdded
<1>9. row.available - row.applied = excess
    BY DEF CarryRow
<1>10. /\ r = ExcessCredited(c, Len(c.carries))
       /\ CarryStep(acc, n, replacement).left = left - applied
    BY DEF CarryStep, CarryRow
<1>11. r = IF excess = 0 THEN c ELSE Journal(e, excess, -excess, 0, 0)
  <2>. HIDE DEF r, c, row, excess
  <2>. QED  BY <1>8, <1>9, <1>10 DEF ExcessCredited, e, u
<1>12. CASE excess = 0
  <2>1. r = c
      BY <1>11, <1>12
  <2>2. SameBut(r, b, {"settlements", "carries"})
      BY <1>6, <2>1 DEF SameBut
  <2>. HIDE DEF r, c, excess, applied, available, row
  <2>. QED  BY <1>2, <1>3, <1>6, <1>7, <1>10, <1>12, <2>1, <2>2
             DEF row, t, excess, available, applied, k, acc, r
<1>13. CASE excess # 0
  <2>1. u \in Seq(Settlement)
    <3>1. Advance(excess, <<"RETURN", k>>, 0) \in Settlement
      <4>1. <<"RETURN", k>> \in Origin
          BY <1>8 DEF Origin
      <4>. HIDE DEF excess, k
      <4>. QED  BY <1>3, <1>13, <4>1, AdvanceType
    <3>2. c.settlements \in Seq(Settlement)
        BY <1>6, BooksWith
    <3>. QED  BY <3>1, <3>2
  <2>2. /\ e \in BooksType
        /\ SameBut(e, c, {"settlements"})
        /\ e.settlements = u
        /\ Due(e) = Due(c)
    <3>. HIDE DEF u, c
    <3>. QED  BY <1>6, <2>1, BooksWith
  <2>3. /\ r \in BooksType
        /\ SameBut(r, e, {})
        /\ Due(r) = Due(e) + excess + (-excess)
    <3>. HIDE DEF r, e, excess, u, c
    <3>1. excess \in Int /\ -excess \in Int /\ 0 \in Int
        BY <1>3
    <3>2. r = Journal(e, excess, -excess, 0, 0)
        BY <1>11, <1>13
    <3>. QED  BY ONLY <2>2, <3>1, <3>2, JournalIs
  <2>4. Due(r) = Due(b)
    <3>1. Due(b) \in Int
        BY <1>1 DEF BooksType, Due, Account
    <3>. HIDE DEF r, e, excess, c
    <3>. QED  BY <1>3, <1>6, <2>2, <2>3, <3>1
  <2>5. /\ SameBut(r, b, {"settlements", "carries"})
        /\ r.carries = t
        /\ r.settlements = u
    <3>. HIDE DEF r, e, c, u, t
    <3>. QED  BY <1>6, <2>2, <2>3 DEF SameBut
  <2>6. u = Append(b.settlements, Advance(excess, <<"RETURN", k>>, 0))
      BY <1>7
  <2>. HIDE DEF r, u, c, e, excess, applied, available, row, k
  <2>. QED  BY <1>2, <1>3, <1>10, <1>13, <2>3, <2>4, <2>5, <2>6
             DEF row, t, excess, available, applied, k, acc, r
<1>. QED  BY <1>12, <1>13

\* The carrying of one return leaves the books sound.
LEMMA CarryOnto ==
    ASSUME NEW b, Sound(b), NEW left \in Nat, NEW n \in DOMAIN b.notes,
           NEW replacement \in Nat
    PROVE  Onto(b, CarryStep([books |-> b, left |-> left], n, replacement).books)
<1>. DEFINE acc == [books |-> b, left |-> left]
            available == Available(b, n)
            applied == Lesser(left, available)
            excess == available - applied
            k == Len(b.carries) + 1
            j == Len(b.settlements) + 1
            row == CarryRow(b, n, replacement, applied)
            new == Advance(excess, <<"RETURN", k>>, 0)
            r == CarryStep(acc, n, replacement).books
<1>1. b \in BooksType /\ Linked(b) /\ Honoured(b)
    BY DEF Sound
<1>2. /\ available \in Nat /\ applied \in Nat /\ excess \in Nat
      /\ r \in BooksType
      /\ SameBut(r, b, {"settlements", "carries"})
      /\ r.carries = Append(b.carries, row)
      /\ r.settlements = IF excess = 0 THEN b.settlements
                         ELSE Append(b.settlements, new)
    BY CarryIs
<1>3. /\ b.carries \in Seq(Carry) /\ b.notes \in Seq(Note)
      /\ b.settlements \in Seq(Settlement) /\ b.cheques \in Seq(Cheque)
    BY <1>1 DEF BooksType
<1>4. k \in Nat /\ Len(b.cheques) \in Nat
    BY <1>3
<1>5. row.note = n /\ row.applied = applied
    BY DEF CarryRow
<1>6. /\ new.cheque = 0 /\ new.origin = <<"RETURN", k>>
      /\ new.status = "POSTED" /\ new.amount = excess
      /\ new.type = "CUSTOMER_ADVANCE" /\ DOMAIN new.allocations = {}
      /\ new.origin # <<>> /\ new.origin[1] = "RETURN" /\ new.origin[2] = k
    BY DEF Advance
<1>7. /\ DOMAIN r.carries = DOMAIN b.carries \cup {k}
      /\ r.carries[k] = row /\ k \notin DOMAIN b.carries
      /\ \A c \in DOMAIN b.carries : r.carries[c] = b.carries[c]
  <2>. HIDE DEF r, row
  <2>1. /\ DOMAIN Append(b.carries, row) = DOMAIN b.carries \cup {k}
        /\ Append(b.carries, row)[k] = row /\ k \notin DOMAIN b.carries
        /\ \A c \in DOMAIN b.carries : Append(b.carries, row)[c] = b.carries[c]
      BY ONLY <1>3, RowAdded
  <2>2. r.carries = Append(b.carries, row)
      BY <1>2
  <2>. QED  BY <2>1, <2>2
<1>8. /\ j \notin DOMAIN b.settlements
      /\ \A s \in DOMAIN b.settlements : r.settlements[s] = b.settlements[s]
      /\ excess = 0 => DOMAIN r.settlements = DOMAIN b.settlements
      /\ excess # 0 => /\ DOMAIN r.settlements = DOMAIN b.settlements \cup {j}
                       /\ r.settlements[j] = new
  <2>. HIDE DEF r, new, excess
  <2>1. /\ DOMAIN Append(b.settlements, new) = DOMAIN b.settlements \cup {j}
        /\ Append(b.settlements, new)[j] = new /\ j \notin DOMAIN b.settlements
        /\ \A s \in DOMAIN b.settlements :
                Append(b.settlements, new)[s] = b.settlements[s]
      BY ONLY <1>3, RowAdded
  <2>2. r.settlements = IF excess = 0 THEN b.settlements
                        ELSE Append(b.settlements, new)
      BY <1>2
  <2>. QED  BY <2>1, <2>2
<1>. HIDE DEF r, row, new, excess, applied, available, j
<1>9. /\ r.invoices = b.invoices /\ r.notes = b.notes
      /\ r.applications = b.applications /\ r.cheques = b.cheques
    BY <1>2 DEF SameBut
<1>10. Kept(b, r)
    BY <1>4, <1>7, <1>8, <1>9 DEF Kept, SameRow
<1>11. Steady(b, r)
    BY <1>6, <1>8, <1>9 DEF Steady
<1>12. Linked(r)
  <2>1. \A s \in DOMAIN r.settlements : RowStatus(r.settlements[s])
      BY <1>1, <1>6, <1>8 DEF Linked, RowStatus
  <2>2. OriginLinked(r, new.origin)
      BY <1>6, <1>7 DEF OriginLinked
  <2>3. RowLinked(r, new)
      BY <1>4, <1>6, <1>9, <2>2 DEF RowLinked
  <2>4. \A s \in DOMAIN r.settlements \ DOMAIN b.settlements :
                RowLinked(r, r.settlements[s])
      BY <1>8, <2>3
  <2>5. \A q \in DOMAIN r.cheques : ChequeLinked(r, q)
      BY <1>1, <1>8, <1>9 DEF Linked, ChequeLinked
  <2>6. \A c \in DOMAIN r.carries \ DOMAIN b.carries :
                r.carries[c].note \in DOMAIN r.notes
      BY <1>5, <1>7, <1>9
  <2>. QED  BY <1>1, <1>2, <1>9, <1>10, <2>1, <2>4, <2>5, <2>6, LinkedStep
<1>13. \A m : CarriesOf(r, m) = IF m = n THEN CarriesOf(b, m) \cup {k}
                                         ELSE CarriesOf(b, m)
    BY <1>5, <1>7 DEF CarriesOf
<1>14. ASSUME NEW m
       PROVE  ReturnCredits(r, m) = IF m = n /\ excess # 0
                                    THEN ReturnCredits(b, m) \cup {j}
                                    ELSE ReturnCredits(b, m)
  <2>1. ASSUME NEW s \in DOMAIN b.settlements
        PROVE  s \in ReturnCredits(r, m) <=> s \in ReturnCredits(b, m)
    <3>1. /\ r.settlements[s] = b.settlements[s]
          /\ s \in DOMAIN r.settlements
        BY <1>8
    <3>2. b.settlements[s].origin # <<>> /\ b.settlements[s].origin[1] = "RETURN"
            => b.settlements[s].origin[2] \in DOMAIN b.carries
        BY <1>1 DEF Linked, RowLinked, OriginLinked
    <3>. QED  BY <1>7, <3>1, <3>2 DEF ReturnCredits
  <2>2. excess # 0 => (j \in ReturnCredits(r, m) <=> m = n)
      BY <1>5, <1>6, <1>7, <1>8 DEF ReturnCredits
  <2>3. /\ ReturnCredits(r, m) \subseteq DOMAIN r.settlements
        /\ ReturnCredits(b, m) \subseteq DOMAIN b.settlements
      BY DEF ReturnCredits
  <2>. QED  BY <1>8, <2>1, <2>2, <2>3
<1>15. ASSUME NEW m
       PROVE  ExcessOf(r, m) = ExcessOf(b, m) + (IF m = n THEN excess ELSE 0)
  <2>. DEFINE f == Amounts(b)
              g == Amounts(r)
              S == ReturnCredits(b, m)
  <2>1. /\ ExcessOf(b, m) = SumFunctionOnSet(f, S)
        /\ S \in SUBSET DOMAIN b.settlements /\ ExcessOf(b, m) \in Nat
        /\ IsFiniteSet(DOMAIN b.settlements)
        /\ \A s \in DOMAIN b.settlements : f[s] \in Int
      BY <1>1, ExcessSum
  <2>2. /\ ExcessOf(r, m) = SumFunctionOnSet(g, ReturnCredits(r, m))
        /\ IsFiniteSet(DOMAIN r.settlements)
        /\ \A s \in DOMAIN r.settlements : g[s] \in Int
    <3>1. r \in BooksType
        BY <1>2
    <3>. QED  BY ONLY <3>1, ExcessSum
  <2>3. \A s \in DOMAIN b.settlements : g[s] = f[s] /\ f[s] \in Int
      BY <1>8, <2>1 DEF Amounts
  <2>4. excess # 0 => g[j] = excess
      BY <1>6, <1>8 DEF Amounts
  <2>. HIDE DEF f, g, S
  <2>5. CASE m = n /\ excess # 0
    <3>1. ReturnCredits(r, m) = S \cup {j}
        BY <1>14, <2>5 DEF S
    <3>2. SumFunctionOnSet(g, S \cup {j})
            = SumFunctionOnSet(f, S) + (IF j \in S \cup {j} THEN g[j] ELSE 0)
      <4>1. g[j] \in Int
          BY <1>2, <2>4, <2>5
      <4>2. S \cup {j} = S \/ S \cup {j} = S \cup {j}
          OBVIOUS
      <4>. QED  BY ONLY <1>8, <2>1, <2>3, <4>1, <4>2, SumAppend
    <3>. QED  BY <2>1, <2>2, <2>4, <2>5, <3>1, <3>2
  <2>6. CASE ~(m = n /\ excess # 0)
    <3>1. ReturnCredits(r, m) = S
        BY <1>14, <2>6 DEF S
    <3>2. IsFiniteSet(S)
        BY <2>1, FS_Subset
    <3>3. SumFunctionOnSet(g, S) = SumFunctionOnSet(f, S)
        BY ONLY <2>1, <2>3, <3>2, SumSame
    <3>. QED  BY <1>2, <2>1, <2>2, <2>6, <3>1, <3>3
  <2>. QED  BY <2>5, <2>6
<1>16. Honoured(r)
  <2> SUFFICES ASSUME NEW m \in DOMAIN r.notes PROVE HonouredNote(r, m)
      BY DEF Honoured
  <2>1. CASE m # n
    <3>1. HonouredNote(b, m)
        BY <1>1, <1>9 DEF Honoured
    <3>2. ExcessOf(r, m) = ExcessOf(b, m)
      <4>1. ExcessOf(b, m) \in Nat
          BY <1>1, ExcessSum
      <4>. QED  BY <1>15, <2>1, <4>1
    <3>3. CarriesOf(r, m) = CarriesOf(b, m)
        BY <1>13, <2>1
    <3>4. \A c \in CarriesOf(b, m) : r.carries[c] = b.carries[c]
        BY <1>7 DEF CarriesOf
    <3>. QED  BY <1>9, <3>1, <3>2, <3>3, <3>4 DEF HonouredNote
  <2>2. CASE m = n
    <3>1. CarriesOf(r, m) = CarriesOf(b, m) \cup {k}
        BY <1>13, <2>2
    <3>2. \A c \in CarriesOf(r, m) : c <= k
      <4>1. CarriesOf(b, m) \subseteq 1..Len(b.carries) /\ Len(b.carries) \in Nat
          BY <1>3, TableRows DEF CarriesOf
      <4>. QED  BY <3>1, <4>1
    <3>3. available = b.notes[n].total - ExcessOf(b, n)
        BY DEF Available, available
    <3>4. ExcessOf(b, n) \in Nat /\ b.notes[n].total \in Nat
      <4>1. b.notes[n] \in Note
          BY <1>3
      <4>. QED  BY <1>1, <4>1, ExcessSum, ReceivablesConstants DEF Note
    <3>5. applied + ExcessOf(r, n) = b.notes[n].total
        BY <1>2, <1>15, <2>2, <3>3, <3>4 DEF excess
    <3>. QED  BY <1>5, <1>7, <1>9, <2>2, <3>1, <3>2, <3>5 DEF HonouredNote
  <2>. QED  BY <2>1, <2>2
<1>. QED  BY <1>2, <1>10, <1>11, <1>12, <1>16 DEF Onto, Sound, r

-----------------------------------------------------------------------------
(* What counts against a document, as sums over whole tables.              *)

\* A table's total grows by the value of its new row.
LEMMA TotalAppend ==
    ASSUME NEW n \in Nat, NEW f, NEW g, DOMAIN f = 1..n, DOMAIN g = 1..(n + 1),
           \A k \in 1..n : f[k] \in Int /\ g[k] = f[k], g[n + 1] \in Int
    PROVE  Total(g) = Total(f) + g[n + 1] /\ Total(f) \in Int /\ Total(g) \in Int
<1>1. IsFiniteSet(1..n)
    BY FS_Interval
<1>2. Total(f) \in Int
    BY <1>1, SumInt DEF Total
<1>3. Total(g) = Total(f) + g[n + 1]
    BY SumAppendRow DEF Total
<1>. QED  BY <1>2, <1>3

\* It changes by the value of the row that changes.
LEMMA TotalChange ==
    ASSUME NEW S, IsFiniteSet(S), NEW f, NEW g, DOMAIN f = S, DOMAIN g = S,
           NEW x \in S, \A y \in S : f[y] \in Int, \A y \in S : g[y] \in Int,
           \A y \in S : y # x => f[y] = g[y]
    PROVE  Total(g) = Total(f) + (g[x] - f[x]) /\ Total(f) \in Int /\ Total(g) \in Int
<1>1. Total(f) \in Int /\ Total(g) \in Int
    BY SumInt DEF Total
<1>2. Total(g) = Total(f) + (g[x] - f[x])
    BY SumChange DEF Total
<1>. QED  BY <1>1, <1>2

\* It is the same where all values are.
LEMMA TotalSame ==
    ASSUME NEW S, IsFiniteSet(S), NEW f, NEW g, DOMAIN f = S, DOMAIN g = S,
           \A y \in S : f[y] \in Int, \A y \in S : f[y] = g[y]
    PROVE  Total(g) = Total(f) /\ Total(f) \in Int
<1>1. Total(f) \in Int
    BY SumInt DEF Total
<1>2. Total(g) = Total(f)
    BY SumSame DEF Total
<1>. QED  BY <1>1, <1>2

\* A sum over the rows that count is one over all rows.
LEMMA FilteredSum ==
    ASSUME NEW D, IsFiniteSet(D), NEW A \in SUBSET D, NEW f, NEW g,
           DOMAIN f = A, DOMAIN g = D, \A x \in A : f[x] \in Nat /\ g[x] = f[x],
           \A x \in D \ A : g[x] = 0
    PROVE  SumFunction(f) = Total(g) /\ Total(g) \in Nat
<1>1. IsFiniteSet(A)
    BY FS_Subset
<1>2. SumFunctionOnSet(f, A) = SumFunctionOnSet(g, A)
    BY <1>1, SumSame
<1>3. \A x \in D : g[x] \in Int /\ g[x] \in Nat
    OBVIOUS
<1>4. SumFunctionOnSet(g, D) = SumFunctionOnSet(g, A)
    BY <1>3, SumWithoutZeros
<1>5. SumFunctionOnSet(g, D) \in Nat
    BY <1>3, SumNat
<1>. QED  BY <1>2, <1>4, <1>5 DEF SumFunction, Total

\* f gives the values of g at the elements of A, and all others are 0
Filters(f, g, A, D) ==
    /\ A \subseteq D /\ DOMAIN f = A /\ DOMAIN g = D
    /\ \A x \in A : f[x] \in Nat /\ g[x] = f[x]
    /\ \A x \in D \ A : g[x] = 0

\* The sum of f is then that of g.
LEMMA FilterSum ==
    ASSUME NEW D, IsFiniteSet(D), NEW A, NEW f, NEW g, Filters(f, g, A, D)
    PROVE  SumFunction(f) = Total(g) /\ Total(g) \in Nat
<1>1. A \in SUBSET D
    BY DEF Filters
<1>. QED  BY <1>1, FilteredSum DEF Filters

\* Claims are natural numbers.
LEMMA ClaimSums ==
    ASSUME NEW b \in BooksType, NEW d
    PROVE  /\ Paid(b, d) = Total(PaidBy(b, d)) + Total(UsedBy(b, d))
           /\ Total(PaidBy(b, d)) \in Nat /\ Total(UsedBy(b, d)) \in Nat
           /\ DiscountsOn(b, d) = Total(GivenBy(b, d))
           /\ DiscountsOn(b, d) \in Nat
           /\ Noted(b, d) = Total(NotedBy(b, d)) /\ Noted(b, d) \in Nat
           /\ Carried(b, d) = Total(CarriedBy(b, d)) /\ Carried(b, d) \in Nat
           /\ Paid(b, d) \in Nat
<1>1. /\ b.settlements \in Seq(Settlement) /\ b.applications \in Seq(Application)
      /\ b.notes \in Seq(Note) /\ b.carries \in Seq(Carry)
    BY DEF BooksType
<1>2. \A s \in DOMAIN b.settlements : b.settlements[s] \in Settlement
    BY ONLY <1>1, TableRows
<1>3. /\ SumFunction([s \in EffectiveAllocations(b, d) |->
                          b.settlements[s].allocations[d].amount])
           = Total(PaidBy(b, d))
      /\ Total(PaidBy(b, d)) \in Nat
  <2>. DEFINE D == DOMAIN b.settlements
              A == EffectiveAllocations(b, d)
              f == [s \in A |-> b.settlements[s].allocations[d].amount]
              g == PaidBy(b, d)
  <2>1. IsFiniteSet(D)
      BY <1>1, TableRows
  <2>2. A \in SUBSET D /\ \A s \in A : d \in DOMAIN b.settlements[s].allocations
      BY DEF EffectiveAllocations
  <2>3. \A s \in A : f[s] \in Nat /\ g[s] = f[s]
      BY <1>2, <2>2, AllocationsType DEF PaidBy
  <2>4. \A s \in D \ A : g[s] = 0
      BY DEF PaidBy
  <2>5. DOMAIN f = A /\ DOMAIN g = D
      BY DEF PaidBy
  <2>. HIDE DEF D, A, f, g
  <2>6. SumFunction(f) = Total(g) /\ Total(g) \in Nat
      BY <2>1, <2>2, <2>3, <2>4, <2>5, FilteredSum
  <2>. QED  BY <2>6 DEF f, g, A
<1>4. DiscountsOn(b, d) = Total(GivenBy(b, d)) /\ Total(GivenBy(b, d)) \in Nat
  <2>. DEFINE D == DOMAIN b.settlements
              A == EffectiveAllocations(b, d)
              f == [s \in A |-> b.settlements[s].allocations[d].discount]
              g == GivenBy(b, d)
  <2>1. IsFiniteSet(D)
      BY <1>1, TableRows
  <2>2. A \in SUBSET D /\ \A s \in A : d \in DOMAIN b.settlements[s].allocations
      BY DEF EffectiveAllocations
  <2>3. \A s \in A : f[s] \in Nat /\ g[s] = f[s]
      BY <1>2, <2>2, AllocationsType DEF GivenBy
  <2>4. \A s \in D \ A : g[s] = 0
      BY DEF GivenBy
  <2>5. DOMAIN f = A /\ DOMAIN g = D
      BY DEF GivenBy
  <2>. HIDE DEF D, A, f, g
  <2>6. SumFunction(f) = Total(g) /\ Total(g) \in Nat
      BY <2>1, <2>2, <2>3, <2>4, <2>5, FilteredSum
  <2>. QED  BY <2>6 DEF f, g, A, DiscountsOn
<1>5. /\ SumFunction([a \in EffectiveApplications(b, d) |-> b.applications[a].amount])
           = Total(UsedBy(b, d))
      /\ Total(UsedBy(b, d)) \in Nat
  <2>. DEFINE D == DOMAIN b.applications
              A == EffectiveApplications(b, d)
              f == [a \in A |-> b.applications[a].amount]
              g == UsedBy(b, d)
  <2>1. IsFiniteSet(D) /\ \A a \in D : b.applications[a] \in Application
      BY <1>1, TableRows
  <2>2. A \in SUBSET D
      BY DEF EffectiveApplications
  <2>3. \A s \in A : f[s] \in Nat /\ g[s] = f[s]
      BY <2>1, <2>2 DEF UsedBy, Application
  <2>4. \A s \in D \ A : g[s] = 0
      BY DEF UsedBy
  <2>5. DOMAIN f = A /\ DOMAIN g = D
      BY DEF UsedBy
  <2>. HIDE DEF D, A, f, g
  <2>6. SumFunction(f) = Total(g) /\ Total(g) \in Nat
      BY <2>1, <2>2, <2>3, <2>4, <2>5, FilteredSum
  <2>. QED  BY <2>6 DEF f, g, A
<1>6. Noted(b, d) = Total(NotedBy(b, d)) /\ Total(NotedBy(b, d)) \in Nat
  <2>. DEFINE D == DOMAIN b.notes
              A == NotesOf(b, d) \cap PostedNotes(b)
              f == [n \in A |-> b.notes[n].total]
              g == NotedBy(b, d)
  <2>1. IsFiniteSet(D) /\ \A n \in D : b.notes[n] \in Note
      BY <1>1, TableRows
  <2>2. A \in SUBSET D
      BY DEF NotesOf
  <2>3. \A s \in A : f[s] \in Nat /\ g[s] = f[s]
      BY <2>1, <2>2, ReceivablesConstants DEF NotedBy, Note
  <2>4. \A s \in D \ A : g[s] = 0
      BY DEF NotedBy
  <2>5. DOMAIN f = A /\ DOMAIN g = D
      BY DEF NotedBy
  <2>. HIDE DEF D, A, f, g
  <2>6. SumFunction(f) = Total(g) /\ Total(g) \in Nat
      BY <2>1, <2>2, <2>3, <2>4, <2>5, FilteredSum
  <2>. QED  BY <2>6 DEF f, g, A, Noted
<1>7. Carried(b, d) = Total(CarriedBy(b, d)) /\ Total(CarriedBy(b, d)) \in Nat
  <2>. DEFINE D == DOMAIN b.carries
              A == CarriesTo(b, d)
              f == [c \in A |-> b.carries[c].applied]
              g == CarriedBy(b, d)
  <2>1. IsFiniteSet(D) /\ \A c \in D : b.carries[c] \in Carry
      BY <1>1, TableRows
  <2>2. A \in SUBSET D
      BY DEF CarriesTo
  <2>3. \A s \in A : f[s] \in Nat /\ g[s] = f[s]
      BY <2>1, <2>2 DEF CarriedBy, Carry
  <2>4. \A s \in D \ A : g[s] = 0
      BY DEF CarriedBy
  <2>5. DOMAIN f = A /\ DOMAIN g = D
      BY DEF CarriedBy
  <2>. HIDE DEF D, A, f, g
  <2>6. SumFunction(f) = Total(g) /\ Total(g) \in Nat
      BY <2>1, <2>2, <2>3, <2>4, <2>5, FilteredSum
  <2>. QED  BY <2>6 DEF f, g, A, Carried
<1>. QED  BY <1>3, <1>4, <1>5, <1>6, <1>7 DEF Paid

\* Outstanding amounts are whole numbers.
LEMMA OutstandingType ==
    ASSUME NEW b \in BooksType, NEW d \in DOMAIN b.invoices
    PROVE  /\ BatchOutstanding(b, d) \in Int
           /\ Outstanding(b, d) \in Int
           /\ b.invoices[d] \in Invoice
           /\ b.invoices[d].total \in Nat \ {0}
<1>1. b.invoices[d] \in Invoice
  <2>1. b.invoices \in Seq(Invoice)
      BY DEF BooksType
  <2>. QED  BY <2>1
<1>2. b.invoices[d].total \in Nat \ {0}
    BY <1>1, ReceivablesConstants DEF Invoice
<1>3. /\ Noted(b, d) \in Nat /\ Carried(b, d) \in Nat /\ Paid(b, d) \in Nat
    BY ClaimSums
<1>. QED  BY <1>1, <1>2, <1>3 DEF BatchOutstanding, Outstanding

-----------------------------------------------------------------------------
(* The folds, in any set of books that the single calls do not leave.      *)

\* the books that the advances in S are applied from
UsableFor(b, S, d) ==
    /\ Sound(b)
    /\ d \in DOMAIN b.invoices
    /\ S \subseteq DOMAIN b.settlements
    /\ \A s \in S : /\ b.settlements[s].type = "CUSTOMER_ADVANCE"
                    /\ b.settlements[s].status = "POSTED"

\* the guard of a single application, and what it leaves
ApplicationStays(X, d) ==
    \A c \in X : \A s \in DOMAIN c.settlements, amount \in Nat \ {0} :
        /\ Sound(c)
        /\ d \in DOMAIN c.invoices
        /\ c.settlements[s].type = "CUSTOMER_ADVANCE"
        /\ c.settlements[s].status = "POSTED"
        /\ amount <= c.settlements[s].remaining
        /\ amount <= Outstanding(c, d)
        => Applied(c, s, d, amount) \in X

\* The application of advances, one after the other, leaves the books sound,
\* and in any set that a single application does not leave.
LEMMA AppliedAllStays ==
    ASSUME NEW b, NEW S, NEW d, UsableFor(b, S, d),
           NEW X, b \in X, ApplicationStays(X, d)
    PROVE  AppliedAll(b, S, d) \in X /\ Onto(b, AppliedAll(b, S, d))
<1>. DEFINE Y == {c \in X : Onto(b, c)}
            T == [P \in SUBSET S |-> Y]
<1>1. IsFiniteSet(S) /\ S \subseteq Nat
  <2>1. b.settlements \in Seq(Settlement)
      BY DEF UsableFor, Sound, BooksType
  <2>2. /\ DOMAIN b.settlements \subseteq Nat
        /\ IsFiniteSet(DOMAIN b.settlements)
      BY <2>1, TableRows
  <2>. QED  BY <2>2, FS_Subset DEF UsableFor
<1>2. b \in Y
    BY OntoItself DEF UsableFor
<1>3. ASSUME NEW s \in S, NEW c \in Y
      PROVE  ApplyStep(c, s, d) \in Y
  <2>. DEFINE amount == Lesser(c.settlements[s].remaining, Outstanding(c, d))
  <2>1. Onto(b, c) /\ Sound(c) /\ c \in X
      BY DEF Onto
  <2>2. /\ s \in DOMAIN c.settlements /\ d \in DOMAIN c.invoices
        /\ c.settlements[s].type = "CUSTOMER_ADVANCE"
        /\ c.settlements[s].status = "POSTED"
      BY <2>1 DEF Onto, Kept, SameRow, Steady, UsableFor
  <2>3. c.settlements[s].remaining \in Nat
    <3>1. c.settlements \in Seq(Settlement)
        BY <2>1 DEF Sound, BooksType
    <3>2. c.settlements[s] \in Settlement
        BY <2>2, <3>1
    <3>. QED  BY <3>2 DEF Settlement
  <2>4. Outstanding(c, d) \in Int
      BY <2>1, <2>2, OutstandingType DEF Sound
  <2>5. CASE amount > 0
    <3>1. /\ amount \in Nat \ {0} /\ amount <= c.settlements[s].remaining
          /\ amount <= Outstanding(c, d)
        BY <2>3, <2>4, <2>5 DEF Lesser
    <3>2. ApplyStep(c, s, d) = Applied(c, s, d, amount)
        BY <2>5 DEF ApplyStep
    <3>. HIDE DEF amount, Y
    <3>3. Applied(c, s, d, amount) \in X
        BY <2>1, <2>2, <3>1 DEF ApplicationStays
    <3>4. Onto(c, Applied(c, s, d, amount))
        BY <2>1, <2>2, <3>1, AppliedOnto
    <3>5. Onto(b, Applied(c, s, d, amount))
        BY <2>1, <3>4, OntoTransitive
    <3>. QED  BY <3>2, <3>3, <3>5 DEF Y
  <2>6. CASE ~(amount > 0)
      BY <2>6 DEF ApplyStep
  <2>. QED  BY <2>5, <2>6
<1>4. \A P \in SUBSET S : \A s \in S \ P, c \in T[P] :
                ApplyStep(c, s, d) \in T[P \cup {s}]
    BY <1>3
<1>5. b \in T[{}] /\ T[S] = Y
    BY <1>2
<1>. HIDE DEF T
<1>6. AppliedAll(b, S, d) \in T[S]
    BY <1>1, <1>4, <1>5, ApplyAllIn
<1>. QED  BY <1>5, <1>6

\* The advances that may be applied can be.
LEMMA AdvancesUsable ==
    ASSUME NEW b, Sound(b), NEW d \in DOMAIN b.invoices,
           NEW S \in SUBSET UnusedAdvances(b)
    PROVE  UsableFor(b, S, d)
BY DEF UsableFor, UnusedAdvances, Effective

\* A credit takes from the payments that count just the one it is made of.
LEMMA CreditClaims ==
    ASSUME NEW b, Sound(b), NEW origin \in Origin, origin # <<>>,
           OriginLinked(b, origin), origin[1] # "RETURN",
           NEW gross \in Nat, NEW given \in Nat, given < gross
    PROVE  LET r == Credit(b, origin, gross, given)
           IN  /\ \A o : Released(r, o) <=> Released(b, o) \/ o = origin
               /\ \A e : EffectiveAllocations(r, e) =
                    {s \in EffectiveAllocations(b, e) : origin # <<"RECEIPT", s, e>>}
               /\ \A e : EffectiveApplications(r, e) =
                    {a \in EffectiveApplications(b, e) : origin # <<"APPLICATION", a>>}
               /\ r.invoices = b.invoices /\ r.notes = b.notes
               /\ r.applications = b.applications /\ r.carries = b.carries
               /\ r.cheques = b.cheques
               /\ DOMAIN r.settlements
                    = DOMAIN b.settlements \cup {Len(b.settlements) + 1}
               /\ Len(b.settlements) + 1 \notin DOMAIN b.settlements
               /\ r.settlements[Len(b.settlements) + 1]
                    = Advance(gross - given, origin, 0)
               /\ \A s \in DOMAIN b.settlements :
                        r.settlements[s] = b.settlements[s]
               /\ Due(r) = Due(b) + given
<1>. DEFINE r == Credit(b, origin, gross, given)
            row == Advance(gross - given, origin, 0)
            k == Len(b.settlements) + 1
<1>1. b \in BooksType /\ Linked(b) /\ Honoured(b)
    BY DEF Sound
<1>2. /\ r \in BooksType
      /\ SameBut(r, b, {"settlements"})
      /\ r.settlements = Append(b.settlements, row)
      /\ Due(r) = Due(b) + given
    BY <1>1, CreditIs
<1>3. /\ DOMAIN r.settlements = DOMAIN b.settlements \cup {k}
      /\ r.settlements[k] = row
      /\ k \notin DOMAIN b.settlements
      /\ \A s \in DOMAIN b.settlements : r.settlements[s] = b.settlements[s]
  <2>1. b.settlements \in Seq(Settlement)
      BY <1>1 DEF BooksType
  <2>. HIDE DEF r, row
  <2>. QED  BY <1>2, <2>1, RowAdded
<1>4. /\ row.cheque = 0 /\ row.origin = origin /\ row.status = "POSTED"
      /\ row.type = "CUSTOMER_ADVANCE" /\ DOMAIN row.allocations = {}
    BY DEF Advance
<1>5. row = Advance(gross - given, origin, 0) /\ k = Len(b.settlements) + 1
    OBVIOUS
<1>. HIDE DEF r, row, k
<1>6. /\ r.invoices = b.invoices /\ r.notes = b.notes
      /\ r.applications = b.applications /\ r.carries = b.carries
      /\ r.cheques = b.cheques
    BY <1>2 DEF SameBut
<1>7. ASSUME NEW o
      PROVE  Released(r, o) <=> Released(b, o) \/ o = origin
    BY <1>3, <1>4 DEF Released
<1>8. ASSUME NEW e
      PROVE  EffectiveAllocations(r, e) =
                {s \in EffectiveAllocations(b, e) : origin # <<"RECEIPT", s, e>>}
    BY <1>3, <1>4, <1>7 DEF EffectiveAllocations, Effective
<1>9. ASSUME NEW e
      PROVE  EffectiveApplications(r, e) =
                {a \in EffectiveApplications(b, e) : origin # <<"APPLICATION", a>>}
  <2>1. \A a \in DOMAIN b.applications :
            b.applications[a].advance \in DOMAIN b.settlements
      BY <1>1 DEF Linked, ApplicationLinked
  <2>. QED  BY <1>3, <1>6, <1>7, <2>1 DEF EffectiveApplications, Effective
<1>. QED  BY <1>2, <1>3, <1>5, <1>6, <1>7, <1>8, <1>9 DEF r

\* the tables that neither credits nor applications touch
SameDocuments(b, r) ==
    /\ r.invoices = b.invoices /\ r.notes = b.notes
    /\ r.carries = b.carries /\ r.cheques = b.cheques

\* The release of a receipt's payment of invoice d.
LEMMA ReceiptReleased ==
    ASSUME NEW b, Sound(b), NEW d, NEW s \in EffectiveAllocations(b, d)
    PROVE  LET r == ReceiptStep(b, s, b, d)
           IN  /\ Onto(b, r) /\ SameDocuments(b, r)
               /\ r.applications = b.applications
               /\ \A e : EffectiveAllocations(r, e) =
                            EffectiveAllocations(b, e) \ (IF e = d THEN {s} ELSE {})
               /\ \A e : EffectiveApplications(r, e) = EffectiveApplications(b, e)
<1>. DEFINE origin == <<"RECEIPT", s, d>>
            gross == b.settlements[s].allocations[d].amount
            given == b.settlements[s].allocations[d].discount
            r == ReceiptStep(b, s, b, d)
<1>1. b \in BooksType /\ Linked(b)
    BY DEF Sound
<1>2. s \in DOMAIN b.settlements /\ d \in DOMAIN b.settlements[s].allocations
    BY DEF EffectiveAllocations
<1>3. b.settlements[s] \in Settlement /\ s \in Nat
  <2>1. b.settlements \in Seq(Settlement)
      BY <1>1 DEF BooksType
  <2>. QED  BY <1>2, <2>1, TableRows
<1>4. gross \in Nat /\ given \in Nat /\ d \in Nat
    BY <1>2, <1>3, AllocationsType
<1>5. given < gross
    BY <1>1, <1>2 DEF Linked, RowLinked
<1>6. /\ origin \in Origin /\ origin # <<>> /\ origin[1] # "RETURN"
      /\ OriginLinked(b, origin)
    BY <1>2, <1>3, <1>4 DEF Origin, OriginLinked
<1>7. r = Credit(b, origin, gross, given)
    BY DEF ReceiptStep
<1>8. /\ \A t, e : origin = <<"RECEIPT", t, e>> <=> t = s /\ e = d
      /\ \A a : origin # <<"APPLICATION", a>>
    OBVIOUS
<1>. HIDE DEF origin, gross, given, r
<1>9. Onto(b, r)
    BY <1>4, <1>5, <1>6, <1>7, CreditOnto
<1>10. /\ \A e : EffectiveAllocations(r, e) =
                    {t \in EffectiveAllocations(b, e) : origin # <<"RECEIPT", t, e>>}
       /\ \A e : EffectiveApplications(r, e) =
                    {a \in EffectiveApplications(b, e) : origin # <<"APPLICATION", a>>}
       /\ SameDocuments(b, r) /\ r.applications = b.applications
  <2>1. Sound(b) /\ gross \in Nat /\ given \in Nat /\ given < gross
      BY <1>4, <1>5
  <2>. DEFINE q == Credit(b, origin, gross, given)
  <2>2. /\ \A e : EffectiveAllocations(q, e) =
                    {t \in EffectiveAllocations(b, e) : origin # <<"RECEIPT", t, e>>}
        /\ \A e : EffectiveApplications(q, e) =
                    {a \in EffectiveApplications(b, e) : origin # <<"APPLICATION", a>>}
        /\ q.invoices = b.invoices /\ q.notes = b.notes
        /\ q.applications = b.applications /\ q.carries = b.carries
        /\ q.cheques = b.cheques
      BY ONLY <1>6, <2>1, CreditClaims
  <2>. HIDE DEF q
  <2>3. r = q
      BY <1>7 DEF q
  <2>. QED  BY ONLY <2>2, <2>3 DEF SameDocuments
<1>11. ASSUME NEW e
       PROVE  EffectiveAllocations(r, e) =
                    EffectiveAllocations(b, e) \ (IF e = d THEN {s} ELSE {})
    BY <1>8, <1>10
<1>12. ASSUME NEW e
       PROVE  EffectiveApplications(r, e) = EffectiveApplications(b, e)
    BY <1>8, <1>10
<1>. QED  BY <1>9, <1>10, <1>11, <1>12 DEF r

\* The release of an application to invoice d.
LEMMA ApplicationReleased ==
    ASSUME NEW b, Sound(b), NEW d, NEW x \in EffectiveApplications(b, d)
    PROVE  LET r == ApplicationStep(b, x, b)
           IN  /\ Onto(b, r) /\ SameDocuments(b, r)
               /\ r.applications = b.applications
               /\ \A e : EffectiveAllocations(r, e) = EffectiveAllocations(b, e)
               /\ \A e : EffectiveApplications(r, e) =
                            EffectiveApplications(b, e) \ (IF e = d THEN {x} ELSE {})
<1>. DEFINE origin == <<"APPLICATION", x>>
            gross == b.applications[x].amount
            r == ApplicationStep(b, x, b)
<1>1. b \in BooksType /\ Linked(b)
    BY DEF Sound
<1>2. x \in DOMAIN b.applications /\ b.applications[x].document = d
    BY DEF EffectiveApplications
<1>3. b.applications[x] \in Application /\ x \in Nat
  <2>1. b.applications \in Seq(Application)
      BY <1>1 DEF BooksType
  <2>. QED  BY <1>2, <2>1, TableRows
<1>4. gross \in Nat /\ 0 \in Nat /\ 0 < gross
    BY <1>3 DEF Application
<1>6. /\ origin \in Origin /\ origin # <<>> /\ origin[1] # "RETURN"
      /\ OriginLinked(b, origin)
    BY <1>2, <1>3 DEF Origin, OriginLinked
<1>7. r = Credit(b, origin, gross, 0)
    BY DEF ApplicationStep
<1>8. /\ \A t, e : origin # <<"RECEIPT", t, e>>
      /\ \A a : origin = <<"APPLICATION", a>> <=> a = x
    OBVIOUS
<1>. HIDE DEF origin, gross, r
<1>9. Onto(b, r)
    BY <1>4, <1>6, <1>7, CreditOnto
<1>10. /\ \A e : EffectiveAllocations(r, e) =
                    {t \in EffectiveAllocations(b, e) : origin # <<"RECEIPT", t, e>>}
       /\ \A e : EffectiveApplications(r, e) =
                    {a \in EffectiveApplications(b, e) : origin # <<"APPLICATION", a>>}
       /\ SameDocuments(b, r) /\ r.applications = b.applications
  <2>1. Sound(b) /\ gross \in Nat /\ 0 \in Nat /\ 0 < gross
      BY <1>4
  <2>. DEFINE q == Credit(b, origin, gross, 0)
  <2>2. /\ \A e : EffectiveAllocations(q, e) =
                    {t \in EffectiveAllocations(b, e) : origin # <<"RECEIPT", t, e>>}
        /\ \A e : EffectiveApplications(q, e) =
                    {a \in EffectiveApplications(b, e) : origin # <<"APPLICATION", a>>}
        /\ q.invoices = b.invoices /\ q.notes = b.notes
        /\ q.applications = b.applications /\ q.carries = b.carries
        /\ q.cheques = b.cheques
      BY ONLY <1>6, <2>1, CreditClaims
  <2>. HIDE DEF q
  <2>3. r = q
      BY <1>7 DEF q
  <2>. QED  BY ONLY <2>2, <2>3 DEF SameDocuments
<1>11. ASSUME NEW e
       PROVE  EffectiveAllocations(r, e) = EffectiveAllocations(b, e)
    BY <1>8, <1>10
<1>12. ASSUME NEW e
       PROVE  EffectiveApplications(r, e) =
                    EffectiveApplications(b, e) \ (IF e = d THEN {x} ELSE {})
  <2>1. \A a \in EffectiveApplications(b, e) : a = x => e = d
      BY <1>2 DEF EffectiveApplications
  <2>. QED  BY <1>8, <1>10, <2>1
<1>. QED  BY <1>9, <1>10, <1>11, <1>12 DEF r

\* what a single release leaves
ReleasesStay(X, d) ==
    \A c \in X : Sound(c) =>
        /\ \A s \in EffectiveAllocations(c, d) : ReceiptStep(c, s, c, d) \in X
        /\ \A a \in EffectiveApplications(c, d) : ApplicationStep(c, a, c) \in X

\* The release of all payments of an invoice leaves the books sound, in any
\* set that a single release does not leave, and nothing paid.
LEMMA PaymentsReleasedStays ==
    ASSUME NEW b, Sound(b), NEW d, NEW X, b \in X, ReleasesStay(X, d)
    PROVE  LET r == PaymentsReleased(b, d)
           IN  /\ r \in X /\ Onto(b, r) /\ SameDocuments(b, r)
               /\ r.applications = b.applications
               /\ NothingPaid(r, d)
<1>. DEFINE S == EffectiveAllocations(b, d)
            A == EffectiveApplications(b, d)
            Y == {c \in X : /\ Onto(b, c) /\ SameDocuments(b, c)
                            /\ c.applications = b.applications}
            middle == ReceiptsReleased(b, S, d)
            r == PaymentsReleased(b, d)
<1>1. /\ IsFiniteSet(S) /\ S \subseteq Nat
      /\ IsFiniteSet(A) /\ A \subseteq Nat
  <2>1. b.settlements \in Seq(Settlement) /\ b.applications \in Seq(Application)
      BY DEF Sound, BooksType
  <2>2. /\ DOMAIN b.settlements \subseteq Nat /\ DOMAIN b.applications \subseteq Nat
        /\ IsFiniteSet(DOMAIN b.settlements) /\ IsFiniteSet(DOMAIN b.applications)
      BY <2>1, TableRows
  <2>3. S \subseteq DOMAIN b.settlements /\ A \subseteq DOMAIN b.applications
      BY DEF EffectiveAllocations, EffectiveApplications
  <2>. QED  BY <2>2, <2>3, FS_Subset
<1>2. /\ b \in Y
      /\ middle \in {c \in Y : /\ EffectiveAllocations(c, d) = {}
                               /\ EffectiveApplications(c, d) = A}
  <2>. DEFINE T == [P \in SUBSET S |->
                       {c \in Y : /\ EffectiveAllocations(c, d) = S \ P
                                  /\ EffectiveApplications(c, d) = A}]
  <2>1. b \in T[{}] /\ b \in Y
      BY OntoItself DEF SameDocuments
  <2>2. ASSUME NEW P \in SUBSET S, NEW s \in S \ P, NEW c \in T[P]
        PROVE  ReceiptStep(c, s, b, d) \in T[P \cup {s}]
    <3>1. /\ c \in X /\ Onto(b, c) /\ SameDocuments(b, c)
          /\ c.applications = b.applications
          /\ EffectiveAllocations(c, d) = S \ P
          /\ EffectiveApplications(c, d) = A
        OBVIOUS
    <3>2. Sound(c) /\ s \in EffectiveAllocations(c, d)
        BY <3>1 DEF Onto
    <3>3. ReceiptStep(c, s, b, d) = ReceiptStep(c, s, c, d)
      <4>1. s \in DOMAIN b.settlements
          BY DEF EffectiveAllocations
      <4>2. c.settlements[s].allocations = b.settlements[s].allocations
          BY <3>1, <4>1 DEF Onto, Kept, SameRow
      <4>. QED  BY <4>2 DEF ReceiptStep
    <3>. DEFINE q == ReceiptStep(c, s, c, d)
    <3>4. q \in X
        BY <3>1, <3>2 DEF ReleasesStay
    <3>5. /\ Onto(c, q) /\ SameDocuments(c, q)
          /\ q.applications = c.applications
          /\ EffectiveAllocations(q, d) = EffectiveAllocations(c, d) \ {s}
          /\ EffectiveApplications(q, d) = EffectiveApplications(c, d)
        BY ONLY <3>2, ReceiptReleased
    <3>. HIDE DEF q
    <3>6. Onto(b, q)
        BY <3>1, <3>5, OntoTransitive
    <3>7. q \in Y
        BY <3>1, <3>4, <3>5, <3>6 DEF SameDocuments
    <3>8. EffectiveAllocations(q, d) = S \ (P \cup {s})
        BY <3>1, <3>5
    <3>. HIDE DEF Y
    <3>. QED  BY <3>1, <3>3, <3>5, <3>7, <3>8 DEF q
  <2>3. T[S] = {c \in Y : /\ EffectiveAllocations(c, d) = {}
                          /\ EffectiveApplications(c, d) = A}
      OBVIOUS
  <2>. HIDE DEF T, S
  <2>4. middle \in T[S]
      BY <1>1, <2>1, <2>2, ReceiptAllIn
  <2>. QED  BY <2>1, <2>3, <2>4
<1>3. r = ApplicationsReleased(b, A, middle)
    BY DEF PaymentsReleased, ApplicationsReleased, ReceiptsReleased
<1>4. r \in {c \in Y : NothingPaid(c, d)}
  <2>. DEFINE T == [P \in SUBSET A |->
                       {c \in Y : /\ EffectiveAllocations(c, d) = {}
                                  /\ EffectiveApplications(c, d) = A \ P}]
  <2>1. middle \in T[{}]
      BY <1>2
  <2>2. ASSUME NEW P \in SUBSET A, NEW x \in A \ P, NEW c \in T[P]
        PROVE  ApplicationStep(c, x, b) \in T[P \cup {x}]
    <3>1. /\ c \in X /\ Onto(b, c) /\ SameDocuments(b, c)
          /\ c.applications = b.applications
          /\ EffectiveAllocations(c, d) = {}
          /\ EffectiveApplications(c, d) = A \ P
        OBVIOUS
    <3>2. Sound(c) /\ x \in EffectiveApplications(c, d)
        BY <3>1 DEF Onto
    <3>3. ApplicationStep(c, x, b) = ApplicationStep(c, x, c)
        BY <3>1 DEF ApplicationStep
    <3>. DEFINE q == ApplicationStep(c, x, c)
    <3>4. q \in X
        BY <3>1, <3>2 DEF ReleasesStay
    <3>5. /\ Onto(c, q) /\ SameDocuments(c, q)
          /\ q.applications = c.applications
          /\ EffectiveAllocations(q, d) = EffectiveAllocations(c, d)
          /\ EffectiveApplications(q, d) = EffectiveApplications(c, d) \ {x}
        BY ONLY <3>2, ApplicationReleased
    <3>. HIDE DEF q
    <3>6. Onto(b, q)
        BY <3>1, <3>5, OntoTransitive
    <3>7. q \in Y
        BY <3>1, <3>4, <3>5, <3>6 DEF SameDocuments
    <3>8. EffectiveApplications(q, d) = A \ (P \cup {x})
        BY <3>1, <3>5
    <3>. HIDE DEF Y
    <3>. QED  BY <3>1, <3>3, <3>5, <3>7, <3>8 DEF q
  <2>3. T[A] = {c \in Y : NothingPaid(c, d)}
      BY DEF NothingPaid
  <2>. HIDE DEF T, A, middle
  <2>4. ApplicationsReleased(b, A, middle) \in T[A]
      BY <1>1, <2>1, <2>2, ReleaseAllIn
  <2>. QED  BY <1>3, <2>3, <2>4
<1>. QED  BY <1>4

\* Changes of documents in what is neither their total nor their source leave
\* the books sound.
LEMMA DocumentsOnto ==
    ASSUME NEW b, Sound(b), NEW r \in BooksType,
           SameBut(r, b, {"invoices", "notes"}),
           DOMAIN r.invoices = DOMAIN b.invoices,
           DOMAIN r.notes = DOMAIN b.notes,
           \A d \in DOMAIN b.invoices :
                r.invoices[d].total = b.invoices[d].total,
           \A n \in DOMAIN b.notes : /\ r.notes[n].total = b.notes[n].total
                                     /\ r.notes[n].source = b.notes[n].source
    PROVE  Onto(b, r)
<1>1. b \in BooksType /\ Linked(b) /\ Honoured(b)
    BY DEF Sound
<1>2. /\ r.settlements = b.settlements /\ r.applications = b.applications
      /\ r.carries = b.carries /\ r.cheques = b.cheques
    BY DEF SameBut
<1>3. Len(b.cheques) \in Nat
  <2>1. b.cheques \in Seq(Cheque)
      BY <1>1 DEF BooksType
  <2>. QED  BY <2>1
<1>4. Kept(b, r)
    BY <1>2, <1>3 DEF Kept, SameRow
<1>5. Steady(b, r)
    BY <1>2 DEF Steady
<1>6. Linked(r)
  <2>1. \A s \in DOMAIN r.settlements : RowStatus(r.settlements[s])
      BY <1>1, <1>2 DEF Linked
  <2>2. \A q \in DOMAIN r.cheques : ChequeLinked(r, q)
      BY <1>1, <1>2 DEF Linked, ChequeLinked
  <2>. QED  BY <1>1, <1>2, <1>4, <2>1, <2>2, LinkedStep
<1>7. Honoured(r)
  <2>1. NoReturnCredit(b, r)
      BY <1>2 DEF NoReturnCredit
  <2>. QED  BY <1>1, <1>2, <1>4, <1>6, <2>1, HonouredSame
<1>. QED  BY <1>4, <1>5, <1>6, <1>7 DEF Onto, Sound

\* r is b with row d of the invoices exchanged
InvoiceRow(b, r, d, row) ==
    /\ SameBut(r, b, {"invoices"})
    /\ DOMAIN r.invoices = DOMAIN b.invoices
    /\ r.invoices[d] = row
    /\ \A e \in DOMAIN b.invoices : e # d => r.invoices[e] = b.invoices[e]
NoteRow(b, r, n, row) ==
    /\ SameBut(r, b, {"notes"})
    /\ DOMAIN r.notes = DOMAIN b.notes
    /\ r.notes[n] = row
    /\ \A m \in DOMAIN b.notes : m # n => r.notes[m] = b.notes[m]

\* An invoice's row exchanged for one of the same total.
LEMMA InvoiceSetRow ==
    ASSUME NEW b, Sound(b), NEW d, d \in DOMAIN b.invoices, NEW row, row \in Invoice,
           row.total = b.invoices[d].total, NEW amount, amount \in Int,
           NEW r, r = InvoiceSet(b, d, row, amount)
    PROVE  Onto(b, r) /\ InvoiceRow(b, r, d, row) /\ Due(r) = Due(b) + amount
<1>. DEFINE t == [b.invoices EXCEPT ![d] = row]
            c == [b EXCEPT !.invoices = t]
<1>1. b \in BooksType /\ b.invoices \in Seq(Invoice)
    BY DEF Sound, BooksType
<1>2. t \in Seq(Invoice) /\ DOMAIN t = DOMAIN b.invoices
    BY <1>1, RowChanged
<1>3. /\ c \in BooksType /\ SameBut(c, b, {"invoices"})
      /\ c.invoices = t /\ Due(c) = Due(b)
  <2>. HIDE DEF t
  <2>. QED  BY <1>1, <1>2, BooksWith
<1>4. r = Journal(c, amount, 0, 0, -amount)
    BY DEF InvoiceSet
<1>5. t[d] = row /\ \A e \in DOMAIN b.invoices : e # d => t[e] = b.invoices[e]
    BY <1>1
<1>. HIDE DEF t, c
<1>7. /\ r \in BooksType /\ SameBut(r, c, {}) /\ Due(r) = Due(c) + amount
  <2>1. -amount \in Int /\ 0 \in Int /\ Due(c) + amount + 0 = Due(c) + amount
    <3>1. c.accounts \in [Account -> Int]
        BY ONLY <1>3 DEF BooksType
    <3>2. Due(c) \in Int
        BY ONLY <3>1 DEF Due, Account
    <3>. QED  BY <3>2
  <2>2. c \in BooksType /\ amount \in Int
      BY <1>3
  <2>. DEFINE j == Journal(c, amount, 0, 0, -amount)
  <2>3. j \in BooksType /\ SameBut(j, c, {}) /\ Due(j) = Due(c) + amount + 0
      BY ONLY <2>1, <2>2, JournalIs
  <2>. HIDE DEF j
  <2>4. r = j
      BY <1>4 DEF j
  <2>. QED  BY ONLY <2>1, <2>3, <2>4
<1>8. SameBut(r, b, {"invoices"}) /\ r.invoices = t
    BY <1>3, <1>7 DEF SameBut
<1>9. Onto(b, r)
  <2>1. /\ SameBut(r, b, {"invoices", "notes"}) /\ r.notes = b.notes
        /\ DOMAIN r.invoices = DOMAIN b.invoices
        /\ \A e \in DOMAIN b.invoices : r.invoices[e].total = b.invoices[e].total
      BY <1>2, <1>5, <1>8 DEF SameBut
  <2>. QED  BY <1>7, <2>1, DocumentsOnto
<1>. QED  BY <1>2, <1>3, <1>5, <1>7, <1>8, <1>9 DEF InvoiceRow

\* A note's row exchanged for one of the same source and total.
LEMMA NoteSetRow ==
    ASSUME NEW b, Sound(b), NEW n, n \in DOMAIN b.notes, NEW row, row \in Note,
           row.total = b.notes[n].total, row.source = b.notes[n].source,
           NEW amount, amount \in Int, NEW r, r = NoteSet(b, n, row, amount)
    PROVE  Onto(b, r) /\ NoteRow(b, r, n, row) /\ Due(r) = Due(b) + amount
<1>. DEFINE t == [b.notes EXCEPT ![n] = row]
            c == [b EXCEPT !.notes = t]
<1>1. b \in BooksType /\ b.notes \in Seq(Note)
    BY DEF Sound, BooksType
<1>2. t \in Seq(Note) /\ DOMAIN t = DOMAIN b.notes
    BY <1>1, RowChanged
<1>3. /\ c \in BooksType /\ SameBut(c, b, {"notes"})
      /\ c.notes = t /\ Due(c) = Due(b)
  <2>. HIDE DEF t
  <2>. QED  BY <1>1, <1>2, BooksWith
<1>4. r = Journal(c, amount, 0, 0, -amount)
    BY DEF NoteSet
<1>5. t[n] = row /\ \A m \in DOMAIN b.notes : m # n => t[m] = b.notes[m]
    BY <1>1
<1>. HIDE DEF t, c
<1>7. /\ r \in BooksType /\ SameBut(r, c, {}) /\ Due(r) = Due(c) + amount
  <2>1. -amount \in Int /\ 0 \in Int /\ Due(c) + amount + 0 = Due(c) + amount
    <3>1. c.accounts \in [Account -> Int]
        BY ONLY <1>3 DEF BooksType
    <3>2. Due(c) \in Int
        BY ONLY <3>1 DEF Due, Account
    <3>. QED  BY <3>2
  <2>2. c \in BooksType /\ amount \in Int
      BY <1>3
  <2>. DEFINE j == Journal(c, amount, 0, 0, -amount)
  <2>3. j \in BooksType /\ SameBut(j, c, {}) /\ Due(j) = Due(c) + amount + 0
      BY ONLY <2>1, <2>2, JournalIs
  <2>. HIDE DEF j
  <2>4. r = j
      BY <1>4 DEF j
  <2>. QED  BY ONLY <2>1, <2>3, <2>4
<1>8. SameBut(r, b, {"notes"}) /\ r.notes = t
    BY <1>3, <1>7 DEF SameBut
<1>9. Onto(b, r)
  <2>1. /\ SameBut(r, b, {"invoices", "notes"}) /\ r.invoices = b.invoices
        /\ DOMAIN r.notes = DOMAIN b.notes
        /\ \A m \in DOMAIN b.notes : /\ r.notes[m].total = b.notes[m].total
                                     /\ r.notes[m].source = b.notes[m].source
      BY <1>2, <1>5, <1>8 DEF SameBut
  <2>. QED  BY <1>7, <2>1, DocumentsOnto
<1>. QED  BY <1>2, <1>3, <1>5, <1>7, <1>8, <1>9 DEF NoteRow

\* the carrying of a return, by ReturnsCarried, leads from a set of
\* accumulators into the next
CarriesStay(X, S, replacement) ==
    \A P \in SUBSET S : \A n \in S \ P, acc \in X[P] :
        /\ Sound(acc.books) /\ acc.left \in Nat
        /\ acc = [books |-> acc.books, left |-> acc.left]
        /\ n \in DOMAIN acc.books.notes
        => CarryStep(acc, n, replacement) \in X[P \cup {n}]

\* sale d with its journal reversed, as its returns are carried
Emptied(b, d) ==
    InvoiceSet(b, d, [b.invoices[d] EXCEPT !.reversals = 1],
               -b.invoices[d].total)

\* The definition of ReturnsCarried.
LEMMA ReturnsCarriedShape ==
    ASSUME NEW b \in BooksType, NEW d \in DOMAIN b.invoices, NEW replacement,
           NEW total
    PROVE  /\ ReturnsCarried(b, d, replacement, total)
                = Carriers(RetainedReturns(b, d),
                           [books |-> Emptied(b, d), left |-> total],
                           replacement).books
           /\ [b.invoices[d] EXCEPT !.reversals = 1] \in Invoice
<1>. DEFINE row == [b.invoices[d] EXCEPT !.reversals = 1]
            t == [b.invoices EXCEPT ![d] = row]
            reversed == Journal([b EXCEPT !.invoices[d].reversals = 1],
                                -b.invoices[d].total, 0, 0, b.invoices[d].total)
<1>1. b.invoices[d] \in Invoice /\ b.invoices[d].total \in Nat
    BY OutstandingType
<1>2. row \in Invoice
    BY <1>1, ReceivablesConstants DEF Invoice
<1>3. [b EXCEPT !.invoices[d].reversals = 1] = [b EXCEPT !.invoices = t]
    BY DEF BooksType
<1>4. -(-b.invoices[d].total) = b.invoices[d].total
    BY <1>1
<1>5. reversed = Emptied(b, d)
    BY <1>3, <1>4 DEF Emptied, InvoiceSet
<1>. HIDE DEF reversed, row, t
<1>6. ReturnsCarried(b, d, replacement, total)
        = Carriers(RetainedReturns(b, d), [books |-> reversed, left |-> total],
                   replacement).books
    BY DEF ReturnsCarried, Carriers, reversed
<1>. QED  BY <1>2, <1>5, <1>6 DEF row

\* What is left to apply returns to never becomes negative.
LEMMA CarryLeaves ==
    ASSUME NEW b, Sound(b), NEW left \in Nat, NEW n \in DOMAIN b.notes,
           NEW replacement \in Nat, NEW q,
           q = CarryStep([books |-> b, left |-> left], n, replacement)
    PROVE  q.left \in Nat /\ SameBut(q.books, b, {"settlements", "carries"})
<1>. DEFINE acc == [books |-> b, left |-> left]
            applied == Lesser(left, Available(b, n))
            r == CarryStep(acc, n, replacement)
<1>1. /\ r.left = left - applied
      /\ left - applied \in Nat
      /\ SameBut(r.books, b, {"settlements", "carries"})
    BY CarryIs
<1>. HIDE DEF r, applied
<1>2. q = r
    BY DEF r
<1>. QED  BY <1>1, <1>2

\* The carrying of a return leaves the payments that count as they are.
LEMMA CarryClaims ==
    ASSUME NEW b, Sound(b), NEW left \in Nat, NEW n \in DOMAIN b.notes,
           NEW replacement \in Nat, NEW r,
           r = CarryStep([books |-> b, left |-> left], n, replacement).books
    PROVE  /\ \A e : EffectiveAllocations(r, e) = EffectiveAllocations(b, e)
           /\ \A e : EffectiveApplications(r, e) = EffectiveApplications(b, e)
           /\ \A s \in DOMAIN b.settlements :
                s \in DOMAIN r.settlements /\ r.settlements[s] = b.settlements[s]
           /\ r.invoices = b.invoices /\ r.notes = b.notes
           /\ r.applications = b.applications /\ r.cheques = b.cheques
<1>. DEFINE acc == [books |-> b, left |-> left]
            applied == Lesser(left, Available(b, n))
            excess == Available(b, n) - applied
            k == Len(b.carries) + 1
            j == Len(b.settlements) + 1
            origin == <<"RETURN", k>>
            new == Advance(excess, origin, 0)
            q == CarryStep(acc, n, replacement).books
<1>1. /\ SameBut(q, b, {"settlements", "carries"})
      /\ q.settlements = IF excess = 0 THEN b.settlements
                         ELSE Append(b.settlements, new)
    BY CarryIs
<1>2. r = q
    OBVIOUS
<1>3. b.settlements \in Seq(Settlement) /\ Linked(b)
    BY DEF Sound, BooksType
<1>4. /\ \A s, e : origin # <<"RECEIPT", s, e>>
      /\ \A a : origin # <<"APPLICATION", a>>
      /\ new.origin = origin /\ DOMAIN new.allocations = {}
    BY DEF Advance
<1>. HIDE DEF q, new, origin, excess
<1>5. /\ r.invoices = b.invoices /\ r.notes = b.notes
      /\ r.applications = b.applications /\ r.cheques = b.cheques
    BY <1>1, <1>2 DEF SameBut
<1>6. \A a \in DOMAIN b.applications :
            b.applications[a].advance \in DOMAIN b.settlements
    BY <1>3 DEF Linked, ApplicationLinked
<1>7. CASE excess = 0
  <2>1. r.settlements = b.settlements
      BY <1>1, <1>2, <1>7
  <2>. QED  BY <1>5, <2>1
             DEF EffectiveAllocations, EffectiveApplications, Effective, Released
<1>8. CASE excess # 0
  <2>1. /\ DOMAIN r.settlements = DOMAIN b.settlements \cup {j}
        /\ r.settlements[j] = new /\ j \notin DOMAIN b.settlements
        /\ \A s \in DOMAIN b.settlements : r.settlements[s] = b.settlements[s]
    <3>1. r.settlements = Append(b.settlements, new)
        BY <1>1, <1>2, <1>8
    <3>. QED  BY ONLY <1>3, <3>1, RowAdded
  <2>2. /\ \A s, e : Released(r, <<"RECEIPT", s, e>>)
                        <=> Released(b, <<"RECEIPT", s, e>>)
        /\ \A a : Released(r, <<"APPLICATION", a>>)
                        <=> Released(b, <<"APPLICATION", a>>)
      BY <1>4, <2>1 DEF Released
  <2>3. ASSUME NEW e
        PROVE  EffectiveAllocations(r, e) = EffectiveAllocations(b, e)
      BY <1>4, <2>1, <2>2 DEF EffectiveAllocations, Effective
  <2>4. ASSUME NEW e
        PROVE  EffectiveApplications(r, e) = EffectiveApplications(b, e)
      BY <1>5, <1>6, <2>1, <2>2 DEF EffectiveApplications, Effective
  <2>. QED  BY <1>5, <2>1, <2>3, <2>4
<1>. QED  BY <1>7, <1>8

\* What is carried to the replacement grows by no more than what is left to
\* apply shrinks, and nothing is carried to other invoices.
LEMMA CarryCarried ==
    ASSUME NEW b, Sound(b), NEW left \in Nat, NEW n \in DOMAIN b.notes,
           NEW replacement \in Nat, NEW q,
           q = CarryStep([books |-> b, left |-> left], n, replacement)
    PROVE  /\ Carried(q.books, replacement) + q.left
                    <= Carried(b, replacement) + left
           /\ \A e : e # replacement => Carried(q.books, e) = Carried(b, e)
<1>. DEFINE acc == [books |-> b, left |-> left]
            applied == Lesser(left, Available(b, n))
            k == Len(b.carries) + 1
            row == CarryRow(b, n, replacement, applied)
            c == CarryStep(acc, n, replacement)
            r == q.books
<1>1. /\ applied \in Nat /\ c.left = left - applied
      /\ c.books \in BooksType
      /\ SameBut(c.books, b, {"settlements", "carries"})
      /\ c.books.carries = Append(b.carries, row)
    BY CarryIs
<1>2. row.note = n /\ row.invoice = replacement /\ row.applied = applied
    BY DEF CarryRow
<1>. HIDE DEF applied, row, c
<1>3. /\ r \in BooksType /\ r.notes = b.notes
      /\ r.carries = Append(b.carries, row) /\ q.left = left - applied
    BY <1>1 DEF SameBut, c
<1>4. b \in BooksType /\ b.carries \in Seq(Carry) /\ r.carries \in Seq(Carry)
    BY <1>3 DEF Sound, BooksType
<1>5. /\ DOMAIN r.carries = DOMAIN b.carries \cup {k}
      /\ k \notin DOMAIN b.carries /\ r.carries[k] = row
      /\ \A i \in DOMAIN b.carries : r.carries[i] = b.carries[i]
    BY ONLY <1>3, <1>4, RowAdded
<1>6. /\ DOMAIN b.carries = 1..Len(b.carries) /\ Len(b.carries) \in Nat
      /\ \A i \in DOMAIN b.carries : b.carries[i] \in Carry
    BY ONLY <1>4, TableRows
<1>. HIDE DEF r
<1>7. ASSUME NEW e
      PROVE  /\ Carried(r, e) = Carried(b, e) + CarriedBy(r, e)[k]
             /\ CarriedBy(r, e)[k] \in {0, applied}
             /\ e # replacement => CarriedBy(r, e)[k] = 0
             /\ Carried(b, e) \in Nat
  <2>. DEFINE f == CarriedBy(b, e)
              g == CarriedBy(r, e)
  <2>1. DOMAIN f = 1..Len(b.carries) /\ DOMAIN g = 1..(Len(b.carries) + 1)
    <3>1. DOMAIN r.carries = 1..(Len(b.carries) + 1)
        BY <1>5, <1>6
    <3>. QED  BY <1>6, <3>1 DEF CarriedBy
  <2>2. PostedNotes(r) = PostedNotes(b)
      BY <1>3 DEF PostedNotes
  <2>3. \A i \in DOMAIN b.carries : f[i] \in Int /\ g[i] = f[i]
      BY <1>5, <1>6, <2>2 DEF CarriedBy, CarriesTo, Carry
  <2>4. g[k] \in {0, applied} /\ (e # replacement => g[k] = 0)
      BY <1>2, <1>5 DEF CarriedBy, CarriesTo
  <2>5. g[k] \in Int
      BY <1>1, <2>4
  <2>. HIDE DEF f, g
  <2>6. Total(g) = Total(f) + g[Len(b.carries) + 1]
      BY ONLY <1>6, <2>1, <2>3, <2>5, TotalAppend
  <2>7. /\ Carried(b, e) = Total(f) /\ Carried(r, e) = Total(g)
        /\ Carried(b, e) \in Nat
      BY <1>3, <1>4, ClaimSums DEF f, g
  <2>. QED  BY <2>4, <2>6, <2>7 DEF f, g
<1>8. \A e : e # replacement => Carried(r, e) = Carried(b, e)
    BY <1>7
<1>9. Carried(r, replacement) + q.left <= Carried(b, replacement) + left
  <2>1. /\ Carried(r, replacement) = Carried(b, replacement) + CarriedBy(r, replacement)[k]
        /\ CarriedBy(r, replacement)[k] \in {0, applied}
        /\ Carried(b, replacement) \in Nat
      BY <1>7
  <2>. QED  BY ONLY <1>1, <1>3, <2>1, left \in Nat
<1>. QED  BY <1>8, <1>9 DEF r

\* A carry more, and it names the replacement.
LEMMA CarryNames ==
    ASSUME NEW b, Sound(b), NEW left \in Nat, NEW n \in DOMAIN b.notes,
           NEW replacement \in Nat, NEW q,
           q = CarryStep([books |-> b, left |-> left], n, replacement)
    PROVE  \A i \in DOMAIN q.books.carries :
                \/ i \in DOMAIN b.carries /\ q.books.carries[i] = b.carries[i]
                \/ q.books.carries[i].invoice = replacement
<1>. DEFINE acc == [books |-> b, left |-> left]
            applied == Lesser(left, Available(b, n))
            row == CarryRow(b, n, replacement, applied)
            c == CarryStep(acc, n, replacement)
<1>1. c.books.carries = Append(b.carries, row)
    BY CarryIs
<1>2. row.invoice = replacement
    BY DEF CarryRow
<1>3. b.carries \in Seq(Carry)
    BY DEF Sound, BooksType
<1>4. q.books.carries = c.books.carries
    OBVIOUS
<1>. HIDE DEF row, c
<1>5. /\ DOMAIN Append(b.carries, row) = DOMAIN b.carries \cup {Len(b.carries) + 1}
      /\ Append(b.carries, row)[Len(b.carries) + 1] = row
      /\ \A i \in DOMAIN b.carries : Append(b.carries, row)[i] = b.carries[i]
    BY ONLY <1>3, RowAdded
<1>. QED  BY <1>1, <1>2, <1>4, <1>5

\* The carrying of returns leaves the books sound, and leads through the sets
\* that the carrying of single returns leads through.
LEMMA ReturnsCarriedStays ==
    ASSUME NEW b, Sound(b), NEW d \in DOMAIN b.invoices,
           NEW replacement \in Nat, NEW total \in Nat,
           NEW X, [books |-> Emptied(b, d), left |-> total] \in X[{}],
           CarriesStay(X, RetainedReturns(b, d), replacement)
    PROVE  LET r == ReturnsCarried(b, d, replacement, total)
           IN  /\ Onto(b, r)
               /\ r.invoices = Emptied(b, d).invoices
               /\ r.notes = b.notes
               /\ \E left \in Nat :
                    [books |-> r, left |-> left] \in X[RetainedReturns(b, d)]
<1>. DEFINE S == RetainedReturns(b, d)
            start == [books |-> Emptied(b, d), left |-> total]
            Good == {acc \in [books : BooksType, left : Nat] :
                        /\ Onto(b, acc.books)
                        /\ acc.books.invoices = Emptied(b, d).invoices
                        /\ acc.books.notes = b.notes}
            T == [P \in SUBSET S |-> Good \cap X[P]]
            r == Carriers(S, start, replacement)
<1>1. b \in BooksType /\ b.notes \in Seq(Note) /\ Linked(b)
    BY DEF Sound, BooksType
<1>2. S \subseteq DOMAIN b.notes
    BY <1>1 DEF RetainedReturns, Linked
<1>3. IsFiniteSet(S) /\ S \subseteq Nat
    BY <1>1, <1>2, TableRows, FS_Subset
<1>4. start \in T[{}]
  <2>. DEFINE c == Emptied(b, d)
              row == [b.invoices[d] EXCEPT !.reversals = 1]
  <2>1. row \in Invoice
      BY <1>1, ReturnsCarriedShape
  <2>2. b.invoices[d] \in Invoice /\ b.invoices[d].total \in Nat
      BY <1>1, OutstandingType
  <2>3. row.total = b.invoices[d].total
      BY <2>2 DEF Invoice
  <2>4. -b.invoices[d].total \in Int
      BY <2>2
  <2>5. c = InvoiceSet(b, d, row, -b.invoices[d].total)
      BY DEF Emptied
  <2>. HIDE DEF c, row
  <2>6. Onto(b, c) /\ c.notes = b.notes
    <3>. DEFINE amount == -b.invoices[d].total
                q == InvoiceSet(b, d, row, amount)
    <3>1. Sound(b) /\ d \in DOMAIN b.invoices /\ amount \in Int
        BY <2>4
    <3>. HIDE DEF amount
    <3>. HIDE DEF q
    <3>2. Onto(b, q) /\ InvoiceRow(b, q, d, row)
        BY ONLY <2>1, <2>3, <3>1, InvoiceSetRow DEF q
    <3>3. c = q
        BY <2>5 DEF q, amount
    <3>. QED  BY ONLY <3>2, <3>3 DEF InvoiceRow, SameBut
  <2>7. c \in BooksType
      BY <2>6 DEF Onto, Sound
  <2>. QED  BY <2>6, <2>7 DEF c
<1>5. ASSUME NEW P \in SUBSET S, NEW n \in S \ P, NEW acc \in T[P]
      PROVE  CarryStep(acc, n, replacement) \in T[P \cup {n}]
  <2>. DEFINE q == CarryStep(acc, n, replacement)
              c == acc.books
              left == acc.left
  <2>1. /\ acc \in Good /\ acc \in X[P] /\ Onto(b, c) /\ left \in Nat
        /\ acc = [books |-> c, left |-> left]
        /\ c.invoices = Emptied(b, d).invoices /\ c.notes = b.notes
      OBVIOUS
  <2>2. Sound(c) /\ n \in DOMAIN c.notes
      BY <1>2, <2>1 DEF Onto
  <2>3. q \in X[P \cup {n}]
      BY <2>1, <2>2 DEF CarriesStay
  <2>4. q = [books |-> q.books, left |-> q.left]
      BY DEF CarryStep
  <2>. HIDE DEF q, c, left
  <2>5. q = CarryStep([books |-> c, left |-> left], n, replacement)
      BY <2>1 DEF q
  <2>6. Onto(c, q.books)
      BY ONLY <2>1, <2>2, <2>5, replacement \in Nat, CarryOnto
  <2>7. /\ q.left \in Nat
        /\ SameBut(q.books, c, {"settlements", "carries"})
    <3>1. left \in Nat /\ n \in DOMAIN c.notes /\ Sound(c) /\ replacement \in Nat
        BY <2>1, <2>2
    <3>. QED  BY ONLY <2>5, <3>1, CarryLeaves
  <2>8. Onto(b, q.books)
      BY <2>1, <2>6, OntoTransitive
  <2>9. q.books \in BooksType
      BY <2>8 DEF Onto, Sound
  <2>10. q \in [books : BooksType, left : Nat]
      BY <2>4, <2>7, <2>9
  <2>11. /\ q.books.invoices = Emptied(b, d).invoices
         /\ q.books.notes = b.notes
      BY <2>1, <2>7 DEF SameBut
  <2>12. q \in Good
      BY <2>8, <2>10, <2>11
  <2>. HIDE DEF Good
  <2>. QED  BY <2>3, <2>12 DEF q
<1>6. T[S] = Good \cap X[S]
    OBVIOUS
<1>. HIDE DEF T
<1>7. r \in T[S]
  <2>. HIDE DEF S, start, Good
  <2>. QED  BY <1>3, <1>4, <1>5, CarryAllIn
<1>8. r \in Good /\ r \in X[S]
    BY <1>6, <1>7
<1>9. ReturnsCarried(b, d, replacement, total) = r.books
    BY <1>1, ReturnsCarriedShape
<1>10. r = [books |-> r.books, left |-> r.left] /\ r.left \in Nat
  <2>. HIDE DEF r
  <2>. QED  BY <1>8
<1>. HIDE DEF r
<1>11. [books |-> r.books, left |-> r.left] \in X[S]
    BY <1>8, <1>10
<1>12. /\ Onto(b, r.books)
       /\ r.books.invoices = Emptied(b, d).invoices
       /\ r.books.notes = b.notes
    BY <1>8
<1>. QED  BY <1>9, <1>10, <1>11, <1>12

-----------------------------------------------------------------------------
(* Payments and cheques.                                                   *)

\* A payment recorded and not yet posted leaves the books sound.
LEMMA PaymentRecorded ==
    ASSUME NEW b, Sound(b), NEW r \in BooksType,
           SameBut(r, b, {"settlements", "cheques"}),
           NEW row, row.status = "PENDING_CHEQUE", row.origin = <<>>,
           row.remaining = 0, RowLinked(r, row),
           r.settlements = Append(b.settlements, row),
           Len(b.cheques) <= Len(r.cheques),
           \A q \in DOMAIN r.cheques : ChequeLinked(r, q)
    PROVE  Sound(r) /\ Kept(b, r)
<1>. DEFINE k == Len(b.settlements) + 1
<1>1. b \in BooksType /\ Linked(b) /\ Honoured(b)
    BY DEF Sound
<1>2. /\ DOMAIN r.settlements = DOMAIN b.settlements \cup {k}
      /\ r.settlements[k] = row
      /\ \A s \in DOMAIN b.settlements : r.settlements[s] = b.settlements[s]
  <2>1. b.settlements \in Seq(Settlement)
      BY <1>1 DEF BooksType
  <2>2. /\ DOMAIN Append(b.settlements, row) = DOMAIN b.settlements \cup {k}
        /\ Append(b.settlements, row)[k] = row
        /\ \A s \in DOMAIN b.settlements :
                Append(b.settlements, row)[s] = b.settlements[s]
      BY ONLY <2>1, RowAdded
  <2>. QED  BY <2>2
<1>. HIDE DEF k
<1>3. /\ r.invoices = b.invoices /\ r.notes = b.notes
      /\ r.applications = b.applications /\ r.carries = b.carries
    BY DEF SameBut
<1>4. Kept(b, r)
    BY <1>2, <1>3 DEF Kept, SameRow
<1>5. Linked(r)
  <2>1. \A s \in DOMAIN r.settlements : RowStatus(r.settlements[s])
      BY <1>1, <1>2 DEF Linked, RowStatus
  <2>2. \A s \in DOMAIN r.settlements \ DOMAIN b.settlements :
                RowLinked(r, r.settlements[s])
      BY <1>2
  <2>. QED  BY <1>1, <1>3, <1>4, <2>1, <2>2, LinkedStep
<1>6. Honoured(r)
  <2>1. NoReturnCredit(b, r)
      BY <1>2 DEF NoReturnCredit
  <2>. QED  BY <1>1, <1>3, <1>4, <2>1, HonouredSame
<1>. QED  BY <1>4, <1>5, <1>6 DEF Sound

\* r are books b but for the status of settlement s and what goes with it
Turned(b, r, s) ==
    /\ SameBut(r, b, {"settlements", "applications"})
    /\ DOMAIN r.settlements = DOMAIN b.settlements
    /\ DOMAIN r.applications = DOMAIN b.applications
    /\ \A t \in DOMAIN b.settlements :
            /\ SameRow(b.settlements[t], r.settlements[t])
            /\ t # s => r.settlements[t] = b.settlements[t]

\* Such a change leaves the books sound, if the settlement is one still.
LEMMA TurnedSound ==
    ASSUME NEW b, Sound(b), NEW r \in BooksType, NEW s \in DOMAIN b.settlements,
           Turned(b, r, s), RowStatus(r.settlements[s]),
           \A a \in DOMAIN b.applications :
                /\ r.applications[a].advance = b.applications[a].advance
                /\ r.applications[a].document = b.applications[a].document
                /\ r.applications[a].amount = b.applications[a].amount
    PROVE  Sound(r) /\ Kept(b, r)
<1>1. b \in BooksType /\ Linked(b) /\ Honoured(b)
    BY DEF Sound
<1>2. /\ r.invoices = b.invoices /\ r.notes = b.notes
      /\ r.carries = b.carries /\ r.cheques = b.cheques
    BY DEF Turned, SameBut
<1>3. Len(b.cheques) \in Nat
  <2>1. b.cheques \in Seq(Cheque)
      BY <1>1 DEF BooksType
  <2>. QED  BY <2>1
<1>4. Kept(b, r)
    BY <1>2, <1>3 DEF Kept, Turned
<1>5. Linked(r)
  <2>1. \A t \in DOMAIN r.settlements : RowStatus(r.settlements[t])
      BY <1>1 DEF Linked, Turned
  <2>2. \A q \in DOMAIN r.cheques : ChequeLinked(r, q)
      BY <1>1, <1>2 DEF Linked, ChequeLinked, Turned, SameRow
  <2>. QED  BY <1>1, <1>2, <1>4, <2>1, <2>2, LinkedStep DEF Turned
<1>6. Honoured(r)
  <2>1. NoReturnCredit(b, r)
      BY DEF NoReturnCredit, Turned
  <2>. QED  BY <1>1, <1>2, <1>4, <2>1, HonouredSame
<1>. QED  BY <1>4, <1>5, <1>6 DEF Sound

\* The posting of a pending settlement.
LEMMA PostedSound ==
    ASSUME NEW b, Sound(b), NEW s \in DOMAIN b.settlements,
           b.settlements[s].status # "REVERSED", b.settlements[s].origin = <<>>
    PROVE  LET r == SettlementPosted(b, s)
           IN  /\ Sound(r) /\ Kept(b, r) /\ Turned(b, r, s)
               /\ r.settlements[s] = PostedRow(b.settlements[s])
               /\ r.settlements[s].status = "POSTED"
               /\ r.applications = b.applications
               /\ Due(r) = Due(b) - Worth(b.settlements[s])
<1>. DEFINE r == SettlementPosted(b, s)
            row == b.settlements[s]
<1>1. b \in BooksType /\ b.settlements \in Seq(Settlement) /\ Linked(b)
    BY DEF Sound, BooksType
<1>2. /\ r \in BooksType
      /\ SameBut(r, b, {"settlements"})
      /\ r.settlements = [b.settlements EXCEPT ![s] = PostedRow(row)]
      /\ Due(r) = Due(b) - Worth(row)
    BY <1>1, PostedIs
<1>3. row \in Settlement
    BY <1>1
<1>4. RowStatus(row)
    BY <1>1 DEF Linked
<1>5. /\ SameRow(row, PostedRow(row)) /\ RowStatus(PostedRow(row))
      /\ PostedRow(row).status = "POSTED"
    BY <1>3, <1>4 DEF PostedRow, SameRow, RowStatus, Settlement
<1>6. \A t \in DOMAIN b.settlements : SameRow(b.settlements[t], b.settlements[t])
    BY DEF SameRow
<1>. HIDE DEF r
<1>7. /\ DOMAIN r.settlements = DOMAIN b.settlements
      /\ r.settlements[s] = PostedRow(row)
      /\ \A t \in DOMAIN b.settlements : t # s => r.settlements[t] = b.settlements[t]
  <2>. HIDE DEF row
  <2>. QED  BY <1>1, <1>2
<1>8. r.applications = b.applications /\ Turned(b, r, s)
    BY <1>2, <1>5, <1>6, <1>7 DEF Turned, SameBut
<1>9. Sound(r) /\ Kept(b, r)
    BY <1>2, <1>5, <1>7, <1>8, TurnedSound
<1>. QED  BY <1>2, <1>5, <1>7, <1>8, <1>9 DEF r

\* The reversal of a settlement that is no credit.
LEMMA ReversedSound ==
    ASSUME NEW b, Sound(b), NEW s \in DOMAIN b.settlements,
           b.settlements[s].origin = <<>>
    PROVE  LET r == SettlementReversed(b, s)
           IN  /\ Sound(r) /\ Kept(b, r) /\ Turned(b, r, s)
               /\ r.settlements[s] = ReversedRow(b.settlements[s])
               /\ r.settlements[s].status = "REVERSED"
               /\ r.settlements[s].remaining = 0
               /\ r.applications = WithoutApplications(b, s)
               /\ Due(r) = Due(b) + Worth(b.settlements[s])
<1>. DEFINE r == SettlementReversed(b, s)
            row == b.settlements[s]
<1>1. /\ b \in BooksType /\ b.settlements \in Seq(Settlement) /\ Linked(b)
      /\ b.applications \in Seq(Application)
    BY DEF Sound, BooksType
<1>2. /\ r \in BooksType
      /\ SameBut(r, b, {"settlements", "applications"})
      /\ r.settlements = [b.settlements EXCEPT ![s] = ReversedRow(row)]
      /\ r.applications = WithoutApplications(b, s)
      /\ Due(r) = Due(b) + Worth(row)
    BY <1>1, ReversedIs
<1>3. row \in Settlement
    BY <1>1
<1>4. RowStatus(row)
    BY <1>1 DEF Linked
<1>5. /\ SameRow(row, ReversedRow(row)) /\ RowStatus(ReversedRow(row))
      /\ ReversedRow(row).status = "REVERSED" /\ ReversedRow(row).remaining = 0
    BY <1>3, <1>4 DEF ReversedRow, SameRow, RowStatus, Settlement
<1>6. \A t \in DOMAIN b.settlements : SameRow(b.settlements[t], b.settlements[t])
    BY DEF SameRow
<1>. HIDE DEF r
<1>7. /\ DOMAIN r.settlements = DOMAIN b.settlements
      /\ r.settlements[s] = ReversedRow(row)
      /\ \A t \in DOMAIN b.settlements : t # s => r.settlements[t] = b.settlements[t]
  <2>. HIDE DEF row
  <2>. QED  BY <1>1, <1>2
<1>8. /\ DOMAIN r.applications = DOMAIN b.applications
      /\ \A a \in DOMAIN b.applications :
                /\ r.applications[a].advance = b.applications[a].advance
                /\ r.applications[a].document = b.applications[a].document
                /\ r.applications[a].amount = b.applications[a].amount
  <2>1. \A a \in DOMAIN b.applications : b.applications[a] \in Application
      BY <1>1, TableRows
  <2>. QED  BY <1>2, <2>1 DEF WithoutApplications, Application
<1>9. Turned(b, r, s)
    BY <1>2, <1>5, <1>6, <1>7, <1>8 DEF Turned, SameBut
<1>10. Sound(r) /\ Kept(b, r)
    BY <1>2, <1>5, <1>7, <1>8, <1>9, TurnedSound
<1>. QED  BY <1>2, <1>5, <1>7, <1>9, <1>10 DEF r

\* The status of a cheque is in nothing else.
LEMMA ChequeSetSound ==
    ASSUME NEW b, Sound(b), NEW q \in DOMAIN b.cheques,
           NEW status \in {"RECEIVED", "CLEARED", "BOUNCED", "CANCELLED"},
           NEW r, r = ChequeSet(b, q, status)
    PROVE  /\ Sound(r) /\ Kept(b, r)
           /\ SameBut(r, b, {"cheques"})
           /\ DOMAIN r.cheques = DOMAIN b.cheques
           /\ r.cheques[q].status = status
           /\ \A p \in DOMAIN b.cheques :
                    /\ r.cheques[p].settlement = b.cheques[p].settlement
                    /\ p # q => r.cheques[p] = b.cheques[p]
           /\ Due(r) = Due(b)
<1>. DEFINE row == [b.cheques[q] EXCEPT !.status = status]
            t == [b.cheques EXCEPT ![q] = row]
<1>1. b \in BooksType /\ b.cheques \in Seq(Cheque) /\ Linked(b) /\ Honoured(b)
    BY DEF Sound, BooksType
<1>2. b.cheques[q] \in Cheque
    BY <1>1
<1>3. /\ row \in Cheque /\ row.status = status
      /\ row.settlement = b.cheques[q].settlement
    BY <1>2 DEF Cheque
<1>4. t \in Seq(Cheque) /\ DOMAIN t = DOMAIN b.cheques /\ Len(t) = Len(b.cheques)
  <2>. HIDE DEF row
  <2>. QED  BY <1>1, <1>3, RowChanged
<1>5. t[q] = row /\ \A p \in DOMAIN b.cheques : p # q => t[p] = b.cheques[p]
    BY <1>1
<1>6. r = [b EXCEPT !.cheques = t]
    BY DEF ChequeSet
<1>. HIDE DEF row, t
<1>8. /\ r \in BooksType /\ SameBut(r, b, {"cheques"})
      /\ r.cheques = t /\ Due(r) = Due(b)
    BY <1>1, <1>4, <1>6, BooksWith
<1>9. /\ r.settlements = b.settlements /\ r.applications = b.applications
      /\ r.carries = b.carries /\ r.invoices = b.invoices /\ r.notes = b.notes
    BY <1>8 DEF SameBut
<1>10. Len(b.cheques) \in Nat
    BY <1>1
<1>11. Kept(b, r)
    BY <1>4, <1>8, <1>9, <1>10 DEF Kept, SameRow
<1>12. \A p \in DOMAIN b.cheques : r.cheques[p].settlement = b.cheques[p].settlement
    BY <1>3, <1>5, <1>8
<1>13. Linked(r)
  <2>1. \A s \in DOMAIN r.settlements : RowStatus(r.settlements[s])
      BY <1>1, <1>9 DEF Linked
  <2>2. \A p \in DOMAIN r.cheques : ChequeLinked(r, p)
      BY <1>1, <1>4, <1>8, <1>9, <1>12 DEF Linked, ChequeLinked
  <2>. QED  BY <1>1, <1>8, <1>9, <1>11, <2>1, <2>2, LinkedStep
<1>14. Honoured(r)
  <2>1. NoReturnCredit(b, r)
      BY <1>9 DEF NoReturnCredit
  <2>. QED  BY <1>1, <1>8, <1>9, <1>11, <2>1, HonouredSame
<1>. QED  BY <1>3, <1>4, <1>5, <1>8, <1>11, <1>12, <1>13, <1>14 DEF Sound

-----------------------------------------------------------------------------
(* A transaction as a sequence of calls, and what every call preserves.    *)

\* A reversal of a document changes its row and what is due by its total.
LEMMA TurnType ==
    /\ \A doc \in Invoice : doc.reversals <= MaxReversals =>
            Turn(doc) \in Invoice /\ Turn(doc).total = doc.total
    /\ \A doc \in Note : doc.reversals <= MaxReversals =>
            /\ Turn(doc) \in Note /\ Turn(doc).total = doc.total
            /\ Turn(doc).source = doc.source
    /\ \A doc \in Invoice \cup Note : Flip(doc) \in Int
<1>1. MaxReversals \in Nat /\ Amount \subseteq Nat \ {0}
    BY ReceivablesConstants
<1>2. \A doc \in Invoice : doc.reversals <= MaxReversals =>
            Turn(doc) \in Invoice /\ Turn(doc).total = doc.total
    BY <1>1 DEF Turn, Invoice
<1>3. \A doc \in Note : doc.reversals <= MaxReversals =>
            /\ Turn(doc) \in Note /\ Turn(doc).total = doc.total
            /\ Turn(doc).source = doc.source
    BY <1>1 DEF Turn, Note
<1>4. \A doc \in Invoice \cup Note : doc.total \in Nat
    BY <1>1 DEF Invoice, Note
<1>5. \A doc \in Invoice \cup Note : Flip(doc) \in Int
    BY <1>4 DEF Flip
<1>. QED  BY <1>2, <1>3, <1>5

\* A payment offered is linked in the books that record it.
LEMMA OfferedLinked ==
    ASSUME NEW b, NEW r, NEW row, Recorded(b, r, row)
    PROVE  /\ RowLinked(r, row) /\ row.status = "PENDING_CHEQUE"
           /\ row.origin = <<>> /\ row.remaining = 0
BY DEF Recorded, Offered, RowLinked, Pending, SameBut

\* Every call keeps the books sound, and all rows.
LEMMA MoveKept ==
    ASSUME NEW b, Sound(b), NEW r, Move(b, r)
    PROVE  Sound(r) /\ Kept(b, r)
<1>1. b \in BooksType /\ Linked(b) /\ Honoured(b)
    BY DEF Sound
<1>2. /\ b.settlements \in Seq(Settlement) /\ b.notes \in Seq(Note)
      /\ b.invoices \in Seq(Invoice)
    BY <1>1 DEF BooksType
<1>3. CASE ReleaseMove(b, r)
  <2>1. Onto(b, r)
    <3>1. ASSUME NEW d, NEW s \in EffectiveAllocations(b, d),
                 r = ReceiptStep(b, s, b, d)
          PROVE  Onto(b, r)
        BY <3>1, ReceiptReleased
    <3>2. ASSUME NEW d, NEW a \in EffectiveApplications(b, d),
                 r = ApplicationStep(b, a, b)
          PROVE  Onto(b, r)
        BY <3>2, ApplicationReleased
    <3>. QED  BY <1>3, <3>1, <3>2 DEF ReleaseMove
  <2>. QED  BY <2>1 DEF Onto
<1>4. CASE ApplyMove(b, r)
  <2>1. Onto(b, r)
      BY <1>4, AppliedOnto DEF ApplyMove
  <2>. QED  BY <2>1 DEF Onto
<1>5. CASE NoteMove(b, r)
  <2>1. ASSUME NEW d \in DOMAIN b.invoices, NEW amount \in Amount,
               r = NotePosted(b, d, amount)
        PROVE  Onto(b, r)
      BY <2>1, NoteOnto
  <2>2. ASSUME NEW n \in DOMAIN b.notes, b.notes[n].reversals <= MaxReversals,
               r = NoteSet(b, n, Turn(b.notes[n]), -Flip(b.notes[n]))
        PROVE  Onto(b, r)
    <3>. DEFINE row == Turn(b.notes[n])
                amount == -Flip(b.notes[n])
    <3>1. b.notes[n] \in Note
        BY <1>2
    <3>2. /\ row \in Note /\ row.total = b.notes[n].total
          /\ row.source = b.notes[n].source
        BY <2>2, <3>1, TurnType
    <3>3. amount \in Int
      <4>1. Flip(b.notes[n]) \in Int
          BY <3>1, TurnType
      <4>. QED  BY <4>1
    <3>4. r = NoteSet(b, n, row, amount)
        BY <2>2
    <3>. HIDE DEF row, amount
    <3>5. Onto(b, r)
        BY ONLY <3>2, <3>3, <3>4, Sound(b), n \in DOMAIN b.notes, NoteSetRow
    <3>. QED  BY <3>5
  <2>3. Onto(b, r)
      BY <1>5, <2>1, <2>2 DEF NoteMove
  <2>. QED  BY <2>3 DEF Onto
<1>6. CASE EntryMove(b, r)
  <2>1. Onto(b, r)
      BY <1>6, InvoiceOnto DEF EntryMove
  <2>. QED  BY <2>1 DEF Onto
<1>7. CASE CarryMove(b, r)
  <2>1. Len(b.invoices) + 1 \in Nat
      BY <1>2
  <2>2. Onto(b, r)
      BY <1>7, <2>1, CarryOnto DEF CarryMove
  <2>. QED  BY <2>2 DEF Onto
<1>8. CASE InvoiceMove(b, r)
  <2>0. PICK d \in DOMAIN b.invoices :
        \/ \E state \in {"CANCELLED", "REVISED"}, correction \in Nat :
              r = InvoiceSet(b, d, [b.invoices[d] EXCEPT !.state = state,
                                                         !.correction = correction], 0)
        \/ /\ b.invoices[d].reversals <= MaxReversals
           /\ r = InvoiceSet(b, d, Turn(b.invoices[d]), Flip(b.invoices[d]))
      BY <1>8 DEF InvoiceMove
  <2>1. b.invoices[d] \in Invoice
      BY <1>2
  <2>2. \E row \in Invoice, amount \in Int :
            row.total = b.invoices[d].total /\ r = InvoiceSet(b, d, row, amount)
    <3>1. ASSUME NEW state \in {"CANCELLED", "REVISED"}, NEW correction \in Nat
          PROVE  LET row == [b.invoices[d] EXCEPT !.state = state,
                                                  !.correction = correction]
                 IN  row \in Invoice /\ row.total = b.invoices[d].total
        BY <2>1 DEF Invoice
    <3>2. b.invoices[d].reversals <= MaxReversals =>
            /\ Turn(b.invoices[d]) \in Invoice
            /\ Turn(b.invoices[d]).total = b.invoices[d].total
        BY <2>1, TurnType
    <3>3. Flip(b.invoices[d]) \in Int /\ 0 \in Int
        BY <2>1, TurnType
    <3>. QED  BY <2>0, <3>1, <3>2, <3>3
  <2>3. PICK row \in Invoice, amount \in Int :
            row.total = b.invoices[d].total /\ r = InvoiceSet(b, d, row, amount)
      BY <2>2
  <2>4. Onto(b, r)
      BY <2>3, InvoiceSetRow
  <2>. QED  BY <2>4 DEF Onto
<1>9. CASE PaymentMove(b, r)
  <2>1. ASSUME NEW row, Recorded(b, r, row)
        PROVE  Sound(r) /\ Kept(b, r)
    <3>1. /\ RowLinked(r, row) /\ row.status = "PENDING_CHEQUE"
          /\ row.origin = <<>> /\ row.remaining = 0
        BY <2>1, OfferedLinked
    <3>. QED  BY <2>1, <3>1, PaymentRecorded DEF Recorded
  <2>2. ASSUME NEW s \in DOMAIN b.settlements,
               b.settlements[s].status = "PENDING_CHEQUE",
               r = SettlementPosted(b, s)
        PROVE  Sound(r) /\ Kept(b, r)
    <3>1. b.settlements[s].origin = <<>>
        BY <1>1, <2>2 DEF Linked, RowStatus
    <3>. QED  BY <2>2, <3>1, PostedSound
  <2>3. ASSUME NEW s \in DOMAIN b.settlements, b.settlements[s].origin = <<>>,
               r = SettlementReversed(b, s)
        PROVE  Sound(r) /\ Kept(b, r)
      BY <2>3, ReversedSound
  <2>4. ASSUME NEW q \in DOMAIN b.cheques,
               NEW status \in {"RECEIVED", "CLEARED", "BOUNCED", "CANCELLED"},
               r = ChequeSet(b, q, status)
        PROVE  Sound(r) /\ Kept(b, r)
      BY <2>4, ChequeSetSound
  <2>. QED  BY <1>9, <2>1, <2>2, <2>3, <2>4 DEF PaymentMove
<1>. QED  BY <1>3, <1>4, <1>5, <1>6, <1>7, <1>8, <1>9 DEF Move, PlainMove

\* A release takes a payment off an invoice and touches no document.
LEMMA ReleaseTables ==
    ASSUME NEW b, Sound(b), NEW r, ReleaseMove(b, r)
    PROVE  /\ SameDocuments(b, r) /\ r.applications = b.applications
           /\ \A e : EffectiveAllocations(r, e) \subseteq EffectiveAllocations(b, e)
           /\ \A e : EffectiveApplications(r, e) \subseteq EffectiveApplications(b, e)
<1>1. ASSUME NEW d, NEW s \in EffectiveAllocations(b, d), r = ReceiptStep(b, s, b, d)
      PROVE  /\ SameDocuments(b, r) /\ r.applications = b.applications
             /\ \A e : EffectiveAllocations(r, e)
                    = EffectiveAllocations(b, e) \ (IF e = d THEN {s} ELSE {})
             /\ \A e : EffectiveApplications(r, e) = EffectiveApplications(b, e)
    BY <1>1, ReceiptReleased
<1>2. ASSUME NEW d, NEW a \in EffectiveApplications(b, d), r = ApplicationStep(b, a, b)
      PROVE  /\ SameDocuments(b, r) /\ r.applications = b.applications
             /\ \A e : EffectiveAllocations(r, e) = EffectiveAllocations(b, e)
             /\ \A e : EffectiveApplications(r, e)
                    = EffectiveApplications(b, e) \ (IF e = d THEN {a} ELSE {})
    BY <1>2, ApplicationReleased
<1>. QED  BY <1>1, <1>2 DEF ReleaseMove

\* An application adds a row and draws the advance, and touches no document.
LEMMA ApplyTables ==
    ASSUME NEW b, Sound(b), NEW r, ApplyMove(b, r)
    PROVE  \E s \in DOMAIN b.settlements, d \in DOMAIN b.invoices,
              amount \in Nat \ {0} :
            /\ b.settlements[s].type = "CUSTOMER_ADVANCE"
            /\ b.settlements[s].status = "POSTED"
            /\ amount <= b.settlements[s].remaining
            /\ amount <= Outstanding(b, d)
            /\ SameBut(r, b, {"settlements", "applications"})
            /\ r.settlements = AdvanceDrawn(b, s, amount)
            /\ r.applications =
                 Append(b.applications, [advance |-> s, document |-> d,
                                 amount |-> amount, journal |-> "POSTED"])
<1>. PICK s \in DOMAIN b.settlements, d \in DOMAIN b.invoices, amount \in Nat \ {0} :
        /\ b.settlements[s].type = "CUSTOMER_ADVANCE"
        /\ b.settlements[s].status = "POSTED"
        /\ amount <= b.settlements[s].remaining
        /\ amount <= Outstanding(b, d)
        /\ r = Applied(b, s, d, amount)
    BY DEF ApplyMove
<1>1. b \in BooksType /\ d \in Nat
  <2>1. b \in BooksType /\ b.invoices \in Seq(Invoice)
      BY DEF Sound, BooksType
  <2>. QED  BY <2>1
<1>. QED  BY <1>1, AppliedIs

\* A payment that comes or goes back touches no document and no carry.
LEMMA PaymentTables ==
    ASSUME NEW b, Sound(b), NEW r, PaymentMove(b, r)
    PROVE  r.invoices = b.invoices /\ r.notes = b.notes /\ r.carries = b.carries
<1>1. ASSUME NEW row, Recorded(b, r, row)
      PROVE  SameBut(r, b, {"settlements", "cheques"})
    BY <1>1 DEF Recorded
<1>2. b \in BooksType
    BY DEF Sound
<1>3. ASSUME NEW s \in DOMAIN b.settlements, r = SettlementPosted(b, s)
      PROVE  SameBut(r, b, {"settlements"})
    BY <1>2, <1>3, PostedIs
<1>4. ASSUME NEW s \in DOMAIN b.settlements, r = SettlementReversed(b, s)
      PROVE  SameBut(r, b, {"settlements", "applications"})
    BY <1>2, <1>4, ReversedIs
<1>5. ASSUME NEW q \in DOMAIN b.cheques,
             NEW status \in {"RECEIVED", "CLEARED", "BOUNCED", "CANCELLED"},
             r = ChequeSet(b, q, status)
      PROVE  SameBut(r, b, {"cheques"})
    BY <1>5, ChequeSetSound
<1>. QED  BY <1>1, <1>3, <1>4, <1>5 DEF PaymentMove, SameBut

\* A note that comes, or whose journal turns, touches nothing else.
LEMMA NoteTables ==
    ASSUME NEW b, Sound(b), NEW r, NoteMove(b, r)
    PROVE  /\ SameBut(r, b, {"notes"})
           /\ \/ \E d \in DOMAIN b.invoices, amount \in Amount :
                    /\ NoteAccepted(b, d, amount)
                    /\ r.notes = Append(b.notes, [source |-> d, total |-> amount,
                                                  reversals |-> 0])
              \/ \E n \in DOMAIN b.notes :
                    /\ \A d \in DOMAIN b.invoices : b.invoices[d].correction # n
                    /\ \A c \in DOMAIN b.carries : b.carries[c].note # n
                    /\ NoteRow(b, r, n, Turn(b.notes[n]))
                    /\ Turn(b.notes[n]) \in Note
                    /\ ~Posted(r.notes[n])
                    /\ r.notes[n].source = b.notes[n].source
                    /\ r.notes[n].total = b.notes[n].total
<1>1. ASSUME NEW d \in DOMAIN b.invoices, NEW amount \in Amount,
             r = NotePosted(b, d, amount)
      PROVE  /\ SameBut(r, b, {"notes"})
             /\ r.notes = Append(b.notes, [source |-> d, total |-> amount,
                                           reversals |-> 0])
  <2>1. b \in BooksType /\ d \in Nat
    <3>1. b \in BooksType /\ b.invoices \in Seq(Invoice)
        BY DEF Sound, BooksType
    <3>. QED  BY <3>1
  <2>. QED  BY <1>1, <2>1, NoteIs
<1>2. ASSUME NEW n \in DOMAIN b.notes, b.notes[n].reversals <= MaxReversals,
             r = NoteSet(b, n, Turn(b.notes[n]), -Flip(b.notes[n]))
      PROVE  /\ NoteRow(b, r, n, Turn(b.notes[n])) /\ Turn(b.notes[n]) \in Note
             /\ ~Posted(r.notes[n])
             /\ r.notes[n].source = b.notes[n].source
             /\ r.notes[n].total = b.notes[n].total
  <2>. DEFINE row == Turn(b.notes[n])
              amount == -Flip(b.notes[n])
  <2>1. b.notes[n] \in Note
    <3>1. b.notes \in Seq(Note)
        BY DEF Sound, BooksType
    <3>. QED  BY <3>1
  <2>2. /\ row \in Note /\ row.total = b.notes[n].total
        /\ row.source = b.notes[n].source
      BY <1>2, <2>1, TurnType
  <2>3. amount \in Int
    <3>1. Flip(b.notes[n]) \in Int
        BY <2>1, TurnType
    <3>. QED  BY <3>1
  <2>4. r = NoteSet(b, n, row, amount)
      BY <1>2
  <2>5. ~Posted(row)
    <3>1. b.notes[n].reversals \in Nat
        BY <2>1, ReceivablesConstants DEF Note
    <3>2. row.reversals = b.notes[n].reversals + 1
        BY <2>1 DEF Turn, Note
    <3>. QED  BY <3>1, <3>2 DEF Posted
  <2>. HIDE DEF row, amount
  <2>6. NoteRow(b, r, n, row)
      BY ONLY <2>2, <2>3, <2>4, Sound(b), n \in DOMAIN b.notes, NoteSetRow
  <2>. QED  BY <2>2, <2>5, <2>6 DEF NoteRow, row
<1>3. CASE \E d \in DOMAIN b.invoices, amount \in Amount :
              NoteAccepted(b, d, amount) /\ r = NotePosted(b, d, amount)
    BY <1>1, <1>3
<1>4. CASE \E n \in DOMAIN b.notes :
          /\ b.notes[n].reversals <= MaxReversals
          /\ \A d \in DOMAIN b.invoices : b.invoices[d].correction # n
          /\ \A c \in DOMAIN b.carries : b.carries[c].note # n
          /\ r = NoteSet(b, n, Turn(b.notes[n]), -Flip(b.notes[n]))
  <2>1. PICK n \in DOMAIN b.notes :
          /\ b.notes[n].reversals <= MaxReversals
          /\ \A d \in DOMAIN b.invoices : b.invoices[d].correction # n
          /\ \A c \in DOMAIN b.carries : b.carries[c].note # n
          /\ r = NoteSet(b, n, Turn(b.notes[n]), -Flip(b.notes[n]))
      BY <1>4
  <2>2. /\ NoteRow(b, r, n, Turn(b.notes[n])) /\ Turn(b.notes[n]) \in Note
        /\ ~Posted(r.notes[n])
        /\ r.notes[n].source = b.notes[n].source
        /\ r.notes[n].total = b.notes[n].total
      BY <1>2, <2>1
  <2>. QED  BY <2>1, <2>2 DEF NoteRow
<1>. QED  BY <1>3, <1>4 DEF NoteMove

\* A new invoice, to which no more has been carried than its total.
LEMMA EntryTables ==
    ASSUME NEW b, Sound(b), NEW r, EntryMove(b, r)
    PROVE  \E total \in Amount, previous \in Nat :
            /\ Carried(b, Len(b.invoices) + 1) <= total
            /\ SameBut(r, b, {"invoices"})
            /\ r.invoices = Append(b.invoices,
                 [total |-> total, reversals |-> 0, state |-> "LIVE",
                  correction |-> 0, previous |-> previous])
<1>1. b \in BooksType
    BY DEF Sound
<1>2. PICK total \in Amount, previous \in Nat :
        /\ Carried(b, Len(b.invoices) + 1) <= total
        /\ r = InvoiceEntered(b, total, previous)
    BY DEF EntryMove
<1>3. /\ SameBut(r, b, {"invoices"})
      /\ r.invoices = Append(b.invoices,
           [total |-> total, reversals |-> 0, state |-> "LIVE",
            correction |-> 0, previous |-> previous])
    BY <1>1, <1>2, InvoiceIs
<1>. QED  BY <1>2, <1>3

\* An invoice that is retired, or whose journal turns, was live.
LEMMA InvoiceTables ==
    ASSUME NEW b, Sound(b), NEW r, InvoiceMove(b, r)
    PROVE  \E d \in DOMAIN b.invoices, row \in Invoice :
            /\ b.invoices[d].state = "LIVE"
            /\ InvoiceRow(b, r, d, row)
            /\ row.total = b.invoices[d].total /\ row.previous = b.invoices[d].previous
            /\ \/ /\ row.state # "LIVE" /\ row.reversals = b.invoices[d].reversals
                  /\ Retirable(b, d, row.correction)
               \/ /\ row.state = "LIVE" /\ row.correction = b.invoices[d].correction
                  /\ row.reversals = b.invoices[d].reversals + 1
<1>1. PICK d \in DOMAIN b.invoices :
        /\ b.invoices[d].state = "LIVE"
        /\ \/ \E state \in {"CANCELLED", "REVISED"}, correction \in Nat :
                 /\ Retirable(b, d, correction)
                 /\ r = InvoiceSet(b, d,
                           [b.invoices[d] EXCEPT !.state = state,
                                                 !.correction = correction], 0)
           \/ /\ b.invoices[d].reversals <= MaxReversals
              /\ r = InvoiceSet(b, d, Turn(b.invoices[d]), Flip(b.invoices[d]))
    BY DEF InvoiceMove
<1>2. b.invoices[d] \in Invoice
    BY OutstandingType DEF Sound
<1>3. CASE \E state \in {"CANCELLED", "REVISED"}, correction \in Nat :
              /\ Retirable(b, d, correction)
              /\ r = InvoiceSet(b, d,
                        [b.invoices[d] EXCEPT !.state = state,
                                              !.correction = correction], 0)
  <2>1. PICK state \in {"CANCELLED", "REVISED"}, correction \in Nat :
              /\ Retirable(b, d, correction)
              /\ r = InvoiceSet(b, d,
                        [b.invoices[d] EXCEPT !.state = state,
                                              !.correction = correction], 0)
      BY <1>3
  <2>. DEFINE row == [b.invoices[d] EXCEPT !.state = state, !.correction = correction]
  <2>2. /\ row \in Invoice /\ row.total = b.invoices[d].total
        /\ row.previous = b.invoices[d].previous
        /\ row.state # "LIVE" /\ row.reversals = b.invoices[d].reversals
        /\ row.correction = correction
      BY <1>2 DEF Invoice
  <2>3. r = InvoiceSet(b, d, row, 0) /\ 0 \in Int
      BY <2>1
  <2>. HIDE DEF row
  <2>4. InvoiceRow(b, r, d, row)
      BY ONLY <2>2, <2>3, Sound(b), d \in DOMAIN b.invoices, InvoiceSetRow
  <2>. QED  BY <1>1, <2>1, <2>2, <2>4
<1>4. CASE /\ b.invoices[d].reversals <= MaxReversals
           /\ r = InvoiceSet(b, d, Turn(b.invoices[d]), Flip(b.invoices[d]))
  <2>. DEFINE row == Turn(b.invoices[d])
              amount == Flip(b.invoices[d])
  <2>1. /\ row \in Invoice /\ row.total = b.invoices[d].total /\ amount \in Int
        /\ row.previous = b.invoices[d].previous
        /\ row.state = "LIVE" /\ row.reversals = b.invoices[d].reversals + 1
        /\ row.correction = b.invoices[d].correction
    <3>1. /\ row.state = b.invoices[d].state
          /\ row.reversals = b.invoices[d].reversals + 1
          /\ row.correction = b.invoices[d].correction
          /\ row.previous = b.invoices[d].previous
        BY <1>2 DEF Turn, Invoice
    <3>. HIDE DEF row
    <3>. QED  BY <1>1, <1>2, <1>4, <3>1, TurnType DEF row
  <2>2. r = InvoiceSet(b, d, row, amount)
      BY <1>4
  <2>. HIDE DEF row, amount
  <2>3. InvoiceRow(b, r, d, row)
      BY ONLY <2>1, <2>2, Sound(b), d \in DOMAIN b.invoices, InvoiceSetRow
  <2>. QED  BY <1>1, <2>1, <2>3
<1>. QED  BY <1>1, <1>3, <1>4

\* Returns carried touch the carries, and the credits that stay over.
LEMMA CarryTables ==
    ASSUME NEW b, Sound(b), NEW r, CarryMove(b, r)
    PROVE  /\ \A e : EffectiveAllocations(r, e) = EffectiveAllocations(b, e)
           /\ \A e : EffectiveApplications(r, e) = EffectiveApplications(b, e)
           /\ \A s \in DOMAIN b.settlements :
                s \in DOMAIN r.settlements /\ r.settlements[s] = b.settlements[s]
           /\ r.invoices = b.invoices /\ r.notes = b.notes
           /\ r.applications = b.applications /\ r.cheques = b.cheques
           /\ \A e : e # Len(b.invoices) + 1 => Carried(r, e) = Carried(b, e)
<1>. PICK left \in Nat, n \in DOMAIN b.notes :
        r = CarryStep([books |-> b, left |-> left], n, Len(b.invoices) + 1).books
    BY DEF CarryMove
<1>. DEFINE k == Len(b.invoices) + 1
            q == CarryStep([books |-> b, left |-> left], n, k)
<1>1. k \in Nat
  <2>1. b.invoices \in Seq(Invoice)
      BY DEF Sound, BooksType
  <2>. QED  BY <2>1
<1>2. r = q.books /\ q = CarryStep([books |-> b, left |-> left], n, k)
      /\ r = CarryStep([books |-> b, left |-> left], n, k).books
    OBVIOUS
<1>3. \A e : e # k => Carried(r, e) = Carried(b, e)
  <2>. HIDE DEF q, k
  <2>1. \A e : e # k => Carried(q.books, e) = Carried(b, e)
      BY ONLY Sound(b), left \in Nat, n \in DOMAIN b.notes, <1>1, <1>2, CarryCarried
  <2>. QED  BY <1>2, <2>1
<1>4. /\ \A e : EffectiveAllocations(r, e) = EffectiveAllocations(b, e)
      /\ \A e : EffectiveApplications(r, e) = EffectiveApplications(b, e)
      /\ \A s \in DOMAIN b.settlements :
           s \in DOMAIN r.settlements /\ r.settlements[s] = b.settlements[s]
      /\ r.invoices = b.invoices /\ r.notes = b.notes
      /\ r.applications = b.applications /\ r.cheques = b.cheques
  <2>. HIDE DEF q, k
  <2>. QED  BY ONLY Sound(b), left \in Nat, n \in DOMAIN b.notes, <1>1, <1>2, CarryClaims
<1>. QED  BY <1>3, <1>4

\* Only returns that are carried add to the carries.
LEMMA PlainCarries ==
    ASSUME NEW b, Sound(b), NEW r, PlainMove(b, r)
    PROVE  r.carries = b.carries
<1>1. CASE ReleaseMove(b, r)
    BY <1>1, ReleaseTables DEF SameDocuments
<1>2. CASE ApplyMove(b, r)
    BY <1>2, ApplyTables DEF SameBut
<1>3. CASE NoteMove(b, r)
    BY <1>3, NoteTables DEF SameBut
<1>4. CASE EntryMove(b, r)
    BY <1>4, EntryTables DEF SameBut
<1>5. CASE InvoiceMove(b, r)
    BY <1>5, InvoiceTables DEF SameBut, InvoiceRow
<1>6. CASE PaymentMove(b, r)
    BY <1>6, PaymentTables
<1>. QED  BY <1>1, <1>2, <1>3, <1>4, <1>5, <1>6 DEF PlainMove

\* They keep their carries.
LEMMA SameCarriesWithin ==
    ASSUME NEW x
    PROVE  PlainWithin({e \in BooksType : e.carries = x})
<1>. DEFINE X == {e \in BooksType : e.carries = x}
<1>1. ASSUME NEW c \in X, NEW e, Sound(c), PlainMove(c, e)
      PROVE  e \in X
  <2>1. Sound(e)
      BY <1>1, MoveKept DEF Move
  <2>. QED  BY <1>1, <2>1, PlainCarries DEF Sound
<1>. QED  BY <1>1 DEF PlainWithin

\* Calls other than on invoices leave them alone.
LEMMA InvoicesChange ==
    ASSUME NEW b, Sound(b), NEW r, Move(b, r)
    PROVE  EntryMove(b, r) \/ InvoiceMove(b, r) \/ r.invoices = b.invoices
<1>1. CASE ReleaseMove(b, r)
    BY <1>1, ReleaseTables DEF SameDocuments
<1>2. CASE ApplyMove(b, r)
    BY <1>2, ApplyTables DEF SameBut
<1>3. CASE NoteMove(b, r)
    BY <1>3, NoteTables DEF SameBut
<1>4. CASE PaymentMove(b, r)
    BY <1>4, PaymentTables
<1>5. CASE CarryMove(b, r)
    BY <1>5, CarryTables
<1>. QED  BY <1>1, <1>2, <1>3, <1>4, <1>5 DEF Move, PlainMove

\* No call corrects a sale and leaves it live.
LEMMA MoveUncorrected ==
    ASSUME NEW b, Sound(b), Uncorrected(b), NEW r, Move(b, r)
    PROVE  Uncorrected(r)
<1>1. CASE EntryMove(b, r)
  <2>1. PICK total \in Amount, previous \in Nat :
            r.invoices = Append(b.invoices,
                 [total |-> total, reversals |-> 0, state |-> "LIVE",
                  correction |-> 0, previous |-> previous])
      BY <1>1, EntryTables
  <2>2. b.invoices \in Seq(Invoice)
      BY DEF Sound, BooksType
  <2>. DEFINE row == [total |-> total, reversals |-> 0, state |-> "LIVE",
                      correction |-> 0, previous |-> previous]
  <2>3. row.correction = 0
      OBVIOUS
  <2>. HIDE DEF row
  <2>4. /\ DOMAIN r.invoices = DOMAIN b.invoices \cup {Len(b.invoices) + 1}
        /\ r.invoices[Len(b.invoices) + 1] = row
        /\ \A i \in DOMAIN b.invoices : r.invoices[i] = b.invoices[i]
      BY ONLY <2>1, <2>2, RowAdded DEF row
  <2>. QED  BY <2>3, <2>4 DEF Uncorrected
<1>2. CASE InvoiceMove(b, r)
  <2>1. PICK d \in DOMAIN b.invoices, row \in Invoice :
            /\ b.invoices[d].state = "LIVE"
            /\ InvoiceRow(b, r, d, row)
            /\ row.state = "LIVE" => row.correction = b.invoices[d].correction
      BY <1>2, InvoiceTables
  <2>. QED  BY <2>1 DEF Uncorrected, InvoiceRow
<1>3. CASE r.invoices = b.invoices
    BY <1>3 DEF Uncorrected
<1>. QED  BY <1>1, <1>2, <1>3, InvoicesChange

\* A set that no call leads out of is one that no plain call leads out of.
LEMMA WithinPlain ==
    ASSUME NEW X, Within(X)
    PROVE  PlainWithin(X)
BY DEF Within, PlainWithin, Move

\* What is carried to an invoice that no carry names.
LEMMA NothingCarried ==
    ASSUME NEW b \in BooksType, NEW k,
           \A c \in DOMAIN b.carries : b.carries[c].invoice # k
    PROVE  Carried(b, k) = 0
<1>1. Carried(b, k) = Total(CarriedBy(b, k))
    BY ClaimSums
<1>2. IsFiniteSet(DOMAIN b.carries)
  <2>1. b.carries \in Seq(Carry)
      BY DEF BooksType
  <2>. QED  BY ONLY <2>1, TableRows
<1>3. /\ DOMAIN CarriedBy(b, k) = DOMAIN b.carries
      /\ \A c \in DOMAIN b.carries : CarriedBy(b, k)[c] = 0
    BY DEF CarriedBy, CarriesTo
<1>. QED  BY <1>1, <1>2, <1>3, SumOfZeros DEF Total

\* It depends on the carries and the notes alone.
LEMMA CarriedSame ==
    ASSUME NEW b, NEW r, r.carries = b.carries, r.notes = b.notes, NEW k
    PROVE  Carried(r, k) = Carried(b, k)
BY DEF Carried, CarriesTo, PostedNotes

\* What is paid depends on the payments and their applications alone.
LEMMA NothingPaidSame ==
    ASSUME NEW b, NEW r, r.settlements = b.settlements,
           r.applications = b.applications, NEW d, NothingPaid(b, d)
    PROVE  NothingPaid(r, d)
BY DEF NothingPaid, EffectiveAllocations, EffectiveApplications, Effective, Released

\* An invoice with the advances applied to it.
LEMMA InvoicePostedWithin ==
    ASSUME NEW b, Sound(b), NEW total \in Amount, NEW previous \in Nat,
           NEW link \in BOOLEAN,
           Carried(b, Len(b.invoices) + 1) <= total,
           NEW X, b \in X, PlainWithin(X)
    PROVE  LET r == InvoicePosted(b, total, previous, link)
           IN  /\ r \in X /\ Onto(b, r)
               /\ Len(b.invoices) + 1 \in DOMAIN r.invoices
<1>. DEFINE c == InvoiceEntered(b, total, previous)
            k == Len(b.invoices) + 1
            r == InvoicePosted(b, total, previous, link)
<1>1. Onto(b, c)
    BY InvoiceOnto
<1>2. c \in X
    BY DEF PlainWithin, PlainMove, EntryMove
<1>3. k \in DOMAIN c.invoices /\ Len(c.invoices) = k
  <2>1. b \in BooksType /\ b.invoices \in Seq(Invoice)
      BY DEF Sound, BooksType
  <2>. DEFINE row == [total |-> total, reversals |-> 0, state |-> "LIVE",
                      correction |-> 0, previous |-> previous]
  <2>2. c.invoices = Append(b.invoices, row)
      BY <2>1, InvoiceIs
  <2>. HIDE DEF c, row
  <2>. QED  BY <2>1, <2>2
<1>4. r = IF link THEN AppliedAll(c, UnusedAdvances(c), k) ELSE c
    BY <1>3 DEF InvoicePosted, InvoiceEntered
<1>. HIDE DEF c, r
<1>5. ApplicationStays(X, k)
    BY DEF ApplicationStays, PlainWithin, PlainMove, ApplyMove
<1>6. Sound(c)
    BY <1>1 DEF Onto
<1>7. UsableFor(c, UnusedAdvances(c), k)
    BY <1>3, <1>6, AdvancesUsable
<1>8. CASE link
  <2>1. r \in X /\ Onto(c, r)
      BY <1>2, <1>4, <1>5, <1>7, <1>8, AppliedAllStays
  <2>2. Onto(b, r)
      BY <1>1, <2>1, OntoTransitive
  <2>. QED  BY <1>3, <2>1, <2>2 DEF Onto, Kept, r
<1>9. CASE ~link
    BY <1>1, <1>2, <1>3, <1>4, <1>9 DEF r
<1>. QED  BY <1>8, <1>9

\* The application of the unused advances in S.
LEMMA AppliedAllWithin ==
    ASSUME NEW b, Sound(b), NEW d \in DOMAIN b.invoices,
           NEW S \in SUBSET UnusedAdvances(b), NEW X, b \in X, PlainWithin(X)
    PROVE  AppliedAll(b, S, d) \in X /\ Onto(b, AppliedAll(b, S, d))
<1>1. ApplicationStays(X, d)
    BY DEF ApplicationStays, PlainWithin, PlainMove, ApplyMove
<1>2. UsableFor(b, S, d)
    BY AdvancesUsable
<1>. QED  BY <1>1, <1>2, AppliedAllStays

\* The release of all payments of an invoice.
LEMMA PaymentsReleasedWithin ==
    ASSUME NEW b, Sound(b), NEW d, NEW X, b \in X, PlainWithin(X)
    PROVE  LET r == PaymentsReleased(b, d)
           IN  /\ r \in X /\ Onto(b, r) /\ SameDocuments(b, r)
               /\ r.applications = b.applications /\ NothingPaid(r, d)
<1>1. ReleasesStay(X, d)
    BY DEF ReleasesStay, PlainWithin, PlainMove, ReleaseMove
<1>. QED  BY <1>1, PaymentsReleasedStays

\* The credit of a whole sale.
LEMMA WhollyCreditedWithin ==
    ASSUME NEW b, Sound(b), NEW d \in DOMAIN b.invoices,
           NoteAccepted(PaymentsReleased(b, d), d, b.invoices[d].total),
           NEW X, b \in X, PlainWithin(X)
    PROVE  LET r == WhollyCredited(b, d)
               k == Len(r.notes)
           IN  /\ r \in X /\ Onto(b, r)
               /\ r.invoices = b.invoices /\ r.carries = b.carries
               /\ NothingPaid(r, d)
               /\ k \in DOMAIN r.notes
               /\ r.notes[k] = [source |-> d, total |-> b.invoices[d].total,
                                reversals |-> 0]
<1>. DEFINE c == PaymentsReleased(b, d)
            r == WhollyCredited(b, d)
            amount == b.invoices[d].total
            row == [source |-> d, total |-> amount, reversals |-> 0]
<1>1. /\ c \in X /\ Onto(b, c) /\ SameDocuments(b, c) /\ NothingPaid(c, d)
      /\ NoteAccepted(c, d, amount)
    BY PaymentsReleasedWithin
<1>2. r = NotePosted(c, d, amount)
    BY DEF WhollyCredited
<1>3. amount \in Amount
  <2>1. b.invoices[d] \in Invoice
      BY OutstandingType DEF Sound
  <2>. QED  BY <2>1 DEF Invoice
<1>. HIDE DEF c, r, amount
<1>4. Sound(c) /\ d \in DOMAIN c.invoices
    BY <1>1 DEF Onto, SameDocuments
<1>5. PlainMove(c, r)
    BY <1>1, <1>2, <1>3, <1>4 DEF PlainMove, NoteMove
<1>6. r \in X
    BY <1>1, <1>4, <1>5 DEF PlainWithin
<1>7. Onto(c, r)
    BY <1>2, <1>3, <1>4, NoteOnto
<1>8. /\ SameBut(r, c, {"notes"}) /\ r.notes = Append(c.notes, row)
      /\ c.notes \in Seq(Note)
  <2>1. c \in BooksType /\ d \in Nat /\ c.notes \in Seq(Note)
    <3>1. c.invoices \in Seq(Invoice) /\ c \in BooksType /\ c.notes \in Seq(Note)
        BY <1>4 DEF Sound, BooksType
    <3>. QED  BY <1>4, <3>1
  <2>. QED  BY <1>2, <1>3, <2>1, NoteIs
<1>9. Len(r.notes) \in DOMAIN r.notes /\ r.notes[Len(r.notes)] = row
  <2>. HIDE DEF row
  <2>1. /\ DOMAIN Append(c.notes, row) = DOMAIN c.notes \cup {Len(c.notes) + 1}
        /\ Len(Append(c.notes, row)) = Len(c.notes) + 1
        /\ Append(c.notes, row)[Len(c.notes) + 1] = row
      BY ONLY <1>8, RowAdded
  <2>. QED  BY <1>8, <2>1
<1>10. NothingPaid(r, d)
    BY <1>1, <1>8, NothingPaidSame DEF SameBut
<1>11. Onto(b, r)
    BY <1>1, <1>7, OntoTransitive
<1>12. r.invoices = b.invoices /\ r.carries = b.carries
    BY <1>1, <1>8 DEF SameBut, SameDocuments
<1>. QED  BY <1>6, <1>9, <1>10, <1>11, <1>12 DEF r, row, amount

\* The carrying of all returns of a posted sale.
LEMMA ReturnsCarriedWithin ==
    ASSUME NEW b, Sound(b), NEW d \in DOMAIN b.invoices, Posted(b.invoices[d]),
           b.invoices[d].state = "LIVE", NothingPaid(b, d),
           NEW replacement, replacement = Len(b.invoices) + 1,
           Carried(b, replacement) = 0,
           NEW total \in Nat, NEW X, b \in X, Within(X)
    PROVE  LET r == ReturnsCarried(b, d, replacement, total)
           IN  /\ r \in X /\ Onto(b, r)
               /\ r.invoices = Emptied(b, d).invoices
               /\ r.notes = b.notes
               /\ NothingPaid(r, d)
               /\ Carried(r, replacement) <= total
               /\ \A i \in DOMAIN r.carries : i \in DOMAIN b.carries
                                            \/ r.carries[i].invoice = replacement
<1>. DEFINE S == RetainedReturns(b, d)
            c == Emptied(b, d)
            Good(e) == /\ e \in X /\ e.invoices = c.invoices
                       /\ NothingPaid(e, d)
                       /\ \A i \in DOMAIN e.carries : i \in DOMAIN b.carries
                                            \/ e.carries[i].invoice = replacement
            Accounts == {acc \in [books : X, left : Nat] :
                            /\ Good(acc.books)
                            /\ Carried(acc.books, replacement) + acc.left <= total}
            Y == [P \in SUBSET S |-> Accounts]
            r == ReturnsCarried(b, d, replacement, total)
<1>0. replacement \in Nat
  <2>1. b.invoices \in Seq(Invoice)
      BY DEF Sound, BooksType
  <2>. QED  BY <2>1
<1>1. /\ c \in X /\ SameBut(c, b, {"invoices"})
      /\ Len(c.invoices) + 1 = replacement
  <2>1. b.invoices[d] \in Invoice /\ b.invoices[d].total \in Nat
      BY OutstandingType DEF Sound
  <2>2. MaxReversals \in Nat
      BY ReceivablesConstants
  <2>3. /\ b.invoices[d].reversals = 0 /\ b.invoices[d].reversals <= MaxReversals
        /\ InForce(b.invoices[d])
      BY <2>2 DEF Posted, InForce
  <2>4. Turn(b.invoices[d]) = [b.invoices[d] EXCEPT !.reversals = 1]
      BY <2>1, <2>3 DEF Turn, Invoice
  <2>. DEFINE row == Turn(b.invoices[d])
              amount == Flip(b.invoices[d])
  <2>5. c = InvoiceSet(b, d, row, amount)
      BY <2>3, <2>4 DEF Emptied, Flip
  <2>6. row \in Invoice /\ row.total = b.invoices[d].total /\ amount \in Int
      BY <2>1, <2>3, TurnType
  <2>7. Move(b, c)
      BY <2>3, <2>5 DEF Move, PlainMove, InvoiceMove
  <2>. HIDE DEF c, row, amount
  <2>8. Onto(b, c) /\ InvoiceRow(b, c, d, row)
      BY ONLY <2>5, <2>6, Sound(b), d \in DOMAIN b.invoices, InvoiceSetRow
  <2>9. Len(c.invoices) = Len(b.invoices)
    <3>1. b.invoices \in Seq(Invoice) /\ c.invoices \in Seq(Invoice)
        BY <2>8 DEF Onto, Sound, BooksType
    <3>2. DOMAIN c.invoices = DOMAIN b.invoices
        BY <2>8 DEF InvoiceRow
    <3>. QED  BY ONLY <3>1, <3>2, SameLength
  <2>. QED  BY <2>7, <2>8, <2>9 DEF Within, InvoiceRow
<1>2. [books |-> c, left |-> total] \in Y[{}]
  <2>. HIDE DEF c
  <2>1. NothingPaid(c, d)
      BY <1>1, NothingPaidSame DEF SameBut
  <2>2. Carried(c, replacement) = 0
      BY <1>1, CarriedSame DEF SameBut
  <2>3. c.carries = b.carries
      BY <1>1 DEF SameBut
  <2>4. Good(c)
      BY <1>1, <2>1, <2>3
  <2>. HIDE DEF Good
  <2>5. [books |-> c, left |-> total] \in Accounts
      BY <1>1, <2>2, <2>4
  <2>. QED  BY <2>5
<1>3. CarriesStay(Y, S, replacement)
  <2> SUFFICES ASSUME NEW P \in SUBSET S, NEW n \in S \ P, NEW acc \in Y[P],
                      Sound(acc.books), acc.left \in Nat,
                      acc = [books |-> acc.books, left |-> acc.left],
                      n \in DOMAIN acc.books.notes
               PROVE  CarryStep(acc, n, replacement) \in Y[P \cup {n}]
      BY DEF CarriesStay
  <2>. DEFINE q == CarryStep(acc, n, replacement)
              e == acc.books
              left == acc.left
  <2>1. /\ e \in X /\ left \in Nat /\ Sound(e) /\ n \in DOMAIN e.notes
        /\ Good(e) /\ Carried(e, replacement) + left <= total
      OBVIOUS
  <2>2. q = CarryStep([books |-> e, left |-> left], n, replacement)
      OBVIOUS
  <2>3. q = [books |-> q.books, left |-> q.left]
      BY DEF CarryStep
  <2>. HIDE DEF q, e, left, c
  <2>4. q.left \in Nat
      BY ONLY <1>0, <2>1, <2>2, CarryLeaves
  <2>5. Move(e, q.books)
    <3>1. Len(e.invoices) + 1 = replacement
        BY <1>1, <2>1
    <3>. QED  BY ONLY <2>1, <2>2, <3>1 DEF Move, CarryMove
  <2>6. q.books \in X
      BY <2>1, <2>5 DEF Within
  <2>7. /\ EffectiveAllocations(q.books, d) = EffectiveAllocations(e, d)
        /\ EffectiveApplications(q.books, d) = EffectiveApplications(e, d)
        /\ q.books.invoices = e.invoices
    <3>. DEFINE f == q.books
    <3>1. f = CarryStep([books |-> e, left |-> left], n, replacement).books
        BY <2>2
    <3>. HIDE DEF f
    <3>2. /\ \A i : EffectiveAllocations(f, i) = EffectiveAllocations(e, i)
          /\ \A i : EffectiveApplications(f, i) = EffectiveApplications(e, i)
          /\ f.invoices = e.invoices
        BY ONLY <1>0, <2>1, <3>1, CarryClaims
    <3>. QED  BY <3>2 DEF f
  <2>8. Carried(q.books, replacement) + q.left <= Carried(e, replacement) + left
      BY ONLY <1>0, <2>1, <2>2, CarryCarried
  <2>9. \A i \in DOMAIN q.books.carries :
            \/ i \in DOMAIN e.carries /\ q.books.carries[i] = e.carries[i]
            \/ q.books.carries[i].invoice = replacement
      BY ONLY <1>0, <2>1, <2>2, CarryNames
  <2>10. Good(q.books)
      BY <2>1, <2>6, <2>7, <2>9 DEF NothingPaid
  <2>11. Carried(q.books, replacement) + q.left <= total
    <3>1. Carried(q.books, replacement) \in Int /\ Carried(e, replacement) \in Int
      <4>1. Sound(q.books)
          BY <2>1, <2>5, MoveKept
      <4>2. q.books \in BooksType /\ e \in BooksType
          BY <2>1, <4>1 DEF Sound
      <4>3. Carried(q.books, replacement) \in Nat /\ Carried(e, replacement) \in Nat
          BY ONLY <4>2, ClaimSums
      <4>. QED  BY ONLY <4>3
    <3>. QED  BY <2>1, <2>4, <2>8, <3>1
  <2>. HIDE DEF Good
  <2>12. q \in Accounts
      BY <2>3, <2>4, <2>6, <2>10, <2>11
  <2>. HIDE DEF Accounts
  <2>. QED  BY <2>12 DEF q
<1>4. Y[S] = Accounts
    OBVIOUS
<1>. HIDE DEF Y, c, r, S, Good
<1>5. /\ Onto(b, r) /\ r.invoices = c.invoices /\ r.notes = b.notes
      /\ \E left \in Nat : [books |-> r, left |-> left] \in Y[S]
    BY <1>0, <1>2, <1>3, ReturnsCarriedStays DEF c, S, r
<1>6. PICK left \in Nat : [books |-> r, left |-> left] \in Accounts
    BY <1>4, <1>5
<1>7. Good(r) /\ Carried(r, replacement) + left <= total
    BY <1>6
<1>8. Carried(r, replacement) \in Nat
    BY <1>5, ClaimSums DEF Onto, Sound
<1>9. Carried(r, replacement) <= total
    BY ONLY <1>7, <1>8, total \in Nat, left \in Nat
<1>. QED  BY <1>5, <1>7, <1>9 DEF r, c, Good

\* A journal of no amounts leaves the books as they are.
LEMMA EmptyJournal ==
    ASSUME NEW b \in BooksType
    PROVE  Journal(b, 0, 0, 0, -0) = b
<1>. DEFINE a == b.accounts
            e == Entered(a, 0, 0, 0, -0)
<1>1. a \in [Account -> Int] /\ b = [b EXCEPT !.accounts = a]
    BY DEF BooksType
<1>2. e = a
  <2>1. \A k \in Account : a[k] \in Int
      BY <1>1
  <2>. HIDE DEF a
  <2>2. e \in [Account -> Int] /\ \A k \in Account : e[k] = a[k]
      BY <1>1, <2>1 DEF Entered, Account
  <2>. HIDE DEF e
  <2>. QED  BY <1>1, <2>2
<1>3. Journal(b, 0, 0, 0, -0) = [b EXCEPT !.accounts = e]
    BY DEF Journal
<1>. HIDE DEF a, e
<1>. QED  BY <1>1, <1>2, <1>3

\* sale d retired in books b
RetiredAs(b, d, state, correction) ==
    InvoiceSet(b, d, [b.invoices[d] EXCEPT !.state = state,
                                           !.correction = correction], 0)

\* An exchange of an invoice's row that enters no amounts.
LEMMA InvoiceSetOnly ==
    ASSUME NEW b \in BooksType, NEW d \in DOMAIN b.invoices, NEW row \in Invoice
    PROVE  InvoiceSet(b, d, row, 0)
              = [b EXCEPT !.invoices = [b.invoices EXCEPT ![d] = row]]
<1>. DEFINE t == [b.invoices EXCEPT ![d] = row]
<1>1. t \in Seq(Invoice)
  <2>1. b.invoices \in Seq(Invoice)
      BY DEF BooksType
  <2>. QED  BY <2>1, RowChanged
<1>. HIDE DEF t
<1>2. [b EXCEPT !.invoices = t] \in BooksType
    BY <1>1, BooksWith
<1>3. Journal([b EXCEPT !.invoices = t], 0, 0, 0, -0) = [b EXCEPT !.invoices = t]
    BY <1>2, EmptyJournal
<1>. QED  BY <1>3 DEF InvoiceSet, t

\* The retirement of a sale with the credit note that corrects it.
LEMMA RetiredIs ==
    ASSUME NEW b \in BooksType, NEW d \in DOMAIN b.invoices,
           NEW state \in {"CANCELLED", "REVISED"}, NEW correction \in Nat,
           NEW r, r = [b EXCEPT !.invoices[d].state = state,
                                !.invoices[d].correction = correction]
    PROVE  r = RetiredAs(b, d, state, correction)
<1>1. b.invoices[d] \in Invoice /\ b.invoices \in Seq(Invoice)
  <2>1. b.invoices \in Seq(Invoice)
      BY DEF BooksType
  <2>. QED  BY <2>1
<1>. DEFINE row == [b.invoices[d] EXCEPT !.state = state, !.correction = correction]
            t == [b.invoices EXCEPT ![d].state = state, ![d].correction = correction]
<1>2. t = [b.invoices EXCEPT ![d] = row]
    BY <1>1
<1>3. r = [b EXCEPT !.invoices = t]
    BY <1>1 DEF BooksType
<1>4. row \in Invoice
    BY <1>1 DEF Invoice
<1>. HIDE DEF row, t
<1>5. r = InvoiceSet(b, d, row, 0)
    BY ONLY <1>2, <1>3, <1>4, b \in BooksType, d \in DOMAIN b.invoices, InvoiceSetOnly
<1>. QED  BY <1>5 DEF RetiredAs, row

\* The retirement of a sale whose returns have been carried: its correction
\* stays what it was.
LEMMA RevisedIs ==
    ASSUME NEW b \in BooksType, NEW d \in DOMAIN b.invoices,
           NEW correction, correction = b.invoices[d].correction,
           NEW r, r = [b EXCEPT !.invoices[d].state = "REVISED"]
    PROVE  r = RetiredAs(b, d, "REVISED", correction)
<1>1. b.invoices[d] \in Invoice /\ b.invoices \in Seq(Invoice)
  <2>1. b.invoices \in Seq(Invoice)
      BY DEF BooksType
  <2>. QED  BY <2>1
<1>. DEFINE row == [b.invoices[d] EXCEPT !.state = "REVISED", !.correction = correction]
            t == [b.invoices EXCEPT ![d].state = "REVISED"]
<1>2. t = [b.invoices EXCEPT ![d] = row]
  <2>1. row = [b.invoices[d] EXCEPT !.state = "REVISED"]
      BY <1>1 DEF Invoice
  <2>. QED  BY <1>1, <2>1
<1>3. r = [b EXCEPT !.invoices = t]
    BY <1>1 DEF BooksType
<1>4. row \in Invoice
    BY <1>1 DEF Invoice
<1>. HIDE DEF row, t
<1>5. r = InvoiceSet(b, d, row, 0)
    BY ONLY <1>2, <1>3, <1>4, b \in BooksType, d \in DOMAIN b.invoices, InvoiceSetOnly
<1>. QED  BY <1>5 DEF RetiredAs, row

\* The retirement of a sale.
LEMMA RetiredWithin ==
    ASSUME NEW b, Sound(b), NEW d \in DOMAIN b.invoices,
           b.invoices[d].state = "LIVE",
           NEW state \in {"CANCELLED", "REVISED"}, NEW correction \in Nat,
           Retirable(b, d, correction), NEW X, b \in X, PlainWithin(X)
    PROVE  LET r == RetiredAs(b, d, state, correction)
           IN  /\ r \in X /\ Onto(b, r)
               /\ InvoiceRow(b, r, d, [b.invoices[d] EXCEPT !.state = state,
                                            !.correction = correction])
<1>. DEFINE row == [b.invoices[d] EXCEPT !.state = state,
                                         !.correction = correction]
            r == InvoiceSet(b, d, row, 0)
<1>1. PlainMove(b, r)
    BY DEF PlainMove, InvoiceMove
<1>2. row \in Invoice /\ row.total = b.invoices[d].total
  <2>1. b.invoices[d] \in Invoice
      BY OutstandingType DEF Sound
  <2>. QED  BY <2>1 DEF Invoice
<1>. HIDE DEF row, r
<1>3. Onto(b, r) /\ InvoiceRow(b, r, d, row)
    BY <1>2, InvoiceSetRow DEF r
<1>4. r \in X
    BY <1>1 DEF PlainWithin
<1>. QED  BY <1>3, <1>4 DEF row, r, RetiredAs

\* The books after a sale has been undone: what has been carried to its
\* replacement fits there.
LEMMA UndoneWithin ==
    ASSUME NEW b, Sound(b), Tidy(b), NEW d \in DOMAIN b.invoices,
           Posted(b.invoices[d]), b.invoices[d].state = "LIVE",
           RetainedReturns(b, d) = {} => CreditAccepted(b, d),
           NEW replacement, replacement = Len(b.invoices) + 1,
           NEW total \in Nat, NEW X, b \in X, Within(X)
    PROVE  LET r == Undone(b, d, replacement, total)
           IN  /\ r \in X /\ Onto(b, r) /\ DOMAIN r.invoices = DOMAIN b.invoices
               /\ Carried(r, replacement) <= total
               /\ \A i \in DOMAIN r.carries : i \in DOMAIN b.carries
                                            \/ r.carries[i].invoice = replacement
<1>0. /\ replacement \notin DOMAIN b.invoices /\ PlainWithin(X)
      /\ b \in BooksType /\ b.invoices[d].correction = 0
      /\ Carried(b, replacement) = 0
  <2>1. b.invoices \in Seq(Invoice) /\ b \in BooksType
      BY DEF Sound, BooksType
  <2>2. replacement \notin DOMAIN b.invoices
      BY <2>1
  <2>3. \A c \in DOMAIN b.carries : b.carries[c].invoice # replacement
      BY <2>2 DEF Tidy
  <2>4. b.invoices[d].correction = 0
      BY DEF Tidy, Uncorrected
  <2>5. Carried(b, replacement) = 0
      BY ONLY <2>1, <2>3, NothingCarried
  <2>. QED  BY <2>1, <2>2, <2>4, <2>5, WithinPlain
<1>1. CASE RetainedReturns(b, d) # {}
  <2>. DEFINE c == PaymentsReleased(b, d)
              e == ReturnsCarried(c, d, replacement, total)
              r == [e EXCEPT !.invoices[d].state = "REVISED"]
  <2>1. /\ c \in X /\ Onto(b, c) /\ SameDocuments(b, c) /\ NothingPaid(c, d)
        /\ c.invoices = b.invoices
      BY <1>0, PaymentsReleasedWithin DEF SameDocuments
  <2>. HIDE DEF c
  <2>2. /\ Sound(c) /\ d \in DOMAIN c.invoices /\ Posted(c.invoices[d])
        /\ c.invoices[d].state = "LIVE" /\ replacement = Len(c.invoices) + 1
        /\ Carried(c, replacement) = 0
    <3>1. Carried(c, replacement) = Carried(b, replacement)
        BY <2>1, CarriedSame DEF SameDocuments
    <3>. QED  BY <1>0, <2>1, <3>1 DEF Onto
  <2>3. /\ e \in X /\ Onto(c, e) /\ e.invoices = Emptied(c, d).invoices
        /\ NothingPaid(e, d) /\ Carried(e, replacement) <= total
        /\ \A i \in DOMAIN e.carries : i \in DOMAIN c.carries
                                     \/ e.carries[i].invoice = replacement
    <3>1. total \in Nat /\ Within(X)
        OBVIOUS
    <3>. QED  BY ONLY <2>1, <2>2, <3>1, ReturnsCarriedWithin
  <2>4. /\ DOMAIN e.invoices = DOMAIN b.invoices
        /\ e.invoices[d] = [c.invoices[d] EXCEPT !.reversals = 1]
        /\ c.invoices[d] \in Invoice
    <3>1. e.invoices = Emptied(c, d).invoices
        BY <2>3
    <3>2. /\ DOMAIN Emptied(c, d).invoices = DOMAIN c.invoices
          /\ Emptied(c, d).invoices[d] = [c.invoices[d] EXCEPT !.reversals = 1]
          /\ c.invoices[d] \in Invoice
      <4>1. c \in BooksType
          BY <2>2 DEF Sound
      <4>2. c.invoices[d] \in Invoice /\ c.invoices[d].total \in Nat
          BY <2>2, <4>1, OutstandingType
      <4>. DEFINE row == [c.invoices[d] EXCEPT !.reversals = 1]
                  amount == -c.invoices[d].total
      <4>6. MaxReversals \in Nat
          BY ReceivablesConstants
      <4>7. 1 \in 0..MaxReversals + 1
          BY ONLY <4>6
      <4>3. row \in Invoice /\ row.total = c.invoices[d].total /\ amount \in Int
          BY ONLY <4>2, <4>7 DEF Invoice
      <4>4. Emptied(c, d) = InvoiceSet(c, d, row, amount)
          BY DEF Emptied
      <4>. HIDE DEF row, amount
      <4>5. InvoiceRow(c, Emptied(c, d), d, row)
          BY ONLY <2>2, <4>3, <4>4, InvoiceSetRow
      <4>. QED  BY <4>2, <4>5 DEF InvoiceRow, row
    <3>. QED  BY <2>1, <3>1, <3>2
  <2>. HIDE DEF e
  <2>5. Sound(e) /\ d \in DOMAIN e.invoices
      BY <2>3, <2>4 DEF Onto
  <2>6. /\ e.invoices[d].correction = 0 /\ e.invoices[d].state = "LIVE"
        /\ Retirable(e, d, 0)
    <3>1. /\ e.invoices[d].correction = c.invoices[d].correction
          /\ e.invoices[d].state = c.invoices[d].state
          /\ e.invoices[d].reversals = 1
        BY <2>4 DEF Invoice
    <3>. QED  BY <1>0, <2>1, <2>2, <2>3, <3>1 DEF Retirable
  <2>7. \A k : k = e.invoices[d].correction => r = RetiredAs(e, d, "REVISED", k)
    <3>1. e \in BooksType
        BY <2>5 DEF Sound
    <3>2. r = [e EXCEPT !.invoices[d].state = "REVISED"]
        BY DEF r
    <3>. HIDE DEF r
    <3>. QED  BY ONLY <2>5, <3>1, <3>2, RevisedIs
  <2>. HIDE DEF r
  <2>8. /\ r \in X /\ Onto(e, r) /\ DOMAIN r.invoices = DOMAIN e.invoices
        /\ r.carries = e.carries /\ r.notes = e.notes
    <3>. DEFINE q == RetiredAs(e, d, "REVISED", 0)
    <3>1. /\ q \in X /\ Onto(e, q)
          /\ InvoiceRow(e, q, d, [e.invoices[d] EXCEPT !.state = "REVISED",
                                        !.correction = 0])
      <4>1. 0 \in Nat /\ "REVISED" \in {"CANCELLED", "REVISED"}
          OBVIOUS
      <4>. QED  BY ONLY <1>0, <2>3, <2>5, <2>6, <4>1, RetiredWithin
    <3>. HIDE DEF q
    <3>2. r = q
        BY <2>6, <2>7 DEF q
    <3>. QED  BY <3>1, <3>2 DEF InvoiceRow, SameBut
  <2>9. Onto(b, r)
      BY <2>1, <2>3, <2>8, OntoTransitive
  <2>10. r = Undone(b, d, replacement, total)
      BY <1>1 DEF Undone, r, e, c
  <2>11. Carried(r, replacement) <= total
    <3>1. Carried(r, replacement) = Carried(e, replacement)
        BY <2>8, CarriedSame
    <3>. QED  BY <2>3, <3>1
  <2>12. \A i \in DOMAIN r.carries : i \in DOMAIN b.carries
                                   \/ r.carries[i].invoice = replacement
      BY <2>1, <2>3, <2>8 DEF SameDocuments
  <2>. HIDE DEF r
  <2>. QED  BY <2>4, <2>8, <2>9, <2>10, <2>11, <2>12
<1>2. CASE RetainedReturns(b, d) = {}
  <2>. DEFINE c == WhollyCredited(b, d)
              k == Len(c.notes)
              r == [c EXCEPT !.invoices[d].state = "REVISED",
                             !.invoices[d].correction = k]
  <2>1. /\ c \in X /\ Onto(b, c) /\ c.invoices = b.invoices /\ c.carries = b.carries
        /\ NothingPaid(c, d) /\ k \in DOMAIN c.notes
        /\ c.notes[k] = [source |-> d, total |-> b.invoices[d].total, reversals |-> 0]
      BY <1>0, <1>2, WhollyCreditedWithin DEF CreditAccepted
  <2>. HIDE DEF c
  <2>2. Sound(c) /\ d \in DOMAIN c.invoices /\ c.invoices[d].state = "LIVE"
      BY <2>1 DEF Onto
  <2>3. k \in Nat
    <3>1. c.notes \in Seq(Note)
        BY <2>2 DEF Sound, BooksType
    <3>. QED  BY <3>1
  <2>. HIDE DEF k
  <2>0. Retirable(c, d, k)
      BY <2>1 DEF Retirable, Posted
  <2>4. r = RetiredAs(c, d, "REVISED", k)
    <3>1. c \in BooksType
        BY <2>2 DEF Sound
    <3>2. r = [c EXCEPT !.invoices[d].state = "REVISED",
                        !.invoices[d].correction = k]
        BY DEF r
    <3>. HIDE DEF r
    <3>3. "REVISED" \in {"CANCELLED", "REVISED"}
        OBVIOUS
    <3>. QED  BY ONLY <2>2, <2>3, <3>1, <3>2, <3>3, RetiredIs
  <2>. HIDE DEF r
  <2>5. /\ r \in X /\ Onto(c, r) /\ DOMAIN r.invoices = DOMAIN c.invoices
        /\ r.carries = c.carries
    <3>. DEFINE q == RetiredAs(c, d, "REVISED", k)
    <3>1. /\ q \in X /\ Onto(c, q)
          /\ InvoiceRow(c, q, d, [c.invoices[d] EXCEPT !.state = "REVISED",
                                        !.correction = k])
      <4>1. "REVISED" \in {"CANCELLED", "REVISED"}
          OBVIOUS
      <4>. QED  BY ONLY <1>0, <2>0, <2>1, <2>2, <2>3, <4>1, RetiredWithin
    <3>. HIDE DEF q
    <3>2. r = q
        BY <2>4 DEF q
    <3>. QED  BY <3>1, <3>2 DEF InvoiceRow, SameBut
  <2>6. Onto(b, r)
      BY <2>1, <2>5, OntoTransitive
  <2>7. r = Undone(b, d, replacement, total)
      BY <1>2 DEF Undone, r, c, k
  <2>8. Carried(r, replacement) = 0
    <3>1. r \in BooksType
        BY <2>5 DEF Onto, Sound
    <3>2. \A i \in DOMAIN r.carries : r.carries[i].invoice # replacement
        BY <1>0, <2>1, <2>5 DEF Tidy
    <3>. QED  BY ONLY <3>1, <3>2, NothingCarried
  <2>9. Carried(r, replacement) <= total
      BY <2>8
  <2>. QED  BY <2>1, <2>5, <2>6, <2>7, <2>9
<1>. QED  BY <1>1, <1>2

-----------------------------------------------------------------------------
(* The transactions, from books to books.                                  *)

\* A payment offered at the posted invoices may be recorded.
LEMMA RowOfferedIs ==
    ASSUME NEW b, Sound(b), Len(b.invoices) <= MaxInvoices,
           NEW type \in {"CUSTOMER_RECEIPT", "CUSTOMER_ADVANCE"},
           NEW amount, NEW allocations, RowOffered(b, type, amount, allocations),
           AllocationsAccepted(b, allocations), NEW q
    PROVE  Offered(b, Pending(type, amount, allocations, q), q)
<1>0. /\ MaxInvoices \in Nat /\ Amount \subseteq Nat \ {0} /\ Discount \subseteq Nat
    BY ReceivablesConstants
<1>1. /\ b.invoices \in Seq(Invoice)
      /\ DOMAIN b.invoices = 1..Len(b.invoices) /\ Len(b.invoices) \in Nat
      /\ IsFiniteSet(DOMAIN b.invoices)
  <2>1. b.invoices \in Seq(Invoice)
      BY DEF Sound, BooksType
  <2>. QED  BY ONLY <2>1, TableRows
<1>2. DOMAIN b.invoices \subseteq 1..MaxInvoices
    BY <1>0, <1>1
<1>3. CASE type = "CUSTOMER_ADVANCE"
  <2>1. allocations = <<>> /\ amount \in Nat \ {0}
      BY <1>0, <1>3 DEF RowOffered
  <2>2. <<>> \in AllocationTable
    <3>1. {} \in SUBSET (1..MaxInvoices)
        OBVIOUS
    <3>2. <<>> \in [{} -> [amount: Amount, discount: Discount]]
        OBVIOUS
    <3>. QED  BY <3>1, <3>2 DEF AllocationTable
  <2>3. DOMAIN allocations = {}
      BY <2>1
  <2>. QED  BY <1>3, <2>1, <2>2, <2>3 DEF Offered
<1>4. CASE type = "CUSTOMER_RECEIPT"
  <2>1. PICK D \in (SUBSET (DOMAIN b.invoices)) \ {{}} :
            allocations \in [D -> [amount: Amount, discount: Discount]]
      BY <1>4 DEF RowOffered
  <2>2. allocations \in AllocationTable /\ DOMAIN allocations = D
      BY <1>2, <2>1 DEF AllocationTable
  <2>3. \A d \in D : /\ allocations[d].discount < allocations[d].amount
                     /\ allocations[d].amount \in Nat
                     /\ allocations[d].discount \in Nat
      BY <1>0, <2>1, <2>2 DEF AllocationsAccepted
  <2>4. amount \in Nat \ {0}
    <3>. DEFINE f == [d \in D |-> allocations[d].amount - allocations[d].discount]
    <3>1. amount = SumFunctionOnSet(f, D)
        BY <1>4, <2>2 DEF RowOffered, Sum, SumFunction
    <3>2. \A d \in D : f[d] \in Nat /\ f[d] \in Int /\ f[d] > 0
        BY <2>3
    <3>3. IsFiniteSet(D)
        BY <1>1, FS_Subset
    <3>. HIDE DEF f
    <3>4. PICK x \in D : TRUE
        BY <2>1
    <3>5. SumFunctionOnSet(f, D) = f[x] + SumFunctionOnSet(f, D \ {x})
        BY ONLY <3>2, <3>3, <3>4, SumRemove
    <3>6. SumFunctionOnSet(f, D \ {x}) \in Nat
      <4>1. IsFiniteSet(D \ {x}) /\ \A d \in D \ {x} : f[d] \in Nat
          BY <3>2, <3>3, FS_Subset
      <4>. QED  BY ONLY <4>1, SumNat
    <3>. QED  BY <3>1, <3>2, <3>4, <3>5, <3>6
  <2>5. amount = Sum(allocations)
      BY <1>4 DEF RowOffered
  <2>. QED  BY <1>4, <2>1, <2>2, <2>3, <2>4, <2>5 DEF Offered
<1>. QED  BY <1>3, <1>4

\* The payments and notes that count against document d are the same in r.
SameClaims(b, r, d) ==
    /\ r.invoices = b.invoices /\ r.notes = b.notes /\ r.carries = b.carries
    /\ EffectiveAllocations(r, d) = EffectiveAllocations(b, d)
    /\ EffectiveApplications(r, d) = EffectiveApplications(b, d)
    /\ \A s \in EffectiveAllocations(b, d) :
            r.settlements[s].allocations = b.settlements[s].allocations
    /\ \A a \in EffectiveApplications(b, d) :
            r.applications[a].amount = b.applications[a].amount

\* The payments that count against it are then the same.
LEMMA SameClaimsSame ==
    ASSUME NEW b, NEW r, NEW d, SameClaims(b, r, d)
    PROVE  /\ Paid(r, d) = Paid(b, d)
           /\ DiscountsOn(r, d) = DiscountsOn(b, d)
           /\ Noted(r, d) = Noted(b, d) /\ Carried(r, d) = Carried(b, d)
           /\ BatchOutstanding(r, d) = BatchOutstanding(b, d)
           /\ Outstanding(r, d) = Outstanding(b, d)
<1>. DEFINE paid(c) == [s \in EffectiveAllocations(c, d) |->
                            c.settlements[s].allocations[d].amount]
            given(c) == [s \in EffectiveAllocations(c, d) |->
                            c.settlements[s].allocations[d].discount]
            used(c) == [a \in EffectiveApplications(c, d) |->
                            c.applications[a].amount]
<1>1. paid(r) = paid(b) /\ given(r) = given(b) /\ used(r) = used(b)
    BY DEF SameClaims
<1>2. Paid(r, d) = Paid(b, d)
  <2>1. \A c : Paid(c, d) = SumFunction(paid(c)) + SumFunction(used(c))
      BY DEF Paid
  <2>. HIDE DEF paid, used
  <2>. QED  BY <1>1, <2>1
<1>3. DiscountsOn(r, d) = DiscountsOn(b, d)
  <2>1. \A c : DiscountsOn(c, d) = SumFunction(given(c))
      BY DEF DiscountsOn
  <2>. HIDE DEF given
  <2>. QED  BY <1>1, <2>1
<1>4. Noted(r, d) = Noted(b, d) /\ Carried(r, d) = Carried(b, d)
    BY DEF SameClaims, Noted, NotesOf, PostedNotes, Carried, CarriesTo
<1>5. r.invoices = b.invoices
    BY DEF SameClaims
<1>. QED  BY <1>2, <1>3, <1>4, <1>5 DEF BatchOutstanding, Outstanding, Retired

\* A payment that is pending does not count.
LEMMA PendingCounts ==
    ASSUME NEW b, Sound(b), NEW r, NEW row, Recorded(b, r, row), NEW d
    PROVE  SameClaims(b, r, d)
<1>1. /\ row.status = "PENDING_CHEQUE" /\ row.origin = <<>>
    BY OfferedLinked
<1>. DEFINE k == Len(b.settlements) + 1
<1>2. /\ DOMAIN r.settlements = DOMAIN b.settlements \cup {k}
      /\ r.settlements[k] = row /\ k \notin DOMAIN b.settlements
      /\ \A s \in DOMAIN b.settlements : r.settlements[s] = b.settlements[s]
  <2>1. b.settlements \in Seq(Settlement) /\ r.settlements = Append(b.settlements, row)
      BY DEF Sound, BooksType, Recorded
  <2>. QED  BY ONLY <2>1, RowAdded
<1>. HIDE DEF k
<1>3. /\ r.invoices = b.invoices /\ r.notes = b.notes /\ r.carries = b.carries
      /\ r.applications = b.applications
    BY DEF Recorded, SameBut
<1>4. ASSUME NEW o, o # <<>>
      PROVE  Released(r, o) <=> Released(b, o)
    BY <1>1, <1>2, <1>4 DEF Released
<1>5. EffectiveAllocations(r, d) = EffectiveAllocations(b, d)
  <2>1. \A s : <<"RECEIPT", s, d>> # <<>>
      OBVIOUS
  <2>. QED  BY <1>1, <1>2, <1>4, <2>1 DEF EffectiveAllocations, Effective
<1>6. EffectiveApplications(r, d) = EffectiveApplications(b, d)
  <2>1. \A a : <<"APPLICATION", a>> # <<>>
      OBVIOUS
  <2>2. \A a \in DOMAIN b.applications :
            b.applications[a].advance \in DOMAIN b.settlements
      BY DEF Sound, Linked, ApplicationLinked
  <2>. QED  BY <1>2, <1>3, <1>4, <2>1, <2>2 DEF EffectiveApplications, Effective
<1>7. \A s \in EffectiveAllocations(b, d) : s \in DOMAIN b.settlements
    BY DEF EffectiveAllocations
<1>. QED  BY <1>2, <1>3, <1>5, <1>6, <1>7 DEF SameClaims

\* What may be allocated in the books may be with the payment recorded.
LEMMA AcceptedPending ==
    ASSUME NEW b, Sound(b), NEW r, NEW row, Recorded(b, r, row),
           NEW allocations, AllocationsAccepted(b, allocations)
    PROVE  AllocationsAccepted(r, allocations)
<1>1. \A d : Outstanding(r, d) = Outstanding(b, d)
    BY PendingCounts, SameClaimsSame
<1>. QED  BY <1>1 DEF AllocationsAccepted

\* A payment received is recorded.
LEMMA PaymentIsRecorded ==
    ASSUME NEW b, Sound(b), NEW row, Offered(b, row, 0),
           NEW r, r = WithPayment(b, row)
    PROVE  Recorded(b, r, row)
<1>1. b \in BooksType /\ b.settlements \in Seq(Settlement) /\ b.cheques \in Seq(Cheque)
    BY DEF Sound, BooksType
<1>2. row \in Settlement /\ row.cheque = 0
    BY DEF Offered, Pending, Settlement, Origin
<1>. DEFINE t == Append(b.settlements, row)
<1>3. t \in Seq(Settlement)
    BY <1>1, <1>2
<1>4. r = [b EXCEPT !.settlements = t]
    BY DEF WithPayment
<1>. HIDE DEF t
<1>5. /\ r \in BooksType /\ SameBut(r, b, {"settlements"})
      /\ r.settlements = t /\ Due(r) = Due(b)
    BY ONLY <1>1, <1>3, <1>4, BooksWith
<1>6. r.cheques = b.cheques
    BY <1>5 DEF SameBut
<1>7. Len(b.cheques) \in Nat
    BY <1>1
<1>8. \A q \in DOMAIN r.cheques : ChequeLinked(r, q)
  <2>1. /\ DOMAIN b.settlements \subseteq DOMAIN t
        /\ \A s \in DOMAIN b.settlements : t[s] = b.settlements[s]
    <3>1. /\ DOMAIN Append(b.settlements, row)
                = DOMAIN b.settlements \cup {Len(b.settlements) + 1}
          /\ \A s \in DOMAIN b.settlements :
                Append(b.settlements, row)[s] = b.settlements[s]
        BY ONLY <1>1, RowAdded
    <3>. QED  BY <3>1 DEF t
  <2>. QED  BY <1>5, <1>6, <2>1 DEF Sound, Linked, ChequeLinked
<1>. QED  BY <1>2, <1>5, <1>6, <1>7, <1>8 DEF Recorded, SameBut, t

\* The books with the payment of cheque q, new or presented again, recorded.
LEMMA ChequeIsRecorded ==
    ASSUME NEW b, Sound(b), NEW q \in Nat \ {0}, NEW row, Offered(b, row, q),
           NEW u, u \in Seq(Cheque), Len(b.cheques) <= Len(u), q \in DOMAIN u,
           u[q].settlement = Len(b.settlements) + 1,
           \A p \in DOMAIN u : p # q => p \in DOMAIN b.cheques
                                        /\ u[p].settlement = b.cheques[p].settlement,
           NEW r, r = [b EXCEPT !.settlements = Append(b.settlements, row),
                                !.cheques = u]
    PROVE  Recorded(b, r, row)
<1>1. b \in BooksType /\ b.settlements \in Seq(Settlement)
    BY DEF Sound, BooksType
<1>2. row \in Settlement /\ row.cheque = q
    BY DEF Offered, Pending, Settlement, Origin
<1>. DEFINE t == Append(b.settlements, row)
            c == [b EXCEPT !.settlements = t]
<1>3. t \in Seq(Settlement)
    BY <1>1, <1>2
<1>4. r = [c EXCEPT !.cheques = u]
    BY <1>1 DEF BooksType
<1>. HIDE DEF t
<1>5. /\ c \in BooksType /\ SameBut(c, b, {"settlements"})
      /\ c.settlements = t /\ Due(c) = Due(b)
    BY ONLY <1>1, <1>3, BooksWith
<1>. HIDE DEF c
<1>6. /\ r \in BooksType /\ SameBut(r, c, {"cheques"})
      /\ r.cheques = u /\ Due(r) = Due(c)
    BY ONLY <1>4, <1>5, u \in Seq(Cheque), BooksWith
<1>7. r.settlements = t
    BY <1>5, <1>6 DEF SameBut
<1>8. /\ DOMAIN t = DOMAIN b.settlements \cup {Len(b.settlements) + 1}
      /\ t[Len(b.settlements) + 1] = row
      /\ \A s \in DOMAIN b.settlements : t[s] = b.settlements[s]
  <2>1. /\ DOMAIN Append(b.settlements, row)
              = DOMAIN b.settlements \cup {Len(b.settlements) + 1}
        /\ Append(b.settlements, row)[Len(b.settlements) + 1] = row
        /\ \A s \in DOMAIN b.settlements :
              Append(b.settlements, row)[s] = b.settlements[s]
      BY ONLY <1>1, RowAdded
  <2>. QED  BY <2>1 DEF t
<1>9. ASSUME NEW p \in DOMAIN r.cheques PROVE ChequeLinked(r, p)
  <2>1. /\ r.cheques[p].settlement \in DOMAIN t
        /\ t[r.cheques[p].settlement].cheque = p
    <3>1. CASE p = q
        BY <1>2, <1>6, <1>8, <3>1
    <3>2. CASE p # q
      <4>1. ChequeLinked(b, p) /\ u[p].settlement = b.cheques[p].settlement
          BY <1>6, <3>2 DEF Sound, Linked
      <4>. QED  BY ONLY <1>6, <1>8, <4>1 DEF ChequeLinked
    <3>. QED  BY <3>1, <3>2
  <2>. QED  BY ONLY <1>7, <2>1 DEF ChequeLinked
<1>10. DOMAIN u = 1..Len(u) /\ Len(u) \in Nat
    BY ONLY u \in Seq(Cheque)
<1>11. row.cheque \in 0..Len(r.cheques)
    BY <1>2, <1>6, <1>10
<1>. QED  BY <1>2, <1>5, <1>6, <1>7, <1>9, <1>11 DEF Recorded, SameBut, t

\* A receipt or an advance is a call or two.
LEMMA PaymentStepWithin ==
    ASSUME NEW b, Sound(b), Len(b.invoices) <= MaxInvoices,
           NEW X, b \in X, PlainWithin(X), NEW r, PaymentStep(b, r)
    PROVE  r \in X
<1>. PICK type, amount, allocations :
        /\ type \in {"CUSTOMER_RECEIPT", "CUSTOMER_ADVANCE"}
        /\ RowOffered(b, type, amount, allocations)
        /\ AllocationsAccepted(b, allocations)
        /\ \/ r = SettlementPosted(WithPayment(b, Pending(type, amount, allocations, 0)),
                                   Len(b.settlements) + 1)
           \/ r = WithCheque(b, Pending(type, amount, allocations,
                                        Len(b.cheques) + 1))
    BY DEF PaymentStep
<1>1. ASSUME NEW q
      PROVE  Offered(b, Pending(type, amount, allocations, q), q)
    BY RowOfferedIs
<1>2. b.settlements \in Seq(Settlement) /\ b.cheques \in Seq(Cheque)
    BY DEF Sound, BooksType
<1>3. CASE r = SettlementPosted(WithPayment(b, Pending(type, amount, allocations, 0)),
                                   Len(b.settlements) + 1)
  <2>. DEFINE row == Pending(type, amount, allocations, 0)
              c == WithPayment(b, row)
              k == Len(b.settlements) + 1
  <2>0. row.status = "PENDING_CHEQUE" /\ row.allocations = allocations
      BY DEF Pending
  <2>1. Offered(b, row, 0)
      BY <1>1
  <2>. HIDE DEF row, c
  <2>2. Recorded(b, c, row)
      BY <2>1, PaymentIsRecorded DEF c
  <2>3. c \in X /\ Sound(c)
    <3>1. PlainMove(b, c)
        BY <2>2 DEF PlainMove, PaymentMove
    <3>. QED  BY <3>1, MoveKept DEF PlainWithin, Move
  <2>4. k \in DOMAIN c.settlements /\ c.settlements[k] = row
    <3>1. c.settlements = Append(b.settlements, row)
        BY <2>2 DEF Recorded
    <3>2. /\ DOMAIN Append(b.settlements, row) = DOMAIN b.settlements \cup {k}
          /\ Append(b.settlements, row)[k] = row
        BY ONLY <1>2, RowAdded
    <3>. QED  BY <3>1, <3>2
  <2>5. AllocationsAccepted(c, allocations)
      BY <2>2, AcceptedPending
  <2>. HIDE DEF k
  <2>6. r = SettlementPosted(c, k)
      BY <1>3 DEF c, k, row
  <2>7. PlainMove(c, r)
      BY <2>0, <2>4, <2>5, <2>6 DEF PlainMove, PaymentMove
  <2>. QED  BY <2>3, <2>7 DEF PlainWithin
<1>4. CASE r = WithCheque(b, Pending(type, amount, allocations, Len(b.cheques) + 1))
  <2>. DEFINE q == Len(b.cheques) + 1
              row == Pending(type, amount, allocations, q)
              cheque == [status |-> "RECEIVED", settlement |-> Len(b.settlements) + 1]
              u == Append(b.cheques, cheque)
  <2>1. Offered(b, row, q)
      BY <1>1
  <2>2. q \in Nat \ {0} /\ Len(b.settlements) + 1 \in Nat /\ Len(b.cheques) \in Nat
      BY <1>2
  <2>3. cheque \in Cheque /\ cheque.settlement = Len(b.settlements) + 1
      BY <2>2 DEF Cheque
  <2>4. r = [b EXCEPT !.settlements = Append(b.settlements, row), !.cheques = u]
      BY <1>4 DEF WithCheque, Sound, BooksType
  <2>. HIDE DEF row, cheque
  <2>5. /\ u \in Seq(Cheque)
        /\ DOMAIN u = DOMAIN b.cheques \cup {q} /\ q \notin DOMAIN b.cheques
        /\ Len(u) = Len(b.cheques) + 1
        /\ u[q] = cheque
        /\ \A p \in DOMAIN b.cheques : u[p] = b.cheques[p]
    <3>1. /\ DOMAIN u = DOMAIN b.cheques \cup {Len(b.cheques) + 1}
          /\ Len(b.cheques) + 1 \notin DOMAIN b.cheques
          /\ Len(u) = Len(b.cheques) + 1
          /\ u[Len(b.cheques) + 1] = cheque
          /\ \A p \in DOMAIN b.cheques : u[p] = b.cheques[p]
        BY ONLY <1>2, RowAdded
    <3>2. u \in Seq(Cheque)
        BY <1>2, <2>3
    <3>. QED  BY <3>1, <3>2
  <2>. HIDE DEF q, u
  <2>6. /\ Len(b.cheques) <= Len(u) /\ q \in DOMAIN u
        /\ u[q].settlement = Len(b.settlements) + 1
        /\ \A p \in DOMAIN u : p # q => p \in DOMAIN b.cheques
                                        /\ u[p].settlement = b.cheques[p].settlement
      BY <2>2, <2>3, <2>5
  <2>7. u \in Seq(Cheque)
      BY <2>5
  <2>8. Recorded(b, r, row)
      BY ONLY Sound(b), <2>1, <2>2, <2>4, <2>6, <2>7, ChequeIsRecorded
  <2>9. PlainMove(b, r)
      BY <2>8 DEF PlainMove, PaymentMove
  <2>. QED  BY <2>9 DEF PlainWithin
<1>. QED  BY <1>3, <1>4

\* A cheque presented has a payment recorded for it.
LEMMA PresentedWithin ==
    ASSUME NEW b, Sound(b), NEW q \in DOMAIN b.cheques,
           NEW X, b \in X, PlainWithin(X), NEW r, r = Presented(b, q)
    PROVE  /\ r \in X /\ Sound(r)
           /\ q \in DOMAIN r.cheques
           /\ r.cheques[q].status = b.cheques[q].status
           /\ r.cheques[q].settlement \in DOMAIN r.settlements
           /\ \/ r = b
              \/ /\ \E row : Recorded(b, r, row)
                 /\ DOMAIN r.cheques = DOMAIN b.cheques
                 /\ \A p \in DOMAIN b.cheques :
                        /\ r.cheques[p].status = b.cheques[p].status
                        /\ p # q => r.cheques[p].settlement = b.cheques[p].settlement
<1>. DEFINE old == b.settlements[b.cheques[q].settlement]
            k == Len(b.settlements) + 1
            row == Pending(old.type, old.amount, old.allocations, q)
            cheque == [b.cheques[q] EXCEPT !.settlement = k]
            u == [b.cheques EXCEPT ![q] = cheque]
<1>1. /\ b.settlements \in Seq(Settlement) /\ b.cheques \in Seq(Cheque)
      /\ Linked(b)
    BY DEF Sound, BooksType
<1>2. b.cheques[q] \in Cheque /\ ChequeLinked(b, q)
    BY <1>1 DEF Linked
<1>3. old \in Settlement /\ RowLinked(b, old)
    BY <1>1, <1>2 DEF ChequeLinked, Linked
<1>4. CASE old.status # "REVERSED"
    BY <1>2, <1>4 DEF Presented, ChequeLinked
<1>5. CASE old.status = "REVERSED"
  <2>1. r = [b EXCEPT !.settlements = Append(b.settlements, row), !.cheques = u]
    <3>1. [b.cheques EXCEPT ![q].settlement = k] = u
        BY <1>1
    <3>2. r = [b EXCEPT !.settlements = Append(b.settlements, row),
                        !.cheques[q].settlement = k]
        BY <1>5 DEF Presented, Sound, BooksType
    <3>3. r = [b EXCEPT !.settlements = Append(b.settlements, row),
                        !.cheques = [b.cheques EXCEPT ![q].settlement = k]]
        BY <3>2 DEF Sound, BooksType
    <3>. QED  BY <3>1, <3>3
  <2>2. Offered(b, row, q)
    <3>. HIDE DEF old
    <3>. QED  BY <1>3 DEF Offered, RowLinked, Settlement
  <2>3. /\ cheque \in Cheque /\ cheque.settlement = k
        /\ cheque.status = b.cheques[q].status
      BY <1>1, <1>2 DEF Cheque
  <2>. HIDE DEF row, cheque, old
  <2>4. /\ u \in Seq(Cheque) /\ Len(u) = Len(b.cheques)
        /\ DOMAIN u = DOMAIN b.cheques /\ u[q] = cheque
        /\ \A p \in DOMAIN b.cheques : p # q => u[p] = b.cheques[p]
    <3>1. u \in Seq(Cheque) /\ Len(u) = Len(b.cheques) /\ DOMAIN u = DOMAIN b.cheques
        BY <1>1, <2>3, RowChanged
    <3>2. u[q] = cheque /\ \A p \in DOMAIN b.cheques : p # q => u[p] = b.cheques[p]
        BY <1>1
    <3>. QED  BY <3>1, <3>2
  <2>. HIDE DEF u
  <2>5. q \in Nat \ {0} /\ Len(b.cheques) <= Len(u)
    <3>1. DOMAIN b.cheques \subseteq Nat \ {0} /\ Len(b.cheques) \in Nat
        BY ONLY <1>1, TableRows
    <3>. QED  BY <2>4, <3>1
  <2>6. /\ q \in DOMAIN u /\ u[q].settlement = Len(b.settlements) + 1
        /\ \A p \in DOMAIN u : p # q => p \in DOMAIN b.cheques
                                    /\ u[p].settlement = b.cheques[p].settlement
        /\ u \in Seq(Cheque)
      BY <2>3, <2>4
  <2>7. Recorded(b, r, row) /\ r.cheques = u
    <3>1. Recorded(b, r, row)
        BY ONLY Sound(b), <2>1, <2>2, <2>5, <2>6, ChequeIsRecorded
    <3>2. r.cheques = u
        BY <2>1 DEF Sound, BooksType
    <3>. QED  BY <3>1, <3>2
  <2>8. PlainMove(b, r)
      BY <2>7 DEF PlainMove, PaymentMove
  <2>9. r \in X /\ Sound(r)
      BY <2>8, MoveKept DEF PlainWithin, Move
  <2>10. ChequeLinked(r, q)
      BY <2>6, <2>7, <2>9 DEF Sound, Linked
  <2>. QED  BY <2>3, <2>4, <2>7, <2>9, <2>10 DEF ChequeLinked
<1>. QED  BY <1>4, <1>5

\* The exchange of a cheque's status, written as the exchange of its row.
LEMMA ChequeSetIs ==
    ASSUME NEW b, Sound(b), NEW q \in DOMAIN b.cheques,
           NEW status \in {"RECEIVED", "CLEARED", "BOUNCED", "CANCELLED"},
           NEW r, r = [b EXCEPT !.cheques[q].status = status]
    PROVE  r = ChequeSet(b, q, status)
BY DEF ChequeSet, Sound, BooksType

\* The status of a cheque set.
LEMMA ChequeSetWithin ==
    ASSUME NEW b, Sound(b), NEW q \in DOMAIN b.cheques,
           NEW status \in {"RECEIVED", "CLEARED", "BOUNCED", "CANCELLED"},
           NEW X, b \in X, PlainWithin(X),
           NEW r, r = [b EXCEPT !.cheques[q].status = status]
    PROVE  r \in X
<1>1. r = ChequeSet(b, q, status)
    BY ChequeSetIs
<1>2. PlainMove(b, r)
    BY <1>1 DEF PlainMove, PaymentMove
<1>. QED  BY <1>2 DEF PlainWithin

\* The clearing of a cheque.
LEMMA ClearStepWithin ==
    ASSUME NEW b, Sound(b), NEW X, b \in X, PlainWithin(X), NEW r, ClearStep(b, r)
    PROVE  r \in X
<1>1. PICK q \in DOMAIN b.cheques :
        LET c == Presented(b, q)
            s == c.cheques[q].settlement
        IN  /\ b.cheques[q].status = "RECEIVED"
            /\ c.settlements[s].status = "PENDING_CHEQUE"
            /\ AllocationsAccepted(c, c.settlements[s].allocations)
            /\ r = [SettlementPosted(c, s) EXCEPT !.cheques[q].status = "CLEARED"]
    BY DEF ClearStep
<1>. DEFINE c == Presented(b, q)
            s == c.cheques[q].settlement
            e == SettlementPosted(c, s)
<1>2. /\ c \in X /\ Sound(c) /\ q \in DOMAIN c.cheques
      /\ s \in DOMAIN c.settlements
    BY PresentedWithin
<1>3. /\ c.settlements[s].status = "PENDING_CHEQUE"
      /\ AllocationsAccepted(c, c.settlements[s].allocations)
      /\ r = [e EXCEPT !.cheques[q].status = "CLEARED"]
    BY <1>1
<1>4. e = SettlementPosted(c, s)
    OBVIOUS
<1>. HIDE DEF c, s, e
<1>5. PlainMove(c, e)
    BY <1>2, <1>3, <1>4 DEF PlainMove, PaymentMove
<1>6. e \in X /\ Sound(e) /\ Kept(c, e)
    BY <1>2, <1>5, MoveKept DEF PlainWithin, Move
<1>7. q \in DOMAIN e.cheques
  <2>1. c.cheques \in Seq(Cheque) /\ e.cheques \in Seq(Cheque)
      BY <1>2, <1>6 DEF Sound, BooksType
  <2>2. /\ DOMAIN c.cheques = 1..Len(c.cheques) /\ Len(c.cheques) \in Nat
        /\ DOMAIN e.cheques = 1..Len(e.cheques) /\ Len(e.cheques) \in Nat
      BY ONLY <2>1, TableRows
  <2>3. Len(c.cheques) <= Len(e.cheques)
      BY <1>6 DEF Kept
  <2>. QED  BY <1>2, <2>2, <2>3
<1>8. "CLEARED" \in {"RECEIVED", "CLEARED", "BOUNCED", "CANCELLED"}
    OBVIOUS
<1>. QED  BY ONLY <1>3, <1>6, <1>7, <1>8, PlainWithin(X), ChequeSetWithin

\* A cheque that is returned.
LEMMA ReturnStepWithin ==
    ASSUME NEW b, Sound(b), NEW X, b \in X, PlainWithin(X), NEW r, ReturnStep(b, r)
    PROVE  r \in X
<1>1. PICK q \in DOMAIN b.cheques, status \in {"RECEIVED", "BOUNCED", "CANCELLED"} :
        /\ b.settlements[b.cheques[q].settlement].status = "POSTED" =>
                ~Reclassified(b, b.cheques[q].settlement)
        /\ r = [Returned(b, q) EXCEPT !.cheques[q].status = status]
    BY DEF ReturnStep
<1>. DEFINE s == b.cheques[q].settlement
            e == Returned(b, q)
<1>2. b.cheques \in Seq(Cheque) /\ Linked(b)
    BY DEF Sound, BooksType
<1>3. s \in DOMAIN b.settlements /\ b.settlements[s].origin = <<>>
  <2>1. ChequeLinked(b, q)
      BY <1>2 DEF Linked
  <2>2. q # 0
    <3>1. DOMAIN b.cheques \subseteq Nat \ {0}
        BY ONLY <1>2, TableRows
    <3>. QED  BY <3>1
  <2>3. RowLinked(b, b.settlements[s])
      BY <1>2, <2>1 DEF Linked, ChequeLinked
  <2>. QED  BY <2>1, <2>2, <2>3 DEF ChequeLinked, RowLinked
<1>4. e \in X /\ Sound(e) /\ q \in DOMAIN e.cheques
  <2>1. CASE b.settlements[s].status = "POSTED"
    <3>1. e = SettlementReversed(b, s)
        BY <2>1 DEF Returned
    <3>. HIDE DEF s, e
    <3>2. PlainMove(b, e)
        BY <1>1, <1>3, <2>1, <3>1 DEF PlainMove, PaymentMove, s
    <3>3. Turned(b, e, s) /\ Sound(e)
        BY <1>3, <3>1, ReversedSound
    <3>. QED  BY <3>2, <3>3 DEF PlainWithin, Turned, SameBut
  <2>2. CASE b.settlements[s].status # "POSTED"
      BY <2>2 DEF Returned
  <2>. QED  BY <2>1, <2>2
<1>5. r = [e EXCEPT !.cheques[q].status = status]
    BY <1>1
<1>. HIDE DEF e, s
<1>6. status \in {"RECEIVED", "CLEARED", "BOUNCED", "CANCELLED"}
    OBVIOUS
<1>. QED  BY ONLY <1>4, <1>5, <1>6, PlainWithin(X), ChequeSetWithin

\* The cancelling of a sale.
LEMMA CancelStepWithin ==
    ASSUME NEW b, Sound(b), NEW X, b \in X, PlainWithin(X), NEW r, CancelStep(b, r)
    PROVE  r \in X /\ Onto(b, r)
<1>1. PICK d \in DOMAIN b.invoices :
        /\ Editable(b, d, FALSE)
        /\ CreditAccepted(b, d)
        /\ LET c == WhollyCredited(b, d)
           IN  r = [c EXCEPT !.invoices[d].state = "CANCELLED",
                             !.invoices[d].correction = Len(c.notes)]
    BY DEF CancelStep
<1>. DEFINE c == WhollyCredited(b, d)
            k == Len(c.notes)
<1>2. /\ c \in X /\ Onto(b, c) /\ c.invoices = b.invoices
      /\ NothingPaid(c, d) /\ k \in DOMAIN c.notes
      /\ c.notes[k] = [source |-> d, total |-> b.invoices[d].total, reversals |-> 0]
    BY <1>1, WhollyCreditedWithin DEF CreditAccepted
<1>3. r = [c EXCEPT !.invoices[d].state = "CANCELLED",
                    !.invoices[d].correction = k]
    BY <1>1
<1>. HIDE DEF c
<1>4. Sound(c) /\ c \in BooksType /\ d \in DOMAIN c.invoices /\ k \in Nat
    BY <1>2 DEF Onto, Sound, BooksType
<1>5. "CANCELLED" \in {"CANCELLED", "REVISED"}
    OBVIOUS
<1>. HIDE DEF k
<1>6. r = RetiredAs(c, d, "CANCELLED", k)
    BY ONLY <1>3, <1>4, <1>5, RetiredIs
<1>7. r \in X /\ Onto(c, r)
  <2>1. c.invoices[d].state = "LIVE" /\ Retirable(c, d, k)
      BY <1>1, <1>2 DEF Retirable, Editable, Posted
  <2>2. LET q == RetiredAs(c, d, "CANCELLED", k) IN q \in X /\ Onto(c, q)
      BY ONLY <1>2, <1>4, <1>5, <2>1, PlainWithin(X), RetiredWithin
  <2>. QED  BY <1>6, <2>2
<1>. QED  BY <1>2, <1>7, OntoTransitive

\* Nothing has been carried to the invoice that is to be entered next.
LEMMA NothingYet ==
    ASSUME NEW b, Sound(b), Tidy(b), NEW total \in Amount
    PROVE  /\ Carried(b, Len(b.invoices) + 1) = 0
           /\ Carried(b, Len(b.invoices) + 1) <= total
<1>1. b \in BooksType /\ b.invoices \in Seq(Invoice)
    BY DEF Sound, BooksType
<1>2. \A c \in DOMAIN b.carries : b.carries[c].invoice # Len(b.invoices) + 1
  <2>1. Len(b.invoices) + 1 \notin DOMAIN b.invoices
      BY <1>1
  <2>. QED  BY <2>1 DEF Tidy
<1>3. Carried(b, Len(b.invoices) + 1) = 0
    BY <1>1, <1>2, NothingCarried
<1>4. total \in Nat
    BY ReceivablesConstants
<1>. QED  BY <1>3, <1>4

\* The replacing of a sale.
LEMMA ReplaceStepWithin ==
    ASSUME NEW b, Sound(b), Tidy(b), NEW X, b \in X, Within(X),
           NEW r, ReplaceStep(b, r)
    PROVE  /\ r \in X /\ Onto(b, r)
           /\ \A i \in DOMAIN r.carries : r.carries[i].invoice \in DOMAIN r.invoices
<1>1. PICK d \in DOMAIN b.invoices, total \in Amount, link \in BOOLEAN :
        /\ Editable(b, d, TRUE)
        /\ RetainedReturns(b, d) = {} => CreditAccepted(b, d)
        /\ LET replacement == Len(b.invoices) + 1
               posted == InvoicePosted(Undone(b, d, replacement, total),
                                       total, d, link)
               family == Family(b, d) \cup {replacement}
           IN  r = AppliedAll(posted, FamilyCredits(posted, family), replacement)
    BY DEF ReplaceStep
<1>. DEFINE k == Len(b.invoices) + 1
            u == Undone(b, d, k, total)
            c == InvoicePosted(u, total, d, link)
            S == FamilyCredits(c, Family(b, d) \cup {k})
<1>2. r = AppliedAll(c, S, k)
    BY <1>1
<1>3. Posted(b.invoices[d]) /\ b.invoices[d].state = "LIVE"
    BY <1>1 DEF Editable
<1>4. k \in Nat /\ total \in Nat /\ d \in Nat
  <2>1. b.invoices \in Seq(Invoice)
      BY DEF Sound, BooksType
  <2>2. DOMAIN b.invoices \subseteq Nat \ {0}
      BY ONLY <2>1, TableRows
  <2>. QED  BY <2>1, <2>2, ReceivablesConstants
<1>. HIDE DEF k
<1>5. /\ u \in X /\ Onto(b, u) /\ DOMAIN u.invoices = DOMAIN b.invoices
      /\ Carried(u, k) <= total
      /\ \A i \in DOMAIN u.carries :
            i \in DOMAIN b.carries \/ u.carries[i].invoice = k
  <2>1. k = Len(b.invoices) + 1
      BY DEF k
  <2>. QED  BY <1>1, <1>3, <1>4, <2>1, UndoneWithin
<1>. HIDE DEF u
<1>6. Sound(u) /\ Len(u.invoices) + 1 = k
  <2>1. b.invoices \in Seq(Invoice) /\ u.invoices \in Seq(Invoice)
      BY <1>5 DEF Onto, Sound, BooksType
  <2>2. Len(u.invoices) = Len(b.invoices)
    <3>1. /\ DOMAIN u.invoices = 1..Len(u.invoices) /\ Len(u.invoices) \in Nat
          /\ DOMAIN b.invoices = 1..Len(b.invoices) /\ Len(b.invoices) \in Nat
        BY ONLY <2>1, TableRows
    <3>. QED  BY ONLY <1>5, <3>1, IntervalLength
  <2>. QED  BY <1>5, <2>2 DEF Onto, k
<1>0. PlainWithin(X)
    BY WithinPlain
<1>. DEFINE Z == {e \in BooksType : e.carries = u.carries}
<1>7. /\ c \in X /\ Onto(u, c) /\ k \in DOMAIN c.invoices
      /\ PlainWithin(Z) /\ c \in Z
  <2>1. u \in Z /\ PlainWithin(Z)
      BY <1>6, SameCarriesWithin DEF Sound
  <2>. HIDE DEF Z
  <2>. QED  BY <1>0, <1>4, <1>5, <1>6, <2>1, InvoicePostedWithin
<1>. HIDE DEF c
<1>8. Sound(c) /\ S \in SUBSET UnusedAdvances(c)
    BY <1>7 DEF Onto, FamilyCredits
<1>. HIDE DEF S
<1>9. r \in X /\ Onto(c, r)
  <2>1. AppliedAll(c, S, k) \in X /\ Onto(c, AppliedAll(c, S, k))
      BY <1>0, <1>7, <1>8, AppliedAllWithin
  <2>. QED  BY <1>2, <2>1
<1>10. r.carries = u.carries
  <2>1. r \in Z
    <3>. HIDE DEF Z
    <3>. QED  BY <1>2, <1>7, <1>8, AppliedAllWithin
  <2>. QED  BY <2>1
<1>11. Onto(b, r)
    BY <1>5, <1>7, <1>9, OntoTransitive
<1>12. \A i \in DOMAIN r.carries : r.carries[i].invoice \in DOMAIN r.invoices
  <2>1. Kept(b, u) /\ Kept(b, r) /\ Kept(c, r)
      BY <1>5, <1>9, <1>11 DEF Onto
  <2>. QED  BY <1>5, <1>7, <1>10, <2>1 DEF Kept, Tidy
<1>. QED  BY <1>9, <1>11, <1>12

\* A reversal by hand.
LEMMA ReverseStepIs ==
    ASSUME NEW b, Sound(b), NEW r, ReverseStep(b, r)
    PROVE  PlainMove(b, r) /\ Onto(b, r)
<1>0. MaxReversals \in Nat
    BY ReceivablesConstants
<1>1. ASSUME NEW d \in DOMAIN b.invoices,
             b.invoices[d].reversals < MaxReversals,
             b.invoices[d].state = "LIVE",
             r = InvoiceSet(b, d, Turn(b.invoices[d]), Flip(b.invoices[d]))
      PROVE  PlainMove(b, r) /\ Onto(b, r)
  <2>. DEFINE row == Turn(b.invoices[d])
              amount == Flip(b.invoices[d])
  <2>1. b.invoices[d] \in Invoice /\ b.invoices[d].reversals \in Int
    <3>1. b.invoices[d] \in Invoice
        BY OutstandingType DEF Sound
    <3>. QED  BY <1>0, <3>1 DEF Invoice
  <2>2. b.invoices[d].reversals <= MaxReversals
      BY <1>0, <1>1, <2>1
  <2>3. row \in Invoice /\ row.total = b.invoices[d].total /\ amount \in Int
      BY <2>1, <2>2, TurnType
  <2>4. PlainMove(b, r)
      BY <1>1, <2>2 DEF PlainMove, InvoiceMove
  <2>5. r = InvoiceSet(b, d, row, amount)
      BY <1>1
  <2>. HIDE DEF row, amount
  <2>6. Onto(b, r)
      BY ONLY <2>3, <2>5, Sound(b), d \in DOMAIN b.invoices, InvoiceSetRow
  <2>. QED  BY <2>4, <2>6
<1>2. ASSUME NEW n \in DOMAIN b.notes,
             b.notes[n].reversals < MaxReversals,
             \A d \in DOMAIN b.invoices : b.invoices[d].correction # n,
             \A c \in DOMAIN b.carries : b.carries[c].note # n,
             r = NoteSet(b, n, Turn(b.notes[n]), -Flip(b.notes[n]))
      PROVE  PlainMove(b, r) /\ Onto(b, r)
  <2>. DEFINE row == Turn(b.notes[n])
              amount == -Flip(b.notes[n])
  <2>1. b.notes[n] \in Note /\ b.notes[n].reversals \in Int
    <3>1. b.notes \in Seq(Note)
        BY DEF Sound, BooksType
    <3>2. b.notes[n] \in Note
        BY <3>1
    <3>. QED  BY <1>0, <3>2 DEF Note
  <2>2. b.notes[n].reversals <= MaxReversals
      BY <1>0, <1>2, <2>1
  <2>3. /\ row \in Note /\ row.total = b.notes[n].total
        /\ row.source = b.notes[n].source
      BY <2>1, <2>2, TurnType
  <2>4. amount \in Int
    <3>1. Flip(b.notes[n]) \in Int
        BY <2>1, TurnType
    <3>. QED  BY <3>1
  <2>5. PlainMove(b, r)
      BY <1>2, <2>2 DEF PlainMove, NoteMove
  <2>6. r = NoteSet(b, n, row, amount)
      BY <1>2
  <2>. HIDE DEF row, amount
  <2>7. Onto(b, r)
      BY ONLY <2>3, <2>4, <2>6, Sound(b), n \in DOMAIN b.notes, NoteSetRow
  <2>. QED  BY <2>5, <2>7
<1>. QED  BY <1>1, <1>2 DEF ReverseStep

\* No transaction but the replacing of a sale leads out of a set that no plain
\* call leads out of.
LEMMA PlainStepWithin ==
    ASSUME NEW b, Sound(b), Tidy(b), Len(b.invoices) <= MaxInvoices,
           NEW X, b \in X, PlainWithin(X), NEW r, Step(b, r), ~ReplaceStep(b, r)
    PROVE  r \in X
<1>1. ASSUME NEW total \in Amount, NEW link \in BOOLEAN,
             r = InvoicePosted(b, total, 0, link)
      PROVE  r \in X
  <2>1. 0 \in Nat /\ Carried(b, Len(b.invoices) + 1) <= total
      BY NothingYet
  <2>. QED  BY <1>1, <2>1, InvoicePostedWithin
<1>2. ASSUME NEW d \in DOMAIN b.invoices, NEW amount \in Amount,
             NoteAccepted(b, d, amount), r = NotePosted(b, d, amount)
      PROVE  r \in X
    BY <1>2 DEF PlainWithin, PlainMove, NoteMove
<1>3. ASSUME NEW s \in DOMAIN b.settlements, NEW d \in DOMAIN b.invoices,
             NEW amount \in Amount, ApplicationAccepted(b, s, d, amount),
             r = Applied(b, s, d, amount)
      PROVE  r \in X
  <2>1. amount \in Nat \ {0}
      BY ReceivablesConstants
  <2>2. PlainMove(b, r)
      BY <1>3, <2>1 DEF ApplicationAccepted, Effective, PlainMove, ApplyMove
  <2>. QED  BY <2>2 DEF PlainWithin
<1>4. CASE ReverseStep(b, r)
    BY <1>4, ReverseStepIs DEF PlainWithin
<1>5. CASE PaymentStep(b, r)
    BY <1>5, PaymentStepWithin
<1>6. CASE ClearStep(b, r)
    BY <1>6, ClearStepWithin
<1>7. CASE ReturnStep(b, r)
    BY <1>7, ReturnStepWithin
<1>8. CASE CancelStep(b, r)
    BY <1>8, CancelStepWithin
<1>. QED  BY <1>1, <1>2, <1>3, <1>4, <1>5, <1>6, <1>7, <1>8 DEF Step

\* No transaction leads out of a set that no call leads out of.
LEMMA StepWithin ==
    ASSUME NEW b, Sound(b), Tidy(b), Len(b.invoices) <= MaxInvoices,
           NEW X, b \in X, Within(X), NEW r, Step(b, r)
    PROVE  r \in X
<1>1. PlainWithin(X)
    BY WithinPlain
<1>2. CASE ReplaceStep(b, r)
    BY <1>2, ReplaceStepWithin
<1>3. CASE ~ReplaceStep(b, r)
    BY <1>1, <1>3, PlainStepWithin
<1>. QED  BY <1>2, <1>3

\* Only payments and cheques change the state of a payment or a cheque.
LEMMA StepOnto ==
    ASSUME NEW b, Sound(b), Tidy(b), NEW r, Step(b, r),
           ~PaymentStep(b, r), ~ClearStep(b, r), ~ReturnStep(b, r)
    PROVE  Onto(b, r)
<1>. DEFINE X == {c \in BooksType : Sound(c)}
<1>1. b \in X
    BY DEF Sound
<1>2. Within(X)
    BY MoveKept DEF Within, Sound
<1>. HIDE DEF X
<1>0. PlainWithin(X)
    BY <1>2, WithinPlain
<1>3. ASSUME NEW total \in Amount, NEW link \in BOOLEAN,
             r = InvoicePosted(b, total, 0, link)
      PROVE  Onto(b, r)
  <2>1. 0 \in Nat /\ Carried(b, Len(b.invoices) + 1) <= total
      BY NothingYet
  <2>. QED  BY <1>0, <1>1, <1>3, <2>1, InvoicePostedWithin
<1>4. ASSUME NEW d \in DOMAIN b.invoices, NEW amount \in Amount,
             r = NotePosted(b, d, amount)
      PROVE  Onto(b, r)
    BY <1>4, NoteOnto
<1>5. ASSUME NEW s \in DOMAIN b.settlements, NEW d \in DOMAIN b.invoices,
             NEW amount \in Amount, ApplicationAccepted(b, s, d, amount),
             r = Applied(b, s, d, amount)
      PROVE  Onto(b, r)
  <2>1. amount \in Nat \ {0}
      BY ReceivablesConstants
  <2>. QED  BY <1>5, <2>1, AppliedOnto DEF ApplicationAccepted, Effective
<1>6. CASE ReverseStep(b, r)
    BY <1>6, ReverseStepIs
<1>7. CASE CancelStep(b, r)
    BY <1>0, <1>1, <1>7, CancelStepWithin
<1>8. CASE ReplaceStep(b, r)
    BY <1>1, <1>2, <1>8, ReplaceStepWithin
<1>. QED  BY <1>3, <1>4, <1>5, <1>6, <1>7, <1>8 DEF Step

\* What two steps keep, both together keep.
LEMMA KeptTransitive ==
    ASSUME NEW b \in BooksType, NEW c \in BooksType, NEW r \in BooksType,
           Kept(b, c), Kept(c, r)
    PROVE  Kept(b, r)
<1>1. /\ Len(b.cheques) \in Nat /\ Len(c.cheques) \in Nat /\ Len(r.cheques) \in Nat
    BY DEF BooksType
<1>2. Len(b.cheques) <= Len(r.cheques)
    BY <1>1 DEF Kept
<1>. QED  BY <1>2 DEF Kept, SameRow

\* Every transaction keeps the books sound, and all rows.
LEMMA StepSound ==
    ASSUME NEW b, Sound(b), Tidy(b), Len(b.invoices) <= MaxInvoices,
           NEW r, Step(b, r)
    PROVE  Sound(r) /\ Kept(b, r)
<1>. DEFINE X == {c \in BooksType : Sound(c) /\ Kept(b, c)}
<1>1. b \in X
    BY OntoItself DEF Onto, Sound
<1>2. Within(X)
  <2>1. ASSUME NEW c \in X, NEW e, Sound(c), Move(c, e)
        PROVE  e \in X
    <3>1. Sound(e) /\ Kept(c, e)
        BY <2>1, MoveKept
    <3>2. Kept(b, e)
        BY <3>1, KeptTransitive DEF Sound
    <3>. QED  BY <3>1, <3>2 DEF Sound
  <2>. QED  BY <2>1 DEF Within
<1>3. r \in X
  <2>. HIDE DEF X
  <2>. QED  BY <1>1, <1>2, StepWithin
<1>. QED  BY <1>3

\* Every transaction leaves them tidy.
LEMMA StepTidy ==
    ASSUME NEW b, Sound(b), Tidy(b), Len(b.invoices) <= MaxInvoices,
           NEW r, Step(b, r)
    PROVE  Tidy(r)
<1>1. Uncorrected(r)
  <2>. DEFINE X == {c \in BooksType : Uncorrected(c)}
  <2>1. b \in X
      BY DEF Sound, Tidy
  <2>2. Within(X)
      BY MoveKept, MoveUncorrected DEF Within, Sound
  <2>3. r \in X
    <3>. HIDE DEF X
    <3>. QED  BY <2>1, <2>2, StepWithin
  <2>. QED  BY <2>3
<1>2. Kept(b, r)
    BY StepSound
<1>3. CASE ReplaceStep(b, r)
  <2>. DEFINE X == {c \in BooksType : Sound(c)}
  <2>1. b \in X /\ Within(X)
      BY MoveKept DEF Within, Sound
  <2>. HIDE DEF X
  <2>. QED  BY <1>1, <1>3, <2>1, ReplaceStepWithin DEF Tidy
<1>4. CASE ~ReplaceStep(b, r)
  <2>. DEFINE X == {e \in BooksType : e.carries = b.carries}
  <2>1. b \in X /\ PlainWithin(X)
      BY SameCarriesWithin DEF Sound
  <2>2. r \in X
    <3>. HIDE DEF X
    <3>. QED  BY <1>4, <2>1, PlainStepWithin
  <2>. QED  BY <1>1, <1>2, <2>2 DEF Tidy, Kept
<1>. QED  BY <1>3, <1>4

-----------------------------------------------------------------------------
(* The actions are the transactions.                                       *)

\* The tables of the books are the variables.
LEMMA BooksTables ==
    /\ Books.invoices = invoices /\ Books.notes = notes
    /\ Books.settlements = settlements /\ Books.applications = applications
    /\ Books.carries = carries /\ Books.cheques = cheques
    /\ Books.accounts = accounts
BY DEF Books

\* A reversal by hand of an invoice's journal, as the exchange of its row.
LEMMA TurnIs ==
    ASSUME NEW b \in BooksType, NEW d \in DOMAIN b.invoices,
           NEW sign, sign = IF InForce(b.invoices[d]) THEN -1 ELSE 1,
           NEW amount, amount = sign * b.invoices[d].total,
           NEW c, c = [b EXCEPT !.invoices[d].reversals = @ + 1]
    PROVE  Journal(c, amount, 0, 0, -amount)
              = InvoiceSet(b, d, Turn(b.invoices[d]), Flip(b.invoices[d]))
<1>1. b.invoices[d].total \in Nat /\ b.invoices \in Seq(Invoice)
    BY OutstandingType DEF BooksType
<1>2. amount = Flip(b.invoices[d])
    BY <1>1 DEF Flip
<1>3. c = [b EXCEPT !.invoices = [b.invoices EXCEPT ![d].reversals = @ + 1]]
    BY DEF BooksType
<1>4. [b.invoices EXCEPT ![d].reversals = @ + 1]
        = [b.invoices EXCEPT ![d] = Turn(b.invoices[d])]
    BY <1>1 DEF Turn
<1>. QED  BY <1>2, <1>3, <1>4 DEF InvoiceSet

\* The same of a credit note.
LEMMA NoteTurnIs ==
    ASSUME NEW b \in BooksType, NEW n \in DOMAIN b.notes,
           NEW sign, sign = IF InForce(b.notes[n]) THEN 1 ELSE -1,
           NEW amount, amount = sign * b.notes[n].total,
           NEW c, c = [b EXCEPT !.notes[n].reversals = @ + 1]
    PROVE  Journal(c, amount, 0, 0, -amount)
              = NoteSet(b, n, Turn(b.notes[n]), -Flip(b.notes[n]))
<1>1. b.notes[n] \in Note /\ b.notes \in Seq(Note)
  <2>1. b.notes \in Seq(Note)
      BY DEF BooksType
  <2>. QED  BY <2>1
<1>2. b.notes[n].total \in Nat
    BY <1>1, ReceivablesConstants DEF Note
<1>3. amount = -Flip(b.notes[n])
    BY <1>2 DEF Flip
<1>4. c = [b EXCEPT !.notes = [b.notes EXCEPT ![n].reversals = @ + 1]]
    BY DEF BooksType
<1>5. [b.notes EXCEPT ![n].reversals = @ + 1]
        = [b.notes EXCEPT ![n] = Turn(b.notes[n])]
    BY <1>1 DEF Turn
<1>. QED  BY <1>3, <1>4, <1>5 DEF NoteSet

\* The payments that an action offers.
LEMMA AllocationsOffered ==
    ASSUME NEW allocations \in Allocations
    PROVE  RowOffered(Books, "CUSTOMER_RECEIPT", Sum(allocations), allocations)
<1>1. {d \in DOMAIN invoices : Outstanding(Books, d) > 0} \subseteq DOMAIN Books.invoices
    BY BooksTables
<1>. QED  BY <1>1 DEF Allocations, RowOffered

\* Every step commits what a transaction makes of the books.
LEMMA StepTaken ==
    ASSUME Sound(Books), Next
    PROVE  \E r : Step(Books, r) /\ Commit(r)
<1>0. Books \in BooksType
    BY DEF Sound
<1>1. ASSUME NEW total \in Amount, NEW link \in BOOLEAN, PostInvoice(total, link)
      PROVE  \E r : Step(Books, r) /\ Commit(r)
    BY <1>1 DEF PostInvoice, Step
<1>2. ASSUME NEW d \in DOMAIN invoices, NEW amount \in Amount,
             PostCreditNote(d, amount)
      PROVE  \E r : Step(Books, r) /\ Commit(r)
    BY <1>2, BooksTables DEF PostCreditNote, Step
<1>3. ASSUME NEW allocations \in Allocations, ReceivePayment(allocations)
      PROVE  \E r : Step(Books, r) /\ Commit(r)
  <2>. DEFINE r == SettlementPosted(WithPayment(Books,
                      Pending("CUSTOMER_RECEIPT", Sum(allocations), allocations, 0)),
                      Len(Books.settlements) + 1)
  <2>1. AllocationsAccepted(Books, allocations) /\ Commit(r)
      BY <1>3, BooksTables DEF ReceivePayment, WithPayment
  <2>2. PaymentStep(Books, r)
      BY <2>1, AllocationsOffered DEF PaymentStep
  <2>. QED  BY <2>1, <2>2 DEF Step
<1>4. ASSUME NEW amount \in Amount, ReceiveAdvance(amount)
      PROVE  \E r : Step(Books, r) /\ Commit(r)
  <2>. DEFINE r == SettlementPosted(WithPayment(Books,
                      Pending("CUSTOMER_ADVANCE", amount, <<>>, 0)),
                      Len(Books.settlements) + 1)
  <2>1. Commit(r)
      BY <1>4, BooksTables DEF ReceiveAdvance, WithPayment
  <2>2. /\ RowOffered(Books, "CUSTOMER_ADVANCE", amount, <<>>)
        /\ AllocationsAccepted(Books, <<>>)
      BY DEF RowOffered, AllocationsAccepted
  <2>3. PaymentStep(Books, r)
      BY <2>2 DEF PaymentStep
  <2>. QED  BY <2>1, <2>3 DEF Step
<1>5. ASSUME NEW type \in {"CUSTOMER_RECEIPT", "CUSTOMER_ADVANCE"},
             NEW amount, NEW allocations,
             RowOffered(Books, type, amount, allocations),
             RecordCheque(type, amount, allocations)
      PROVE  \E r : Step(Books, r) /\ Commit(r)
  <2>. DEFINE r == WithCheque(Books, Pending(type, amount, allocations,
                                             Len(Books.cheques) + 1))
  <2>1. AllocationsAccepted(Books, allocations) /\ Commit(r)
      BY <1>5, BooksTables DEF RecordCheque, WithCheque
  <2>2. PaymentStep(Books, r)
      BY <1>5, <2>1 DEF PaymentStep
  <2>. QED  BY <2>1, <2>2 DEF Step
<1>6. ASSUME NEW s \in DOMAIN settlements, NEW d \in DOMAIN invoices,
             NEW amount \in Amount, ApplyAdvance(s, d, amount)
      PROVE  \E r : Step(Books, r) /\ Commit(r)
    BY <1>6, BooksTables DEF ApplyAdvance, Step
<1>7. ASSUME NEW d \in DOMAIN invoices, CancelSale(d)
      PROVE  \E r : Step(Books, r) /\ Commit(r)
    BY <1>7, BooksTables DEF CancelSale, Step, CancelStep
<1>8. ASSUME NEW d \in DOMAIN invoices, ReplaceSale(d)
      PROVE  \E r : Step(Books, r) /\ Commit(r)
    BY <1>8, BooksTables DEF ReplaceSale, Step, ReplaceStep
<1>9. ASSUME NEW d \in DOMAIN invoices, ReverseInvoiceJournal(d)
      PROVE  \E r : Step(Books, r) /\ Commit(r)
  <2>. DEFINE sign == IF InForce(invoices[d]) THEN -1 ELSE 1
              amount == sign * invoices[d].total
              c == [Books EXCEPT !.invoices[d].reversals = @ + 1]
              r == InvoiceSet(Books, d, Turn(Books.invoices[d]), Flip(Books.invoices[d]))
  <2>1. /\ invoices[d].reversals < MaxReversals /\ ~InvoicePinned(d)
        /\ Commit(Journal(c, amount, 0, 0, -amount))
      BY <1>9 DEF ReverseInvoiceJournal
  <2>2. /\ d \in DOMAIN Books.invoices /\ c = [Books EXCEPT !.invoices[d].reversals = @ + 1]
        /\ sign = IF InForce(Books.invoices[d]) THEN -1 ELSE 1
        /\ amount = sign * Books.invoices[d].total
      BY BooksTables
  <2>. HIDE DEF sign, amount, c
  <2>3. Journal(c, amount, 0, 0, -amount) = r
      BY <1>0, <2>2, TurnIs
  <2>4. ReverseStep(Books, r)
      BY <2>1, BooksTables DEF ReverseStep, InvoicePinned
  <2>. QED  BY <2>1, <2>3, <2>4 DEF Step
<1>10. ASSUME NEW n \in DOMAIN notes, ReverseNoteJournal(n)
      PROVE  \E r : Step(Books, r) /\ Commit(r)
  <2>. DEFINE sign == IF InForce(notes[n]) THEN 1 ELSE -1
              amount == sign * notes[n].total
              c == [Books EXCEPT !.notes[n].reversals = @ + 1]
              r == NoteSet(Books, n, Turn(Books.notes[n]), -Flip(Books.notes[n]))
  <2>1. /\ notes[n].reversals < MaxReversals /\ ~NotePinned(n)
        /\ Commit(Journal(c, amount, 0, 0, -amount))
      BY <1>10 DEF ReverseNoteJournal
  <2>2. /\ n \in DOMAIN Books.notes /\ c = [Books EXCEPT !.notes[n].reversals = @ + 1]
        /\ sign = IF InForce(Books.notes[n]) THEN 1 ELSE -1
        /\ amount = sign * Books.notes[n].total
      BY BooksTables
  <2>. HIDE DEF sign, amount, c
  <2>3. Journal(c, amount, 0, 0, -amount) = r
      BY <1>0, <2>2, NoteTurnIs
  <2>4. ReverseStep(Books, r)
      BY <2>1, BooksTables DEF ReverseStep, NotePinned
  <2>. QED  BY <2>1, <2>3, <2>4 DEF Step
<1>11. ASSUME NEW q \in DOMAIN cheques, ClearCheque(q)
      PROVE  \E r : Step(Books, r) /\ Commit(r)
    BY <1>11, BooksTables DEF ClearCheque, Step, ClearStep
<1>12. ASSUME NEW q \in DOMAIN cheques,
              NEW status \in {"RECEIVED", "BOUNCED", "CANCELLED"},
              ReturnCheque(q, status)
      PROVE  \E r : Step(Books, r) /\ Commit(r)
    BY <1>12, BooksTables DEF ReturnCheque, Step, ReturnStep
<1>13. ASSUME NEW allocations \in Allocations,
              RecordCheque("CUSTOMER_RECEIPT", Sum(allocations), allocations)
      PROVE  \E r : Step(Books, r) /\ Commit(r)
    BY <1>5, <1>13, AllocationsOffered
<1>14. ASSUME NEW amount \in Amount, RecordCheque("CUSTOMER_ADVANCE", amount, <<>>)
      PROVE  \E r : Step(Books, r) /\ Commit(r)
  <2>1. RowOffered(Books, "CUSTOMER_ADVANCE", amount, <<>>)
      BY DEF RowOffered
  <2>. QED  BY <1>5, <1>14, <2>1
<1>15. CASE Adding
    BY <1>1, <1>2, <1>3, <1>4, <1>6, <1>7, <1>8, <1>9, <1>10, <1>13, <1>14, <1>15
       DEF Adding
<1>. QED  BY <1>11, <1>12, <1>15 DEF Next

-----------------------------------------------------------------------------
(* The inductive invariant, and the properties it implies.                 *)

\* What a transaction commits are the books after it.
LEMMA CommitIs ==
    ASSUME NEW r \in BooksType, Commit(r)
    PROVE  Books' = r /\ Len(r.invoices) <= MaxInvoices
BY DEF Commit, Books, BooksType

\* The books before the first transaction.
LEMMA EmptyBooks ==
    ASSUME Init
    PROVE  /\ Books \in BooksType
           /\ DOMAIN Books.invoices = {} /\ DOMAIN Books.notes = {}
           /\ DOMAIN Books.settlements = {} /\ DOMAIN Books.applications = {}
           /\ DOMAIN Books.carries = {} /\ DOMAIN Books.cheques = {}
           /\ Due(Books) = 0
<1>1. /\ invoices \in Seq(Invoice) /\ notes \in Seq(Note)
      /\ settlements \in Seq(Settlement) /\ applications \in Seq(Application)
      /\ carries \in Seq(Carry) /\ cheques \in Seq(Cheque)
      /\ accounts \in [Account -> Int]
    BY DEF Init
<1>2. Books \in BooksType
    BY <1>1 DEF Books, BooksType
<1>3. Due(Books) = 0
    BY DEF Due, Books, Init, Account
<1>. QED  BY <1>2, <1>3, BooksTables DEF Init

\* The invariant holds of them.
LEMMA IInvInit == Init => IInv
<1> SUFFICES ASSUME Init PROVE IInv
    OBVIOUS
<1>1. Linked(Books) /\ Honoured(Books) /\ Tidy(Books)
    BY EmptyBooks DEF Linked, Honoured, Tidy, Uncorrected
<1>2. MaxInvoices \in Nat
    BY ReceivablesConstants
<1>3. Len(invoices) = 0
    BY DEF Init
<1>. QED  BY <1>1, <1>2, <1>3, EmptyBooks DEF IInv, Sound

\* A step leads from the books to those a transaction makes of them.
LEMMA NextIs ==
    ASSUME IInv, Next
    PROVE  /\ Step(Books, Books') /\ Sound(Books') /\ Kept(Books, Books')
           /\ Tidy(Books') /\ Len(Books'.invoices) <= MaxInvoices
<1>1. Sound(Books) /\ Tidy(Books) /\ Len(Books.invoices) <= MaxInvoices
    BY BooksTables DEF IInv
<1>2. PICK r : Step(Books, r) /\ Commit(r)
    BY <1>1, StepTaken
<1>3. Sound(r) /\ Kept(Books, r) /\ Tidy(r)
    BY <1>1, <1>2, StepSound, StepTidy
<1>4. r \in BooksType
    BY <1>3 DEF Sound
<1>5. Books' = r /\ Len(r.invoices) <= MaxInvoices
    BY <1>2, <1>4, CommitIs
<1>. QED  BY <1>2, <1>3, <1>5

\* A step keeps the books in a set that no call leads out of.
LEMMA NextWithin ==
    ASSUME IInv, [Next]_vars, NEW X, Books \in X, Within(X)
    PROVE  Books' \in X
<1>1. Sound(Books) /\ Tidy(Books) /\ Len(Books.invoices) <= MaxInvoices
    BY BooksTables DEF IInv
<1>2. CASE Next
  <2>1. Step(Books, Books')
      BY <1>2, NextIs
  <2>. QED  BY <1>1, <2>1, StepWithin
<1>3. CASE UNCHANGED vars
    BY <1>3 DEF vars, Books
<1>. QED  BY <1>2, <1>3

\* A step keeps the invariant.
LEMMA IInvNext == IInv /\ [Next]_vars => IInv'
<1> SUFFICES ASSUME IInv, [Next]_vars PROVE IInv'
    OBVIOUS
<1>1. CASE Next
  <2>1. Sound(Books') /\ Tidy(Books') /\ Len(Books'.invoices) <= MaxInvoices
      BY <1>1, NextIs
  <2>2. Books'.invoices = invoices'
      BY DEF Books
  <2>. QED  BY <2>1, <2>2 DEF IInv
<1>2. CASE UNCHANGED vars
  <2>1. Books' = Books /\ invoices' = invoices
      BY <1>2 DEF vars, Books
  <2>. QED  BY <2>1 DEF IInv
<1>. QED  BY <1>1, <1>2

\* The books stay sound: the rows are of their types, and what they refer to
\* is there, through all corrections.
THEOREM SoundBooks == Spec => []IInv
BY IInvInit, IInvNext, PTL DEF Spec

\* All tables keep their types: no payment of nothing is recorded, no credit
\* of nothing is made, and no advance is drawn below zero.
THEOREM ReceivablesTypes == Spec => []TypeOK
<1>1. IInv => TypeOK
    BY BooksTables DEF IInv, Sound, BooksType, TypeOK
<1>. QED  BY <1>1, SoundBooks, PTL

\* A posted return keeps its value through all revisions of its sale.
THEOREM ReturnsKeepTheirValue == Spec => []ReturnsHonoured
<1>1. IInv => ReturnsHonoured
  <2> SUFFICES ASSUME Honoured(Books) PROVE ReturnsHonoured
      BY DEF IInv, Sound
  <2> SUFFICES ASSUME NEW n \in DOMAIN notes
               PROVE  LET mine == {c \in DOMAIN carries : carries[c].note = n}
                      IN  mine # {} =>
                            \E last \in mine :
                                /\ \A c \in mine : c <= last
                                /\ carries[last].applied + ExcessOf(Books, n)
                                     = notes[n].total
      BY DEF ReturnsHonoured
  <2>1. HonouredNote(Books, n)
      BY BooksTables DEF Honoured
  <2>2. CarriesOf(Books, n) = {c \in DOMAIN carries : carries[c].note = n}
      BY BooksTables DEF CarriesOf
  <2>. QED  BY <2>1, <2>2, BooksTables DEF HonouredNote
<1>. QED  BY <1>1, SoundBooks, PTL

-----------------------------------------------------------------------------
(* A cheque is money while it is cleared, and once.                        *)

\* Steps that leave payments and cheques alone keep this so.
LEMMA OntoCounts ==
    ASSUME NEW b, Sound(b), ChequesCount(b), NEW r, Onto(b, r)
    PROVE  ChequesCount(r)
<1>1. b.cheques \in Seq(Cheque) /\ r.cheques = b.cheques
    BY DEF Sound, BooksType, Onto, Steady
<1>2. DOMAIN b.cheques \subseteq Nat \ {0}
    BY ONLY <1>1, TableRows
<1>3. \A s \in DOMAIN b.settlements :
        /\ r.settlements[s].cheque = b.settlements[s].cheque
        /\ r.settlements[s].status = b.settlements[s].status
    BY DEF Onto, Kept, SameRow, Steady
<1>4. \A s \in DOMAIN r.settlements \ DOMAIN b.settlements :
            r.settlements[s].cheque = 0
    BY DEF Onto, Steady
<1>. QED  BY <1>1, <1>2, <1>3, <1>4 DEF ChequesCount, ChequeCounts, Effective

\* A payment recorded and still pending does not count.
LEMMA RecordedCounts ==
    ASSUME NEW b, Sound(b), ChequesCount(b), NEW r, NEW row, Recorded(b, r, row),
           \A q \in DOMAIN r.cheques :
              IF q \in DOMAIN b.cheques
              THEN /\ r.cheques[q].status = b.cheques[q].status
                   /\ \/ r.cheques[q].settlement = b.cheques[q].settlement
                      \/ b.cheques[q].status # "CLEARED"
              ELSE r.cheques[q].status # "CLEARED"
    PROVE  ChequesCount(r)
<1>. DEFINE k == Len(b.settlements) + 1
<1>1. row.status = "PENDING_CHEQUE"
    BY OfferedLinked
<1>2. /\ DOMAIN r.settlements = DOMAIN b.settlements \cup {k}
      /\ r.settlements[k] = row /\ k \notin DOMAIN b.settlements
      /\ \A s \in DOMAIN b.settlements : r.settlements[s] = b.settlements[s]
  <2>1. b.settlements \in Seq(Settlement) /\ r.settlements = Append(b.settlements, row)
      BY DEF Sound, BooksType, Recorded
  <2>. QED  BY ONLY <2>1, RowAdded
<1>. HIDE DEF k
<1>3. b.cheques \in Seq(Cheque) /\ Linked(b)
    BY DEF Sound, BooksType
<1>4. \A s \in DOMAIN b.settlements : b.settlements[s].cheque \in 0..Len(b.cheques)
    BY <1>3 DEF Linked, RowLinked
<1>5. DOMAIN b.cheques = 1..Len(b.cheques) /\ Len(b.cheques) \in Nat
    BY ONLY <1>3, TableRows
<1>6. r.cheques \in Seq(Cheque)
    BY DEF Recorded, BooksType
<1>7. DOMAIN r.cheques \subseteq Nat \ {0}
    BY ONLY <1>6, TableRows
<1>8. ASSUME NEW q \in DOMAIN r.cheques
      PROVE  ChequeCounts(r, q)
  <2>1. CASE q \in DOMAIN b.cheques
    <3>1. ChequeCounts(b, q) /\ ChequeLinked(b, q)
        BY <1>3, <2>1 DEF ChequesCount, Linked
    <3>. QED  BY <1>1, <1>2, <2>1, <3>1 DEF ChequeCounts, ChequeLinked, Effective
  <2>2. CASE q \notin DOMAIN b.cheques
    <3>1. \A s \in DOMAIN b.settlements : b.settlements[s].cheque # q
        BY <1>4, <1>5, <1>7, <2>2
    <3>. QED  BY <1>1, <1>2, <2>2, <3>1 DEF ChequeCounts, Effective
  <2>. QED  BY <2>1, <2>2
<1>. QED  BY <1>8 DEF ChequesCount

\* A payment recorded or posted without a cheque.
LEMMA PaymentStepCounts ==
    ASSUME NEW b, Sound(b), Len(b.invoices) <= MaxInvoices, ChequesCount(b),
           NEW r, PaymentStep(b, r)
    PROVE  ChequesCount(r)
<1>. PICK type, amount, allocations :
        /\ type \in {"CUSTOMER_RECEIPT", "CUSTOMER_ADVANCE"}
        /\ RowOffered(b, type, amount, allocations)
        /\ AllocationsAccepted(b, allocations)
        /\ \/ r = SettlementPosted(WithPayment(b, Pending(type, amount, allocations, 0)),
                                   Len(b.settlements) + 1)
           \/ r = WithCheque(b, Pending(type, amount, allocations,
                                        Len(b.cheques) + 1))
    BY DEF PaymentStep
<1>1. ASSUME NEW q
      PROVE  Offered(b, Pending(type, amount, allocations, q), q)
    BY RowOfferedIs
<1>2. b.settlements \in Seq(Settlement) /\ b.cheques \in Seq(Cheque)
    BY DEF Sound, BooksType
<1>3. CASE r = SettlementPosted(WithPayment(b, Pending(type, amount, allocations, 0)),
                                   Len(b.settlements) + 1)
  <2>. DEFINE row == Pending(type, amount, allocations, 0)
              c == WithPayment(b, row)
              k == Len(b.settlements) + 1
  <2>0. row.status = "PENDING_CHEQUE" /\ row.cheque = 0 /\ row.origin = <<>>
      BY DEF Pending
  <2>1. Offered(b, row, 0)
      BY <1>1
  <2>2. c.cheques = b.cheques
      BY DEF WithPayment, Sound, BooksType
  <2>. HIDE DEF row, c
  <2>3. Recorded(b, c, row)
      BY <2>1, PaymentIsRecorded DEF c
  <2>4. ChequesCount(c)
      BY <2>2, <2>3, RecordedCounts
  <2>5. Sound(c)
    <3>1. Move(b, c)
        BY <2>3 DEF Move, PlainMove, PaymentMove
    <3>. QED  BY <3>1, MoveKept
  <2>6. k \in DOMAIN c.settlements /\ c.settlements[k] = row
    <3>1. c.settlements = Append(b.settlements, row)
        BY <2>3 DEF Recorded
    <3>2. /\ DOMAIN Append(b.settlements, row) = DOMAIN b.settlements \cup {k}
          /\ Append(b.settlements, row)[k] = row
        BY ONLY <1>2, RowAdded
    <3>. QED  BY <3>1, <3>2
  <2>. HIDE DEF k
  <2>7. r = SettlementPosted(c, k)
      BY <1>3 DEF c, k, row
  <2>8. Turned(c, r, k)
      BY <2>0, <2>5, <2>6, <2>7, PostedSound
  <2>9. c.cheques \in Seq(Cheque)
      BY <2>5 DEF Sound, BooksType
  <2>10. 0 \notin DOMAIN c.cheques
    <3>1. DOMAIN c.cheques \subseteq Nat \ {0}
        BY ONLY <2>9, TableRows
    <3>. QED  BY <3>1
  <2>. QED  BY <2>0, <2>4, <2>6, <2>8, <2>10
            DEF ChequesCount, ChequeCounts, Turned, SameBut, SameRow, Effective
<1>4. CASE r = WithCheque(b, Pending(type, amount, allocations, Len(b.cheques) + 1))
  <2>. DEFINE q == Len(b.cheques) + 1
              row == Pending(type, amount, allocations, q)
              cheque == [status |-> "RECEIVED", settlement |-> Len(b.settlements) + 1]
              u == Append(b.cheques, cheque)
  <2>1. Offered(b, row, q)
      BY <1>1
  <2>2. q \in Nat \ {0} /\ Len(b.settlements) + 1 \in Nat /\ Len(b.cheques) \in Nat
      BY <1>2
  <2>3. /\ cheque \in Cheque /\ cheque.settlement = Len(b.settlements) + 1
        /\ cheque.status = "RECEIVED"
      BY <2>2 DEF Cheque
  <2>4. r = [b EXCEPT !.settlements = Append(b.settlements, row), !.cheques = u]
      BY <1>4 DEF WithCheque, Sound, BooksType
  <2>. HIDE DEF row, cheque
  <2>5. /\ u \in Seq(Cheque)
        /\ DOMAIN u = DOMAIN b.cheques \cup {q} /\ q \notin DOMAIN b.cheques
        /\ Len(u) = Len(b.cheques) + 1
        /\ u[q] = cheque
        /\ \A p \in DOMAIN b.cheques : u[p] = b.cheques[p]
    <3>1. /\ DOMAIN u = DOMAIN b.cheques \cup {Len(b.cheques) + 1}
          /\ Len(b.cheques) + 1 \notin DOMAIN b.cheques
          /\ Len(u) = Len(b.cheques) + 1
          /\ u[Len(b.cheques) + 1] = cheque
          /\ \A p \in DOMAIN b.cheques : u[p] = b.cheques[p]
        BY ONLY <1>2, RowAdded
    <3>2. u \in Seq(Cheque)
        BY <1>2, <2>3
    <3>. QED  BY <3>1, <3>2
  <2>. HIDE DEF q, u
  <2>6. /\ Len(b.cheques) <= Len(u) /\ q \in DOMAIN u
        /\ u[q].settlement = Len(b.settlements) + 1
        /\ \A p \in DOMAIN u : p # q => p \in DOMAIN b.cheques
                                        /\ u[p].settlement = b.cheques[p].settlement
      BY <2>2, <2>3, <2>5
  <2>7. u \in Seq(Cheque)
      BY <2>5
  <2>8. Recorded(b, r, row)
      BY ONLY Sound(b), <2>1, <2>2, <2>4, <2>6, <2>7, ChequeIsRecorded
  <2>9. r.cheques = u
      BY <2>4 DEF Sound, BooksType
  <2>. QED  BY <2>3, <2>5, <2>8, <2>9, RecordedCounts
<1>. QED  BY <1>3, <1>4

\* A cheque that is cleared, perhaps after it has been presented again.
LEMMA ClearStepCounts ==
    ASSUME NEW b, Sound(b), ChequesCount(b), NEW r, ClearStep(b, r)
    PROVE  ChequesCount(r)
<1>1. PICK q \in DOMAIN b.cheques :
        LET c == Presented(b, q)
            s == c.cheques[q].settlement
        IN  /\ b.cheques[q].status = "RECEIVED"
            /\ c.settlements[s].status = "PENDING_CHEQUE"
            /\ r = [SettlementPosted(c, s) EXCEPT !.cheques[q].status = "CLEARED"]
    BY DEF ClearStep
<1>. DEFINE X == {c \in BooksType : Sound(c)}
<1>2. b \in X /\ Within(X)
    BY MoveKept DEF Within, Sound
<1>. HIDE DEF X
<1>. DEFINE c == Presented(b, q)
            s == c.cheques[q].settlement
            e == SettlementPosted(c, s)
<1>3. /\ c.settlements[s].status = "PENDING_CHEQUE"
      /\ b.cheques[q].status = "RECEIVED"
      /\ r = [e EXCEPT !.cheques[q].status = "CLEARED"]
    BY <1>1
<1>4. c = Presented(b, q) /\ s = c.cheques[q].settlement /\ e = SettlementPosted(c, s)
    OBVIOUS
<1>. HIDE DEF c, s, e
<1>5. /\ Sound(c) /\ q \in DOMAIN c.cheques
      /\ c.cheques[q].status = b.cheques[q].status
      /\ s \in DOMAIN c.settlements
      /\ \/ c = b
         \/ /\ \E row : Recorded(b, c, row)
            /\ DOMAIN c.cheques = DOMAIN b.cheques
            /\ \A p \in DOMAIN b.cheques :
                   /\ c.cheques[p].status = b.cheques[p].status
                   /\ p # q => c.cheques[p].settlement = b.cheques[p].settlement
  <2>. DEFINE z == Presented(b, q)
  <2>1. /\ z \in X /\ Sound(z)
        /\ q \in DOMAIN z.cheques
        /\ z.cheques[q].status = b.cheques[q].status
        /\ z.cheques[q].settlement \in DOMAIN z.settlements
        /\ \/ z = b
           \/ /\ \E row : Recorded(b, z, row)
              /\ DOMAIN z.cheques = DOMAIN b.cheques
              /\ \A p \in DOMAIN b.cheques :
                     /\ z.cheques[p].status = b.cheques[p].status
                     /\ p # q => z.cheques[p].settlement = b.cheques[p].settlement
      BY <1>2, WithinPlain, PresentedWithin
  <2>. HIDE DEF z
  <2>2. z = c
      BY <1>4 DEF z
  <2>. QED  BY <1>4, <2>1, <2>2
<1>6. ChequesCount(c)
  <2>1. CASE c = b
      BY <2>1
  <2>2. CASE c # b
    <3>1. PICK row : Recorded(b, c, row)
        BY <1>5, <2>2
    <3>2. \A p \in DOMAIN c.cheques :
              IF p \in DOMAIN b.cheques
              THEN /\ c.cheques[p].status = b.cheques[p].status
                   /\ \/ c.cheques[p].settlement = b.cheques[p].settlement
                      \/ b.cheques[p].status # "CLEARED"
              ELSE c.cheques[p].status # "CLEARED"
        BY <1>3, <1>5, <2>2
    <3>. QED  BY <3>1, <3>2, RecordedCounts
  <2>. QED  BY <2>1, <2>2
<1>7. c.settlements[s].cheque = q /\ c.settlements[s].origin = <<>>
  <2>1. Linked(c)
      BY <1>5 DEF Sound
  <2>2. c.settlements[s].cheque = q
      BY <1>4, <1>5, <2>1 DEF Linked, ChequeLinked
  <2>3. RowStatus(c.settlements[s])
      BY <1>5, <2>1 DEF Linked
  <2>. QED  BY <1>3, <2>2, <2>3 DEF RowStatus
<1>8. Sound(e) /\ Turned(c, e, s) /\ e.settlements[s].status = "POSTED"
    BY <1>3, <1>4, <1>5, <1>7, PostedSound
<1>9. e.cheques = c.cheques
    BY <1>8 DEF Turned, SameBut
<1>10. r = ChequeSet(e, q, "CLEARED")
    BY <1>3, <1>5, <1>8, <1>9, ChequeSetIs
<1>11. /\ SameBut(r, e, {"cheques"})
       /\ DOMAIN r.cheques = DOMAIN e.cheques
       /\ r.cheques[q].status = "CLEARED"
       /\ \A p \in DOMAIN e.cheques :
                    /\ r.cheques[p].settlement = e.cheques[p].settlement
                    /\ p # q => r.cheques[p] = e.cheques[p]
    BY <1>5, <1>8, <1>9, <1>10, ChequeSetSound
<1>12. r.settlements = e.settlements
    BY <1>11 DEF SameBut
<1>13. ASSUME NEW p \in DOMAIN r.cheques, NEW t \in DOMAIN r.settlements,
              r.settlements[t].cheque = p
       PROVE  Effective(r, t) <=> /\ r.cheques[p].status = "CLEARED"
                                  /\ t = r.cheques[p].settlement
  <2>1. /\ p \in DOMAIN c.cheques /\ t \in DOMAIN c.settlements
        /\ c.settlements[t].cheque = p
        /\ t # s => r.settlements[t] = c.settlements[t]
      BY <1>8, <1>9, <1>11, <1>12, <1>13 DEF Turned, SameRow
  <2>2. Effective(c, t) <=> /\ c.cheques[p].status = "CLEARED"
                            /\ t = c.cheques[p].settlement
      BY <1>6, <2>1 DEF ChequesCount, ChequeCounts
  <2>3. CASE t = s
      BY <1>4, <1>7, <1>8, <1>9, <1>11, <1>12, <2>1, <2>3 DEF Effective
  <2>4. CASE t # s
      BY <1>3, <1>4, <1>5, <1>7, <1>9, <1>11, <2>1, <2>2, <2>4 DEF Effective
  <2>. QED  BY <2>3, <2>4
<1>. QED  BY <1>13 DEF ChequesCount, ChequeCounts

\* A cheque that is returned: its payment is taken back.
LEMMA ReturnStepCounts ==
    ASSUME NEW b, Sound(b), ChequesCount(b), NEW r, ReturnStep(b, r)
    PROVE  ChequesCount(r)
<1>1. PICK q \in DOMAIN b.cheques, status \in {"RECEIVED", "BOUNCED", "CANCELLED"} :
        r = [Returned(b, q) EXCEPT !.cheques[q].status = status]
    BY DEF ReturnStep
<1>. DEFINE s == b.cheques[q].settlement
            e == Returned(b, q)
<1>2. b.cheques \in Seq(Cheque) /\ Linked(b)
    BY DEF Sound, BooksType
<1>3. /\ s \in DOMAIN b.settlements /\ b.settlements[s].cheque = q
      /\ b.settlements[s].origin = <<>>
  <2>1. ChequeLinked(b, q)
      BY <1>2 DEF Linked
  <2>2. q # 0
    <3>1. DOMAIN b.cheques \subseteq Nat \ {0}
        BY ONLY <1>2, TableRows
    <3>. QED  BY <3>1
  <2>3. RowLinked(b, b.settlements[s])
      BY <1>2, <2>1 DEF Linked, ChequeLinked
  <2>. QED  BY <2>1, <2>2, <2>3 DEF ChequeLinked, RowLinked
<1>4. /\ Sound(e) /\ e.cheques = b.cheques
      /\ DOMAIN e.settlements = DOMAIN b.settlements
      /\ e.settlements[s].status # "POSTED"
      /\ \A t \in DOMAIN b.settlements :
            /\ SameRow(b.settlements[t], e.settlements[t])
            /\ t # s => e.settlements[t] = b.settlements[t]
  <2>1. CASE b.settlements[s].status = "POSTED"
    <3>1. e = SettlementReversed(b, s)
        BY <2>1 DEF Returned
    <3>. HIDE DEF s, e
    <3>2. Turned(b, e, s) /\ Sound(e) /\ e.settlements[s].status = "REVERSED"
        BY <1>3, <3>1, ReversedSound
    <3>. QED  BY <3>2 DEF Turned, SameBut
  <2>2. CASE b.settlements[s].status # "POSTED"
      BY <2>2 DEF Returned, SameRow
  <2>. QED  BY <2>1, <2>2
<1>5. r = [e EXCEPT !.cheques[q].status = status] /\ s = b.cheques[q].settlement
    BY <1>1
<1>. HIDE DEF e, s
<1>6. status \in {"RECEIVED", "CLEARED", "BOUNCED", "CANCELLED"} /\ q \in DOMAIN e.cheques
    BY <1>4
<1>7. r = ChequeSet(e, q, status)
    BY ONLY <1>4, <1>5, <1>6, ChequeSetIs
<1>8. /\ SameBut(r, e, {"cheques"})
      /\ DOMAIN r.cheques = DOMAIN e.cheques
      /\ r.cheques[q].status = status
      /\ \A p \in DOMAIN e.cheques :
                    /\ r.cheques[p].settlement = e.cheques[p].settlement
                    /\ p # q => r.cheques[p] = e.cheques[p]
    BY <1>4, <1>6, <1>7, ChequeSetSound
<1>9. r.settlements = e.settlements
    BY <1>8 DEF SameBut
<1>10. ASSUME NEW p \in DOMAIN r.cheques, NEW t \in DOMAIN r.settlements,
              r.settlements[t].cheque = p
       PROVE  Effective(r, t) <=> /\ r.cheques[p].status = "CLEARED"
                                  /\ t = r.cheques[p].settlement
  <2>1. /\ p \in DOMAIN b.cheques /\ t \in DOMAIN b.settlements
        /\ b.settlements[t].cheque = p
        /\ t # s => r.settlements[t] = b.settlements[t]
      BY <1>4, <1>8, <1>9, <1>10 DEF SameRow
  <2>2. Effective(b, t) <=> /\ b.cheques[p].status = "CLEARED"
                            /\ t = b.cheques[p].settlement
      BY <2>1 DEF ChequesCount, ChequeCounts
  <2>3. CASE t = s
      BY <1>3, <1>4, <1>8, <1>9, <2>1, <2>3 DEF Effective
  <2>4. CASE t # s
      BY <1>3, <1>4, <1>5, <1>8, <1>9, <2>1, <2>2, <2>4 DEF Effective
  <2>. QED  BY <2>3, <2>4
<1>. QED  BY <1>10 DEF ChequesCount, ChequeCounts

\* All transactions keep the cheques so.
LEMMA StepCounts ==
    ASSUME NEW b, Sound(b), Tidy(b), Len(b.invoices) <= MaxInvoices,
           ChequesCount(b),
           NEW r, Step(b, r)
    PROVE  ChequesCount(r)
<1>1. CASE PaymentStep(b, r)
    BY <1>1, PaymentStepCounts
<1>2. CASE ClearStep(b, r)
    BY <1>2, ClearStepCounts
<1>3. CASE ReturnStep(b, r)
    BY <1>3, ReturnStepCounts
<1>4. CASE ~PaymentStep(b, r) /\ ~ClearStep(b, r) /\ ~ReturnStep(b, r)
  <2>1. Onto(b, r)
      BY <1>4, StepOnto
  <2>. QED  BY <2>1, OntoCounts
<1>. QED  BY <1>1, <1>2, <1>3, <1>4

\* A cheque counts as money exactly while it is CLEARED, and once.
THEOREM ChequesPayOnce == Spec => []ChequePaysOnce
<1>. DEFINE Inv == IInv /\ ChequesCount(Books)
<1>1. Init => Inv
  <2>1. Init => ChequesCount(Books)
      BY EmptyBooks DEF ChequesCount
  <2>. QED  BY <2>1, IInvInit
<1>2. Inv /\ [Next]_vars => Inv'
  <2> SUFFICES ASSUME Inv, [Next]_vars PROVE ChequesCount(Books')
      BY IInvNext
  <2>1. CASE Next
    <3>1. Step(Books, Books')
        BY <2>1, NextIs
    <3>2. Sound(Books) /\ Tidy(Books) /\ Len(Books.invoices) <= MaxInvoices
        BY BooksTables DEF IInv
    <3>. QED  BY <3>1, <3>2, StepCounts
  <2>2. CASE UNCHANGED vars
      BY <2>2 DEF vars, Books
  <2>. QED  BY <2>1, <2>2
<1>3. Inv => ChequePaysOnce
  <2> SUFFICES ASSUME Sound(Books), ChequesCount(Books), NEW q \in DOMAIN cheques
               PROVE  {s \in DOMAIN settlements :
                         settlements[s].cheque = q /\ Effective(Books, s)}
                        = IF cheques[q].status = "CLEARED"
                          THEN {cheques[q].settlement} ELSE {}
      BY DEF ChequePaysOnce, IInv
  <2>1. ChequeCounts(Books, q) /\ ChequeLinked(Books, q)
      BY BooksTables DEF ChequesCount, Sound, Linked
  <2>. QED  BY <2>1, BooksTables DEF ChequeCounts, ChequeLinked
<1>. HIDE DEF Inv
<1>. QED  BY <1>1, <1>2, <1>3, PTL DEF Spec

-----------------------------------------------------------------------------
(* The party balance.                                                      *)

\* A document more, or another row of one, in the totals.
LEMMA InForceTotal ==
    ASSUME NEW Docs, Docs \in {Invoice, Note}, NEW q \in Seq(Docs)
    PROVE  /\ Total(InForceTotals(q)) \in Int
           /\ \A e \in Docs : Total(InForceTotals(Append(q, e)))
                = Total(InForceTotals(q)) + (IF InForce(e) THEN e.total ELSE 0)
           /\ \A u \in Seq(Docs), d \in DOMAIN q :
                /\ DOMAIN u = DOMAIN q
                /\ \A i \in DOMAIN q : i # d => u[i] = q[i]
                => Total(InForceTotals(u)) = Total(InForceTotals(q))
                        + (IF InForce(u[d]) THEN u[d].total ELSE 0)
                        - (IF InForce(q[d]) THEN q[d].total ELSE 0)
<1>1. \A e \in Docs : e.total \in Int
  <2>0. \A amount \in Amount : amount \in Int
      BY ReceivablesConstants
  <2>1. \A e \in Invoice : e.total \in Int
      BY ONLY <2>0 DEF Invoice
  <2>2. \A e \in Note : e.total \in Int
      BY ONLY <2>0 DEF Note
  <2>3. Docs = Invoice \/ Docs = Note
      OBVIOUS
  <2>. QED  BY ONLY <2>1, <2>2, <2>3
<1>2. /\ Len(q) \in Nat /\ DOMAIN q = 1..Len(q) /\ IsFiniteSet(DOMAIN q)
      /\ \A i \in DOMAIN q : q[i] \in Docs
    BY ONLY q \in Seq(Docs), TableRows
<1>3. /\ \A i \in DOMAIN q : InForceTotals(q)[i] \in Int
      /\ DOMAIN InForceTotals(q) = DOMAIN q
    BY <1>1, <1>2 DEF InForceTotals
<1>4. Total(InForceTotals(q)) \in Int
    BY <1>2, <1>3, SumInt DEF Total
<1>5. ASSUME NEW e \in Docs
      PROVE  Total(InForceTotals(Append(q, e)))
                = Total(InForceTotals(q)) + (IF InForce(e) THEN e.total ELSE 0)
  <2>. DEFINE u == Append(q, e)
              n == Len(q)
              f == InForceTotals(q)
              g == InForceTotals(u)
  <2>1. /\ DOMAIN u = DOMAIN q \cup {n + 1} /\ u[n + 1] = e
        /\ \A i \in DOMAIN q : u[i] = q[i]
      BY ONLY q \in Seq(Docs), RowAdded
  <2>2. DOMAIN u = 1..(n + 1)
      BY <1>2, <2>1
  <2>. HIDE DEF u
  <2>3. DOMAIN f = 1..n /\ DOMAIN g = 1..(n + 1)
      BY <1>2, <2>2 DEF InForceTotals
  <2>4. \A k \in 1..n : f[k] \in Int /\ g[k] = f[k]
      BY <1>2, <1>3, <2>1 DEF InForceTotals
  <2>5. g[n + 1] = (IF InForce(e) THEN e.total ELSE 0) /\ g[n + 1] \in Int
      BY <1>1, <2>1 DEF InForceTotals
  <2>6. n \in Nat
      BY <1>2
  <2>. HIDE DEF f, g, n
  <2>7. Total(g) = Total(f) + g[n + 1]
      BY ONLY <2>3, <2>4, <2>5, <2>6, TotalAppend
  <2>. QED  BY <2>5, <2>7 DEF f, g, u
<1>6. ASSUME NEW u \in Seq(Docs), NEW d \in DOMAIN q, DOMAIN u = DOMAIN q,
             \A i \in DOMAIN q : i # d => u[i] = q[i]
      PROVE  Total(InForceTotals(u)) = Total(InForceTotals(q))
                        + (IF InForce(u[d]) THEN u[d].total ELSE 0)
                        - (IF InForce(q[d]) THEN q[d].total ELSE 0)
  <2>. DEFINE S == DOMAIN q
              f == InForceTotals(q)
              g == InForceTotals(u)
  <2>1. \A i \in DOMAIN u : u[i] \in Docs
      BY ONLY u \in Seq(Docs), TableRows
  <2>2. /\ IsFiniteSet(S) /\ DOMAIN f = S /\ DOMAIN g = S /\ d \in S
        /\ \A i \in S : f[i] \in Int
        /\ \A i \in S : g[i] \in Int
        /\ \A i \in S : i # d => f[i] = g[i]
      BY <1>1, <1>2, <1>6, <2>1 DEF InForceTotals
  <2>3. /\ g[d] = (IF InForce(u[d]) THEN u[d].total ELSE 0)
        /\ f[d] = (IF InForce(q[d]) THEN q[d].total ELSE 0)
      BY <1>6 DEF InForceTotals
  <2>. HIDE DEF S, f, g
  <2>4. Total(g) = Total(f) + (g[d] - f[d]) /\ Total(f) \in Int /\ Total(g) \in Int
      BY ONLY <2>2, TotalChange
  <2>5. f[d] \in Int /\ g[d] \in Int
      BY <2>2
  <2>6. Total(g) = Total(f) + g[d] - f[d]
      BY <2>4, <2>5
  <2>. QED  BY <2>3, <2>6 DEF f, g
<1>. QED  BY <1>4, <1>5, <1>6

\* The values are whole numbers.
LEMMA ReceivedType ==
    ASSUME NEW row \in Settlement
    PROVE  Received1(row) \in Int
<1>1. row.amount \in Nat /\ DiscountOf(row) \in Nat
    BY AllocationsType DEF Settlement
<1>. QED  BY <1>1 DEF Received1

\* Such a discount is a natural number.
LEMMA TakenType ==
    ASSUME NEW t \in Seq(Settlement), NEW row, TakenLinked(t, row)
    PROVE  Taken1(t, row) \in Nat
<1>1. CASE row.origin # <<>> /\ row.origin[1] = "RECEIPT"
  <2>1. t[row.origin[2]] \in Settlement
      BY <1>1 DEF TakenLinked
  <2>2. t[row.origin[2]].allocations[row.origin[3]].discount \in Nat
      BY <1>1, <2>1, AllocationsType DEF TakenLinked
  <2>. QED  BY <1>1, <2>2 DEF Taken1
<1>2. CASE ~(row.origin # <<>> /\ row.origin[1] = "RECEIPT")
    BY <1>2 DEF Taken1
<1>. QED  BY <1>1, <1>2

\* The origins of credits in sound books are rows there.
LEMMA TakenSound ==
    ASSUME NEW b, Sound(b)
    PROVE  \A s \in DOMAIN b.settlements : TakenLinked(b.settlements, b.settlements[s])
BY DEF Sound, Linked, RowLinked, OriginLinked, TakenLinked

\* A payment more in the totals.
LEMMA PaymentAppended ==
    ASSUME NEW b, Sound(b), NEW row \in Settlement,
           TakenLinked(b.settlements, row),
           NEW u, u = Append(b.settlements, row)
    PROVE  /\ Total(ReceivedBy(u))
                = Total(ReceivedBy(b.settlements)) + Received1(row)
           /\ Total(TakenBy(u))
                = Total(TakenBy(b.settlements)) + Taken1(b.settlements, row)
<1>. DEFINE t == b.settlements
            n == Len(t)
<1>1. t \in Seq(Settlement)
    BY DEF Sound, BooksType
<1>2. /\ n \in Nat /\ DOMAIN t = 1..n
      /\ \A s \in DOMAIN t : t[s] \in Settlement
    BY ONLY <1>1, TableRows
<1>3. /\ DOMAIN u = DOMAIN t \cup {n + 1} /\ u[n + 1] = row
      /\ \A s \in DOMAIN t : u[s] = t[s]
  <2>1. /\ DOMAIN Append(t, row) = DOMAIN t \cup {n + 1}
        /\ Append(t, row)[n + 1] = row
        /\ \A s \in DOMAIN t : Append(t, row)[s] = t[s]
      BY ONLY <1>1, RowAdded
  <2>. QED  BY <2>1
<1>4. DOMAIN u = 1..(n + 1)
    BY <1>2, <1>3
<1>5. \A s \in DOMAIN t : TakenLinked(t, t[s])
    BY TakenSound
<1>. HIDE DEF t, n
<1>6. Total(ReceivedBy(u)) = Total(ReceivedBy(t)) + Received1(row)
  <2>. DEFINE f == ReceivedBy(t)
              g == ReceivedBy(u)
  <2>1. DOMAIN f = 1..n /\ DOMAIN g = 1..(n + 1)
      BY <1>2, <1>4 DEF ReceivedBy
  <2>2. \A k \in 1..n : f[k] \in Int /\ g[k] = f[k]
    <3>1. \A k \in 1..n : f[k] = Received1(t[k]) /\ g[k] = Received1(u[k])
        BY <1>2, <1>3 DEF ReceivedBy, Received1
    <3>. QED  BY <1>2, <1>3, <3>1, ReceivedType
  <2>3. g[n + 1] = Received1(row) /\ g[n + 1] \in Int
    <3>1. g[n + 1] = Received1(row)
        BY <1>3 DEF ReceivedBy, Received1
    <3>. QED  BY <3>1, ReceivedType
  <2>. HIDE DEF f, g
  <2>4. Total(g) = Total(f) + g[n + 1]
      BY ONLY <1>2, <2>1, <2>2, <2>3, TotalAppend
  <2>. QED  BY <2>3, <2>4 DEF f, g
<1>7. Total(TakenBy(u)) = Total(TakenBy(t)) + Taken1(t, row)
  <2>. DEFINE f == TakenBy(t)
              g == TakenBy(u)
  <2>1. DOMAIN f = 1..n /\ DOMAIN g = 1..(n + 1)
      BY <1>2, <1>4 DEF TakenBy
  <2>2. \A k \in 1..n : f[k] \in Int /\ g[k] = f[k]
    <3>1. \A k \in 1..n : f[k] = Taken1(t, t[k])
        BY <1>2 DEF TakenBy, Taken1
    <3>2. \A k \in 1..n : g[k] = Taken1(t, t[k])
        BY <1>2, <1>3, <1>5 DEF TakenBy, Taken1, TakenLinked
    <3>3. \A k \in 1..n : Taken1(t, t[k]) \in Int
      <4>1. \A k \in 1..n : Taken1(t, t[k]) \in Nat
          BY <1>1, <1>2, <1>5, TakenType DEF t
      <4>. QED  BY <4>1
    <3>. QED  BY <3>1, <3>2, <3>3
  <2>3. g[n + 1] = Taken1(t, row) /\ g[n + 1] \in Int
    <3>1. TakenLinked(t, row)
        BY DEF t
    <3>2. g[n + 1] = Taken1(t, row)
        BY <1>3, <3>1 DEF TakenBy, Taken1, TakenLinked
    <3>3. Taken1(t, row) \in Nat
        BY <1>1, <3>1, TakenType DEF t
    <3>. QED  BY <3>2, <3>3
  <2>. HIDE DEF f, g
  <2>4. Total(g) = Total(f) + g[n + 1]
      BY ONLY <1>2, <2>1, <2>2, <2>3, TotalAppend
  <2>. QED  BY <2>3, <2>4 DEF f, g
<1>. QED  BY <1>6, <1>7 DEF t

\* A payment that changes its status or what remains of it.
LEMMA PaymentTurned ==
    ASSUME NEW b, Sound(b), NEW s \in DOMAIN b.settlements,
           NEW u, u \in Seq(Settlement), DOMAIN u = DOMAIN b.settlements,
           \A x \in DOMAIN u :
                /\ SameRow(b.settlements[x], u[x])
                /\ x # s => u[x].status = b.settlements[x].status
    PROVE  /\ Total(ReceivedBy(u)) = Total(ReceivedBy(b.settlements))
                + (Received1(u[s]) - Received1(b.settlements[s]))
           /\ Total(TakenBy(u)) = Total(TakenBy(b.settlements))
<1>. DEFINE t == b.settlements
            S == DOMAIN t
<1>1. t \in Seq(Settlement)
    BY DEF Sound, BooksType
<1>2. IsFiniteSet(S) /\ \A x \in S : t[x] \in Settlement
    BY ONLY <1>1, TableRows
<1>3. \A x \in S : u[x] \in Settlement
    BY ONLY u \in Seq(Settlement), DOMAIN u = DOMAIN b.settlements, TableRows
<1>4. \A x \in S : TakenLinked(t, t[x])
    BY TakenSound
<1>5. DOMAIN u = S /\ s \in S /\ \A x \in S : SameRow(t[x], u[x])
    OBVIOUS
<1>6. \A x \in S : x # s => u[x].status = t[x].status
    OBVIOUS
<1>7. \A x \in S : DiscountOf(u[x]) = DiscountOf(t[x])
    BY <1>5 DEF SameRow, DiscountOf
<1>. HIDE DEF S, t
<1>8. Total(ReceivedBy(u)) = Total(ReceivedBy(t)) + (Received1(u[s]) - Received1(t[s]))
  <2>. DEFINE f == ReceivedBy(t)
              g == ReceivedBy(u)
  <2>1. \A x \in S : f[x] = Received1(t[x]) /\ g[x] = Received1(u[x])
      BY <1>5 DEF ReceivedBy, Received1, S
  <2>2. DOMAIN f = S /\ DOMAIN g = S
      BY <1>5 DEF ReceivedBy, S
  <2>. HIDE DEF f, g
  <2>3. /\ \A x \in S : f[x] \in Int
        /\ \A x \in S : g[x] \in Int
      BY <1>2, <1>3, <2>1, ReceivedType
  <2>4. \A x \in S : x # s => f[x] = g[x]
      BY <1>5, <1>6, <1>7, <2>1 DEF SameRow, Received1
  <2>5. Total(g) = Total(f) + (g[s] - f[s])
      BY ONLY <1>2, <1>5, <2>2, <2>3, <2>4, TotalChange
  <2>. QED  BY <1>5, <2>1, <2>5 DEF f, g
<1>9. Total(TakenBy(u)) = Total(TakenBy(t))
  <2>. DEFINE f == TakenBy(t)
              g == TakenBy(u)
  <2>1. \A x \in S : f[x] = Taken1(t, t[x])
      BY DEF TakenBy, Taken1, S
  <2>2. \A x \in S : g[x] = Taken1(t, t[x])
      BY <1>4, <1>5 DEF TakenBy, Taken1, TakenLinked, SameRow, S
  <2>3. DOMAIN f = S /\ DOMAIN g = S
      BY <1>5 DEF TakenBy, S
  <2>4. \A x \in S : f[x] \in Int
    <3>1. \A x \in S : Taken1(t, t[x]) \in Nat
        BY <1>1, <1>4, TakenType DEF t
    <3>. QED  BY <2>1, <3>1
  <2>. HIDE DEF f, g
  <2>5. \A x \in S : f[x] = g[x]
      BY <2>1, <2>2
  <2>6. Total(g) = Total(f)
      BY ONLY <1>2, <2>3, <2>4, <2>5, TotalSame
  <2>. QED  BY <2>6 DEF f, g
<1>. QED  BY <1>8, <1>9 DEF t

\* r are books b with one settlement more, and a discount taken back
CreditAdded(b, r, row, given) ==
    /\ r \in BooksType
    /\ SameBut(r, b, {"settlements"})
    /\ r.settlements = Append(b.settlements, row)
    /\ Due(r) = Due(b) + given

\* A credit is such an addition.
LEMMA CreditMade ==
    ASSUME NEW b \in BooksType, NEW origin \in Origin,
           NEW gross \in Nat, NEW given \in Nat, given < gross,
           NEW r, r = Credit(b, origin, gross, given)
    PROVE  CreditAdded(b, r, Advance(gross - given, origin, 0), given)
<1>. DEFINE q == Credit(b, origin, gross, given)
            row == Advance(gross - given, origin, 0)
<1>1. /\ q \in BooksType
      /\ SameBut(q, b, {"settlements"})
      /\ q.settlements = Append(b.settlements, row)
      /\ Due(q) = Due(b) + given
    BY CreditIs
<1>2. r = q
    OBVIOUS
<1>. HIDE DEF q, row
<1>3. CreditAdded(b, r, row, given)
    BY <1>1, <1>2 DEF CreditAdded
<1>. QED  BY <1>3 DEF row

\* The credit that is made of a receipt.
LEMMA ReceiptCredit ==
    ASSUME NEW b, Sound(b), NEW d, NEW s \in EffectiveAllocations(b, d),
           NEW gross, gross = b.settlements[s].allocations[d].amount,
           NEW given, given = b.settlements[s].allocations[d].discount,
           NEW r, r = ReceiptStep(b, s, b, d)
    PROVE  /\ CreditAdded(b, r, Advance(gross - given, <<"RECEIPT", s, d>>, 0), given)
           /\ Advance(gross - given, <<"RECEIPT", s, d>>, 0) \in Settlement
           /\ gross \in Nat /\ given \in Nat /\ given < gross
           /\ s \in DOMAIN b.settlements /\ d \in DOMAIN b.settlements[s].allocations
<1>. DEFINE origin == <<"RECEIPT", s, d>>
<1>1. b \in BooksType /\ Linked(b)
    BY DEF Sound
<1>2. s \in DOMAIN b.settlements /\ d \in DOMAIN b.settlements[s].allocations
    BY DEF EffectiveAllocations
<1>3. b.settlements[s] \in Settlement /\ s \in Nat
  <2>1. b.settlements \in Seq(Settlement)
      BY <1>1 DEF BooksType
  <2>. QED  BY <1>2, <2>1, TableRows
<1>4. gross \in Nat /\ given \in Nat /\ d \in Nat
    BY <1>2, <1>3, AllocationsType
<1>5. given < gross
    BY <1>1, <1>2 DEF Linked, RowLinked
<1>6. origin \in Origin
    BY <1>3, <1>4 DEF Origin
<1>7. r = Credit(b, origin, gross, given)
    BY DEF ReceiptStep
<1>8. gross - given \in Nat \ {0}
    BY <1>4, <1>5
<1>. HIDE DEF origin
<1>9. CreditAdded(b, r, Advance(gross - given, origin, 0), given)
    BY ONLY <1>1, <1>4, <1>5, <1>6, <1>7, CreditMade
<1>10. Advance(gross - given, origin, 0) \in Settlement
    BY <1>6, <1>8, AdvanceType
<1>. QED  BY <1>2, <1>4, <1>5, <1>9, <1>10 DEF origin

\* The credit that is made of an application.
LEMMA ApplicationCredit ==
    ASSUME NEW b, Sound(b), NEW d, NEW x \in EffectiveApplications(b, d),
           NEW gross, gross = b.applications[x].amount,
           NEW r, r = ApplicationStep(b, x, b)
    PROVE  /\ CreditAdded(b, r, Advance(gross, <<"APPLICATION", x>>, 0), 0)
           /\ Advance(gross, <<"APPLICATION", x>>, 0) \in Settlement
           /\ gross \in Nat \ {0}
           /\ x \in DOMAIN b.applications
<1>. DEFINE origin == <<"APPLICATION", x>>
<1>1. b \in BooksType
    BY DEF Sound
<1>2. x \in DOMAIN b.applications
    BY DEF EffectiveApplications
<1>3. b.applications[x] \in Application /\ x \in Nat
  <2>1. b.applications \in Seq(Application)
      BY <1>1 DEF BooksType
  <2>. QED  BY <1>2, <2>1, TableRows
<1>4. gross \in Nat \ {0} /\ gross - 0 = gross
    BY <1>3 DEF Application
<1>5. origin \in Origin
    BY <1>3 DEF Origin
<1>6. r = Credit(b, origin, gross, 0)
    BY DEF ApplicationStep
<1>. HIDE DEF origin
<1>7. CreditAdded(b, r, Advance(gross - 0, origin, 0), 0)
  <2>1. 0 \in Nat /\ 0 < gross /\ gross \in Nat
      BY <1>4
  <2>. QED  BY ONLY <1>1, <1>5, <1>6, <2>1, CreditMade
<1>8. Advance(gross, origin, 0) \in Settlement
    BY <1>4, <1>5, AdvanceType
<1>. QED  BY <1>2, <1>4, <1>7, <1>8 DEF origin

\* All sums of the balance are whole numbers.
LEMMA BalanceType ==
    ASSUME NEW b, Sound(b)
    PROVE  /\ Total(InForceTotals(b.invoices)) \in Int
           /\ Total(InForceTotals(b.notes)) \in Int
           /\ Total(ReceivedBy(b.settlements)) \in Int
           /\ Total(TakenBy(b.settlements)) \in Int
           /\ Due(b) \in Int
<1>1. /\ b.invoices \in Seq(Invoice) /\ b.notes \in Seq(Note)
      /\ b.settlements \in Seq(Settlement)
    BY DEF Sound, BooksType
<1>2. /\ Total(InForceTotals(b.invoices)) \in Int
      /\ Total(InForceTotals(b.notes)) \in Int
  <2>1. Invoice \in {Invoice, Note} /\ Note \in {Invoice, Note}
      OBVIOUS
  <2>. QED  BY ONLY <1>1, <2>1, InForceTotal
<1>. DEFINE t == b.settlements
            f == ReceivedBy(t)
            g == TakenBy(t)
<1>3. IsFiniteSet(DOMAIN t) /\ \A s \in DOMAIN t : t[s] \in Settlement
    BY ONLY <1>1, TableRows
<1>4. \A s \in DOMAIN t : TakenLinked(t, t[s])
    BY TakenSound
<1>. HIDE DEF t
<1>5. /\ \A s \in DOMAIN t : f[s] \in Int
      /\ \A s \in DOMAIN t : g[s] \in Int
      /\ DOMAIN f = DOMAIN t /\ DOMAIN g = DOMAIN t
  <2>1. \A s \in DOMAIN t : f[s] = Received1(t[s]) /\ g[s] = Taken1(t, t[s])
      BY DEF ReceivedBy, TakenBy, Received1, Taken1
  <2>2. \A s \in DOMAIN t : Taken1(t, t[s]) \in Nat
      BY <1>1, <1>4, TakenType DEF t
  <2>. QED  BY <1>3, <2>1, <2>2, ReceivedType DEF ReceivedBy, TakenBy
<1>. HIDE DEF f, g
<1>6. Total(f) \in Int /\ Total(g) \in Int
    BY <1>3, <1>5, SumInt DEF Total
<1>7. Due(b) \in Int
    BY DEF Due, Sound, BooksType, Account
<1>. QED  BY <1>2, <1>6, <1>7 DEF f, g, t

\* Credits keep the balance: what they take back of discounts is due again.
LEMMA CreditBalanced ==
    ASSUME NEW b, Sound(b), Balanced(b), NEW r, NEW row \in Settlement,
           row.origin # <<>>, TakenLinked(b.settlements, row),
           NEW given, given = Taken1(b.settlements, row),
           CreditAdded(b, r, row, given)
    PROVE  Balanced(r)
<1>1. Received1(row) = 0
    BY DEF Received1
<1>2. /\ Total(ReceivedBy(r.settlements)) = Total(ReceivedBy(b.settlements)) + 0
      /\ Total(TakenBy(r.settlements)) = Total(TakenBy(b.settlements)) + given
    BY <1>1, PaymentAppended DEF CreditAdded
<1>3. /\ r.invoices = b.invoices /\ r.notes = b.notes /\ Due(r) = Due(b) + given
    BY DEF CreditAdded, SameBut
<1>4. given \in Int
  <2>1. b.settlements \in Seq(Settlement)
      BY DEF Sound, BooksType
  <2>2. given \in Nat
      BY <2>1, TakenType
  <2>. QED  BY <2>2
<1>. QED  BY <1>2, <1>3, <1>4, BalanceType DEF Balanced

\* Documents entered or reversed change the balance by their totals.
LEMMA DocumentBalanced ==
    ASSUME NEW b, Sound(b), Balanced(b), NEW r, NEW i \in Int, NEW n \in Int,
           r.settlements = b.settlements,
           Total(InForceTotals(r.invoices)) = Total(InForceTotals(b.invoices)) + i,
           Total(InForceTotals(r.notes)) = Total(InForceTotals(b.notes)) + n,
           Due(r) = Due(b) + (i - n)
    PROVE  Balanced(r)
BY BalanceType DEF Balanced

\* A row of the invoices, or of the notes, in another state of its journal.
LEMMA RowTotals ==
    ASSUME NEW Docs, Docs \in {Invoice, Note}, NEW q \in Seq(Docs),
           NEW u \in Seq(Docs), NEW d \in DOMAIN q, NEW row, u[d] = row,
           row.total = q[d].total, DOMAIN u = DOMAIN q,
           \A i \in DOMAIN q : i # d => u[i] = q[i]
    PROVE  /\ InForce(row) = InForce(q[d]) =>
                Total(InForceTotals(u)) = Total(InForceTotals(q)) + 0
           /\ InForce(row) # InForce(q[d]) =>
                Total(InForceTotals(u)) = Total(InForceTotals(q)) + Flip(q[d])
<1>1. Total(InForceTotals(q)) \in Int
    BY ONLY Docs \in {Invoice, Note}, q \in Seq(Docs), InForceTotal
<1>2. Total(InForceTotals(u)) = Total(InForceTotals(q))
                        + (IF InForce(u[d]) THEN u[d].total ELSE 0)
                        - (IF InForce(q[d]) THEN q[d].total ELSE 0)
    BY InForceTotal
<1>3. q[d].total \in Int
  <2>1. q[d] \in Docs
      OBVIOUS
  <2>2. \A amount \in Amount : amount \in Int
      BY ReceivablesConstants
  <2>3. \A e \in Invoice \cup Note : e.total \in Int
      BY ONLY <2>2 DEF Invoice, Note
  <2>. QED  BY <2>1, <2>3
<1>4. InForce(row) \in BOOLEAN /\ InForce(q[d]) \in BOOLEAN
    BY DEF InForce
<1>. QED  BY <1>1, <1>2, <1>3, <1>4 DEF Flip

\* One more reversal turns the effect of a document's journal around.
LEMMA TurnFlips ==
    \A doc \in Invoice \cup Note : InForce(Turn(doc)) # InForce(doc)
<1>1. MaxReversals \in Nat
    BY ReceivablesConstants
<1>2. \A doc \in Invoice \cup Note :
            doc.reversals \in Nat /\ Turn(doc).reversals = doc.reversals + 1
    BY <1>1 DEF Turn, Invoice, Note
<1>. QED  BY <1>2 DEF InForce

\* Notes that are posted or reversed keep the balance.
LEMMA NoteBalanced ==
    ASSUME NEW b, Sound(b), Balanced(b), NEW r, NoteMove(b, r)
    PROVE  Balanced(r)
<1>1. b \in BooksType /\ b.notes \in Seq(Note)
    BY DEF Sound, BooksType
<1>2. Note \in {Invoice, Note}
    OBVIOUS
<1>3. ASSUME NEW d \in DOMAIN b.invoices, NEW amount \in Amount,
             r = NotePosted(b, d, amount)
      PROVE  Balanced(r)
  <2>. DEFINE q == NotePosted(b, d, amount)
              row == [source |-> d, total |-> amount, reversals |-> 0]
  <2>1. d \in Nat /\ amount \in Int
    <3>1. b.invoices \in Seq(Invoice)
        BY <1>1 DEF BooksType
    <3>. QED  BY <3>1, TableRows, ReceivablesConstants
  <2>2. /\ SameBut(q, b, {"notes"})
        /\ q.notes = Append(b.notes, row)
        /\ Due(q) = Due(b) - amount
      BY <1>1, <2>1, NoteIs
  <2>3. row \in Note /\ row.total = amount /\ InForce(row)
      BY <2>1, ReceivablesConstants DEF Note, InForce
  <2>. HIDE DEF row, q
  <2>4. Total(InForceTotals(q.notes)) = Total(InForceTotals(b.notes)) + amount
    <3>1. Total(InForceTotals(Append(b.notes, row)))
            = Total(InForceTotals(b.notes)) + (IF InForce(row) THEN row.total ELSE 0)
        BY ONLY <1>1, <1>2, <2>3, InForceTotal
    <3>. QED  BY <2>2, <2>3, <3>1
  <2>5. q.settlements = b.settlements /\ q.invoices = b.invoices
      BY <2>2 DEF SameBut
  <2>6. /\ 0 \in Int /\ Due(q) = Due(b) + (0 - amount)
        /\ Total(InForceTotals(q.invoices)) = Total(InForceTotals(b.invoices)) + 0
      BY <2>1, <2>2, <2>5, BalanceType
  <2>7. Balanced(q)
      BY <2>1, <2>4, <2>5, <2>6, DocumentBalanced
  <2>. QED  BY <1>3, <2>7 DEF q
<1>4. ASSUME NEW n \in DOMAIN b.notes, b.notes[n].reversals <= MaxReversals,
             r = NoteSet(b, n, Turn(b.notes[n]), -Flip(b.notes[n]))
      PROVE  Balanced(r)
  <2>. DEFINE row == Turn(b.notes[n])
              amount == -Flip(b.notes[n])
  <2>1. b.notes[n] \in Note
      BY <1>1
  <2>2. /\ row \in Note /\ row.total = b.notes[n].total
        /\ row.source = b.notes[n].source
        /\ InForce(row) # InForce(b.notes[n])
        /\ Flip(b.notes[n]) \in Int
      BY <1>4, <2>1, TurnType, TurnFlips
  <2>3. amount \in Int /\ 0 - Flip(b.notes[n]) = amount
      BY <2>2
  <2>4. r = NoteSet(b, n, row, amount)
      BY <1>4
  <2>. HIDE DEF row, amount
  <2>5. Onto(b, r) /\ NoteRow(b, r, n, row) /\ Due(r) = Due(b) + amount
      BY ONLY <2>2, <2>3, <2>4, Sound(b), n \in DOMAIN b.notes, NoteSetRow
  <2>6. r.notes \in Seq(Note)
      BY <2>5 DEF Onto, Sound, BooksType
  <2>7. Total(InForceTotals(r.notes))
            = Total(InForceTotals(b.notes)) + Flip(b.notes[n])
      BY <1>1, <1>2, <2>2, <2>5, <2>6, RowTotals DEF NoteRow
  <2>8. r.settlements = b.settlements /\ r.invoices = b.invoices
      BY <2>5 DEF NoteRow, SameBut
  <2>9. /\ 0 \in Int /\ Due(r) = Due(b) + (0 - Flip(b.notes[n]))
        /\ Total(InForceTotals(r.invoices)) = Total(InForceTotals(b.invoices)) + 0
      BY <2>3, <2>5, <2>8, BalanceType
  <2>. QED  BY <2>2, <2>7, <2>8, <2>9, DocumentBalanced
<1>. QED  BY <1>3, <1>4 DEF NoteMove

\* An invoice entered keeps it.
LEMMA EntryBalanced ==
    ASSUME NEW b, Sound(b), Balanced(b), NEW total \in Amount, NEW previous \in Nat,
           NEW r, r = InvoiceEntered(b, total, previous)
    PROVE  Balanced(r)
<1>. DEFINE q == InvoiceEntered(b, total, previous)
            row == [total |-> total, reversals |-> 0, state |-> "LIVE",
                    correction |-> 0, previous |-> previous]
<1>1. b \in BooksType /\ b.invoices \in Seq(Invoice)
    BY DEF Sound, BooksType
<1>2. total \in Int
    BY ReceivablesConstants
<1>3. /\ SameBut(q, b, {"invoices"})
      /\ q.invoices = Append(b.invoices, row)
      /\ Due(q) = Due(b) + total
    BY <1>1, InvoiceIs
<1>4. row \in Invoice /\ row.total = total /\ InForce(row)
    BY ReceivablesConstants DEF Invoice, InForce
<1>5. Invoice \in {Invoice, Note}
    OBVIOUS
<1>. HIDE DEF row, q
<1>6. Total(InForceTotals(q.invoices)) = Total(InForceTotals(b.invoices)) + total
  <2>1. Total(InForceTotals(Append(b.invoices, row)))
          = Total(InForceTotals(b.invoices)) + (IF InForce(row) THEN row.total ELSE 0)
      BY ONLY <1>1, <1>4, <1>5, InForceTotal
  <2>. QED  BY <1>3, <1>4, <2>1
<1>7. q.settlements = b.settlements /\ q.notes = b.notes
    BY <1>3 DEF SameBut
<1>8. /\ 0 \in Int /\ Due(q) = Due(b) + (total - 0)
      /\ Total(InForceTotals(q.notes)) = Total(InForceTotals(b.notes)) + 0
    BY <1>2, <1>3, <1>7, BalanceType
<1>9. Balanced(q)
    BY <1>2, <1>6, <1>7, <1>8, DocumentBalanced
<1>. QED  BY <1>9 DEF q

\* An invoice retired keeps it, and one whose journal is reversed.
LEMMA InvoiceBalanced ==
    ASSUME NEW b, Sound(b), Balanced(b), NEW r, InvoiceMove(b, r)
    PROVE  Balanced(r)
<1>1. b.invoices \in Seq(Invoice) /\ Invoice \in {Invoice, Note}
    BY DEF Sound, BooksType
<1>2. PICK d \in DOMAIN b.invoices :
        \/ \E state \in {"CANCELLED", "REVISED"}, correction \in Nat :
              r = InvoiceSet(b, d, [b.invoices[d] EXCEPT !.state = state,
                                                         !.correction = correction], 0)
        \/ /\ b.invoices[d].reversals <= MaxReversals
           /\ r = InvoiceSet(b, d, Turn(b.invoices[d]), Flip(b.invoices[d]))
    BY DEF InvoiceMove
<1>3. b.invoices[d] \in Invoice
    BY <1>1
<1>4. Flip(b.invoices[d]) \in Int
    BY <1>3, TurnType
<1>5. ASSUME NEW row \in Invoice, row.total = b.invoices[d].total,
             NEW amount \in Int, r = InvoiceSet(b, d, row, amount),
             IF InForce(row) = InForce(b.invoices[d]) THEN amount = 0
                                             ELSE amount = Flip(b.invoices[d])
      PROVE  Balanced(r)
  <2>1. Onto(b, r) /\ InvoiceRow(b, r, d, row) /\ Due(r) = Due(b) + amount
      BY <1>5, InvoiceSetRow
  <2>2. r.invoices \in Seq(Invoice)
      BY <2>1 DEF Onto, Sound, BooksType
  <2>3. Total(InForceTotals(r.invoices)) = Total(InForceTotals(b.invoices)) + amount
      BY <1>1, <1>5, <2>1, <2>2, RowTotals DEF InvoiceRow
  <2>4. r.settlements = b.settlements /\ r.notes = b.notes
      BY <2>1 DEF InvoiceRow, SameBut
  <2>5. /\ 0 \in Int /\ Due(r) = Due(b) + (amount - 0)
        /\ Total(InForceTotals(r.notes)) = Total(InForceTotals(b.notes)) + 0
      BY <2>1, <2>4, BalanceType
  <2>. QED  BY <2>3, <2>4, <2>5, DocumentBalanced
<1>6. ASSUME NEW state \in {"CANCELLED", "REVISED"}, NEW correction \in Nat,
             r = InvoiceSet(b, d, [b.invoices[d] EXCEPT !.state = state,
                                                        !.correction = correction], 0)
      PROVE  Balanced(r)
  <2>. DEFINE row == [b.invoices[d] EXCEPT !.state = state,
                                           !.correction = correction]
  <2>1. /\ row \in Invoice /\ row.total = b.invoices[d].total
        /\ row.reversals = b.invoices[d].reversals
      BY <1>3 DEF Invoice
  <2>2. r = InvoiceSet(b, d, row, 0) /\ 0 \in Int
      BY <1>6
  <2>. HIDE DEF row
  <2>. QED  BY <1>5, <2>1, <2>2 DEF InForce
<1>7. ASSUME b.invoices[d].reversals <= MaxReversals,
             r = InvoiceSet(b, d, Turn(b.invoices[d]), Flip(b.invoices[d]))
      PROVE  Balanced(r)
  <2>1. /\ Turn(b.invoices[d]) \in Invoice
        /\ Turn(b.invoices[d]).total = b.invoices[d].total
        /\ InForce(Turn(b.invoices[d])) # InForce(b.invoices[d])
      BY <1>3, <1>7, TurnType, TurnFlips
  <2>. QED  BY <1>4, <1>5, <1>7, <2>1
<1>. QED  BY <1>2, <1>6, <1>7

\* A payment released keeps the balance.
LEMMA ReleaseBalanced ==
    ASSUME NEW b, Sound(b), Balanced(b), NEW r, ReleaseMove(b, r)
    PROVE  Balanced(r)
<1>1. ASSUME NEW d, NEW s \in EffectiveAllocations(b, d), r = ReceiptStep(b, s, b, d)
      PROVE  Balanced(r)
  <2>1. PICK gross, given, row :
            /\ gross = b.settlements[s].allocations[d].amount
            /\ given = b.settlements[s].allocations[d].discount
            /\ row = Advance(gross - given, <<"RECEIPT", s, d>>, 0)
      OBVIOUS
  <2>2. /\ CreditAdded(b, r, row, given)
        /\ row \in Settlement
        /\ s \in DOMAIN b.settlements /\ d \in DOMAIN b.settlements[s].allocations
      BY <1>1, <2>1, ReceiptCredit
  <2>3. /\ row.origin # <<>> /\ row.origin[1] = "RECEIPT"
        /\ row.origin[2] = s /\ row.origin[3] = d
      BY <2>1 DEF Advance
  <2>4. TakenLinked(b.settlements, row) /\ given = Taken1(b.settlements, row)
      BY <2>1, <2>2, <2>3 DEF TakenLinked, Taken1
  <2>. QED  BY <2>2, <2>3, <2>4, CreditBalanced
<1>2. ASSUME NEW d, NEW a \in EffectiveApplications(b, d),
             r = ApplicationStep(b, a, b)
      PROVE  Balanced(r)
  <2>1. PICK gross, row :
            /\ gross = b.applications[a].amount
            /\ row = Advance(gross, <<"APPLICATION", a>>, 0)
      OBVIOUS
  <2>2. CreditAdded(b, r, row, 0) /\ row \in Settlement
      BY <1>2, <2>1, ApplicationCredit
  <2>3. row.origin # <<>> /\ row.origin[1] # "RECEIPT"
      BY <2>1 DEF Advance
  <2>4. TakenLinked(b.settlements, row) /\ 0 = Taken1(b.settlements, row)
      BY <2>3 DEF TakenLinked, Taken1
  <2>. QED  BY <2>2, <2>3, <2>4, CreditBalanced
<1>. QED  BY <1>1, <1>2 DEF ReleaseMove

\* Payments that change their status, and nothing but it and what goes with
\* it, change the balance by what they count for.
LEMMA PaymentBalanced ==
    ASSUME NEW b, Sound(b), Balanced(b), NEW r, Sound(r),
           NEW s \in DOMAIN b.settlements,
           r.invoices = b.invoices, r.notes = b.notes,
           DOMAIN r.settlements = DOMAIN b.settlements,
           \A x \in DOMAIN b.settlements :
                /\ SameRow(b.settlements[x], r.settlements[x])
                /\ x # s => r.settlements[x].status = b.settlements[x].status,
           Due(r) = Due(b) - (Received1(r.settlements[s])
                                - Received1(b.settlements[s]))
    PROVE  Balanced(r)
<1>1. b.settlements \in Seq(Settlement) /\ r.settlements \in Seq(Settlement)
    BY DEF Sound, BooksType
<1>2. /\ Total(ReceivedBy(r.settlements)) = Total(ReceivedBy(b.settlements))
                + (Received1(r.settlements[s]) - Received1(b.settlements[s]))
      /\ Total(TakenBy(r.settlements)) = Total(TakenBy(b.settlements))
    BY <1>1, PaymentTurned
<1>3. b.settlements[s] \in Settlement /\ r.settlements[s] \in Settlement
    BY <1>1
<1>4. Received1(r.settlements[s]) \in Int /\ Received1(b.settlements[s]) \in Int
    BY <1>3, ReceivedType
<1>. QED  BY <1>2, <1>4, BalanceType DEF Balanced

\* An advance applied keeps the balance.
LEMMA ApplyBalanced ==
    ASSUME NEW b, Sound(b), Balanced(b), NEW r, ApplyMove(b, r)
    PROVE  Balanced(r)
<1>1. PICK s \in DOMAIN b.settlements, d \in DOMAIN b.invoices,
           amount \in Nat \ {0} :
        /\ b.settlements[s].type = "CUSTOMER_ADVANCE"
        /\ b.settlements[s].status = "POSTED"
        /\ amount <= b.settlements[s].remaining
        /\ amount <= Outstanding(b, d)
        /\ r = Applied(b, s, d, amount)
    BY DEF ApplyMove
<1>2. /\ b \in BooksType /\ b.settlements \in Seq(Settlement)
      /\ b.invoices \in Seq(Invoice)
    BY DEF Sound, BooksType
<1>3. d \in Nat
    BY <1>2, TableRows
<1>4. /\ r \in BooksType
      /\ SameBut(r, b, {"settlements", "applications"})
      /\ r.settlements = AdvanceDrawn(b, s, amount)
      /\ Due(r) = Due(b)
  <2>. DEFINE q == Applied(b, s, d, amount)
  <2>1. /\ q \in BooksType
        /\ SameBut(q, b, {"settlements", "applications"})
        /\ q.settlements = AdvanceDrawn(b, s, amount)
        /\ Due(q) = Due(b)
      BY <1>1, <1>2, <1>3, AppliedIs
  <2>2. r = q
      BY <1>1
  <2>. HIDE DEF q
  <2>. QED  BY <2>1, <2>2
<1>5. Sound(r)
  <2>1. Onto(b, r)
      BY <1>1, AppliedOnto
  <2>. QED  BY <2>1 DEF Onto
<1>6. DOMAIN r.settlements = DOMAIN b.settlements
    BY <1>4 DEF AdvanceDrawn
<1>7. \A x \in DOMAIN b.settlements :
        /\ SameRow(b.settlements[x], r.settlements[x])
        /\ r.settlements[x].status = b.settlements[x].status
  <2>1. \A x \in DOMAIN b.settlements : b.settlements[x] \in Settlement
      BY <1>2
  <2>2. \A x \in DOMAIN b.settlements : r.settlements[x] =
            IF x = s THEN [b.settlements[s] EXCEPT
                             !.remaining = b.settlements[s].remaining - amount]
                     ELSE b.settlements[x]
      BY <1>4 DEF AdvanceDrawn
  <2>. QED  BY <2>1, <2>2 DEF SameRow, Settlement
<1>8. Received1(r.settlements[s]) = Received1(b.settlements[s])
  <2>1. SameRow(b.settlements[s], r.settlements[s])
      BY <1>7
  <2>2. DiscountOf(r.settlements[s]) = DiscountOf(b.settlements[s])
      BY <2>1 DEF SameRow, DiscountOf
  <2>. QED  BY <1>7, <2>1, <2>2 DEF Received1, SameRow
<1>9. Received1(b.settlements[s]) \in Int
    BY <1>2, ReceivedType
<1>10. Due(r) = Due(b) - (Received1(r.settlements[s]) - Received1(b.settlements[s]))
    BY <1>4, <1>8, <1>9, BalanceType
<1>11. r.invoices = b.invoices /\ r.notes = b.notes
    BY <1>4 DEF SameBut
<1>. QED  BY <1>5, <1>6, <1>7, <1>10, <1>11, PaymentBalanced

\* A return carried keeps it.
LEMMA CarryBalanced ==
    ASSUME NEW b, Sound(b), Balanced(b), NEW r, CarryMove(b, r)
    PROVE  Balanced(r)
<1>0. Len(b.invoices) + 1 \in Nat
  <2>1. b.invoices \in Seq(Invoice)
      BY DEF Sound, BooksType
  <2>. QED  BY <2>1
<1>1. PICK left \in Nat, n \in DOMAIN b.notes, replacement \in Nat :
        r = CarryStep([books |-> b, left |-> left], n, replacement).books
    BY <1>0 DEF CarryMove
<1>. DEFINE applied == Lesser(left, Available(b, n))
            excess == Available(b, n) - applied
            k == Len(b.carries) + 1
            q == CarryStep([books |-> b, left |-> left], n, replacement).books
            row == Advance(excess, <<"RETURN", k>>, 0)
<1>2. /\ excess \in Nat
      /\ q \in BooksType
      /\ SameBut(q, b, {"settlements", "carries"})
      /\ q.settlements = IF excess = 0 THEN b.settlements
                                       ELSE Append(b.settlements, row)
      /\ Due(q) = Due(b)
    BY CarryIs
<1>3. r = q
    BY <1>1
<1>4. k \in Nat
  <2>1. b.carries \in Seq(Carry)
      BY DEF Sound, BooksType
  <2>. QED  BY <2>1
<1>5. <<"RETURN", k>> \in Origin
    BY <1>4 DEF Origin
<1>. HIDE DEF q, excess, k
<1>6. q.invoices = b.invoices /\ q.notes = b.notes
    BY <1>2 DEF SameBut
<1>7. CASE excess = 0
    BY <1>2, <1>3, <1>6, <1>7 DEF Balanced
<1>8. CASE excess # 0
  <2>1. row \in Settlement
      BY <1>2, <1>5, <1>8, AdvanceType
  <2>2. row.origin # <<>> /\ row.origin[1] # "RECEIPT"
      BY DEF Advance
  <2>. HIDE DEF row
  <2>3. TakenLinked(b.settlements, row) /\ Taken1(b.settlements, row) = 0
      BY <2>2 DEF TakenLinked, Taken1
  <2>4. SameBut(q, b, {"settlements", "carries"}) /\ Due(q) = Due(b) + 0
      BY <1>2, BalanceType
  <2>5. Received1(row) = 0
      BY <2>2 DEF Received1
  <2>6. /\ Total(ReceivedBy(q.settlements)) = Total(ReceivedBy(b.settlements)) + 0
        /\ Total(TakenBy(q.settlements)) = Total(TakenBy(b.settlements)) + 0
      BY <1>2, <1>8, <2>1, <2>3, <2>5, PaymentAppended
  <2>. QED  BY <1>2, <1>3, <1>6, <2>6, BalanceType DEF Balanced
<1>. QED  BY <1>7, <1>8

\* What is due falls by what a payment is worth: an advance has no allocations
\* and so no discounts.
LEMMA WorthIs ==
    ASSUME NEW b, Sound(b), NEW s \in DOMAIN b.settlements
    PROVE  /\ Worth(b.settlements[s])
                = b.settlements[s].amount + DiscountOf(b.settlements[s])
           /\ Worth(b.settlements[s]) \in Int
<1>. DEFINE row == b.settlements[s]
            f == [d \in DOMAIN row.allocations |-> row.allocations[d].discount]
<1>1. row \in Settlement /\ RowLinked(b, row)
    BY DEF Sound, BooksType, Linked
<1>2. row.amount \in Nat /\ DiscountOf(row) \in Nat
    BY <1>1, AllocationsType DEF Settlement
<1>3. CASE row.type = "CUSTOMER_ADVANCE"
  <2>1. DOMAIN row.allocations = {}
      BY <1>1, <1>3 DEF RowLinked
  <2>2. DOMAIN f = {}
      BY <2>1
  <2>3. DiscountOf(row) = SumFunctionOnSet(f, DOMAIN f)
      BY DEF DiscountOf, SumFunction
  <2>4. DiscountOf(row) = 0
      BY <2>2, <2>3, SumEmpty
  <2>. QED  BY <1>2, <1>3, <2>4 DEF Worth
<1>4. CASE row.type # "CUSTOMER_ADVANCE"
    BY <1>2, <1>4 DEF Worth
<1>. QED  BY <1>3, <1>4

\* Payments made and payments taken back keep the balance.
LEMMA ReceiptBalanced ==
    ASSUME NEW b, Sound(b), Balanced(b), NEW r, PaymentMove(b, r)
    PROVE  Balanced(r)
<1>1. b \in BooksType /\ b.settlements \in Seq(Settlement) /\ Linked(b)
    BY DEF Sound, BooksType
<1>2. ASSUME NEW row, Recorded(b, r, row)
      PROVE  Balanced(r)
  <2>1. row.status = "PENDING_CHEQUE" /\ row.origin = <<>>
      BY <1>2, OfferedLinked
  <2>2. Received1(row) = 0 /\ Taken1(b.settlements, row) = 0
        /\ TakenLinked(b.settlements, row)
      BY <2>1 DEF Received1, Taken1, TakenLinked
  <2>3. row \in Settlement
    <3>1. r.settlements = Append(b.settlements, row) /\ r.settlements \in Seq(Settlement)
        BY <1>2 DEF Recorded, BooksType
    <3>2. /\ DOMAIN Append(b.settlements, row)
                = DOMAIN b.settlements \cup {Len(b.settlements) + 1}
          /\ Append(b.settlements, row)[Len(b.settlements) + 1] = row
        BY ONLY <1>1, RowAdded
    <3>3. Len(b.settlements) + 1 \in DOMAIN r.settlements
        BY <3>1, <3>2
    <3>. QED  BY <3>1, <3>2, <3>3, TableRows
  <2>4. /\ Total(ReceivedBy(r.settlements)) = Total(ReceivedBy(b.settlements)) + 0
        /\ Total(TakenBy(r.settlements)) = Total(TakenBy(b.settlements)) + 0
      BY <1>2, <2>2, <2>3, PaymentAppended DEF Recorded
  <2>5. r.invoices = b.invoices /\ r.notes = b.notes /\ Due(r) = Due(b)
      BY <1>2 DEF Recorded, SameBut
  <2>. QED  BY <2>4, <2>5, BalanceType DEF Balanced
<1>3. ASSUME NEW s \in DOMAIN b.settlements,
             b.settlements[s].status = "PENDING_CHEQUE",
             r = SettlementPosted(b, s)
      PROVE  Balanced(r)
  <2>. DEFINE q == SettlementPosted(b, s)
              row == b.settlements[s]
  <2>1. row.origin = <<>>
      BY <1>1, <1>3 DEF Linked, RowStatus
  <2>2. /\ Sound(q) /\ Turned(b, q, s)
        /\ q.settlements[s] = PostedRow(row)
        /\ q.settlements[s].status = "POSTED"
        /\ Due(q) = Due(b) - Worth(row)
      BY <1>3, <2>1, PostedSound
  <2>3. r = q
      BY <1>3
  <2>. HIDE DEF q
  <2>4. SameRow(row, r.settlements[s])
      BY <2>2, <2>3 DEF Turned
  <2>5. Received1(r.settlements[s]) = Worth(row) /\ Received1(row) = 0
    <3>1. DiscountOf(r.settlements[s]) = DiscountOf(row)
        BY <2>4 DEF SameRow, DiscountOf
    <3>. QED  BY <1>3, <2>1, <2>2, <2>3, <2>4, <3>1, WorthIs DEF Received1, SameRow
  <2>6. Due(r) = Due(b) - (Received1(r.settlements[s]) - Received1(row))
      BY <2>2, <2>3, <2>5, WorthIs
  <2>7. r.invoices = b.invoices /\ r.notes = b.notes
      BY <2>2, <2>3 DEF Turned, SameBut
  <2>. QED  BY <2>2, <2>3, <2>6, <2>7, PaymentBalanced DEF Turned
<1>4. ASSUME NEW s \in DOMAIN b.settlements, b.settlements[s].status = "POSTED",
             b.settlements[s].origin = <<>>, r = SettlementReversed(b, s)
      PROVE  Balanced(r)
  <2>. DEFINE q == SettlementReversed(b, s)
              row == b.settlements[s]
  <2>2. /\ Sound(q) /\ Turned(b, q, s)
        /\ q.settlements[s].status = "REVERSED"
        /\ Due(q) = Due(b) + Worth(row)
      BY <1>4, ReversedSound
  <2>3. r = q
      BY <1>4
  <2>. HIDE DEF q
  <2>4. Received1(row) = Worth(row) /\ Received1(r.settlements[s]) = 0
      BY <1>4, <2>2, <2>3, WorthIs DEF Received1
  <2>5. Due(r) = Due(b) - (Received1(r.settlements[s]) - Received1(row))
      BY <2>2, <2>3, <2>4, WorthIs, BalanceType
  <2>6. r.invoices = b.invoices /\ r.notes = b.notes
      BY <2>2, <2>3 DEF Turned, SameBut
  <2>. QED  BY <2>2, <2>3, <2>5, <2>6, PaymentBalanced DEF Turned
<1>5. ASSUME NEW p \in DOMAIN b.cheques,
             NEW status \in {"RECEIVED", "CLEARED", "BOUNCED", "CANCELLED"},
             r = ChequeSet(b, p, status)
      PROVE  Balanced(r)
  <2>1. SameBut(r, b, {"cheques"}) /\ Due(r) = Due(b)
      BY <1>5, ChequeSetSound
  <2>. QED  BY <2>1 DEF SameBut, Balanced
<1>. QED  BY <1>2, <1>3, <1>4, <1>5 DEF PaymentMove

\* the sound books whose balance agrees
BalancedBooks == {b \in BooksType : Balanced(b)}

\* No call leads out of them.
LEMMA BalanceWithin == Within(BalancedBooks)
<1> SUFFICES ASSUME NEW b \in BalancedBooks, NEW r, Sound(b), Move(b, r)
             PROVE  r \in BalancedBooks
    BY DEF Within
<1>1. Balanced(b)
    BY DEF BalancedBooks
<1>2. Sound(r)
    BY MoveKept
<1>3. Balanced(r)
  <2>1. CASE ReleaseMove(b, r)
      BY <1>1, <2>1, ReleaseBalanced
  <2>2. CASE ApplyMove(b, r)
      BY <1>1, <2>2, ApplyBalanced
  <2>3. CASE NoteMove(b, r)
      BY <1>1, <2>3, NoteBalanced
  <2>4. CASE EntryMove(b, r)
      BY <1>1, <2>4, EntryBalanced DEF EntryMove
  <2>5. CASE CarryMove(b, r)
      BY <1>1, <2>5, CarryBalanced
  <2>6. CASE InvoiceMove(b, r)
      BY <1>1, <2>6, InvoiceBalanced
  <2>7. CASE PaymentMove(b, r)
      BY <1>1, <2>7, ReceiptBalanced
  <2>. QED  BY <2>1, <2>2, <2>3, <2>4, <2>5, <2>6, <2>7 DEF Move, PlainMove
<1>. QED  BY <1>2, <1>3 DEF BalancedBooks, Sound

\* The documents in the ledger are those whose journal is POSTED and those a
\* reversed reversal brought back.
LEMMA InForceIs ==
    ASSUME NEW Docs, Docs \in {Invoice, Note}, NEW q \in Seq(Docs)
    PROVE  /\ Total(InForceTotals(q))
                = SumFunction([i \in {i \in DOMAIN q : Posted(q[i])} |-> q[i].total])
                  + Reinstated(q)
           /\ Reinstated(q) \in Nat
           /\ SumFunction([i \in {i \in DOMAIN q : Posted(q[i])} |-> q[i].total])
                \in Nat
<1>. DEFINE h == InForceTotals(q)
<1>0. PICK D, A, B : /\ D = DOMAIN q
                     /\ A = {i \in D : Posted(q[i])}
                     /\ B = {i \in D : InForce(q[i]) /\ ~Posted(q[i])}
    OBVIOUS
<1>1. IsFiniteSet(D) /\ \A i \in D : q[i] \in Docs
    BY <1>0, TableRows
<1>2. \A i \in D : q[i].total \in Nat
  <2>1. \A amount \in Amount : amount \in Nat
      BY ReceivablesConstants
  <2>2. \A e \in Invoice \cup Note : e.total \in Nat
      BY ONLY <2>1 DEF Invoice, Note
  <2>. QED  BY <1>1, <2>2
<1>3. A \in SUBSET D /\ B \in SUBSET D
    BY <1>0
<1>4. PICK u, w : /\ u = [i \in A |-> q[i].total]
                  /\ w = [i \in D |-> IF i \in A THEN q[i].total ELSE 0]
    OBVIOUS
<1>5. PICK v, x : /\ v = [i \in B |-> q[i].total]
                  /\ x = [i \in D |-> IF i \in B THEN q[i].total ELSE 0]
    OBVIOUS
<1>6. /\ \A i \in D : w[i] \in Int /\ x[i] \in Int /\ h[i] = w[i] + x[i]
      /\ DOMAIN h = D /\ DOMAIN w = D /\ DOMAIN x = D
  <2>1. \A i \in D : Posted(q[i]) => InForce(q[i])
      BY DEF Posted, InForce
  <2>. QED  BY <1>0, <1>2, <1>4, <1>5, <2>1 DEF InForceTotals
<1>7. Reinstated(q) = SumFunction(v)
    BY <1>0, <1>5 DEF Reinstated
<1>8. SumFunction([i \in {i \in DOMAIN q : Posted(q[i])} |-> q[i].total])
        = SumFunction(u)
    BY <1>0, <1>4
<1>9. SumFunction(u) = Total(w) /\ Total(w) \in Nat
  <2>1. Filters(u, w, A, D)
      BY <1>2, <1>3, <1>4 DEF Filters
  <2>. QED  BY ONLY <1>1, <2>1, FilterSum
<1>10. SumFunction(v) = Total(x) /\ Total(x) \in Nat
  <2>1. Filters(v, x, B, D)
      BY <1>2, <1>3, <1>5 DEF Filters
  <2>. QED  BY ONLY <1>1, <2>1, FilterSum
<1>11. Total(h) = Total(w) + Total(x)
  <2>. HIDE DEF h
  <2>. QED  BY <1>1, <1>6, SumPlus DEF Total
<1>. QED  BY <1>7, <1>8, <1>9, <1>10, <1>11

\* What scopedPartyBalance sums up of the payments, as sums over all of them.
LEMMA PaymentSums ==
    ASSUME NEW b, Sound(b)
    PROVE  /\ SumFunction([s \in Received(b) |-> b.settlements[s].amount
                                + DiscountOf(b.settlements[s])])
                = Total(ReceivedBy(b.settlements))
           /\ SumFunction([s \in ReceiptCredits(b) |-> DiscountTakenBack(b, s)])
                = Total(TakenBy(b.settlements))
<1>. DEFINE t == b.settlements
            D == DOMAIN t
            A == Received(b)
            B == ReceiptCredits(b)
            f == [s \in A |-> t[s].amount + DiscountOf(t[s])]
            g == [s \in B |-> DiscountTakenBack(b, s)]
            ff == ReceivedBy(t)
            gg == TakenBy(t)
<1>1. t \in Seq(Settlement)
    BY DEF Sound, BooksType
<1>2. IsFiniteSet(D) /\ \A s \in D : t[s] \in Settlement
    BY ONLY <1>1, TableRows
<1>3. A \in SUBSET D /\ B \in SUBSET D
    BY DEF Received, ReceiptCredits
<1>4. /\ DOMAIN f = A /\ DOMAIN ff = D
      /\ \A s \in A : f[s] \in Nat /\ ff[s] = f[s]
      /\ \A s \in D \ A : ff[s] = 0
  <2>1. \A s \in D : t[s].amount + DiscountOf(t[s]) \in Nat
    <3>1. \A s \in D : t[s].amount \in Nat /\ DiscountOf(t[s]) \in Nat
        BY <1>2, AllocationsType DEF Settlement
    <3>. QED  BY <3>1
  <2>. QED  BY <1>3, <2>1 DEF Received, ReceivedBy, Effective
<1>5. /\ DOMAIN g = B /\ DOMAIN gg = D
      /\ \A s \in B : g[s] \in Nat /\ gg[s] = g[s]
      /\ \A s \in D \ B : gg[s] = 0
  <2>1. \A s \in D : TakenLinked(t, t[s])
      BY TakenSound
  <2>2. \A s \in D : Taken1(t, t[s]) \in Nat
      BY <1>1, <2>1, TakenType
  <2>3. \A s \in B : g[s] = Taken1(t, t[s]) /\ gg[s] = Taken1(t, t[s])
      BY DEF ReceiptCredits, DiscountTakenBack, Taken1, TakenBy
  <2>. QED  BY <1>3, <2>2, <2>3 DEF ReceiptCredits, TakenBy
<1>. HIDE DEF f, g, ff, gg, A, B, D
<1>6. SumFunction(f) = Total(ff)
    BY ONLY <1>2, <1>3, <1>4, FilteredSum
<1>7. SumFunction(g) = Total(gg)
    BY ONLY <1>2, <1>3, <1>5, FilteredSum
<1>. QED  BY <1>6, <1>7 DEF f, g, ff, gg, A, B, t

\* The balance of a customer that is computed from documents and payments is
\* the one the ledger shows, through all corrections.
THEOREM LedgerShowsPartyBalance == Spec => []PartyBalanceAgrees
<1>. DEFINE Inv == IInv /\ Balanced(Books)
<1>1. Init => Inv
  <2> SUFFICES ASSUME Init PROVE Balanced(Books)
      BY IInvInit
  <2>1. /\ Due(Books) = 0
        /\ DOMAIN InForceTotals(Books.invoices) = {}
        /\ DOMAIN InForceTotals(Books.notes) = {}
        /\ DOMAIN ReceivedBy(Books.settlements) = {}
        /\ DOMAIN TakenBy(Books.settlements) = {}
      BY EmptyBooks DEF InForceTotals, ReceivedBy, TakenBy
  <2>2. /\ Total(InForceTotals(Books.invoices)) = 0
        /\ Total(InForceTotals(Books.notes)) = 0
        /\ Total(ReceivedBy(Books.settlements)) = 0
        /\ Total(TakenBy(Books.settlements)) = 0
      BY <2>1, SumEmpty DEF Total
  <2>. QED  BY <2>1, <2>2 DEF Balanced
<1>2. Inv /\ [Next]_vars => Inv'
  <2> SUFFICES ASSUME Inv, [Next]_vars PROVE Balanced(Books')
      BY IInvNext
  <2>1. Books \in BalancedBooks
      BY DEF BalancedBooks, IInv, Sound
  <2>2. Books' \in BalancedBooks
      BY <2>1, NextWithin, BalanceWithin
  <2>. QED  BY <2>2 DEF BalancedBooks
<1>3. Inv => PartyBalanceAgrees
  <2> SUFFICES ASSUME Sound(Books), Balanced(Books) PROVE PartyBalanceAgrees
      BY DEF IInv
  <2>1. /\ invoices \in Seq(Invoice) /\ Invoice \in {Invoice, Note}
        /\ notes \in Seq(Note) /\ Note \in {Invoice, Note}
      BY BooksTables DEF Sound, BooksType
  <2>. DEFINE posted == SumFunction([d \in PostedInvoices(Books) |->
                                        Books.invoices[d].total])
              noted == SumFunction([n \in PostedNotes(Books) |->
                                        Books.notes[n].total])
              received == SumFunction([s \in Received(Books) |->
                                Books.settlements[s].amount
                                  + DiscountOf(Books.settlements[s])])
              taken == SumFunction([s \in ReceiptCredits(Books) |->
                                DiscountTakenBack(Books, s)])
  <2>2. Total(InForceTotals(invoices)) = posted + Reinstated(invoices)
      BY <2>1, InForceIs, BooksTables DEF PostedInvoices
  <2>3. Total(InForceTotals(notes)) = noted + Reinstated(notes)
      BY <2>1, InForceIs, BooksTables DEF PostedNotes
  <2>4. received = Total(ReceivedBy(settlements)) /\ taken = Total(TakenBy(settlements))
      BY PaymentSums, BooksTables
  <2>5. PartyBalance(Books) = posted - noted - received + taken
      BY DEF PartyBalance, PartyBalanceKeepingDiscounts
  <2>6. Due(Books) = accounts["ACCOUNTS_RECEIVABLE"] + accounts["CUSTOMER_ADVANCES"]
      BY DEF Due, Books
  <2>7. Due(Books) = Total(InForceTotals(invoices)) - Total(InForceTotals(notes))
                     - Total(ReceivedBy(settlements)) + Total(TakenBy(settlements))
      BY BooksTables DEF Balanced
  <2>8. /\ Total(InForceTotals(invoices)) \in Int /\ Total(InForceTotals(notes)) \in Int
        /\ Total(ReceivedBy(settlements)) \in Int /\ Total(TakenBy(settlements)) \in Int
      BY BalanceType, BooksTables
  <2>9. posted \in Int /\ noted \in Int /\ Reinstated(invoices) \in Int
        /\ Reinstated(notes) \in Int
    <3>1. Reinstated(invoices) \in Nat /\ Reinstated(notes) \in Nat
        BY <2>1, InForceIs
    <3>2. posted \in Nat
        BY <2>1, InForceIs, BooksTables DEF PostedInvoices
    <3>3. noted \in Nat
        BY <2>1, InForceIs, BooksTables DEF PostedNotes
    <3>. HIDE DEF posted, noted
    <3>. QED  BY <3>1, <3>2, <3>3
  <2>. HIDE DEF posted, noted, received, taken
  <2>10. accounts["ACCOUNTS_RECEIVABLE"] + accounts["CUSTOMER_ADVANCES"]
            = PartyBalance(Books) + Reinstated(invoices) - Reinstated(notes)
      BY <2>2, <2>3, <2>4, <2>5, <2>6, <2>7, <2>8, <2>9
  <2>. QED  BY <2>10 DEF PartyBalanceAgrees
<1>. HIDE DEF Inv
<1>. QED  BY <1>1, <1>2, <1>3, PTL DEF Spec
-----------------------------------------------------------------------------
(* What a call may do to the payments that count against a document.       *)

\* What is paid is a sum of natural numbers over finite sets.
LEMMA PaidIs ==
    ASSUME NEW b \in BooksType, NEW d
    PROVE  /\ IsFiniteSet(EffectiveAllocations(b, d))
           /\ IsFiniteSet(EffectiveApplications(b, d))
           /\ \A s \in EffectiveAllocations(b, d) : s \in Nat \ {0}
           /\ \A a \in EffectiveApplications(b, d) : a \in Nat \ {0}
           /\ \A s \in EffectiveAllocations(b, d) : PaidOff(b, d)[s] \in Nat
           /\ \A a \in EffectiveApplications(b, d) : UsedUp(b, d)[a] \in Nat
           /\ SumFunctionOnSet(PaidOff(b, d), EffectiveAllocations(b, d)) \in Nat
           /\ SumFunctionOnSet(UsedUp(b, d), EffectiveApplications(b, d)) \in Nat
           /\ Paid(b, d) = SumFunctionOnSet(PaidOff(b, d), EffectiveAllocations(b, d))
                         + SumFunctionOnSet(UsedUp(b, d), EffectiveApplications(b, d))
<1>. DEFINE A == EffectiveAllocations(b, d)
            B == EffectiveApplications(b, d)
            f == PaidOff(b, d)
            g == UsedUp(b, d)
<1>1. b.settlements \in Seq(Settlement) /\ b.applications \in Seq(Application)
    BY DEF BooksType
<1>2. /\ IsFiniteSet(DOMAIN b.settlements) /\ DOMAIN b.settlements \subseteq Nat \ {0}
      /\ \A s \in DOMAIN b.settlements : b.settlements[s] \in Settlement
    BY ONLY <1>1, TableRows
<1>3. /\ IsFiniteSet(DOMAIN b.applications) /\ DOMAIN b.applications \subseteq Nat \ {0}
      /\ \A a \in DOMAIN b.applications : b.applications[a] \in Application
    BY ONLY <1>1, TableRows
<1>4. /\ A \subseteq DOMAIN b.settlements /\ B \subseteq DOMAIN b.applications
      /\ \A s \in A : d \in DOMAIN b.settlements[s].allocations
    BY DEF EffectiveAllocations, EffectiveApplications
<1>5. IsFiniteSet(A) /\ IsFiniteSet(B)
    BY <1>2, <1>3, <1>4, FS_Subset
<1>6. \A s \in A : f[s] \in Nat
    BY <1>2, <1>4, AllocationsType DEF PaidOff
<1>7. \A a \in B : g[a] \in Nat
    BY <1>3, <1>4 DEF UsedUp, Application
<1>8. Paid(b, d) = SumFunctionOnSet(f, A) + SumFunctionOnSet(g, B)
    BY DEF Paid, PaidOff, UsedUp, SumFunction
<1>. HIDE DEF A, B, f, g
<1>9. SumFunctionOnSet(f, A) \in Nat /\ SumFunctionOnSet(g, B) \in Nat
    BY ONLY <1>5, <1>6, <1>7, SumNat
<1>. QED  BY <1>2, <1>3, <1>4, <1>5, <1>6, <1>7, <1>8, <1>9 DEF A, B, f, g

\* in r, no payment counts against document d that does not in b, but
\* settlement x and application y
NoneBut(b, r, d, x, y) ==
    /\ EffectiveAllocations(r, d) \subseteq EffectiveAllocations(b, d) \cup {x}
    /\ EffectiveApplications(r, d) \subseteq EffectiveApplications(b, d) \cup {y}

\* What is paid then grows by the amounts of these two at most.
LEMMA PaidGrows ==
    ASSUME NEW b \in BooksType, NEW r \in BooksType, Kept(b, r), NEW d,
           NEW x, NEW y, NoneBut(b, r, d, x, y), NEW v \in Nat, NEW w \in Nat,
           x \in EffectiveAllocations(r, d) =>
                \/ x \in EffectiveAllocations(b, d)
                \/ r.settlements[x].allocations[d].amount <= v,
           y \in EffectiveApplications(r, d) =>
                \/ y \in EffectiveApplications(b, d)
                \/ r.applications[y].amount <= w
    PROVE  Paid(r, d) <= Paid(b, d) + v + w
<1>. DEFINE A == EffectiveAllocations(b, d)
            B == EffectiveApplications(b, d)
            AA == EffectiveAllocations(r, d)
            BB == EffectiveApplications(r, d)
            f == PaidOff(b, d)
            g == UsedUp(b, d)
            ff == PaidOff(r, d)
            gg == UsedUp(r, d)
<1>1. /\ IsFiniteSet(A) /\ IsFiniteSet(B)
      /\ \A s \in A : f[s] \in Nat
      /\ \A s \in B : g[s] \in Nat
      /\ SumFunctionOnSet(f, A) \in Nat /\ SumFunctionOnSet(g, B) \in Nat
      /\ Paid(b, d) = SumFunctionOnSet(f, A) + SumFunctionOnSet(g, B)
    BY PaidIs
<1>2. /\ IsFiniteSet(AA) /\ IsFiniteSet(BB)
      /\ \A s \in AA : ff[s] \in Nat
      /\ \A s \in BB : gg[s] \in Nat
      /\ SumFunctionOnSet(ff, AA) \in Nat /\ SumFunctionOnSet(gg, BB) \in Nat
      /\ Paid(r, d) = SumFunctionOnSet(ff, AA) + SumFunctionOnSet(gg, BB)
    BY PaidIs
<1>3. AA \subseteq A \cup {x} /\ BB \subseteq B \cup {y}
    BY DEF NoneBut
<1>4. A \subseteq DOMAIN b.settlements /\ B \subseteq DOMAIN b.applications
    BY DEF EffectiveAllocations, EffectiveApplications
<1>5. \A s \in AA : s \in A => ff[s] = f[s]
    BY <1>4 DEF PaidOff, Kept, SameRow
<1>6. \A s \in BB : s \in B => gg[s] = g[s]
    BY <1>4 DEF UsedUp, Kept
<1>7. x \in AA => x \in A \/ ff[x] <= v
    BY DEF PaidOff
<1>8. y \in BB => y \in B \/ gg[y] <= w
    BY DEF UsedUp
<1>. HIDE DEF A, B, AA, BB, f, g, ff, gg
<1>9. SumFunctionOnSet(ff, AA) <= SumFunctionOnSet(f, A) + v
    BY ONLY <1>1, <1>2, <1>3, <1>5, <1>7, v \in Nat, SumOneMore
<1>10. SumFunctionOnSet(gg, BB) <= SumFunctionOnSet(g, B) + w
    BY ONLY <1>1, <1>2, <1>3, <1>6, <1>8, w \in Nat, SumOneMore
<1>. QED  BY <1>1, <1>2, <1>9, <1>10

\* no payment counts against d in r that does not in b
Fewer(b, r, d) ==
    /\ EffectiveAllocations(r, d) \subseteq EffectiveAllocations(b, d)
    /\ EffectiveApplications(r, d) \subseteq EffectiveApplications(b, d)

\* No more is paid then.
LEMMA FewerPaid ==
    ASSUME NEW b \in BooksType, NEW r \in BooksType, Kept(b, r), NEW d,
           Fewer(b, r, d)
    PROVE  /\ Paid(r, d) <= Paid(b, d)
           /\ NothingPaid(b, d) => NothingPaid(r, d)
<1>1. NoneBut(b, r, d, 0, 0)
    BY DEF NoneBut, Fewer
<1>2. 0 \notin EffectiveAllocations(r, d) /\ 0 \notin EffectiveApplications(r, d)
    BY PaidIs
<1>3. Paid(r, d) <= Paid(b, d) + 0 + 0
    BY ONLY <1>1, <1>2, b \in BooksType, r \in BooksType, Kept(b, r), 0 \in Nat, PaidGrows
<1>4. Paid(b, d) \in Nat
    BY ClaimSums
<1>. QED  BY <1>3, <1>4 DEF Fewer, NothingPaid

\* Nothing is paid when no payment counts.
LEMMA NothingPaidIs ==
    ASSUME NEW b \in BooksType, NEW d, NothingPaid(b, d)
    PROVE  Paid(b, d) = 0
BY PaidIs, SumEmpty DEF NothingPaid

\* a settlement other than x counts in r if it does in b, and so does an
\* application other than y
NoneBegins(b, r, x, y) ==
    /\ \A s \in DOMAIN r.settlements :
            s # x /\ Effective(r, s) /\ DOMAIN r.settlements[s].allocations # {} =>
                s \in DOMAIN b.settlements /\ Effective(b, s)
    /\ \A a \in DOMAIN r.applications :
            a # y /\ r.applications[a].journal = "POSTED" =>
                a \in DOMAIN b.applications /\ b.applications[a].journal = "POSTED"

\* Then these two are all that may begin to count against a document.
LEMMA ClaimsBegin ==
    ASSUME NEW b, Sound(b), Running(b), NEW r, Kept(b, r), NEW x, NEW y,
           NoneBegins(b, r, x, y), NEW d
    PROVE  NoneBut(b, r, d, x, y)
<1>1. \A o : Released(b, o) => Released(r, o)
    BY DEF Released, Kept, SameRow
<1>2. ASSUME NEW s \in EffectiveAllocations(r, d), s # x
      PROVE  s \in EffectiveAllocations(b, d)
  <2>1. /\ s \in DOMAIN b.settlements /\ Effective(b, s)
        /\ d \in DOMAIN r.settlements[s].allocations
      BY <1>2 DEF NoneBegins, EffectiveAllocations
  <2>2. d \in DOMAIN b.settlements[s].allocations
      BY <2>1 DEF Kept, SameRow
  <2>. QED  BY <1>1, <1>2, <2>1, <2>2 DEF EffectiveAllocations
<1>3. ASSUME NEW a \in EffectiveApplications(r, d), a # y
      PROVE  a \in EffectiveApplications(b, d)
  <2>1. a \in DOMAIN b.applications /\ b.applications[a].journal = "POSTED"
      BY <1>3 DEF NoneBegins, EffectiveApplications
  <2>2. Effective(b, b.applications[a].advance) /\ b.applications[a].document = d
      BY <1>3, <2>1 DEF Running, Kept, EffectiveApplications
  <2>. QED  BY <1>1, <1>3, <2>1, <2>2 DEF EffectiveApplications
<1>. QED  BY <1>2, <1>3 DEF NoneBut

\* A call posts a payment, applies an advance, or does neither.
LEMMA MoveCases ==
    ASSUME NEW b, NEW r, Move(b, r)
    PROVE  OtherMove(b, r) \/ PostMove(b, r) \/ ApplyMove(b, r)
BY DEF Move, PlainMove, PaymentMove, OtherMove, PostMove

\* Calls that keep the payments and applications.
LEMMA SamePayments ==
    ASSUME NEW b, Running(b), NEW r, r.settlements = b.settlements,
           r.applications = b.applications
    PROVE  /\ \A d : Fewer(b, r, d)
           /\ Running(r)
BY DEF Fewer, Running, EffectiveAllocations, EffectiveApplications, Effective, Released

\* Calls that keep the applications, and the payments posted.
LEMMA PaymentsStay ==
    ASSUME NEW b, Sound(b), Running(b), NEW r, r.applications = b.applications,
           \A s \in DOMAIN b.settlements : Effective(b, s) => Effective(r, s)
    PROVE  Running(r)
<1>1. \A a \in DOMAIN b.applications :
            b.applications[a].advance \in DOMAIN b.settlements
    BY DEF Sound, Linked, ApplicationLinked
<1>. QED  BY <1>1 DEF Running

\* What a reversal changes in the payments and their applications.
LEMMA ReversedTables ==
    ASSUME NEW b \in BooksType, NEW s \in DOMAIN b.settlements,
           NEW r, r = SettlementReversed(b, s)
    PROVE  /\ DOMAIN r.settlements = DOMAIN b.settlements
           /\ \A t \in DOMAIN b.settlements :
                /\ SameRow(b.settlements[t], r.settlements[t])
                /\ t # s => r.settlements[t] = b.settlements[t]
           /\ r.settlements[s].status = "REVERSED"
           /\ r.settlements[s].remaining = 0
           /\ DOMAIN r.applications = DOMAIN b.applications
           /\ \A a \in DOMAIN b.applications :
                /\ r.applications[a].advance = b.applications[a].advance
                /\ r.applications[a].document = b.applications[a].document
                /\ r.applications[a].amount = b.applications[a].amount
                /\ r.applications[a].journal = "POSTED" <=>
                        /\ b.applications[a].journal = "POSTED"
                        /\ b.applications[a].advance # s
<1>1. /\ r.settlements = [b.settlements EXCEPT ![s] = ReversedRow(b.settlements[s])]
      /\ r.applications = WithoutApplications(b, s)
    BY ReversedIs
<1>2. /\ DOMAIN r.settlements = DOMAIN b.settlements
      /\ \A t \in DOMAIN b.settlements :
            /\ SameRow(b.settlements[t], r.settlements[t])
            /\ t # s => r.settlements[t] = b.settlements[t]
      /\ r.settlements[s].status = "REVERSED"
      /\ r.settlements[s].remaining = 0
  <2>1. b.settlements \in Seq(Settlement)
      BY DEF BooksType
  <2>2. b.settlements[s] \in Settlement
      BY ONLY <2>1, s \in DOMAIN b.settlements, TableRows
  <2>. DEFINE row == ReversedRow(b.settlements[s])
  <2>3. row.status = "REVERSED" /\ row.remaining = 0 /\ SameRow(b.settlements[s], row)
      BY <2>2 DEF ReversedRow, Settlement, SameRow
  <2>. HIDE DEF row
  <2>4. r.settlements = [b.settlements EXCEPT ![s] = row]
      BY <1>1 DEF row
  <2>5. \A x : SameRow(x, x)
      BY DEF SameRow
  <2>. QED  BY <2>1, <2>3, <2>4, <2>5
<1>3. \A a \in DOMAIN b.applications : b.applications[a] \in Application
  <2>1. b.applications \in Seq(Application)
      BY DEF BooksType
  <2>. QED  BY ONLY <2>1, TableRows
<1>4. ASSUME NEW a \in DOMAIN b.applications
      PROVE  /\ r.applications[a].advance = b.applications[a].advance
             /\ r.applications[a].document = b.applications[a].document
             /\ r.applications[a].amount = b.applications[a].amount
             /\ r.applications[a].journal = "POSTED" <=>
                     /\ b.applications[a].journal = "POSTED"
                     /\ b.applications[a].advance # s
  <2>. DEFINE row == b.applications[a]
              out == [row EXCEPT !.journal = "REVERSED"]
  <2>1. /\ out.advance = row.advance /\ out.document = row.document
        /\ out.amount = row.amount /\ out.journal = "REVERSED"
    <3>1. row \in Application
        BY <1>3
    <3>. HIDE DEF row
    <3>. QED  BY <3>1 DEF Application
  <2>2. r.applications[a] = IF a \in UndoneWith(b, s) THEN out ELSE row
      BY <1>1 DEF WithoutApplications
  <2>. HIDE DEF out
  <2>. QED  BY <2>1, <2>2 DEF UndoneWith
<1>. QED  BY <1>1, <1>2, <1>4 DEF WithoutApplications

\* No call but the posting of a payment and the application of an advance
\* makes another payment count against a document.
LEMMA OtherClaims ==
    ASSUME NEW b, Sound(b), Running(b), NEW r, OtherMove(b, r)
    PROVE  Running(r) /\ \A d : Fewer(b, r, d)
<1>1. b \in BooksType
    BY DEF Sound
<1>2. CASE ReleaseMove(b, r)
  <2>1. Onto(b, r)
    <3>1. ASSUME NEW d, NEW s \in EffectiveAllocations(b, d),
                 r = ReceiptStep(b, s, b, d)
          PROVE  Onto(b, r)
        BY <3>1, ReceiptReleased
    <3>2. ASSUME NEW d, NEW a \in EffectiveApplications(b, d),
                 r = ApplicationStep(b, a, b)
          PROVE  Onto(b, r)
        BY <3>2, ApplicationReleased
    <3>. QED  BY <1>2, <3>1, <3>2 DEF ReleaseMove
  <2>2. Running(r)
      BY <1>2, <2>1, ReleaseTables, PaymentsStay DEF Onto, Steady, Effective
  <2>. QED  BY <1>2, <2>2, ReleaseTables DEF Fewer
<1>3. CASE NoteMove(b, r)
    BY <1>3, NoteTables, SamePayments DEF SameBut
<1>4. CASE EntryMove(b, r)
    BY <1>4, EntryTables, SamePayments DEF SameBut
<1>5. CASE InvoiceMove(b, r)
    BY <1>5, InvoiceTables, SamePayments DEF SameBut, InvoiceRow
<1>6. CASE CarryMove(b, r)
  <2>1. Running(r)
      BY <1>6, CarryTables, PaymentsStay DEF Effective
  <2>. QED  BY <1>6, <2>1, CarryTables DEF Fewer
<1>7. ASSUME NEW row, Recorded(b, r, row)
      PROVE  Running(r) /\ \A d : Fewer(b, r, d)
  <2>1. b.settlements \in Seq(Settlement) /\ r.settlements = Append(b.settlements, row)
      BY <1>7 DEF Sound, BooksType, Recorded
  <2>2. \A s \in DOMAIN b.settlements : r.settlements[s] = b.settlements[s]
      BY ONLY <2>1, RowAdded
  <2>3. Running(r)
      BY <1>7, <2>2, PaymentsStay DEF Recorded, SameBut, Effective
  <2>. QED  BY <1>7, <2>3, PendingCounts DEF SameClaims, Fewer
<1>8. ASSUME NEW s \in DOMAIN b.settlements, r = SettlementReversed(b, s)
      PROVE  Running(r) /\ \A d : Fewer(b, r, d)
  <2>1. /\ DOMAIN r.settlements = DOMAIN b.settlements
        /\ \A t \in DOMAIN b.settlements :
              /\ SameRow(b.settlements[t], r.settlements[t])
              /\ t # s => r.settlements[t] = b.settlements[t]
        /\ r.settlements[s].status = "REVERSED"
      BY <1>1, <1>8, ReversedTables
  <2>2. /\ DOMAIN r.settlements = DOMAIN b.settlements
        /\ \A t \in DOMAIN b.settlements :
              /\ r.settlements[t].allocations = b.settlements[t].allocations
              /\ r.settlements[t].origin = b.settlements[t].origin
              /\ t # s => r.settlements[t] = b.settlements[t]
        /\ r.settlements[s].status = "REVERSED"
      BY <2>1 DEF SameRow
  <2>3. /\ DOMAIN r.applications = DOMAIN b.applications
        /\ \A a \in DOMAIN b.applications :
              /\ r.applications[a].advance = b.applications[a].advance
              /\ r.applications[a].document = b.applications[a].document
              /\ r.applications[a].journal = "POSTED" =>
                    /\ b.applications[a].journal = "POSTED"
                    /\ b.applications[a].advance # s
      BY <1>1, <1>8, ReversedTables
  <2>4. \A o : Released(r, o) <=> Released(b, o)
      BY <2>2 DEF Released
  <2>5. \A t \in DOMAIN b.settlements : Effective(r, t) <=> Effective(b, t) /\ t # s
      BY <2>2 DEF Effective
  <2>6. \A a \in DOMAIN b.applications :
            b.applications[a].advance \in DOMAIN b.settlements
      BY DEF Sound, Linked, ApplicationLinked
  <2>7. Running(r)
      BY <2>3, <2>5, <2>6 DEF Running
  <2>8. ASSUME NEW d
        PROVE  Fewer(b, r, d)
    <3>1. EffectiveAllocations(r, d) \subseteq EffectiveAllocations(b, d)
        BY <2>2, <2>4, <2>5 DEF EffectiveAllocations
    <3>2. EffectiveApplications(r, d) \subseteq EffectiveApplications(b, d)
        BY <2>3, <2>4, <2>5, <2>6 DEF EffectiveApplications
    <3>. QED  BY <3>1, <3>2 DEF Fewer
  <2>. QED  BY <2>7, <2>8
<1>9. ASSUME NEW q \in DOMAIN b.cheques,
             NEW status \in {"RECEIVED", "CLEARED", "BOUNCED", "CANCELLED"},
             r = ChequeSet(b, q, status)
      PROVE  Running(r) /\ \A d : Fewer(b, r, d)
  <2>1. SameBut(r, b, {"cheques"})
      BY <1>9, ChequeSetSound
  <2>. QED  BY <2>1, SamePayments DEF SameBut
<1>. QED  BY <1>2, <1>3, <1>4, <1>5, <1>6, <1>7, <1>8, <1>9 DEF OtherMove

\* document d, not yet retired, is paid up to what is outstanding
PaidUp(b, r, d) ==
    /\ d \in DOMAIN b.invoices /\ ~Retired(b, d)
    /\ Paid(r, d) <= Paid(b, d) + BatchOutstanding(b, d)
    /\ r.invoices = b.invoices /\ r.notes = b.notes /\ r.carries = b.carries

\* What is positive and outstanding is so in the batch.
LEMMA PositiveOutstanding ==
    ASSUME NEW b \in BooksType, NEW d \in DOMAIN b.invoices, NEW amount \in Nat \ {0},
           amount <= Outstanding(b, d)
    PROVE  /\ ~Retired(b, d) /\ Outstanding(b, d) = BatchOutstanding(b, d)
           /\ Outstanding(b, d) \in Nat
<1>1. Outstanding(b, d) \in Int
    BY OutstandingType
<1>2. Outstanding(b, d) # 0 /\ Outstanding(b, d) \in Nat
    BY <1>1
<1>. QED  BY <1>2 DEF Outstanding

\* The posting of a payment pays the documents it is allocated to.
LEMMA PostClaims ==
    ASSUME NEW b, Sound(b), Running(b), NEW r, PostMove(b, r)
    PROVE  Running(r) /\ \A d : Fewer(b, r, d) \/ PaidUp(b, r, d)
<1>1. b \in BooksType /\ b.settlements \in Seq(Settlement)
    BY DEF Sound, BooksType
<1>2. PICK s \in DOMAIN b.settlements :
        /\ b.settlements[s].status = "PENDING_CHEQUE"
        /\ AllocationsAccepted(b, b.settlements[s].allocations)
        /\ r = SettlementPosted(b, s)
    BY DEF PostMove
<1>. DEFINE row == PostedRow(b.settlements[s])
<1>3. b.settlements[s] \in Settlement
    BY ONLY <1>1, <1>2, TableRows
<1>4. row.allocations = b.settlements[s].allocations
    BY <1>3 DEF PostedRow, Settlement
<1>5. /\ SameBut(r, b, {"settlements"})
      /\ r.settlements = [b.settlements EXCEPT ![s] = row]
    BY <1>1, <1>2, PostedIs
<1>. HIDE DEF row
<1>6. /\ DOMAIN r.settlements = DOMAIN b.settlements
      /\ r.settlements[s].allocations = b.settlements[s].allocations
      /\ \A t \in DOMAIN b.settlements : t # s => r.settlements[t] = b.settlements[t]
    BY <1>1, <1>4, <1>5
<1>7. r.applications = b.applications /\ r.invoices = b.invoices
      /\ r.notes = b.notes /\ r.carries = b.carries
    BY <1>5 DEF SameBut
<1>8. Running(r)
    BY <1>2, <1>6, <1>7, PaymentsStay DEF Effective
<1>9. Kept(b, r) /\ r \in BooksType
  <2>1. Move(b, r)
      BY DEF Move, PlainMove, PaymentMove, PostMove
  <2>. QED  BY <2>1, MoveKept DEF Sound
<1>10. NoneBegins(b, r, s, 0)
    BY <1>6, <1>7 DEF NoneBegins, Effective
<1>11. ASSUME NEW d
       PROVE  Fewer(b, r, d) \/ PaidUp(b, r, d)
  <2>1. NoneBut(b, r, d, s, 0)
      BY <1>9, <1>10, ClaimsBegin
  <2>2. 0 \notin EffectiveApplications(r, d)
      BY <1>9, PaidIs
  <2>3. CASE s \notin EffectiveAllocations(r, d)
      BY <2>1, <2>2, <2>3 DEF NoneBut, Fewer
  <2>4. CASE s \in EffectiveAllocations(r, d)
    <3>1. d \in DOMAIN b.settlements[s].allocations
        BY <1>6, <2>4 DEF EffectiveAllocations
    <3>. DEFINE amount == b.settlements[s].allocations[d].amount
                v == Outstanding(b, d)
    <3>2. amount \in Nat \ {0}
        BY <1>3, <3>1, AllocationsType
    <3>3. amount <= v
        BY <1>2, <3>1 DEF AllocationsAccepted
    <3>4. d \in DOMAIN b.invoices
        BY <1>2, <3>1 DEF Sound, Linked, RowLinked
    <3>5. ~Retired(b, d) /\ v = BatchOutstanding(b, d) /\ v \in Nat
        BY <1>1, <3>2, <3>3, <3>4, PositiveOutstanding
    <3>6. r.settlements[s].allocations[d].amount = amount
        BY <1>6
    <3>. HIDE DEF amount, v
    <3>7. Paid(r, d) <= Paid(b, d) + v + 0
        BY ONLY <1>1, <1>9, <2>1, <2>2, <3>3, <3>5, <3>6, 0 \in Nat, PaidGrows
    <3>8. Paid(b, d) \in Nat /\ Paid(r, d) \in Nat
        BY <1>1, <1>9, ClaimSums
    <3>9. Paid(r, d) <= Paid(b, d) + BatchOutstanding(b, d)
        BY <3>5, <3>7, <3>8
    <3>. QED  BY <1>7, <3>4, <3>5, <3>9 DEF PaidUp
  <2>. QED  BY <2>3, <2>4
<1>. QED  BY <1>8, <1>11

\* An application pays its document.
LEMMA ApplyClaims ==
    ASSUME NEW b, Sound(b), Running(b), NEW r, ApplyMove(b, r)
    PROVE  Running(r) /\ \A d : Fewer(b, r, d) \/ PaidUp(b, r, d)
<1>1. b \in BooksType /\ b.settlements \in Seq(Settlement)
      /\ b.applications \in Seq(Application)
    BY DEF Sound, BooksType
<1>2. PICK s \in DOMAIN b.settlements, e \in DOMAIN b.invoices, amount \in Nat \ {0} :
        /\ b.settlements[s].type = "CUSTOMER_ADVANCE"
        /\ b.settlements[s].status = "POSTED"
        /\ amount <= b.settlements[s].remaining
        /\ amount <= Outstanding(b, e)
        /\ SameBut(r, b, {"settlements", "applications"})
        /\ r.settlements = AdvanceDrawn(b, s, amount)
        /\ r.applications =
             Append(b.applications, [advance |-> s, document |-> e,
                                     amount |-> amount, journal |-> "POSTED"])
    BY ApplyTables
<1>. DEFINE k == Len(b.applications) + 1
            row == [advance |-> s, document |-> e, amount |-> amount,
                    journal |-> "POSTED"]
<1>3. /\ row.advance = s /\ row.document = e /\ row.amount = amount
    OBVIOUS
<1>. HIDE DEF row
<1>4. /\ DOMAIN r.applications = DOMAIN b.applications \cup {k}
      /\ k \notin DOMAIN b.applications /\ r.applications[k] = row
      /\ \A a \in DOMAIN b.applications : r.applications[a] = b.applications[a]
  <2>1. r.applications = Append(b.applications, row)
      BY <1>2 DEF row
  <2>. QED  BY ONLY <1>1, <2>1, RowAdded
<1>5. /\ DOMAIN r.settlements = DOMAIN b.settlements
      /\ \A t \in DOMAIN b.settlements :
            /\ r.settlements[t].status = b.settlements[t].status
            /\ r.settlements[t].allocations = b.settlements[t].allocations
  <2>1. \A t \in DOMAIN b.settlements : b.settlements[t] \in Settlement
      BY ONLY <1>1, TableRows
  <2>. DEFINE out == [b.settlements[s] EXCEPT !.remaining = @ - amount]
  <2>2. /\ out.status = b.settlements[s].status
        /\ out.allocations = b.settlements[s].allocations
      BY <2>1 DEF Settlement
  <2>3. r.settlements = [b.settlements EXCEPT ![s] = out]
      BY <1>1, <1>2 DEF AdvanceDrawn
  <2>. HIDE DEF out
  <2>. QED  BY <1>1, <2>2, <2>3
<1>6. r.invoices = b.invoices /\ r.notes = b.notes /\ r.carries = b.carries
    BY <1>2 DEF SameBut
<1>7. Running(r)
  <2>1. \A a \in DOMAIN b.applications :
            b.applications[a].advance \in DOMAIN b.settlements
      BY DEF Sound, Linked, ApplicationLinked
  <2>. QED  BY <1>2, <1>3, <1>4, <1>5, <2>1 DEF Running, Effective
<1>8. Kept(b, r) /\ r \in BooksType
  <2>1. Move(b, r)
      BY DEF Move, PlainMove
  <2>. QED  BY <2>1, MoveKept DEF Sound
<1>9. NoneBegins(b, r, 0, k)
    BY <1>4, <1>5 DEF NoneBegins, Effective
<1>10. ASSUME NEW d
       PROVE  Fewer(b, r, d) \/ PaidUp(b, r, d)
  <2>1. NoneBut(b, r, d, 0, k)
      BY <1>8, <1>9, ClaimsBegin
  <2>2. 0 \notin EffectiveAllocations(r, d)
      BY <1>8, PaidIs
  <2>3. CASE k \notin EffectiveApplications(r, d)
      BY <2>1, <2>2, <2>3 DEF NoneBut, Fewer
  <2>4. CASE k \in EffectiveApplications(r, d)
    <3>1. d = e
        BY <1>3, <1>4, <2>4 DEF EffectiveApplications
    <3>. DEFINE v == Outstanding(b, d)
    <3>2. ~Retired(b, d) /\ v = BatchOutstanding(b, d) /\ v \in Nat /\ amount <= v
        BY <1>1, <1>2, <3>1, PositiveOutstanding
    <3>3. r.applications[k].amount = amount
        BY <1>3, <1>4
    <3>. HIDE DEF v, k
    <3>4. Paid(r, d) <= Paid(b, d) + 0 + v
        BY ONLY <1>1, <1>8, <2>1, <2>2, <3>2, <3>3, 0 \in Nat, PaidGrows
    <3>5. Paid(b, d) \in Nat /\ Paid(r, d) \in Nat
        BY <1>1, <1>8, ClaimSums
    <3>6. Paid(r, d) <= Paid(b, d) + BatchOutstanding(b, d)
        BY <3>2, <3>4, <3>5
    <3>. QED  BY <1>2, <1>6, <3>1, <3>2, <3>6 DEF PaidUp
  <2>. QED  BY <2>3, <2>4
<1>. QED  BY <1>7, <1>10

\* Every call pays a document up to what is outstanding, or not at all.
LEMMA MoveClaims ==
    ASSUME NEW b, Sound(b), Running(b), NEW r, Move(b, r)
    PROVE  Running(r) /\ \A d : Fewer(b, r, d) \/ PaidUp(b, r, d)
BY MoveCases, OtherClaims, PostClaims, ApplyClaims

\* Calls other than on notes leave them alone.
LEMMA NotesChange ==
    ASSUME NEW b, Sound(b), NEW r, Move(b, r)
    PROVE  NoteMove(b, r) \/ r.notes = b.notes
<1>1. CASE ReleaseMove(b, r)
    BY <1>1, ReleaseTables DEF SameDocuments
<1>2. CASE ApplyMove(b, r)
    BY <1>2, ApplyTables DEF SameBut
<1>3. CASE EntryMove(b, r)
    BY <1>3, EntryTables DEF SameBut
<1>4. CASE InvoiceMove(b, r)
    BY <1>4, InvoiceTables DEF SameBut, InvoiceRow
<1>5. CASE PaymentMove(b, r)
    BY <1>5, PaymentTables
<1>6. CASE CarryMove(b, r)
    BY <1>6, CarryTables
<1>. QED  BY <1>1, <1>2, <1>3, <1>4, <1>5, <1>6 DEF Move, PlainMove

\* A sale that may be retired may be still where no more of it is paid and
\* its rows are the same.
LEMMA RetirableStays ==
    ASSUME NEW b, NEW r, NEW d, NEW correction, Retirable(b, d, correction),
           Fewer(b, r, d),
           r.invoices[d].reversals = b.invoices[d].reversals,
           r.invoices[d].total = b.invoices[d].total,
           correction \in DOMAIN b.notes =>
                /\ correction \in DOMAIN r.notes
                /\ r.notes[correction] = b.notes[correction]
    PROVE  Retirable(r, d, correction)
<1>1. NothingPaid(r, d)
    BY DEF Retirable, NothingPaid, Fewer
<1>. QED  BY <1>1 DEF Retirable, Posted

\* No call gives effect to what has been retired: nothing is applied or
\* allocated to it, and its journals are pinned.
LEMMA MoveNetsZero ==
    ASSUME NEW b, Sound(b), Running(b), NetsZero(b), NEW r, Move(b, r)
    PROVE  NetsZero(r)
<1>1. \A d : Fewer(b, r, d) \/ PaidUp(b, r, d)
    BY MoveClaims
<1>2. \A d \in DOMAIN b.invoices : b.invoices[d].state # "LIVE" => Fewer(b, r, d)
    BY <1>1 DEF PaidUp, Retired
<1>3. CASE NoteMove(b, r)
  <2>1. SameBut(r, b, {"notes"})
      BY <1>3, NoteTables
  <2>2. \A d \in DOMAIN b.invoices : b.invoices[d].correction \in DOMAIN b.notes =>
            /\ b.invoices[d].correction \in DOMAIN r.notes
            /\ r.notes[b.invoices[d].correction] = b.notes[b.invoices[d].correction]
    <3>1. CASE \E d \in DOMAIN b.invoices, amount \in Amount :
                 r.notes = Append(b.notes, [source |-> d, total |-> amount,
                                            reversals |-> 0])
      <4>1. b.notes \in Seq(Note)
          BY DEF Sound, BooksType
      <4>2. \A n \in DOMAIN b.notes : n \in DOMAIN r.notes /\ r.notes[n] = b.notes[n]
          BY ONLY <3>1, <4>1, RowAdded
      <4>. QED  BY <4>2
    <3>2. CASE \E n \in DOMAIN b.notes :
                 /\ \A d \in DOMAIN b.invoices : b.invoices[d].correction # n
                 /\ NoteRow(b, r, n, Turn(b.notes[n]))
        BY <3>2 DEF NoteRow
    <3>. QED  BY <1>3, <3>1, <3>2, NoteTables
  <2>3. r.invoices = b.invoices
      BY <2>1 DEF SameBut
  <2>. QED  BY <1>2, <2>2, <2>3, RetirableStays DEF NetsZero
<1>4. CASE EntryMove(b, r)
  <2>1. PICK total \in Amount, previous \in Nat :
            /\ SameBut(r, b, {"invoices"})
            /\ r.invoices = Append(b.invoices,
                 [total |-> total, reversals |-> 0, state |-> "LIVE",
                  correction |-> 0, previous |-> previous])
      BY <1>4, EntryTables
  <2>. DEFINE row == [total |-> total, reversals |-> 0, state |-> "LIVE",
                      correction |-> 0, previous |-> previous]
  <2>2. row.state = "LIVE"
      OBVIOUS
  <2>. HIDE DEF row
  <2>3. /\ DOMAIN r.invoices = DOMAIN b.invoices \cup {Len(b.invoices) + 1}
        /\ r.invoices[Len(b.invoices) + 1] = row
        /\ \A i \in DOMAIN b.invoices : r.invoices[i] = b.invoices[i]
    <3>1. b.invoices \in Seq(Invoice) /\ r.invoices = Append(b.invoices, row)
        BY <2>1 DEF Sound, BooksType, row
    <3>. QED  BY ONLY <3>1, RowAdded
  <2>4. r.notes = b.notes
      BY <2>1 DEF SameBut
  <2>. QED  BY <1>2, <2>2, <2>3, <2>4, RetirableStays DEF NetsZero
<1>5. CASE InvoiceMove(b, r)
  <2>1. PICK d \in DOMAIN b.invoices, row \in Invoice :
            /\ b.invoices[d].state = "LIVE"
            /\ InvoiceRow(b, r, d, row)
            /\ row.total = b.invoices[d].total
            /\ \/ /\ row.state # "LIVE" /\ row.reversals = b.invoices[d].reversals
                  /\ Retirable(b, d, row.correction)
               \/ row.state = "LIVE"
      BY <1>5, InvoiceTables
  <2>2. /\ r.settlements = b.settlements /\ r.applications = b.applications
        /\ r.notes = b.notes
      BY <2>1 DEF InvoiceRow, SameBut
  <2>3. \A e : Fewer(b, r, e)
      BY <2>2, SamePayments
  <2>4. ASSUME NEW e \in DOMAIN r.invoices, r.invoices[e].state # "LIVE"
        PROVE  Retirable(r, e, r.invoices[e].correction)
    <3>1. e \in DOMAIN b.invoices
        BY <2>1 DEF InvoiceRow
    <3>2. CASE e = d
      <4>1. r.invoices[e] = row
          BY <2>1, <3>2 DEF InvoiceRow
      <4>. QED  BY <2>1, <2>2, <2>3, <2>4, <3>2, <4>1, RetirableStays
    <3>3. CASE e # d
      <4>1. r.invoices[e] = b.invoices[e]
          BY <2>1, <3>1, <3>3 DEF InvoiceRow
      <4>2. Retirable(b, e, b.invoices[e].correction)
          BY <2>4, <3>1, <4>1 DEF NetsZero
      <4>. QED  BY <2>2, <2>3, <4>1, <4>2, RetirableStays
    <3>. QED  BY <3>2, <3>3
  <2>. QED  BY <2>4 DEF NetsZero
<1>6. CASE r.invoices = b.invoices /\ r.notes = b.notes
    BY <1>2, <1>6, RetirableStays DEF NetsZero
<1>. QED  BY <1>3, <1>4, <1>5, <1>6, InvoicesChange, NotesChange

\* A cancelled or revised sale has no effect left, and nothing that comes
\* later changes that.
THEOREM RetiredSalesNetZero == Spec => []RetiredSaleNetsZero
<1>. DEFINE X == {b \in BooksType : Running(b) /\ NetsZero(b)}
            Inv == IInv /\ Running(Books) /\ NetsZero(Books)
<1>1. Init => Inv
    BY IInvInit, EmptyBooks DEF Running, NetsZero
<1>2. Within(X)
  <2>1. ASSUME NEW b \in X, NEW r, Sound(b), Move(b, r)
        PROVE  r \in X
      BY <2>1, MoveKept, MoveClaims, MoveNetsZero DEF Sound
  <2>. QED  BY <2>1 DEF Within
<1>3. Inv /\ [Next]_vars => Inv'
  <2> SUFFICES ASSUME Inv, [Next]_vars PROVE Books' \in X
      BY IInvNext
  <2>1. Books \in X
      BY DEF IInv, Sound
  <2>. HIDE DEF X
  <2>. QED  BY <1>2, <2>1, NextWithin
<1>4. Inv => RetiredSaleNetsZero
  <2> SUFFICES ASSUME Sound(Books), NetsZero(Books) PROVE RetiredSaleNetsZero
      BY DEF IInv
  <2>1. Books \in BooksType
      BY DEF Sound
  <2>2. 0 \notin DOMAIN notes
    <3>1. notes \in Seq(Note)
        BY <2>1, BooksTables DEF BooksType
    <3>. QED  BY <3>1
  <2>3. ASSUME NEW d \in DOMAIN invoices, invoices[d].state # "LIVE"
        PROVE  /\ Paid(Books, d) = 0
               /\ IF invoices[d].correction = 0
                  THEN ~InForce(invoices[d])
                  ELSE LET note == notes[invoices[d].correction]
                       IN  /\ InForce(invoices[d]) /\ InForce(note)
                           /\ note.source = d /\ note.total = invoices[d].total
    <3>1. Retirable(Books, d, invoices[d].correction)
        BY <2>3, BooksTables DEF NetsZero
    <3>2. Paid(Books, d) = 0
        BY <2>1, <3>1, NothingPaidIs DEF Retirable
    <3>3. \A doc : doc.reversals = 1 => ~InForce(doc)
        BY DEF InForce
    <3>4. \A doc : Posted(doc) => InForce(doc)
        BY DEF InForce, Posted
    <3>. QED  BY <2>2, <3>1, <3>2, <3>3, <3>4, BooksTables DEF Retirable
  <2>. QED  BY <2>3 DEF RetiredSaleNetsZero
<1>. HIDE DEF Inv
<1>. QED  BY <1>1, <1>3, <1>4, PTL DEF Spec

-----------------------------------------------------------------------------
(* No document is paid, noted and carried to beyond its total.             *)

\* What is noted is a sum of natural numbers over a finite set.
LEMMA NotedIs ==
    ASSUME NEW b \in BooksType, NEW d
    PROVE  LET f == [n \in NotesThatCount(b, d) |-> b.notes[n].total]
           IN  /\ IsFiniteSet(NotesThatCount(b, d))
               /\ \A n \in NotesThatCount(b, d) : f[n] \in Nat
               /\ Noted(b, d) = SumFunctionOnSet(f, NotesThatCount(b, d))
<1>1. b.notes \in Seq(Note)
    BY DEF BooksType
<1>2. IsFiniteSet(DOMAIN b.notes) /\ \A n \in DOMAIN b.notes : b.notes[n] \in Note
    BY ONLY <1>1, TableRows
<1>3. NotesThatCount(b, d) \subseteq DOMAIN b.notes
    BY DEF NotesThatCount, NotesOf
<1>4. IsFiniteSet(NotesThatCount(b, d))
    BY <1>2, <1>3, FS_Subset
<1>5. \A n \in NotesThatCount(b, d) : b.notes[n].total \in Nat
    BY <1>2, <1>3, ReceivablesConstants DEF Note
<1>. QED  BY <1>4, <1>5 DEF Noted, NotesThatCount, SumFunction

\* It grows by the amount of the note that is new at most.
LEMMA NotedGrows ==
    ASSUME NEW b \in BooksType, NEW r \in BooksType, Kept(b, r), NEW d, NEW x,
           NotesThatCount(r, d) \subseteq NotesThatCount(b, d) \cup {x},
           NEW v \in Nat,
           x \in NotesThatCount(r, d) => x \in NotesThatCount(b, d)
                                         \/ r.notes[x].total <= v
    PROVE  Noted(r, d) <= Noted(b, d) + v
<1>. DEFINE S == NotesThatCount(b, d)
            R == NotesThatCount(r, d)
            g == [n \in S |-> b.notes[n].total]
            f == [n \in R |-> r.notes[n].total]
<1>1. /\ IsFiniteSet(S) /\ \A n \in S : g[n] \in Nat
      /\ Noted(b, d) = SumFunctionOnSet(g, S)
    BY NotedIs
<1>2. /\ \A n \in R : f[n] \in Nat
      /\ Noted(r, d) = SumFunctionOnSet(f, R)
    BY NotedIs
<1>3. S \subseteq DOMAIN b.notes
    BY DEF NotesThatCount, NotesOf
<1>4. \A n \in R : n \in S => f[n] = g[n]
    BY <1>3 DEF Kept
<1>5. R \subseteq S \cup {x} /\ (x \in R => x \in S \/ f[x] <= v)
    OBVIOUS
<1>. HIDE DEF S, R, f, g
<1>. QED  BY ONLY <1>1, <1>2, <1>4, <1>5, v \in Nat, SumOneMore

\* What is carried to an invoice does not grow with the carries unchanged.
LEMMA CarriedShrinks ==
    ASSUME NEW b \in BooksType, NEW r \in BooksType, r.carries = b.carries, NEW d,
           CarriesTo(r, d) \subseteq CarriesTo(b, d)
    PROVE  Carried(r, d) <= Carried(b, d)
<1>. DEFINE S == CarriesTo(b, d)
            R == CarriesTo(r, d)
            g == [c \in S |-> b.carries[c].applied]
            f == [c \in R |-> r.carries[c].applied]
<1>1. b.carries \in Seq(Carry)
    BY DEF BooksType
<1>2. /\ IsFiniteSet(DOMAIN b.carries) /\ DOMAIN b.carries \subseteq Nat \ {0}
      /\ \A c \in DOMAIN b.carries : b.carries[c] \in Carry
    BY ONLY <1>1, TableRows
<1>3. S \subseteq DOMAIN b.carries /\ 0 \notin R
    BY <1>2 DEF CarriesTo
<1>4. IsFiniteSet(S)
    BY <1>2, <1>3, FS_Subset
<1>5. \A c \in S : g[c] \in Nat
    BY <1>2, <1>3 DEF Carry
<1>6. \A c \in R : f[c] = g[c] /\ f[c] \in Nat
    BY <1>5
<1>7. /\ Carried(b, d) = SumFunctionOnSet(g, S)
      /\ Carried(r, d) = SumFunctionOnSet(f, R)
    BY DEF Carried, SumFunction
<1>8. R \subseteq S \cup {0}
    OBVIOUS
<1>9. Carried(b, d) \in Nat /\ Carried(r, d) \in Nat
    BY ClaimSums
<1>. HIDE DEF S, R, f, g
<1>10. SumFunctionOnSet(f, R) <= SumFunctionOnSet(g, S) + 0
    BY ONLY <1>3, <1>4, <1>5, <1>6, <1>8, 0 \in Nat, SumOneMore
<1>. QED  BY <1>7, <1>9, <1>10

\* It stays so where the total is the same and no claim grows.
LEMMA ClaimsNoMore ==
    ASSUME NEW b \in BooksType, NEW r \in BooksType, NEW d \in DOMAIN b.invoices,
           d \in DOMAIN r.invoices,
           r.invoices[d].total = b.invoices[d].total,
           Noted(r, d) <= Noted(b, d), Carried(r, d) <= Carried(b, d),
           Paid(r, d) <= Paid(b, d), BatchOutstanding(b, d) >= 0
    PROVE  BatchOutstanding(r, d) >= 0
<1>1. /\ Noted(b, d) \in Nat /\ Carried(b, d) \in Nat /\ Paid(b, d) \in Nat
      /\ Noted(r, d) \in Nat /\ Carried(r, d) \in Nat /\ Paid(r, d) \in Nat
    BY ClaimSums
<1>2. b.invoices[d].total \in Nat
    BY OutstandingType
<1>. QED  BY <1>1, <1>2 DEF BatchOutstanding

\* With the notes and carries unchanged, only payments matter.
LEMMA PaymentsNoMore ==
    ASSUME NEW b, Sound(b), NEW r, Sound(r), Kept(b, r), NEW d \in DOMAIN b.invoices,
           r.notes = b.notes, Carried(r, d) = Carried(b, d),
           Fewer(b, r, d), BatchOutstanding(b, d) >= 0
    PROVE  BatchOutstanding(r, d) >= 0
<1>1. b \in BooksType /\ r \in BooksType
    BY DEF Sound
<1>2. d \in DOMAIN r.invoices /\ r.invoices[d].total = b.invoices[d].total
    BY DEF Kept
<1>3. Noted(r, d) = Noted(b, d)
    BY DEF Noted, NotesOf, PostedNotes
<1>4. Paid(r, d) <= Paid(b, d)
    BY <1>1, FewerPaid
<1>5. Noted(b, d) \in Nat /\ Carried(b, d) \in Nat
    BY <1>1, ClaimSums
<1>6. Noted(r, d) <= Noted(b, d) /\ Carried(r, d) <= Carried(b, d)
    BY <1>3, <1>5
<1>. QED  BY ONLY <1>1, <1>2, <1>4, <1>6, d \in DOMAIN b.invoices,
            BatchOutstanding(b, d) >= 0, ClaimsNoMore

\* A note is of no more than is outstanding.
LEMMA NoteNoMore ==
    ASSUME NEW b, Sound(b), NEW r, Sound(r), Kept(b, r), NoteMove(b, r),
           NEW d \in DOMAIN b.invoices, Fewer(b, r, d), BatchOutstanding(b, d) >= 0
    PROVE  BatchOutstanding(r, d) >= 0
<1>1. b \in BooksType /\ r \in BooksType /\ b.notes \in Seq(Note)
    BY DEF Sound, BooksType
<1>2. r.carries = b.carries /\ r.invoices = b.invoices
    BY NoteTables DEF SameBut
<1>3. Paid(r, d) <= Paid(b, d)
    BY <1>1, FewerPaid
<1>4. \A c \in DOMAIN b.carries : b.carries[c].note \in DOMAIN b.notes
    BY DEF Sound, Linked
<1>5. /\ Noted(b, d) \in Nat /\ Carried(b, d) \in Nat /\ Paid(b, d) \in Nat
      /\ Noted(r, d) \in Nat /\ Carried(r, d) \in Nat /\ Paid(r, d) \in Nat
    BY <1>1, ClaimSums
<1>6. CASE \E n \in DOMAIN b.notes :
                /\ NoteRow(b, r, n, Turn(b.notes[n]))
                /\ ~Posted(r.notes[n])
  <2>1. PICK n \in DOMAIN b.notes :
                /\ NoteRow(b, r, n, Turn(b.notes[n]))
                /\ ~Posted(r.notes[n])
      BY <1>6
  <2>2. PostedNotes(r) = PostedNotes(b) \ {n}
      BY <2>1 DEF NoteRow, PostedNotes
  <2>3. NotesThatCount(r, d) \subseteq NotesThatCount(b, d)
    <3>1. \A m \in DOMAIN b.notes : r.notes[m].source = b.notes[m].source
        BY DEF Kept
    <3>. QED  BY <2>1, <2>2, <3>1 DEF NotesThatCount, NotesOf, NoteRow
  <2>4. NotesThatCount(r, d) \subseteq NotesThatCount(b, d) \cup {0}
        /\ 0 \notin NotesThatCount(r, d)
    <3>1. 0 \notin DOMAIN b.notes
        BY <1>1
    <3>. QED  BY <2>3, <3>1 DEF NotesThatCount, NotesOf
  <2>5. Noted(r, d) <= Noted(b, d) + 0
      BY ONLY <1>1, <2>4, Kept(b, r), 0 \in Nat, NotedGrows
  <2>6. CarriesTo(r, d) \subseteq CarriesTo(b, d)
      BY <1>2, <2>2 DEF CarriesTo
  <2>7. Carried(r, d) <= Carried(b, d)
      BY <1>1, <1>2, <2>6, CarriedShrinks
  <2>8. Noted(r, d) <= Noted(b, d)
      BY <1>5, <2>5
  <2>. QED  BY <1>1, <1>2, <1>3, <2>7, <2>8, ClaimsNoMore
<1>7. CASE \E e \in DOMAIN b.invoices, amount \in Amount :
                /\ NoteAccepted(b, e, amount)
                /\ r.notes = Append(b.notes, [source |-> e, total |-> amount,
                                              reversals |-> 0])
  <2>1. PICK e \in DOMAIN b.invoices, amount \in Amount :
                /\ NoteAccepted(b, e, amount)
                /\ r.notes = Append(b.notes, [source |-> e, total |-> amount,
                                              reversals |-> 0])
      BY <1>7
  <2>. DEFINE k == Len(b.notes) + 1
              row == [source |-> e, total |-> amount, reversals |-> 0]
  <2>2. row.source = e /\ row.total = amount
      OBVIOUS
  <2>. HIDE DEF row
  <2>3. /\ DOMAIN r.notes = DOMAIN b.notes \cup {k} /\ r.notes[k] = row
        /\ k \notin DOMAIN b.notes
        /\ \A n \in DOMAIN b.notes : r.notes[n] = b.notes[n]
    <3>1. r.notes = Append(b.notes, row)
        BY <2>1 DEF row
    <3>. QED  BY ONLY <1>1, <3>1, RowAdded
  <2>. HIDE DEF k
  <2>4. amount \in Nat \ {0}
      BY ReceivablesConstants
  <2>5. NotesThatCount(r, d) \subseteq NotesThatCount(b, d) \cup {k}
        /\ (k \in NotesThatCount(r, d) => d = e)
      BY <2>2, <2>3 DEF NotesThatCount, NotesOf, PostedNotes
  <2>6. CarriesTo(r, d) \subseteq CarriesTo(b, d)
      BY <1>2, <1>4, <2>3 DEF CarriesTo, PostedNotes
  <2>7. Carried(r, d) <= Carried(b, d)
      BY <1>1, <1>2, <2>6, CarriedShrinks
  <2>8. CASE d = e
    <3>1. amount <= Outstanding(b, d)
        BY <2>1, <2>8 DEF NoteAccepted
    <3>2. amount <= BatchOutstanding(b, d)
        BY <1>1, <2>4, <3>1, PositiveOutstanding
    <3>3. r.notes[k].total <= amount
        BY <2>2, <2>3, <2>4
    <3>4. amount \in Nat
        BY <2>4
    <3>5. Noted(r, d) <= Noted(b, d) + amount
        BY ONLY <1>1, <2>5, <3>3, <3>4, Kept(b, r), NotedGrows
    <3>6. b.invoices[d].total \in Nat
        BY <1>1, OutstandingType
    <3>. QED  BY <1>2, <1>3, <1>5, <2>4, <2>7, <3>2, <3>5, <3>6 DEF BatchOutstanding
  <2>9. CASE d # e
    <3>1. k \notin NotesThatCount(r, d)
        BY <2>5, <2>9
    <3>2. Noted(r, d) <= Noted(b, d) + 0
        BY ONLY <1>1, <2>5, <3>1, Kept(b, r), 0 \in Nat, NotedGrows
    <3>3. Noted(r, d) <= Noted(b, d)
        BY <1>5, <3>2
    <3>. QED  BY <1>1, <1>2, <1>3, <2>7, <3>3, ClaimsNoMore
  <2>. QED  BY <2>8, <2>9
<1>. QED  BY <1>6, <1>7, NoteTables

\* A new invoice is not paid and has no notes, and no more is carried to it
\* than its total.
LEMMA EntryNoMore ==
    ASSUME NEW b, Sound(b), NoneOverpaid(b), NEW r, Sound(r), Kept(b, r),
           EntryMove(b, r), \A d : Fewer(b, r, d)
    PROVE  NoneOverpaid(r)
<1>1. b \in BooksType /\ r \in BooksType
    BY DEF Sound
<1>. DEFINE k == Len(b.invoices) + 1
<1>2. PICK total \in Amount, previous \in Nat :
            /\ Carried(b, k) <= total
            /\ SameBut(r, b, {"invoices"})
            /\ r.invoices = Append(b.invoices,
                 [total |-> total, reversals |-> 0, state |-> "LIVE",
                  correction |-> 0, previous |-> previous])
    BY EntryTables
<1>3. r.notes = b.notes /\ r.carries = b.carries
    BY <1>2 DEF SameBut
<1>. DEFINE row == [total |-> total, reversals |-> 0, state |-> "LIVE",
                    correction |-> 0, previous |-> previous]
<1>4. row.total = total
    OBVIOUS
<1>. HIDE DEF row
<1>5. /\ DOMAIN r.invoices = DOMAIN b.invoices \cup {k} /\ r.invoices[k] = row
      /\ k \notin DOMAIN b.invoices
  <2>1. b.invoices \in Seq(Invoice) /\ r.invoices = Append(b.invoices, row)
      BY <1>1, <1>2 DEF BooksType, row
  <2>. QED  BY ONLY <2>1, RowAdded
<1>. HIDE DEF k
<1>6. ASSUME NEW d \in DOMAIN b.invoices
      PROVE  BatchOutstanding(r, d) >= 0
  <2>1. Carried(r, d) = Carried(b, d) /\ BatchOutstanding(b, d) >= 0
      BY <1>3, CarriedSame DEF NoneOverpaid
  <2>. QED  BY <1>3, <2>1, PaymentsNoMore
<1>7. BatchOutstanding(r, k) >= 0
  <2>1. Carried(r, k) <= total
      BY <1>2, <1>3, CarriedSame
  <2>2. Noted(r, k) = 0
    <3>1. NotesThatCount(b, k) = {}
        BY <1>5 DEF Sound, Linked, NotesThatCount, NotesOf
    <3>2. NotesThatCount(r, k) = {}
        BY <1>3, <3>1 DEF NotesThatCount, NotesOf, PostedNotes
    <3>. QED  BY <1>1, <3>2, NotedIs, SumEmpty
  <2>3. Paid(r, k) = 0
    <3>1. NothingPaid(b, k)
        BY <1>5 DEF Sound, Linked, RowLinked, ApplicationLinked, NothingPaid,
                    EffectiveAllocations, EffectiveApplications
    <3>2. NothingPaid(r, k)
        BY <1>1, <3>1, FewerPaid
    <3>. QED  BY <1>1, <3>2, NothingPaidIs
  <2>4. total \in Nat /\ Carried(r, k) \in Nat
      BY <1>1, ReceivablesConstants, ClaimSums
  <2>. QED  BY <1>4, <1>5, <2>1, <2>2, <2>3, <2>4 DEF BatchOutstanding
<1>. QED  BY <1>5, <1>6, <1>7 DEF NoneOverpaid

\* No call takes a document below zero.
LEMMA MoveNoneOverpaid ==
    ASSUME NEW b, Sound(b), Running(b), NoneOverpaid(b), NEW r, Move(b, r)
    PROVE  NoneOverpaid(r)
<1>1. Sound(r) /\ Kept(b, r) /\ b \in BooksType /\ r \in BooksType
    BY MoveKept DEF Sound
<1>2. \A d : Fewer(b, r, d) \/ PaidUp(b, r, d)
    BY MoveClaims
<1>3. ASSUME NEW d \in DOMAIN b.invoices, PaidUp(b, r, d)
      PROVE  BatchOutstanding(r, d) >= 0
  <2>1. Noted(r, d) = Noted(b, d) /\ Carried(r, d) = Carried(b, d)
      BY <1>3 DEF PaidUp, Noted, NotesOf, PostedNotes, Carried, CarriesTo
  <2>2. /\ Noted(b, d) \in Nat /\ Carried(b, d) \in Nat /\ Paid(b, d) \in Nat
        /\ Paid(r, d) \in Nat
      BY <1>1, ClaimSums
  <2>3. b.invoices[d].total \in Nat
      BY OutstandingType, <1>1
  <2>. QED  BY <1>3, <2>1, <2>2, <2>3 DEF PaidUp, BatchOutstanding
<1>4. \A d \in DOMAIN b.invoices : BatchOutstanding(b, d) >= 0
    BY DEF NoneOverpaid
<1>5. CASE NoteMove(b, r)
  <2>1. r.invoices = b.invoices
      BY <1>5, NoteTables DEF SameBut
  <2>2. \A d \in DOMAIN b.invoices : BatchOutstanding(r, d) >= 0
      BY <1>1, <1>2, <1>3, <1>4, <1>5, NoteNoMore
  <2>. QED  BY <2>1, <2>2 DEF NoneOverpaid
<1>6. CASE EntryMove(b, r)
  <2>1. \A d : Fewer(b, r, d)
      BY <1>6, OtherClaims DEF OtherMove
  <2>. QED  BY <1>1, <1>6, <2>1, EntryNoMore
<1>7. CASE CarryMove(b, r)
  <2>1. r.invoices = b.invoices /\ r.notes = b.notes
      BY <1>7, CarryTables
  <2>2. \A d \in DOMAIN b.invoices : d # Len(b.invoices) + 1
    <3>1. b.invoices \in Seq(Invoice)
        BY <1>1 DEF BooksType
    <3>. QED  BY <3>1
  <2>3. \A d \in DOMAIN b.invoices : Carried(r, d) = Carried(b, d)
      BY <1>7, <2>2, CarryTables
  <2>4. \A d \in DOMAIN b.invoices : BatchOutstanding(r, d) >= 0
      BY <1>1, <1>2, <1>3, <1>4, <2>1, <2>3, PaymentsNoMore
  <2>. QED  BY <2>1, <2>4 DEF NoneOverpaid
<1>8. CASE PlainMove(b, r) /\ ~NoteMove(b, r) /\ ~EntryMove(b, r)
  <2>1. r.notes = b.notes /\ r.carries = b.carries
      BY <1>8, NotesChange, PlainCarries DEF Move
  <2>2. DOMAIN r.invoices = DOMAIN b.invoices
    <3>1. InvoiceMove(b, r) => DOMAIN r.invoices = DOMAIN b.invoices
        BY InvoiceTables DEF InvoiceRow
    <3>. QED  BY <1>8, <3>1, InvoicesChange DEF Move
  <2>3. \A d \in DOMAIN b.invoices : Carried(r, d) = Carried(b, d)
      BY <2>1, CarriedSame
  <2>4. \A d \in DOMAIN b.invoices : BatchOutstanding(r, d) >= 0
      BY <1>1, <1>2, <1>3, <1>4, <2>1, <2>3, PaymentsNoMore
  <2>. QED  BY <2>2, <2>4 DEF NoneOverpaid
<1>. QED  BY <1>5, <1>6, <1>7, <1>8 DEF Move

\* No document is ever paid, noted and carried to beyond its total, so that
\* documentOutstandingInTx never meets a negative amount.
THEOREM DocumentsNotOverpaid == Spec => []NoOverpaidDocument
<1>. DEFINE X == {b \in BooksType : Running(b) /\ NoneOverpaid(b)}
            Inv == IInv /\ Running(Books) /\ NoneOverpaid(Books)
<1>1. Init => Inv
    BY IInvInit, EmptyBooks DEF Running, NoneOverpaid
<1>2. Within(X)
  <2>1. ASSUME NEW b \in X, NEW r, Sound(b), Move(b, r)
        PROVE  r \in X
      BY <2>1, MoveKept, MoveClaims, MoveNoneOverpaid DEF Sound
  <2>. QED  BY <2>1 DEF Within
<1>3. Inv /\ [Next]_vars => Inv'
  <2> SUFFICES ASSUME Inv, [Next]_vars PROVE Books' \in X
      BY IInvNext
  <2>1. Books \in X
      BY DEF IInv, Sound
  <2>. HIDE DEF X
  <2>. QED  BY <1>2, <2>1, NextWithin
<1>4. Inv => NoOverpaidDocument
    BY BooksTables DEF NoneOverpaid, NoOverpaidDocument
<1>. HIDE DEF Inv
<1>. QED  BY <1>1, <1>3, <1>4, PTL DEF Spec

-----------------------------------------------------------------------------
(* The money of each payment is in one place: on the documents it is       *)
(* allocated to, on those its advance is applied to, left on the advance,  *)
(* or moved to credits of its own.                                         *)

\* Credits come from payments there are.
LEMMA SourceIs ==
    ASSUME NEW b, Sound(b), NEW from \in Origin, OriginLinked(b, from)
    PROVE  SourceOf(b, from) \in DOMAIN b.settlements \cup {0}
<1>1. \A a \in DOMAIN b.applications :
            b.applications[a].advance \in DOMAIN b.settlements
    BY DEF Sound, Linked, ApplicationLinked
<1>. QED  BY <1>1 DEF SourceOf, OriginLinked

\* All these are natural numbers.
LEMMA PlacedType ==
    ASSUME NEW b, Sound(b), NEW t \in DOMAIN b.settlements
    PROVE  /\ b.settlements[t] \in Settlement
           /\ b.settlements[t].amount \in Nat \ {0}
           /\ b.settlements[t].remaining \in Nat
           /\ IsFiniteSet(DOMAIN b.settlements[t].allocations)
           /\ IsFiniteSet(DOMAIN b.applications) /\ IsFiniteSet(DOMAIN b.settlements)
           /\ \A d \in DOMAIN HeldRow(b, t) : HeldRow(b, t)[d] \in Nat
           /\ \A a \in DOMAIN DrawnRow(b, t) : DrawnRow(b, t)[a] \in Nat
           /\ \A u \in DOMAIN MovedRow(b, t) : MovedRow(b, t)[u] \in Nat
           /\ Held(b, t) \in Nat /\ Drawn(b, t) \in Nat /\ Moved(b, t) \in Nat
<1>1. b.settlements \in Seq(Settlement) /\ b.applications \in Seq(Application)
    BY DEF Sound, BooksType
<1>2. /\ IsFiniteSet(DOMAIN b.settlements)
      /\ \A u \in DOMAIN b.settlements : b.settlements[u] \in Settlement
    BY ONLY <1>1, TableRows
<1>3. /\ IsFiniteSet(DOMAIN b.applications)
      /\ \A a \in DOMAIN b.applications : b.applications[a] \in Application
    BY ONLY <1>1, TableRows
<1>4. \A u \in DOMAIN b.settlements :
            b.settlements[u].amount \in Nat \ {0} /\ b.settlements[u].remaining \in Nat
    BY <1>2 DEF Settlement
<1>5. /\ IsFiniteSet(DOMAIN b.settlements[t].allocations)
      /\ \A d \in DOMAIN b.settlements[t].allocations :
            /\ b.settlements[t].allocations[d].amount \in Nat
            /\ b.settlements[t].allocations[d].discount \in Nat
    BY <1>2, AllocationsType
<1>6. \A d \in DOMAIN b.settlements[t].allocations :
            b.settlements[t].allocations[d].discount
                < b.settlements[t].allocations[d].amount
    BY DEF Sound, Linked, RowLinked
<1>7. \A d \in DOMAIN HeldRow(b, t) : HeldRow(b, t)[d] \in Nat
    BY <1>5, <1>6 DEF HeldRow
<1>8. \A a \in DOMAIN b.applications : b.applications[a].amount \in Nat
    BY <1>3 DEF Application
<1>9. \A a \in DOMAIN DrawnRow(b, t) : DrawnRow(b, t)[a] \in Nat
    BY <1>8 DEF DrawnRow
<1>10. \A u \in DOMAIN MovedRow(b, t) : MovedRow(b, t)[u] \in Nat
    BY <1>4 DEF MovedRow
<1>11. /\ IsFiniteSet(DOMAIN HeldRow(b, t)) /\ IsFiniteSet(DOMAIN DrawnRow(b, t))
       /\ IsFiniteSet(DOMAIN MovedRow(b, t))
    BY <1>2, <1>3, <1>5 DEF HeldRow, DrawnRow, MovedRow
<1>12. Held(b, t) \in Nat /\ Drawn(b, t) \in Nat /\ Moved(b, t) \in Nat
    BY <1>7, <1>9, <1>10, <1>11, SumNat DEF Held, Drawn, Moved, Total
<1>. QED  BY <1>2, <1>3, <1>4, <1>5, <1>7, <1>9, <1>10, <1>12

\* A payment that has not been posted has moved nowhere.
LEMMA NothingMoved ==
    ASSUME NEW b, Sound(b), NEW t \in DOMAIN b.settlements, Moved(b, t) = 0
    PROVE  \A u \in DOMAIN b.settlements :
                SourceOf(b, b.settlements[u].origin) # t
<1> SUFFICES ASSUME NEW u \in DOMAIN b.settlements,
                    SourceOf(b, b.settlements[u].origin) = t
             PROVE  FALSE
    OBVIOUS
<1>. DEFINE S == DOMAIN b.settlements
            f == MovedRow(b, t)
<1>1. /\ IsFiniteSet(S) /\ DOMAIN f = S /\ \A x \in S : f[x] \in Nat
    BY PlacedType DEF MovedRow
<1>2. f[u] = b.settlements[u].amount /\ b.settlements[u].amount \in Nat \ {0}
    BY PlacedType DEF MovedRow
<1>3. Moved(b, t) = SumFunctionOnSet(f, S)
    BY <1>1 DEF Moved, Total
<1>. HIDE DEF S, f
<1>4. u \in S
    BY DEF S
<1>5. \A x \in S : f[x] \in Int
    BY <1>1
<1>6. SumFunctionOnSet(f, S) = f[u] + SumFunctionOnSet(f, S \ {u})
    BY ONLY <1>1, <1>4, <1>5, SumRemove
<1>7. SumFunctionOnSet(f, S \ {u}) \in Nat
  <2>1. IsFiniteSet(S \ {u}) /\ \A x \in S \ {u} : f[x] \in Nat
      BY <1>1, FS_Subset
  <2>. QED  BY <2>1, SumNat
<1>. QED  BY <1>2, <1>3, <1>6, <1>7

\* A row more in the payments: the credits of others grow by its amount.
LEMMA MovedAppend ==
    ASSUME NEW b, Sound(b), NEW r, Sound(r), NEW row,
           r.settlements = Append(b.settlements, row),
           r.applications = b.applications, NEW t \in DOMAIN b.settlements
    PROVE  Moved(r, t) = Moved(b, t)
                + (IF SourceOf(b, row.origin) = t THEN row.amount ELSE 0)
<1>1. b.settlements \in Seq(Settlement)
    BY DEF Sound, BooksType
<1>. DEFINE n == Len(b.settlements)
            f == MovedRow(b, t)
            g == MovedRow(r, t)
<1>2. n \in Nat /\ DOMAIN b.settlements = 1..n
    BY ONLY <1>1, TableRows
<1>3. /\ DOMAIN r.settlements = DOMAIN b.settlements \cup {n + 1}
      /\ r.settlements[n + 1] = row
      /\ \A s \in DOMAIN b.settlements : r.settlements[s] = b.settlements[s]
    BY ONLY <1>1, r.settlements = Append(b.settlements, row), RowAdded
<1>4. DOMAIN r.settlements = 1..(n + 1)
    BY <1>2, <1>3
<1>5. \A from : SourceOf(r, from) = SourceOf(b, from)
    BY DEF SourceOf
<1>6. DOMAIN f = 1..n /\ DOMAIN g = 1..(n + 1)
    BY <1>2, <1>4 DEF MovedRow
<1>7. \A k \in 1..n : f[k] \in Int /\ g[k] = f[k]
  <2>1. \A k \in 1..n : f[k] \in Nat
      BY <1>6, PlacedType
  <2>2. \A k \in 1..n : g[k] = f[k]
      BY <1>2, <1>3, <1>5 DEF MovedRow
  <2>. QED  BY <2>1, <2>2
<1>8. g[n + 1] = (IF SourceOf(b, row.origin) = t THEN row.amount ELSE 0)
    BY <1>3, <1>5 DEF MovedRow
<1>9. g[n + 1] \in Int
  <2>1. t \in DOMAIN r.settlements /\ n + 1 \in DOMAIN g
      BY <1>2, <1>3, <1>6
  <2>2. g[n + 1] \in Nat
      BY <2>1, PlacedType
  <2>. QED  BY <2>2
<1>. HIDE DEF f, g, n
<1>10. Total(g) = Total(f) + g[n + 1]
    BY ONLY <1>2, <1>6, <1>7, <1>9, TotalAppend
<1>. QED  BY <1>8, <1>10 DEF f, g, Moved

\* The money is in place with a payment more, if that took its own from the
\* documents that another was on.
LEMMA RowPlaced ==
    ASSUME NEW b, Sound(b), Placed(b), NEW r, Sound(r), NEW row,
           r.settlements = Append(b.settlements, row),
           r.applications = b.applications,
           \/ /\ row.status = "POSTED" /\ row.remaining = row.amount
              /\ DOMAIN row.allocations = {}
           \/ row.status = "PENDING_CHEQUE" /\ row.remaining = 0,
           SourceOf(b, row.origin) \in DOMAIN b.settlements \cup {0},
           \A t \in DOMAIN b.settlements :
                Held(b, t) + Drawn(b, t) = Held(r, t) + Drawn(r, t)
                    + (IF SourceOf(b, row.origin) = t THEN row.amount ELSE 0)
    PROVE  Placed(r)
<1>1. b.settlements \in Seq(Settlement)
    BY DEF Sound, BooksType
<1>. DEFINE k == Len(b.settlements) + 1
<1>2. /\ DOMAIN r.settlements = DOMAIN b.settlements \cup {k}
      /\ k \notin DOMAIN b.settlements /\ r.settlements[k] = row
      /\ \A s \in DOMAIN b.settlements : r.settlements[s] = b.settlements[s]
    BY ONLY <1>1, r.settlements = Append(b.settlements, row), RowAdded
<1>3. k # 0
  <2>1. Len(b.settlements) \in Nat
      BY <1>1
  <2>. QED  BY <2>1
<1>. HIDE DEF k
<1>4. ASSUME NEW t \in DOMAIN b.settlements
      PROVE  PlacedRow(r, t)
  <2>1. Moved(r, t) = Moved(b, t)
                + (IF SourceOf(b, row.origin) = t THEN row.amount ELSE 0)
      BY MovedAppend
  <2>2. /\ Held(b, t) \in Nat /\ Drawn(b, t) \in Nat /\ Moved(b, t) \in Nat
        /\ b.settlements[t].remaining \in Nat
      BY PlacedType
  <2>3. t \in DOMAIN r.settlements
      BY <1>2
  <2>4. Held(r, t) \in Nat /\ Drawn(r, t) \in Nat
      BY <2>3, PlacedType
  <2>5. (IF SourceOf(b, row.origin) = t THEN row.amount ELSE 0) \in Nat
    <3>1. row.amount \in Nat
        BY <1>2, PlacedType
    <3>. QED  BY <3>1
  <2>6. Held(b, t) + Drawn(b, t) = Held(r, t) + Drawn(r, t)
                    + (IF SourceOf(b, row.origin) = t THEN row.amount ELSE 0)
      OBVIOUS
  <2>7. /\ (IF Effective(r, t) THEN r.settlements[t].amount ELSE 0)
            = (IF Effective(b, t) THEN b.settlements[t].amount ELSE 0)
        /\ r.settlements[t].remaining = b.settlements[t].remaining
      BY <1>2 DEF Effective
  <2>8. (IF Effective(b, t) THEN b.settlements[t].amount ELSE 0)
            = b.settlements[t].remaining + Held(b, t) + Drawn(b, t) + Moved(b, t)
      BY DEF Placed, PlacedRow
  <2>9. (IF Effective(r, t) THEN r.settlements[t].amount ELSE 0)
            = r.settlements[t].remaining + Held(r, t) + Drawn(r, t) + Moved(r, t)
      BY ONLY <2>1, <2>2, <2>4, <2>5, <2>6, <2>7, <2>8
  <2>. QED  BY <2>9 DEF PlacedRow
<1>5. PlacedRow(r, k)
  <2>1. k \in DOMAIN r.settlements
      BY <1>2
  <2>2. IsFiniteSet(DOMAIN r.settlements[k].allocations)
        /\ IsFiniteSet(DOMAIN r.applications) /\ IsFiniteSet(DOMAIN r.settlements)
      BY <2>1, PlacedType
  <2>3. \A d \in DOMAIN HeldRow(r, k) : HeldRow(r, k)[d] = 0
      BY <1>2 DEF HeldRow, Effective
  <2>4. \A a \in DOMAIN DrawnRow(r, k) : DrawnRow(r, k)[a] = 0
    <3>1. \A a \in DOMAIN b.applications :
                b.applications[a].advance \in DOMAIN b.settlements
        BY DEF Sound, Linked, ApplicationLinked
    <3>. QED  BY <1>2, <3>1 DEF DrawnRow
  <2>5. \A u \in DOMAIN MovedRow(r, k) : MovedRow(r, k)[u] = 0
    <3>1. \A from : SourceOf(r, from) = SourceOf(b, from)
        BY DEF SourceOf
    <3>2. ASSUME NEW u \in DOMAIN b.settlements
          PROVE  SourceOf(b, b.settlements[u].origin) # k
      <4>1. b.settlements[u].origin \in Origin
        <5>1. b.settlements[u] \in Settlement
            BY PlacedType
        <5>. QED  BY <5>1 DEF Settlement
      <4>2. CASE b.settlements[u].origin = <<>>
          BY <1>3, <4>2 DEF SourceOf
      <4>3. CASE b.settlements[u].origin # <<>>
        <5>1. OriginLinked(b, b.settlements[u].origin)
            BY <4>3 DEF Sound, Linked, RowLinked
        <5>2. SourceOf(b, b.settlements[u].origin) \in DOMAIN b.settlements \cup {0}
            BY <4>1, <5>1, SourceIs
        <5>. QED  BY <1>2, <1>3, <5>2
      <4>. QED  BY <4>2, <4>3
    <3>3. SourceOf(b, row.origin) # k
        BY <1>2, <1>3
    <3>4. ASSUME NEW u \in DOMAIN r.settlements
          PROVE  SourceOf(r, r.settlements[u].origin) # k
        BY <1>2, <3>1, <3>2, <3>3
    <3>. QED  BY <3>4 DEF MovedRow
  <2>6. Held(r, k) = 0 /\ Drawn(r, k) = 0 /\ Moved(r, k) = 0
    <3>1. /\ IsFiniteSet(DOMAIN HeldRow(r, k)) /\ IsFiniteSet(DOMAIN DrawnRow(r, k))
          /\ IsFiniteSet(DOMAIN MovedRow(r, k))
        BY <2>2 DEF HeldRow, DrawnRow, MovedRow
    <3>. QED  BY <2>3, <2>4, <2>5, <3>1, SumOfZeros DEF Held, Drawn, Moved, Total
  <2>7. row.remaining \in Nat
      BY <1>2, <2>1, PlacedType
  <2>. QED  BY <1>2, <2>6, <2>7 DEF PlacedRow, Effective
<1>. QED  BY <1>2, <1>4, <1>5 DEF Placed

\* The releases that a payment more makes.
LEMMA ReleasedAppend ==
    ASSUME NEW b, b.settlements \in Seq(Settlement), NEW r, NEW row,
           r.settlements = Append(b.settlements, row)
    PROVE  /\ \A o : Released(r, o) <=> Released(b, o) \/ o = row.origin
           /\ \A t \in DOMAIN b.settlements : r.settlements[t] = b.settlements[t]
<1>1. /\ DOMAIN r.settlements = DOMAIN b.settlements \cup {Len(b.settlements) + 1}
      /\ r.settlements[Len(b.settlements) + 1] = row
      /\ \A s \in DOMAIN b.settlements : r.settlements[s] = b.settlements[s]
    BY RowAdded
<1>. QED  BY <1>1 DEF Released

\* What is held by and drawn on a payment that stays as it is changes with
\* the releases alone.
LEMMA HeldSame ==
    ASSUME NEW b, NEW r, NEW t, r.settlements[t] = b.settlements[t],
           \A d : Released(r, <<"RECEIPT", t, d>>) <=> Released(b, <<"RECEIPT", t, d>>)
    PROVE  Held(r, t) = Held(b, t)
<1>1. HeldRow(r, t) = HeldRow(b, t)
    BY DEF HeldRow, Effective
<1>. QED  BY <1>1 DEF Held

\* What has been drawn depends on the applications in force alone.
LEMMA DrawnSame ==
    ASSUME NEW b, NEW r, NEW t, r.applications = b.applications,
           \A a \in DOMAIN b.applications : b.applications[a].advance = t =>
                (Released(r, <<"APPLICATION", a>>) <=> Released(b, <<"APPLICATION", a>>))
    PROVE  Drawn(r, t) = Drawn(b, t)
<1>1. DrawnRow(r, t) = DrawnRow(b, t)
    BY DEF DrawnRow
<1>. QED  BY <1>1 DEF Drawn

\* A receipt's payment of a document becomes a credit.
LEMMA ReceiptPlaced ==
    ASSUME NEW b, Sound(b), Placed(b), NEW r, Sound(r), NEW d,
           NEW s \in EffectiveAllocations(b, d), r = ReceiptStep(b, s, b, d)
    PROVE  Placed(r)
<1>. DEFINE gross == b.settlements[s].allocations[d].amount
            given == b.settlements[s].allocations[d].discount
            origin == <<"RECEIPT", s, d>>
            row == Advance(gross - given, origin, 0)
<1>1. /\ CreditAdded(b, r, row, given)
      /\ gross \in Nat /\ given \in Nat /\ given < gross
      /\ s \in DOMAIN b.settlements /\ d \in DOMAIN b.settlements[s].allocations
    BY ReceiptCredit
<1>2. /\ row.status = "POSTED" /\ row.remaining = row.amount
      /\ DOMAIN row.allocations = {} /\ row.amount = gross - given
      /\ row.origin = origin
    BY DEF Advance
<1>3. /\ \A t, e : origin = <<"RECEIPT", t, e>> <=> t = s /\ e = d
      /\ \A a : origin # <<"APPLICATION", a>>
      /\ SourceOf(b, origin) = s
    BY DEF SourceOf
<1>4. Effective(b, s) /\ ~Released(b, origin)
    BY DEF EffectiveAllocations
<1>5. r.settlements = Append(b.settlements, row) /\ r.applications = b.applications
    BY <1>1 DEF CreditAdded, SameBut
<1>6. b.settlements \in Seq(Settlement)
    BY DEF Sound, BooksType
<1>. HIDE DEF row, origin
<1>7. /\ \A o : Released(r, o) <=> Released(b, o) \/ o = origin
      /\ \A t \in DOMAIN b.settlements : r.settlements[t] = b.settlements[t]
  <2>1. row.origin = origin
      BY <1>2
  <2>2. r.settlements = Append(b.settlements, row)
      BY <1>5
  <2>3. /\ \A o : Released(r, o) <=> Released(b, o) \/ o = row.origin
        /\ \A t \in DOMAIN b.settlements : r.settlements[t] = b.settlements[t]
      BY ONLY <1>6, <2>2, ReleasedAppend
  <2>. QED  BY ONLY <2>1, <2>3
<1>8. \A t \in DOMAIN b.settlements : Drawn(r, t) = Drawn(b, t)
    BY <1>3, <1>5, <1>7, DrawnSame
<1>9. \A t \in DOMAIN b.settlements : t # s => Held(r, t) = Held(b, t)
    BY <1>3, <1>7, HeldSame
<1>10. Held(b, s) = Held(r, s) + (gross - given)
  <2>. DEFINE S == DOMAIN b.settlements[s].allocations
              f == HeldRow(b, s)
              g == HeldRow(r, s)
              net == gross - given
  <2>1. s \in DOMAIN r.settlements /\ r.settlements[s] = b.settlements[s]
    <3>1. DOMAIN r.settlements = DOMAIN b.settlements \cup {Len(b.settlements) + 1}
        BY ONLY <1>5, <1>6, RowAdded
    <3>. QED  BY <1>1, <1>7, <3>1
  <2>2. IsFiniteSet(S) /\ DOMAIN f = S /\ DOMAIN g = S /\ d \in S
      BY <1>1, <2>1, PlacedType DEF HeldRow
  <2>3. \A e \in S : f[e] \in Nat
      BY <1>1, <2>2, PlacedType
  <2>4. \A e \in S : g[e] \in Nat
      BY <2>1, <2>2, PlacedType
  <2>5. \A e \in S : e # d => f[e] = g[e]
      BY <1>3, <1>7, <2>1 DEF HeldRow, Effective
  <2>6. f[d] = net /\ g[d] = 0
      BY <1>1, <1>3, <1>4, <1>7, <2>1 DEF HeldRow, Effective
  <2>7. \A e \in S : f[e] \in Int /\ g[e] \in Int
      BY <2>3, <2>4
  <2>8. net \in Int
      BY <1>1
  <2>. HIDE DEF S, f, g, net
  <2>9. Total(g) = Total(f) + (g[d] - f[d]) /\ Total(f) \in Int /\ Total(g) \in Int
      BY ONLY <2>2, <2>5, <2>7, TotalChange
  <2>10. Total(f) = Total(g) + net
      BY <2>6, <2>8, <2>9
  <2>. QED  BY <2>10 DEF f, g, Held, net
<1>11. ASSUME NEW t \in DOMAIN b.settlements
       PROVE  Held(b, t) + Drawn(b, t) = Held(r, t) + Drawn(r, t)
                    + (IF SourceOf(b, row.origin) = t THEN row.amount ELSE 0)
  <2>0. Held(b, t) \in Nat /\ Drawn(b, t) \in Nat
      BY PlacedType
  <2>1. CASE t = s
    <3>1. Held(r, s) \in Int
      <4>1. s \in DOMAIN r.settlements
        <5>1. DOMAIN r.settlements = DOMAIN b.settlements \cup {Len(b.settlements) + 1}
            BY ONLY <1>5, <1>6, RowAdded
        <5>. QED  BY <1>1, <5>1
      <4>2. Held(r, s) \in Nat
          BY <4>1, PlacedType
      <4>. QED  BY <4>2
    <3>2. SourceOf(b, row.origin) = t /\ row.amount = gross - given
        BY <1>2, <1>3, <2>1
    <3>3. Drawn(r, t) = Drawn(b, t) /\ Held(b, t) = Held(r, t) + (gross - given)
        BY <1>8, <1>10, <2>1
    <3>. HIDE DEF gross, given
    <3>. QED  BY <1>1, <2>0, <2>1, <3>1, <3>2, <3>3
  <2>2. CASE t # s
      BY <1>2, <1>3, <1>8, <1>9, <2>0, <2>2
  <2>. QED  BY <2>1, <2>2
<1>12. SourceOf(b, row.origin) \in DOMAIN b.settlements \cup {0}
    BY <1>1, <1>2, <1>3
<1>. QED  BY <1>2, <1>5, <1>11, <1>12, RowPlaced

\* An application becomes a credit.
LEMMA ApplicationPlaced ==
    ASSUME NEW b, Sound(b), Placed(b), NEW r, Sound(r), NEW d,
           NEW x \in EffectiveApplications(b, d), r = ApplicationStep(b, x, b)
    PROVE  Placed(r)
<1>. DEFINE gross == b.applications[x].amount
            s == b.applications[x].advance
            origin == <<"APPLICATION", x>>
            row == Advance(gross, origin, 0)
<1>1. /\ CreditAdded(b, r, row, 0)
      /\ gross \in Nat \ {0} /\ x \in DOMAIN b.applications
    BY ApplicationCredit
<1>2. /\ row.status = "POSTED" /\ row.remaining = row.amount
      /\ DOMAIN row.allocations = {} /\ row.amount = gross
      /\ row.origin = origin
    BY DEF Advance
<1>3. /\ \A t, e : origin # <<"RECEIPT", t, e>>
      /\ \A a : origin = <<"APPLICATION", a>> <=> a = x
      /\ SourceOf(b, origin) = s
    BY DEF SourceOf
<1>4. b.applications[x].journal = "POSTED" /\ ~Released(b, origin)
    BY DEF EffectiveApplications
<1>5. r.settlements = Append(b.settlements, row) /\ r.applications = b.applications
    BY <1>1 DEF CreditAdded, SameBut
<1>6. b.settlements \in Seq(Settlement)
    BY DEF Sound, BooksType
<1>7. s \in DOMAIN b.settlements
    BY <1>1 DEF Sound, Linked, ApplicationLinked
<1>8. s \in DOMAIN r.settlements
  <2>. HIDE DEF row, s
  <2>1. DOMAIN r.settlements = DOMAIN b.settlements \cup {Len(b.settlements) + 1}
      BY ONLY <1>5, <1>6, RowAdded
  <2>. QED  BY <1>7, <2>1
<1>. HIDE DEF row, origin
<1>9. /\ \A o : Released(r, o) <=> Released(b, o) \/ o = origin
      /\ \A t \in DOMAIN b.settlements : r.settlements[t] = b.settlements[t]
  <2>1. row.origin = origin
      BY <1>2
  <2>2. r.settlements = Append(b.settlements, row)
      BY <1>5
  <2>3. /\ \A o : Released(r, o) <=> Released(b, o) \/ o = row.origin
        /\ \A t \in DOMAIN b.settlements : r.settlements[t] = b.settlements[t]
      BY ONLY <1>6, <2>2, ReleasedAppend
  <2>. QED  BY ONLY <2>1, <2>3
<1>10. \A t \in DOMAIN b.settlements : Held(r, t) = Held(b, t)
    BY <1>3, <1>9, HeldSame
<1>11. \A t \in DOMAIN b.settlements : t # s => Drawn(r, t) = Drawn(b, t)
  <2> SUFFICES ASSUME NEW t \in DOMAIN b.settlements, t # s
               PROVE  Drawn(r, t) = Drawn(b, t)
      OBVIOUS
  <2>1. \A a \in DOMAIN b.applications : b.applications[a].advance = t =>
            (Released(r, <<"APPLICATION", a>>) <=> Released(b, <<"APPLICATION", a>>))
      BY <1>3, <1>9
  <2>. QED  BY <1>5, <2>1, DrawnSame
<1>12. Drawn(b, s) = Drawn(r, s) + gross
  <2>. DEFINE S == DOMAIN b.applications
              f == DrawnRow(b, s)
              g == DrawnRow(r, s)
  <2>1. IsFiniteSet(S) /\ DOMAIN f = S /\ DOMAIN g = S /\ x \in S
      BY <1>1, <1>5, <1>7, PlacedType DEF DrawnRow
  <2>2. \A a \in S : f[a] \in Nat
      BY <1>7, <2>1, PlacedType
  <2>3. \A a \in S : g[a] \in Nat
      BY <1>8, <2>1, PlacedType
  <2>4. \A a \in S : a # x => f[a] = g[a]
      BY <1>3, <1>5, <1>9 DEF DrawnRow
  <2>5. f[x] = gross /\ g[x] = 0
      BY <1>1, <1>3, <1>4, <1>5, <1>9 DEF DrawnRow, origin
  <2>6. \A a \in S : f[a] \in Int /\ g[a] \in Int
      BY <2>2, <2>3
  <2>7. gross \in Int
      BY <1>1
  <2>. HIDE DEF S, f, g, gross
  <2>8. Total(g) = Total(f) + (g[x] - f[x]) /\ Total(f) \in Int /\ Total(g) \in Int
      BY ONLY <2>1, <2>4, <2>6, TotalChange
  <2>9. Total(f) = Total(g) + gross
      BY <2>5, <2>7, <2>8
  <2>. QED  BY <2>9 DEF f, g, Drawn
<1>13. ASSUME NEW t \in DOMAIN b.settlements
       PROVE  Held(b, t) + Drawn(b, t) = Held(r, t) + Drawn(r, t)
                    + (IF SourceOf(b, row.origin) = t THEN row.amount ELSE 0)
  <2>0. Held(b, t) \in Nat /\ Drawn(b, t) \in Nat
      BY PlacedType
  <2>1. CASE t = s
    <3>1. Drawn(r, s) \in Nat
        BY <1>8, PlacedType
    <3>2. SourceOf(b, row.origin) = t /\ row.amount = gross
        BY <1>2, <1>3, <2>1
    <3>3. Held(r, t) = Held(b, t) /\ Drawn(b, t) = Drawn(r, t) + gross
        BY <1>10, <1>12, <2>1
    <3>. HIDE DEF gross, s
    <3>. QED  BY <1>1, <2>0, <2>1, <3>1, <3>2, <3>3
  <2>2. CASE t # s
      BY <1>2, <1>3, <1>10, <1>11, <2>0, <2>2
  <2>. QED  BY <2>1, <2>2
<1>14. SourceOf(b, row.origin) \in DOMAIN b.settlements \cup {0}
    BY <1>2, <1>3, <1>7
<1>. QED  BY <1>2, <1>5, <1>13, <1>14, RowPlaced

\* A payment recorded, or a return turned into an advance, takes from none.
LEMMA NewPlaced ==
    ASSUME NEW b, Sound(b), Placed(b), NEW r, Sound(r), NEW row,
           r.settlements = Append(b.settlements, row),
           r.applications = b.applications,
           \/ /\ row.status = "POSTED" /\ row.remaining = row.amount
              /\ DOMAIN row.allocations = {}
           \/ row.status = "PENDING_CHEQUE" /\ row.remaining = 0,
           row.origin = <<>> \/ row.origin[1] = "RETURN"
    PROVE  Placed(r)
<1>1. SourceOf(b, row.origin) = 0
    BY DEF SourceOf
<1>2. b.settlements \in Seq(Settlement)
    BY DEF Sound, BooksType
<1>3. /\ \A t, e : row.origin # <<"RECEIPT", t, e>>
      /\ \A a : row.origin # <<"APPLICATION", a>>
  <2>1. \A t, e : <<"RECEIPT", t, e>> # <<>> /\ <<"RECEIPT", t, e>>[1] # "RETURN"
      OBVIOUS
  <2>2. \A a : <<"APPLICATION", a>> # <<>> /\ <<"APPLICATION", a>>[1] # "RETURN"
      OBVIOUS
  <2>. QED  BY <2>1, <2>2
<1>4. /\ \A o : Released(r, o) <=> Released(b, o) \/ o = row.origin
      /\ \A t \in DOMAIN b.settlements : r.settlements[t] = b.settlements[t]
    BY ONLY <1>2, r.settlements = Append(b.settlements, row), ReleasedAppend
<1>5. \A t \in DOMAIN b.settlements : t # 0
    BY <1>2
<1>6. ASSUME NEW t \in DOMAIN b.settlements
      PROVE  Held(b, t) + Drawn(b, t) = Held(r, t) + Drawn(r, t)
                    + (IF SourceOf(b, row.origin) = t THEN row.amount ELSE 0)
  <2>1. Held(r, t) = Held(b, t)
      BY <1>3, <1>4, HeldSame
  <2>2. Drawn(r, t) = Drawn(b, t)
      BY <1>3, <1>4, DrawnSame
  <2>3. Held(b, t) \in Nat /\ Drawn(b, t) \in Nat
      BY PlacedType
  <2>. QED  BY <1>1, <1>5, <2>1, <2>2, <2>3
<1>7. SourceOf(b, row.origin) \in DOMAIN b.settlements \cup {0}
    BY <1>1
<1>. QED  BY <1>6, <1>7, RowPlaced

\* r are books b with the rows of settlement s changed, and its applications
TurnedAt(b, r, s) ==
    /\ DOMAIN r.settlements = DOMAIN b.settlements
    /\ \A t \in DOMAIN b.settlements :
            /\ SameRow(b.settlements[t], r.settlements[t])
            /\ t # s => r.settlements[t] = b.settlements[t]
    /\ \A a \in DOMAIN b.applications :
            r.applications[a].advance = b.applications[a].advance

\* No credit comes or goes then, and the other payments hold what they held.
LEMMA TurnedMoved ==
    ASSUME NEW b, Sound(b), NEW r, NEW s, TurnedAt(b, r, s)
    PROVE  /\ \A o : Released(r, o) <=> Released(b, o)
           /\ \A t \in DOMAIN b.settlements : Moved(r, t) = Moved(b, t)
           /\ \A t \in DOMAIN b.settlements : t # s => Held(r, t) = Held(b, t)
<1>1. \A o : Released(r, o) <=> Released(b, o)
    BY DEF Released, TurnedAt, SameRow
<1>2. ASSUME NEW u \in DOMAIN b.settlements
      PROVE  SourceOf(r, r.settlements[u].origin) = SourceOf(b, b.settlements[u].origin)
  <2>. DEFINE from == b.settlements[u].origin
  <2>1. r.settlements[u].origin = from
      BY DEF TurnedAt, SameRow
  <2>2. from # <<>> => OriginLinked(b, from)
      BY DEF Sound, Linked, RowLinked
  <2>. HIDE DEF from
  <2>3. from # <<>> /\ from[1] = "APPLICATION" => from[2] \in DOMAIN b.applications
      BY <2>2 DEF OriginLinked
  <2>4. SourceOf(r, from) = SourceOf(b, from)
      BY <2>3 DEF SourceOf, TurnedAt
  <2>. QED  BY <2>1, <2>4 DEF from
<1>3. ASSUME NEW t \in DOMAIN b.settlements
      PROVE  Moved(r, t) = Moved(b, t)
  <2>1. MovedRow(r, t) = MovedRow(b, t)
      BY <1>2 DEF MovedRow, TurnedAt, SameRow
  <2>. QED  BY <2>1 DEF Moved
<1>4. ASSUME NEW t \in DOMAIN b.settlements, t # s
      PROVE  Held(r, t) = Held(b, t)
  <2>1. r.settlements[t] = b.settlements[t]
      BY <1>4 DEF TurnedAt
  <2>. QED  BY <1>1, <2>1, HeldSame
<1>. QED  BY <1>1, <1>3, <1>4

\* The money is in place then if it is for the payment that changed, and no
\* other is drawn on.
LEMMA TurnedPlaced ==
    ASSUME NEW b, Sound(b), Placed(b), NEW r, NEW s, TurnedAt(b, r, s),
           \A t \in DOMAIN b.settlements : t # s => Drawn(r, t) = Drawn(b, t),
           PlacedRow(r, s)
    PROVE  Placed(r)
<1>1. ASSUME NEW t \in DOMAIN b.settlements, t # s
      PROVE  PlacedRow(r, t)
  <2>1. Moved(r, t) = Moved(b, t) /\ Held(r, t) = Held(b, t) /\ Drawn(r, t) = Drawn(b, t)
      BY <1>1, TurnedMoved
  <2>2. r.settlements[t] = b.settlements[t] /\ PlacedRow(b, t)
      BY <1>1 DEF TurnedAt, Placed
  <2>. QED  BY <2>1, <2>2 DEF PlacedRow, Effective
<1>. QED  BY <1>1 DEF Placed, TurnedAt

\* A payment that is posted is allocated, or is left on its advance.
LEMMA PostPlaced ==
    ASSUME NEW b, Sound(b), Placed(b), NEW r, Sound(r), PostMove(b, r)
    PROVE  Placed(r)
<1>1. b \in BooksType /\ b.settlements \in Seq(Settlement)
    BY DEF Sound, BooksType
<1>2. PICK s \in DOMAIN b.settlements :
        b.settlements[s].status = "PENDING_CHEQUE" /\ r = SettlementPosted(b, s)
    BY DEF PostMove
<1>. DEFINE row == b.settlements[s]
            out == PostedRow(row)
<1>3. row \in Settlement
    BY ONLY <1>1, <1>2, TableRows
<1>4. /\ SameRow(row, out) /\ out.status = "POSTED"
      /\ out.remaining = IF row.type = "CUSTOMER_ADVANCE" THEN row.amount ELSE 0
    BY <1>3 DEF PostedRow, Settlement, SameRow
<1>5. r.settlements = [b.settlements EXCEPT ![s] = out] /\ r.applications = b.applications
    BY <1>1, <1>2, PostedIs DEF SameBut
<1>. HIDE DEF out
<1>6. TurnedAt(b, r, s) /\ r.settlements[s] = out
  <2>1. \A x : SameRow(x, x)
      BY DEF SameRow
  <2>. QED  BY <1>1, <1>4, <1>5, <2>1 DEF TurnedAt
<1>7. /\ \A o : Released(r, o) <=> Released(b, o)
      /\ \A t \in DOMAIN b.settlements : Moved(r, t) = Moved(b, t)
    BY <1>6, TurnedMoved
<1>8. \A t \in DOMAIN b.settlements : Drawn(r, t) = Drawn(b, t)
    BY <1>5, <1>7, DrawnSame
<1>9. Held(b, s) = 0 /\ Drawn(b, s) = 0 /\ Moved(b, s) = 0
  <2>1. /\ Held(b, s) \in Nat /\ Drawn(b, s) \in Nat /\ Moved(b, s) \in Nat
        /\ row.remaining \in Nat
      BY PlacedType
  <2>2. 0 = row.remaining + Held(b, s) + Drawn(b, s) + Moved(b, s)
      BY <1>2 DEF Placed, PlacedRow, Effective
  <2>. HIDE DEF row
  <2>. QED  BY <2>1, <2>2
<1>10. ASSUME NEW d
       PROVE  ~Released(r, <<"RECEIPT", s, d>>)
  <2>. DEFINE from == <<"RECEIPT", s, d>>
  <2>1. SourceOf(b, from) = s
      BY DEF SourceOf
  <2>2. \A u \in DOMAIN b.settlements : SourceOf(b, b.settlements[u].origin) # s
      BY <1>9, NothingMoved
  <2>. HIDE DEF from
  <2>3. ~Released(b, from)
      BY <2>1, <2>2 DEF Released
  <2>. QED  BY <1>7, <2>3 DEF from
<1>11. Held(r, s) = IF row.type = "CUSTOMER_ADVANCE" THEN 0 ELSE row.amount
  <2>1. /\ r.settlements[s].allocations = row.allocations
        /\ Effective(r, s)
      BY <1>4, <1>6 DEF SameRow, Effective
  <2>2. HeldRow(r, s) = [d \in DOMAIN row.allocations |->
                            row.allocations[d].amount - row.allocations[d].discount]
      BY <1>10, <2>1 DEF HeldRow
  <2>3. Held(r, s) = Sum(row.allocations)
      BY <2>2 DEF Held, Total, Sum, SumFunction
  <2>4. CASE row.type = "CUSTOMER_ADVANCE"
    <3>1. DOMAIN row.allocations = {}
        BY <2>4 DEF Sound, Linked, RowLinked
    <3>2. DOMAIN HeldRow(r, s) = {}
        BY <2>2, <3>1
    <3>3. Held(r, s) = 0
        BY <3>2, SumEmpty DEF Held, Total
    <3>. QED  BY <2>4, <3>3
  <2>5. CASE row.type # "CUSTOMER_ADVANCE"
    <3>1. row.type = "CUSTOMER_RECEIPT"
        BY <1>3, <2>5 DEF Settlement
    <3>2. row.amount = Sum(row.allocations)
        BY <3>1 DEF Sound, Linked, RowLinked
    <3>. QED  BY <2>3, <2>5, <3>2
  <2>. QED  BY <2>4, <2>5
<1>12. PlacedRow(r, s)
  <2>1. row.amount \in Nat
      BY <1>3 DEF Settlement
  <2>2. /\ Effective(r, s) /\ r.settlements[s].amount = row.amount
        /\ r.settlements[s].remaining
             = IF row.type = "CUSTOMER_ADVANCE" THEN row.amount ELSE 0
      BY <1>4, <1>6 DEF SameRow, Effective
  <2>3. Drawn(r, s) = 0 /\ Moved(r, s) = 0
      BY <1>7, <1>8, <1>9
  <2>. HIDE DEF row
  <2>. QED  BY <1>11, <2>1, <2>2, <2>3 DEF PlacedRow
<1>. QED  BY <1>6, <1>8, <1>12, TurnedPlaced

\* A payment reversed is in no place, its applications being reversed with it.
LEMMA ReversePlaced ==
    ASSUME NEW b, Sound(b), Placed(b), NEW r, NEW s \in DOMAIN b.settlements,
           ~Reclassified(b, s), r = SettlementReversed(b, s)
    PROVE  Placed(r)
<1>1. b \in BooksType
    BY DEF Sound
<1>2. /\ TurnedAt(b, r, s)
      /\ r.settlements[s].status = "REVERSED" /\ r.settlements[s].remaining = 0
      /\ DOMAIN r.applications = DOMAIN b.applications
      /\ \A a \in DOMAIN b.applications :
            /\ r.applications[a].advance = b.applications[a].advance
            /\ r.applications[a].amount = b.applications[a].amount
            /\ r.applications[a].journal = "POSTED" <=>
                    /\ b.applications[a].journal = "POSTED"
                    /\ b.applications[a].advance # s
    BY <1>1, ReversedTables DEF TurnedAt
<1>3. /\ \A o : Released(r, o) <=> Released(b, o)
      /\ \A t \in DOMAIN b.settlements : Moved(r, t) = Moved(b, t)
    BY <1>2, TurnedMoved
<1>4. ASSUME NEW t \in DOMAIN b.settlements, t # s
      PROVE  Drawn(r, t) = Drawn(b, t)
  <2>1. DrawnRow(r, t) = DrawnRow(b, t)
      BY <1>2, <1>3, <1>4 DEF DrawnRow
  <2>. QED  BY <2>1 DEF Drawn
<1>5. PlacedRow(r, s)
  <2>1. /\ IsFiniteSet(DOMAIN b.settlements[s].allocations)
        /\ IsFiniteSet(DOMAIN b.applications) /\ IsFiniteSet(DOMAIN b.settlements)
      BY PlacedType
  <2>2. /\ DOMAIN HeldRow(r, s) = DOMAIN b.settlements[s].allocations
        /\ \A d \in DOMAIN HeldRow(r, s) : HeldRow(r, s)[d] = 0
      BY <1>2 DEF HeldRow, Effective, TurnedAt, SameRow
  <2>3. /\ DOMAIN DrawnRow(r, s) = DOMAIN b.applications
        /\ \A a \in DOMAIN DrawnRow(r, s) : DrawnRow(r, s)[a] = 0
      BY <1>2 DEF DrawnRow
  <2>4. /\ DOMAIN MovedRow(b, s) = DOMAIN b.settlements
        /\ \A u \in DOMAIN MovedRow(b, s) : MovedRow(b, s)[u] = 0
    <3>1. ASSUME NEW u \in DOMAIN b.settlements
          PROVE  SourceOf(b, b.settlements[u].origin) # s
      <4>1. s # 0
        <5>1. b.settlements \in Seq(Settlement)
            BY <1>1 DEF BooksType
        <5>. QED  BY <5>1
      <4>. QED  BY <4>1 DEF Reclassified, SourceOf
    <3>. QED  BY <3>1 DEF MovedRow
  <2>5. Held(r, s) = 0 /\ Drawn(r, s) = 0 /\ Moved(b, s) = 0
      BY <2>1, <2>2, <2>3, <2>4, SumOfZeros DEF Held, Drawn, Moved, Total
  <2>. QED  BY <1>2, <1>3, <2>5 DEF PlacedRow, Effective
<1>. QED  BY <1>2, <1>4, <1>5, TurnedPlaced

\* What is applied comes out of what is left on the advance.
LEMMA ApplyPlaced ==
    ASSUME NEW b, Sound(b), Placed(b), NEW r, Sound(r), ApplyMove(b, r)
    PROVE  Placed(r)
<1>1. PICK s \in DOMAIN b.settlements, d \in DOMAIN b.invoices,
           amount \in Nat \ {0} :
        /\ b.settlements[s].type = "CUSTOMER_ADVANCE"
        /\ b.settlements[s].status = "POSTED"
        /\ amount <= b.settlements[s].remaining
        /\ r.settlements = AdvanceDrawn(b, s, amount)
        /\ r.applications =
             Append(b.applications, [advance |-> s, document |-> d,
                             amount |-> amount, journal |-> "POSTED"])
    BY ApplyTables
<1>. DEFINE row == [advance |-> s, document |-> d, amount |-> amount,
                    journal |-> "POSTED"]
            n == Len(b.applications)
<1>2. b.settlements \in Seq(Settlement) /\ b.applications \in Seq(Application)
    BY DEF Sound, BooksType
<1>3. /\ row.advance = s /\ row.amount = amount /\ row.journal = "POSTED"
      /\ r.applications = Append(b.applications, row)
    BY <1>1
<1>. HIDE DEF row
<1>4. n \in Nat /\ DOMAIN b.applications = 1..n
    BY ONLY <1>2, TableRows
<1>5. /\ DOMAIN r.applications = DOMAIN b.applications \cup {n + 1}
      /\ n + 1 \notin DOMAIN b.applications /\ r.applications[n + 1] = row
      /\ \A a \in DOMAIN b.applications : r.applications[a] = b.applications[a]
    BY ONLY <1>2, <1>3, RowAdded
<1>6. DOMAIN r.applications = 1..(n + 1)
    BY <1>4, <1>5
<1>. HIDE DEF n
<1>7. /\ DOMAIN r.settlements = DOMAIN b.settlements
      /\ \A t \in DOMAIN b.settlements :
            /\ SameRow(b.settlements[t], r.settlements[t])
            /\ t # s => r.settlements[t] = b.settlements[t]
      /\ r.settlements[s].status = "POSTED"
      /\ r.settlements[s].remaining = b.settlements[s].remaining - amount
  <2>1. \A t \in DOMAIN b.settlements : b.settlements[t] \in Settlement
      BY ONLY <1>2, TableRows
  <2>2. DOMAIN r.settlements = DOMAIN b.settlements
      BY <1>1 DEF AdvanceDrawn
  <2>3. \A t \in DOMAIN b.settlements : r.settlements[t] =
            IF t = s THEN [b.settlements[s] EXCEPT
                             !.remaining = b.settlements[s].remaining - amount]
                     ELSE b.settlements[t]
      BY <1>1 DEF AdvanceDrawn
  <2>. QED  BY <1>1, <2>1, <2>2, <2>3 DEF SameRow, Settlement
<1>8. TurnedAt(b, r, s)
    BY <1>5, <1>7 DEF TurnedAt
<1>9. /\ \A o : Released(r, o) <=> Released(b, o)
      /\ \A t \in DOMAIN b.settlements : Moved(r, t) = Moved(b, t)
    BY <1>8, TurnedMoved
<1>10. ~Released(b, <<"APPLICATION", n + 1>>)
  <2> SUFFICES ASSUME NEW u \in DOMAIN b.settlements,
                      b.settlements[u].origin = <<"APPLICATION", n + 1>>
               PROVE  FALSE
      BY DEF Released
  <2>1. b.settlements[u].origin # <<>>
      OBVIOUS
  <2>2. OriginLinked(b, b.settlements[u].origin)
      BY <2>1 DEF Sound, Linked, RowLinked
  <2>. QED  BY <1>5, <2>2 DEF OriginLinked
<1>11. ASSUME NEW t \in DOMAIN b.settlements
       PROVE  Drawn(r, t) = Drawn(b, t) + (IF t = s THEN amount ELSE 0)
  <2>. DEFINE f == DrawnRow(b, t)
              g == DrawnRow(r, t)
  <2>1. DOMAIN f = 1..n /\ DOMAIN g = 1..(n + 1)
      BY <1>4, <1>6 DEF DrawnRow
  <2>2. \A k \in 1..n : g[k] = f[k]
      BY <1>4, <1>5, <1>6, <1>9 DEF DrawnRow
  <2>3. \A k \in 1..n : f[k] \in Nat
      BY <2>1, PlacedType
  <2>4. g[n + 1] = IF t = s THEN amount ELSE 0
      BY <1>3, <1>5, <1>9, <1>10 DEF DrawnRow
  <2>5. g[n + 1] \in Int /\ \A k \in 1..n : f[k] \in Int /\ g[k] = f[k]
      BY <2>2, <2>3, <2>4
  <2>. HIDE DEF f, g
  <2>6. Total(g) = Total(f) + g[n + 1]
      BY ONLY <1>4, <2>1, <2>5, TotalAppend
  <2>. QED  BY <2>4, <2>6 DEF f, g, Drawn
<1>12. /\ b.settlements[s].remaining \in Nat
       /\ \A t \in DOMAIN b.settlements :
            Held(b, t) \in Nat /\ Drawn(b, t) \in Nat /\ Moved(b, t) \in Nat
    BY PlacedType
<1>13. \A t \in DOMAIN b.settlements : t # s => Drawn(r, t) = Drawn(b, t)
    BY <1>11, <1>12
<1>14. PlacedRow(r, s)
  <2>1. HeldRow(r, s) = HeldRow(b, s)
      BY <1>1, <1>7, <1>9 DEF HeldRow, Effective, SameRow
  <2>2. Held(r, s) = Held(b, s)
      BY <2>1 DEF Held
  <2>3. /\ Effective(b, s) /\ Effective(r, s)
        /\ r.settlements[s].amount = b.settlements[s].amount
      BY <1>1, <1>7 DEF Effective, SameRow
  <2>4. b.settlements[s].amount
            = b.settlements[s].remaining + Held(b, s) + Drawn(b, s) + Moved(b, s)
      BY <2>3 DEF Placed, PlacedRow
  <2>5. Drawn(r, s) = Drawn(b, s) + amount /\ Moved(r, s) = Moved(b, s)
      BY <1>9, <1>11
  <2>6. r.settlements[s].amount
            = r.settlements[s].remaining + Held(r, s) + Drawn(r, s) + Moved(r, s)
      BY <1>7, <1>12, <2>2, <2>3, <2>4, <2>5
  <2>. QED  BY <2>3, <2>6 DEF PlacedRow
<1>. QED  BY <1>8, <1>13, <1>14, TurnedPlaced

\* The money stays where payments and applications stay.
LEMMA SamePlaced ==
    ASSUME NEW b, Placed(b), NEW r, r.settlements = b.settlements,
           r.applications = b.applications
    PROVE  Placed(r)
<1>1. \A o : Released(r, o) <=> Released(b, o)
    BY DEF Released
<1>2. ASSUME NEW t
      PROVE  /\ HeldRow(r, t) = HeldRow(b, t) /\ DrawnRow(r, t) = DrawnRow(b, t)
             /\ MovedRow(r, t) = MovedRow(b, t)
    BY <1>1 DEF HeldRow, DrawnRow, MovedRow, Effective, SourceOf
<1>. QED  BY <1>2 DEF Placed, PlacedRow, Held, Drawn, Moved, Effective

\* The excess of a return carried is a payment of its own.
LEMMA CarryPlaced ==
    ASSUME NEW b, Sound(b), Placed(b), NEW r, Sound(r), CarryMove(b, r)
    PROVE  Placed(r)
<1>0. Len(b.invoices) + 1 \in Nat
  <2>1. b.invoices \in Seq(Invoice)
      BY DEF Sound, BooksType
  <2>. QED  BY <2>1
<1>1. PICK left \in Nat, n \in DOMAIN b.notes, replacement \in Nat :
        r = CarryStep([books |-> b, left |-> left], n, replacement).books
    BY <1>0 DEF CarryMove
<1>. DEFINE excess == Available(b, n) - Lesser(left, Available(b, n))
            k == Len(b.carries) + 1
            q == CarryStep([books |-> b, left |-> left], n, replacement).books
            row == Advance(excess, <<"RETURN", k>>, 0)
<1>2. /\ SameBut(q, b, {"settlements", "carries"})
      /\ q.settlements = IF excess = 0 THEN b.settlements
                                       ELSE Append(b.settlements, row)
    BY CarryIs
<1>3. r = q
    BY <1>1
<1>4. /\ row.status = "POSTED" /\ row.remaining = row.amount
      /\ DOMAIN row.allocations = {}
      /\ row.origin = <<"RETURN", k>>
    BY DEF Advance
<1>5. row.origin = <<>> \/ row.origin[1] = "RETURN"
    BY <1>4
<1>. HIDE DEF q, excess, row
<1>6. r.applications = b.applications
    BY <1>2, <1>3 DEF SameBut
<1>7. CASE excess = 0
    BY <1>2, <1>3, <1>6, <1>7, SamePlaced
<1>8. CASE excess # 0
    BY <1>2, <1>3, <1>4, <1>5, <1>6, <1>8, NewPlaced
<1>. QED  BY <1>7, <1>8

\* No call takes money out of its place.
LEMMA MovePlaced ==
    ASSUME NEW b, Sound(b), Placed(b), NEW r, Sound(r), Move(b, r)
    PROVE  Placed(r)
<1>1. CASE ReleaseMove(b, r)
    BY <1>1, ReceiptPlaced, ApplicationPlaced DEF ReleaseMove
<1>2. CASE NoteMove(b, r) \/ EntryMove(b, r) \/ InvoiceMove(b, r)
  <2>1. r.settlements = b.settlements /\ r.applications = b.applications
    <3>1. NoteMove(b, r) => SameBut(r, b, {"notes"})
        BY NoteTables
    <3>2. EntryMove(b, r) => r.settlements = b.settlements /\ r.applications = b.applications
        BY EntryTables DEF SameBut
    <3>3. InvoiceMove(b, r) => SameBut(r, b, {"invoices"})
        BY InvoiceTables DEF InvoiceRow
    <3>. QED  BY <1>2, <3>1, <3>2, <3>3 DEF SameBut
  <2>. QED  BY <2>1, SamePlaced
<1>3. ASSUME NEW row, Recorded(b, r, row)
      PROVE  Placed(r)
  <2>1. /\ row.status = "PENDING_CHEQUE" /\ row.origin = <<>> /\ row.remaining = 0
      BY <1>3, OfferedLinked
  <2>2. /\ r.settlements = Append(b.settlements, row)
        /\ r.applications = b.applications
      BY <1>3 DEF Recorded, SameBut
  <2>. QED  BY <2>1, <2>2, NewPlaced
<1>4. ASSUME NEW s \in DOMAIN b.settlements, ~Reclassified(b, s),
             r = SettlementReversed(b, s)
      PROVE  Placed(r)
    BY <1>4, ReversePlaced
<1>5. ASSUME NEW q \in DOMAIN b.cheques,
             NEW status \in {"RECEIVED", "CLEARED", "BOUNCED", "CANCELLED"},
             r = ChequeSet(b, q, status)
      PROVE  Placed(r)
  <2>1. SameBut(r, b, {"cheques"})
      BY <1>5, ChequeSetSound
  <2>2. r.settlements = b.settlements /\ r.applications = b.applications
      BY <2>1 DEF SameBut
  <2>. QED  BY <2>2, SamePlaced
<1>6. CASE OtherMove(b, r)
    BY <1>1, <1>2, <1>3, <1>4, <1>5, <1>6, CarryPlaced DEF OtherMove
<1>. QED  BY <1>6, MoveCases, PostPlaced, ApplyPlaced

-----------------------------------------------------------------------------
(* Over all payments, that is the money of the customer.                   *)

\* what each payment brought in, what it is made of returns, and what it
\* took from another
OwnRow(b) ==
    [s \in DOMAIN b.settlements |->
        IF Effective(b, s) /\ b.settlements[s].origin = <<>>
        THEN b.settlements[s].amount ELSE 0]
BackRow(b) ==
    [s \in DOMAIN b.settlements |->
        IF b.settlements[s].origin # <<>> /\ b.settlements[s].origin[1] = "RETURN"
        THEN b.settlements[s].amount ELSE 0]
CreditRow(b) ==
    [s \in DOMAIN b.settlements |->
        IF SourceOf(b, b.settlements[s].origin) # 0
        THEN b.settlements[s].amount ELSE 0]

\* Every payment that counts is one of the three.
LEMMA RowCameFrom ==
    ASSUME NEW b, Sound(b), NEW s \in DOMAIN b.settlements
    PROVE  /\ OwnRow(b)[s] \in Nat /\ BackRow(b)[s] \in Nat /\ CreditRow(b)[s] \in Nat
           /\ (IF Effective(b, s) THEN b.settlements[s].amount ELSE 0)
                = OwnRow(b)[s] + BackRow(b)[s] + CreditRow(b)[s]
<1>. DEFINE row == b.settlements[s]
            from == row.origin
<1>1. row \in Settlement /\ row.amount \in Nat
    BY PlacedType
<1>2. from \in Origin
    BY <1>1 DEF Settlement
<1>3. s # 0 /\ 0 \notin DOMAIN b.settlements
  <2>1. b.settlements \in Seq(Settlement)
      BY DEF Sound, BooksType
  <2>. QED  BY <2>1
<1>4. from # <<>> => OriginLinked(b, from) /\ Effective(b, s)
    BY DEF Sound, Linked, RowLinked, RowStatus, Effective
<1>5. from = <<>> \/ from[1] = "RETURN" => SourceOf(b, from) = 0
    BY DEF SourceOf
<1>6. from # <<>> /\ from[1] # "RETURN" => SourceOf(b, from) # 0
  <2> SUFFICES ASSUME from # <<>>, from[1] # "RETURN" PROVE SourceOf(b, from) # 0
      OBVIOUS
  <2>1. from[1] \in {"RECEIPT", "APPLICATION"}
      BY <1>2 DEF Origin
  <2>2. \A a \in DOMAIN b.applications :
            b.applications[a].advance \in DOMAIN b.settlements
      BY DEF Sound, Linked, ApplicationLinked
  <2>. QED  BY <1>3, <1>4, <2>1, <2>2 DEF OriginLinked, SourceOf
<1>7. /\ OwnRow(b)[s] = IF Effective(b, s) /\ from = <<>> THEN row.amount ELSE 0
      /\ BackRow(b)[s] = IF from # <<>> /\ from[1] = "RETURN" THEN row.amount ELSE 0
      /\ CreditRow(b)[s] = IF SourceOf(b, from) # 0 THEN row.amount ELSE 0
    BY DEF OwnRow, BackRow, CreditRow
<1>. HIDE DEF row, from
<1>8. (IF Effective(b, s) THEN row.amount ELSE 0)
        = OwnRow(b)[s] + BackRow(b)[s] + CreditRow(b)[s]
    BY <1>1, <1>4, <1>5, <1>6, <1>7
<1>. QED  BY <1>1, <1>7, <1>8 DEF row

\* What came from the customer and from returns.
LEMMA CameIn ==
    ASSUME NEW b, Sound(b)
    PROVE  /\ SumFunction([s \in Received(b) |-> b.settlements[s].amount])
                = Total(OwnRow(b))
           /\ SumFunction([n \in DOMAIN b.notes |-> ExcessOf(b, n)])
                = Total(BackRow(b))
<1>. DEFINE S == DOMAIN b.settlements
            A == Received(b)
            f == [s \in A |-> b.settlements[s].amount]
            ff == OwnRow(b)
            Z == {s \in S : /\ b.settlements[s].origin # <<>>
                            /\ b.settlements[s].origin[1] = "RETURN"}
            g == Amounts(b)
            gg == BackRow(b)
            N == DOMAIN b.notes
            h == [s \in Z |-> b.carries[b.settlements[s].origin[2]].note]
            k == [n \in N |-> ExcessOf(b, n)]
<1>1. b.settlements \in Seq(Settlement) /\ b.notes \in Seq(Note) /\ b \in BooksType
    BY DEF Sound, BooksType
<1>2. IsFiniteSet(S) /\ IsFiniteSet(N)
    BY ONLY <1>1, TableRows
<1>3. \A s \in S : b.settlements[s].amount \in Nat
    BY PlacedType
<1>4. A \in SUBSET S /\ Z \in SUBSET S
    BY DEF Received
<1>5. /\ DOMAIN f = A /\ DOMAIN ff = S
      /\ \A s \in A : f[s] \in Nat /\ ff[s] = f[s]
      /\ \A s \in S \ A : ff[s] = 0
    BY <1>3 DEF Received, OwnRow
<1>6. /\ DOMAIN gg = S
      /\ \A s \in Z : g[s] \in Nat /\ gg[s] = g[s]
      /\ \A s \in S \ Z : gg[s] = 0
    BY <1>3 DEF BackRow, Amounts
<1>7. \A s \in Z : h[s] \in N
  <2> SUFFICES ASSUME NEW s \in Z
               PROVE  b.carries[b.settlements[s].origin[2]].note \in N
      OBVIOUS
  <2>1. OriginLinked(b, b.settlements[s].origin)
      BY DEF Sound, Linked, RowLinked
  <2>2. b.settlements[s].origin[2] \in DOMAIN b.carries
      BY <2>1 DEF OriginLinked
  <2>. QED  BY <2>2 DEF Sound, Linked
<1>8. \A n \in N : k[n] = SumFunctionOnSet(g, Group(Z, h, n))
  <2>. TAKE n \in N
  <2>1. Group(Z, h, n) = ReturnCredits(b, n)
      BY DEF Group, ReturnCredits
  <2>2. ExcessOf(b, n) = SumFunctionOnSet(g, ReturnCredits(b, n))
      BY <1>1, ExcessSum
  <2>. QED  BY <2>1, <2>2
<1>9. DOMAIN k = N
    OBVIOUS
<1>. HIDE DEF f, ff, g, gg, h, k, A, S, Z, N
<1>10. SumFunction(f) = Total(ff)
    BY ONLY <1>2, <1>4, <1>5, FilteredSum
<1>11. IsFiniteSet(Z) /\ \A s \in Z : g[s] \in Int /\ gg[s] = g[s]
    BY <1>2, <1>4, <1>6, FS_Subset
<1>12. SumFunctionOnSet(gg, S) = SumFunctionOnSet(g, Z)
    BY ONLY <1>2, <1>4, <1>6, <1>11, SumFilter
<1>13. SumFunctionOnSet(g, Z) = SumFunctionOnSet(k, N)
    BY ONLY <1>2, <1>7, <1>8, <1>11, SumByGroup
<1>14. SumFunction(k) = Total(gg)
    BY <1>6, <1>9, <1>12, <1>13 DEF SumFunction, Total
<1>. QED  BY <1>10, <1>14 DEF f, ff, gg, k, A, N

\* What the payments have moved to credits is what the credits took.
LEMMA CreditsMoved ==
    ASSUME NEW b, Sound(b)
    PROVE  Total([s \in DOMAIN b.settlements |-> Moved(b, s)]) = Total(CreditRow(b))
<1>. DEFINE S == DOMAIN b.settlements
            Z == {s \in S : SourceOf(b, b.settlements[s].origin) # 0}
            f == Amounts(b)
            ff == CreditRow(b)
            h == [s \in Z |-> SourceOf(b, b.settlements[s].origin)]
            k == [s \in S |-> Moved(b, s)]
<1>1. b.settlements \in Seq(Settlement)
    BY DEF Sound, BooksType
<1>2. IsFiniteSet(S) /\ 0 \notin S
  <2>1. IsFiniteSet(S)
      BY ONLY <1>1, TableRows
  <2>. QED  BY <1>1, <2>1
<1>3. \A s \in S : b.settlements[s].amount \in Nat
    BY PlacedType
<1>4. Z \in SUBSET S
    OBVIOUS
<1>5. /\ DOMAIN ff = S
      /\ \A s \in Z : f[s] \in Int /\ ff[s] = f[s]
      /\ \A s \in S \ Z : ff[s] = 0
    BY <1>3 DEF CreditRow, Amounts
<1>6. \A s \in Z : h[s] \in S
  <2> SUFFICES ASSUME NEW s \in Z PROVE SourceOf(b, b.settlements[s].origin) \in S
      OBVIOUS
  <2>1. b.settlements[s] \in Settlement
      BY PlacedType
  <2>2. b.settlements[s].origin \in Origin
      BY <2>1 DEF Settlement
  <2>3. b.settlements[s].origin # <<>>
      BY DEF SourceOf
  <2>4. OriginLinked(b, b.settlements[s].origin)
      BY <2>3 DEF Sound, Linked, RowLinked
  <2>. QED  BY <2>2, <2>4, SourceIs
<1>7. IsFiniteSet(Z)
    BY <1>2, <1>4, FS_Subset
<1>8. \A s \in S : k[s] = SumFunctionOnSet(f, Group(Z, h, s))
  <2>. TAKE s \in S
  <2>. DEFINE G == Group(Z, h, s)
              m == MovedRow(b, s)
  <2>1. /\ G \in SUBSET S /\ DOMAIN m = S
        /\ \A x \in G : f[x] \in Int /\ m[x] = f[x]
        /\ \A x \in S \ G : m[x] = 0
      BY <1>2, <1>3 DEF Group, MovedRow, Amounts
  <2>2. k[s] = SumFunctionOnSet(m, S)
      BY <2>1 DEF Moved, Total
  <2>. HIDE DEF G, m, k, f
  <2>3. SumFunctionOnSet(m, S) = SumFunctionOnSet(f, G)
      BY ONLY <1>2, <2>1, SumFilter
  <2>. QED  BY <2>2, <2>3 DEF G
<1>9. DOMAIN k = S
    OBVIOUS
<1>. HIDE DEF f, ff, h, k, S, Z
<1>10. SumFunctionOnSet(ff, S) = SumFunctionOnSet(f, Z)
    BY ONLY <1>2, <1>4, <1>5, SumFilter
<1>11. SumFunctionOnSet(f, Z) = SumFunctionOnSet(k, S)
    BY ONLY <1>2, <1>5, <1>6, <1>7, <1>8, SumByGroup
<1>12. Total(k) = Total(ff)
    BY <1>5, <1>9, <1>10, <1>11 DEF Total
<1>. QED  BY <1>12 DEF k, ff, S

\* What is drawn on the payments is what documents use of them.
LEMMA DrawnIsUsed ==
    ASSUME NEW b, Sound(b), Running(b)
    PROVE  /\ Total([s \in DOMAIN b.settlements |-> Drawn(b, s)])
                = Total([d \in DOMAIN b.invoices |-> Total(UsedBy(b, d))])
           /\ \A d \in DOMAIN b.invoices : Total(UsedBy(b, d)) \in Nat
<1>. DEFINE S == DOMAIN b.settlements
            D == DOMAIN b.invoices
            A == DOMAIN b.applications
            Z == {a \in A : /\ b.applications[a].journal = "POSTED"
                            /\ ~Released(b, <<"APPLICATION", a>>)}
            f == [a \in A |-> b.applications[a].amount]
            from == [a \in Z |-> b.applications[a].advance]
            to == [a \in Z |-> b.applications[a].document]
            k == [s \in S |-> Drawn(b, s)]
            m == [d \in D |-> Total(UsedBy(b, d))]
<1>1. /\ b.settlements \in Seq(Settlement) /\ b.applications \in Seq(Application)
      /\ b.invoices \in Seq(Invoice) /\ b \in BooksType
    BY DEF Sound, BooksType
<1>2. IsFiniteSet(S) /\ IsFiniteSet(D)
    BY ONLY <1>1, TableRows
<1>3. IsFiniteSet(A) /\ \A a \in A : b.applications[a] \in Application
    BY ONLY <1>1, TableRows
<1>4. \A a \in A : b.applications[a].amount \in Nat
    BY <1>3 DEF Application
<1>5. IsFiniteSet(Z) /\ Z \in SUBSET A
    BY <1>3, FS_Subset
<1>6. \A a \in Z : f[a] \in Int /\ from[a] \in S /\ to[a] \in D
    BY <1>4 DEF Sound, Linked, ApplicationLinked
<1>7. \A s \in S : k[s] = SumFunctionOnSet(f, Group(Z, from, s))
  <2>. TAKE s \in S
  <2>. DEFINE G == Group(Z, from, s)
              w == DrawnRow(b, s)
  <2>1. /\ G \in SUBSET A /\ DOMAIN w = A
        /\ \A x \in G : f[x] \in Int /\ w[x] = f[x]
        /\ \A x \in A \ G : w[x] = 0
      BY <1>4 DEF Group, DrawnRow
  <2>2. k[s] = SumFunctionOnSet(w, A)
      BY <2>1 DEF Drawn, Total
  <2>. HIDE DEF G, w, k, f
  <2>3. SumFunctionOnSet(w, A) = SumFunctionOnSet(f, G)
      BY ONLY <1>3, <2>1, SumFilter
  <2>. QED  BY <2>2, <2>3 DEF G
<1>8. \A d \in D : m[d] = SumFunctionOnSet(f, Group(Z, to, d)) /\ m[d] \in Nat
  <2>. TAKE d \in D
  <2>. DEFINE G == Group(Z, to, d)
              w == UsedBy(b, d)
  <2>1. EffectiveApplications(b, d) = G
      BY DEF EffectiveApplications, Group, Running
  <2>2. /\ G \in SUBSET A /\ DOMAIN w = A
        /\ \A x \in G : f[x] \in Int /\ w[x] = f[x]
        /\ \A x \in A \ G : w[x] = 0
      BY <1>4, <2>1 DEF Group, UsedBy
  <2>3. m[d] = SumFunctionOnSet(w, A) /\ m[d] = Total(w)
      BY <2>2 DEF Total
  <2>4. Total(w) \in Nat
      BY <1>1, ClaimSums
  <2>. HIDE DEF G, w, m, f
  <2>5. SumFunctionOnSet(w, A) = SumFunctionOnSet(f, G)
      BY ONLY <1>3, <2>2, SumFilter
  <2>. QED  BY <2>3, <2>4, <2>5 DEF G
<1>9. DOMAIN k = S /\ DOMAIN m = D
    OBVIOUS
<1>. HIDE DEF f, from, to, k, m, A, S, D, Z
<1>10. SumFunctionOnSet(f, Z) = SumFunctionOnSet(k, S)
  <2>1. \A a \in Z : f[a] \in Int
      BY <1>6
  <2>2. \A a \in Z : from[a] \in S
      BY <1>6
  <2>. QED  BY ONLY <1>2, <1>5, <1>7, <2>1, <2>2, SumByGroup
<1>11. SumFunctionOnSet(f, Z) = SumFunctionOnSet(m, D)
  <2>1. \A a \in Z : f[a] \in Int
      BY <1>6
  <2>2. \A a \in Z : to[a] \in D
      BY <1>6
  <2>3. \A d \in D : m[d] = SumFunctionOnSet(f, Group(Z, to, d))
      BY <1>8
  <2>. QED  BY ONLY <1>2, <1>5, <2>1, <2>2, <2>3, SumByGroup
<1>12. Total(k) = Total(m)
    BY <1>9, <1>10, <1>11 DEF Total
<1>. QED  BY <1>8, <1>12 DEF k, m, S, D

\* what payment s holds for document d
HeldFor(b, s, d) ==
    IF s \in EffectiveAllocations(b, d)
    THEN b.settlements[s].allocations[d].amount
           - b.settlements[s].allocations[d].discount
    ELSE 0

\* What the payments hold is what documents are paid with, discounts apart.
LEMMA HeldIsPaid ==
    ASSUME NEW b, Sound(b)
    PROVE  /\ Total([s \in DOMAIN b.settlements |-> Held(b, s)])
                = Total([d \in DOMAIN b.invoices |->
                            Total(PaidBy(b, d)) - Total(GivenBy(b, d))])
           /\ \A d \in DOMAIN b.invoices :
                Total(PaidBy(b, d)) - Total(GivenBy(b, d)) \in Int
<1>. DEFINE S == DOMAIN b.settlements
            D == DOMAIN b.invoices
            f == [s \in S |-> [d \in D |-> HeldFor(b, s, d)]]
            t == [d \in D |-> [s \in S |-> HeldFor(b, s, d)]]
            row == [s \in S |-> Held(b, s)]
            col == [d \in D |-> Total(PaidBy(b, d)) - Total(GivenBy(b, d))]
<1>1. /\ b.settlements \in Seq(Settlement) /\ b.invoices \in Seq(Invoice)
      /\ b \in BooksType
    BY DEF Sound, BooksType
<1>2. IsFiniteSet(S) /\ IsFiniteSet(D)
    BY ONLY <1>1, TableRows
<1>3. \A s \in S :
        /\ DOMAIN b.settlements[s].allocations \subseteq D
        /\ \A d \in DOMAIN b.settlements[s].allocations :
            /\ b.settlements[s].allocations[d].amount \in Nat
            /\ b.settlements[s].allocations[d].discount \in Nat
  <2>. TAKE s \in S
  <2>1. b.settlements[s] \in Settlement
      BY PlacedType
  <2>2. DOMAIN b.settlements[s].allocations \subseteq D
      BY DEF Sound, Linked, RowLinked
  <2>. QED  BY <2>1, <2>2, AllocationsType
<1>4. \A s \in S, d \in D : HeldFor(b, s, d) \in Int
    BY <1>3 DEF HeldFor, EffectiveAllocations
<1>5. \A s \in S, d \in D : f[s][d] \in Int
    BY <1>4
<1>6. \A s \in S : row[s] = SumFunctionOnSet(f[s], D)
  <2>. TAKE s \in S
  <2>. DEFINE A == DOMAIN b.settlements[s].allocations
              v == HeldRow(b, s)
              w == f[s]
  <2>1. row[s] = SumFunctionOnSet(v, A)
      BY DEF HeldRow, Held, Total
  <2>2. A \in SUBSET D /\ \A d \in A : v[d] \in Int
    <3>1. A \in SUBSET D
        BY <1>3
    <3>2. \A d \in A : v[d] \in Int
        BY <1>3 DEF HeldRow
    <3>. QED  BY <3>1, <3>2
  <2>3. \A d \in D : w[d] = HeldFor(b, s, d)
      OBVIOUS
  <2>4. \A d \in A : w[d] = v[d]
      BY <2>2, <2>3 DEF HeldFor, HeldRow, EffectiveAllocations
  <2>5. \A d \in D \ A : w[d] = 0
      BY <2>3 DEF HeldFor, EffectiveAllocations
  <2>. HIDE DEF A, v, w, row
  <2>6. \A d \in A : v[d] \in Int /\ w[d] = v[d]
      BY <2>2, <2>4
  <2>7. SumFunctionOnSet(w, D) = SumFunctionOnSet(v, A)
      BY ONLY <1>2, <2>2, <2>5, <2>6, SumFilter
  <2>. QED  BY <2>1, <2>7 DEF w
<1>7. \A d \in D : col[d] = SumFunctionOnSet(t[d], S) /\ col[d] \in Int
  <2>. TAKE d \in D
  <2>. DEFINE p == PaidBy(b, d)
              g == GivenBy(b, d)
              w == t[d]
  <2>1. \A s \in S : g[s] \in Int /\ w[s] \in Int /\ p[s] = g[s] + w[s]
    <3>1. \A s \in S : w[s] = HeldFor(b, s, d)
        OBVIOUS
    <3>2. \A s \in S : g[s] \in Int
        BY <1>3 DEF GivenBy, EffectiveAllocations
    <3>3. \A s \in S : p[s] = g[s] + HeldFor(b, s, d)
        BY <1>3 DEF GivenBy, PaidBy, HeldFor, EffectiveAllocations
    <3>. QED  BY <1>4, <3>1, <3>2, <3>3
  <2>2. DOMAIN p = S /\ DOMAIN g = S
      BY DEF PaidBy, GivenBy
  <2>3. col[d] = Total(p) - Total(g)
      OBVIOUS
  <2>. HIDE DEF p, g, w, col
  <2>4. SumFunctionOnSet(p, S) = SumFunctionOnSet(g, S) + SumFunctionOnSet(w, S)
      BY ONLY <1>2, <2>1, SumPlus
  <2>5. SumFunctionOnSet(g, S) \in Int /\ SumFunctionOnSet(w, S) \in Int
      BY <1>2, <2>1, SumInt
  <2>6. col[d] = SumFunctionOnSet(w, S) /\ col[d] \in Int
      BY <2>2, <2>3, <2>4, <2>5 DEF Total
  <2>. QED  BY <2>6 DEF w
<1>8. DOMAIN row = S /\ DOMAIN col = D
    OBVIOUS
<1>9. \A d \in D : col[d] = SumFunctionOnSet(t[d], S)
    BY <1>7
<1>10. \A s \in S, d \in D : t[d][s] = f[s][d]
    OBVIOUS
<1>. HIDE DEF f, t, row, col, S, D
<1>11. SumFunctionOnSet(row, S) = SumFunctionOnSet(col, D)
    BY ONLY <1>2, <1>5, <1>6, <1>9, <1>10, SumSwap
<1>12. Total(row) = Total(col)
    BY <1>8, <1>11 DEF Total
<1>13. \A d \in D : col[d] \in Int
    BY <1>7
<1>. QED  BY <1>12, <1>13 DEF row, col, S, D

\* Each payment in its place: all the money is.
LEMMA PlacedMoney ==
    ASSUME NEW b, Sound(b), Running(b), Placed(b)
    PROVE  SumFunction([s \in Received(b) |-> b.settlements[s].amount])
           + SumFunction([n \in DOMAIN b.notes |-> ExcessOf(b, n)])
           = SumFunction([d \in DOMAIN b.invoices |->
                             Paid(b, d) - DiscountsOn(b, d)])
             + SumFunction([s \in DOMAIN b.settlements |->
                               b.settlements[s].remaining])
<1>. DEFINE S == DOMAIN b.settlements
            D == DOMAIN b.invoices
            live == [s \in S |-> IF Effective(b, s) THEN b.settlements[s].amount ELSE 0]
            own == OwnRow(b)
            back == BackRow(b)
            credit == CreditRow(b)
            left == [s \in S |-> b.settlements[s].remaining]
            held == [s \in S |-> Held(b, s)]
            drawn == [s \in S |-> Drawn(b, s)]
            moved == [s \in S |-> Moved(b, s)]
            kept == [d \in D |-> Total(PaidBy(b, d)) - Total(GivenBy(b, d))]
            used == [d \in D |-> Total(UsedBy(b, d))]
            net == [d \in D |-> Paid(b, d) - DiscountsOn(b, d)]
<1>1. /\ b.settlements \in Seq(Settlement) /\ b.invoices \in Seq(Invoice)
      /\ b \in BooksType
    BY DEF Sound, BooksType
<1>2. IsFiniteSet(S) /\ IsFiniteSet(D)
    BY ONLY <1>1, TableRows
<1>3. /\ DOMAIN own = S /\ DOMAIN back = S /\ DOMAIN credit = S /\ DOMAIN left = S
      /\ DOMAIN held = S /\ DOMAIN drawn = S /\ DOMAIN moved = S
      /\ DOMAIN kept = D /\ DOMAIN used = D /\ DOMAIN net = D
    BY DEF OwnRow, BackRow, CreditRow
<1>4. \A s \in S : /\ own[s] \in Nat /\ back[s] \in Nat /\ credit[s] \in Nat
                   /\ live[s] = own[s] + back[s] + credit[s]
  <2>. TAKE s \in S
  <2>. HIDE DEF own, back, credit
  <2>1. live[s] = IF Effective(b, s) THEN b.settlements[s].amount ELSE 0
      OBVIOUS
  <2>. QED  BY <2>1, RowCameFrom DEF own, back, credit
<1>5. \A s \in S : /\ left[s] \in Nat /\ held[s] \in Nat /\ drawn[s] \in Nat
                   /\ moved[s] \in Nat
                   /\ live[s] = left[s] + held[s] + drawn[s] + moved[s]
  <2>. TAKE s \in S
  <2>1. /\ b.settlements[s].remaining \in Nat
        /\ Held(b, s) \in Nat /\ Drawn(b, s) \in Nat /\ Moved(b, s) \in Nat
      BY PlacedType
  <2>2. (IF Effective(b, s) THEN b.settlements[s].amount ELSE 0)
            = b.settlements[s].remaining + Held(b, s) + Drawn(b, s) + Moved(b, s)
      BY DEF Placed, PlacedRow
  <2>. QED  BY <2>1, <2>2
<1>6. /\ Total(moved) = Total(credit)
      /\ Total(drawn) = Total(used) /\ Total(held) = Total(kept)
    BY CreditsMoved, DrawnIsUsed, HeldIsPaid
<1>7. \A d \in D : /\ kept[d] \in Int /\ used[d] \in Int
                   /\ net[d] = kept[d] + used[d]
  <2>. TAKE d \in D
  <2>1. /\ Paid(b, d) = Total(PaidBy(b, d)) + Total(UsedBy(b, d))
        /\ DiscountsOn(b, d) = Total(GivenBy(b, d)) /\ DiscountsOn(b, d) \in Nat
        /\ Total(PaidBy(b, d)) \in Nat /\ Total(UsedBy(b, d)) \in Nat
      BY <1>1, ClaimSums
  <2>2. kept[d] = Total(PaidBy(b, d)) - Total(GivenBy(b, d))
        /\ used[d] = Total(UsedBy(b, d)) /\ net[d] = Paid(b, d) - DiscountsOn(b, d)
      OBVIOUS
  <2>. HIDE DEF kept, used, net
  <2>. QED  BY <2>1, <2>2
<1>8. SumFunction([s \in Received(b) |-> b.settlements[s].amount]) = Total(own)
      /\ SumFunction([n \in DOMAIN b.notes |-> ExcessOf(b, n)]) = Total(back)
    BY CameIn
<1>. DEFINE sum(f) == SumFunctionOnSet(f, S)
            mine == [s \in S |-> own[s] + back[s]]
            put == [s \in S |-> left[s] + held[s]]
            gone == [s \in S |-> drawn[s] + moved[s]]
<1>9. \A s \in S : mine[s] = own[s] + back[s] /\ put[s] = left[s] + held[s]
                   /\ gone[s] = drawn[s] + moved[s]
    OBVIOUS
<1>. HIDE DEF live, own, back, credit, left, held, drawn, moved, kept, used, net,
              mine, put, gone, S, D
<1>10. sum(mine) = sum(own) + sum(back)
  <2>1. \A s \in S : own[s] \in Int /\ back[s] \in Int /\ mine[s] = own[s] + back[s]
      BY <1>4, <1>9
  <2>. QED  BY ONLY <1>2, <2>1, SumPlus
<1>11. sum(live) = sum(mine) + sum(credit)
  <2>1. \A s \in S : mine[s] \in Int /\ credit[s] \in Int /\ live[s] = mine[s] + credit[s]
      BY <1>4, <1>9
  <2>. QED  BY ONLY <1>2, <2>1, SumPlus
<1>12. sum(put) = sum(left) + sum(held)
  <2>1. \A s \in S : left[s] \in Int /\ held[s] \in Int /\ put[s] = left[s] + held[s]
      BY <1>5, <1>9
  <2>. QED  BY ONLY <1>2, <2>1, SumPlus
<1>13. sum(gone) = sum(drawn) + sum(moved)
  <2>1. \A s \in S : drawn[s] \in Int /\ moved[s] \in Int /\ gone[s] = drawn[s] + moved[s]
      BY <1>5, <1>9
  <2>. QED  BY ONLY <1>2, <2>1, SumPlus
<1>14. sum(live) = sum(put) + sum(gone)
  <2>1. \A s \in S : put[s] \in Int /\ gone[s] \in Int /\ live[s] = put[s] + gone[s]
      BY <1>5, <1>9
  <2>. QED  BY ONLY <1>2, <2>1, SumPlus
<1>15. SumFunctionOnSet(net, D) = SumFunctionOnSet(kept, D) + SumFunctionOnSet(used, D)
    BY ONLY <1>2, <1>7, SumPlus
<1>16. /\ sum(own) \in Nat /\ sum(back) \in Nat /\ sum(credit) \in Nat
       /\ sum(left) \in Nat /\ sum(held) \in Nat /\ sum(drawn) \in Nat
       /\ sum(moved) \in Nat
  <2>. HIDE DEF sum
  <2>1. \A f : (\A s \in S : f[s] \in Nat) => sum(f) \in Nat
      BY <1>2, SumNat DEF sum
  <2>2. \A s \in S : own[s] \in Nat /\ back[s] \in Nat /\ credit[s] \in Nat
      BY <1>4
  <2>3. \A s \in S : /\ left[s] \in Nat /\ held[s] \in Nat /\ drawn[s] \in Nat
                     /\ moved[s] \in Nat
      BY <1>5
  <2>. QED  BY ONLY <2>1, <2>2, <2>3
<1>17. /\ Total(own) = sum(own) /\ Total(back) = sum(back) /\ Total(credit) = sum(credit)
       /\ Total(left) = sum(left) /\ Total(held) = sum(held)
       /\ Total(drawn) = sum(drawn) /\ Total(moved) = sum(moved)
       /\ Total(kept) = SumFunctionOnSet(kept, D)
       /\ Total(used) = SumFunctionOnSet(used, D)
       /\ SumFunction(net) = SumFunctionOnSet(net, D)
       /\ SumFunction(left) = sum(left)
    BY <1>3 DEF Total, SumFunction
<1>18. Total(own) + Total(back) = SumFunction(net) + SumFunction(left)
  <2>. HIDE DEF sum
  <2>1. sum(own) + sum(back) + sum(credit)
            = sum(left) + sum(held) + sum(drawn) + sum(moved)
    <3>1. sum(live) = sum(own) + sum(back) + sum(credit)
        BY ONLY <1>10, <1>11
    <3>2. sum(live) = (sum(left) + sum(held)) + (sum(drawn) + sum(moved))
        BY ONLY <1>12, <1>13, <1>14
    <3>. QED  BY ONLY <1>16, <3>1, <3>2
  <2>2. sum(moved) = sum(credit)
      BY ONLY <1>6, <1>17
  <2>3. SumFunction(net) = sum(held) + sum(drawn)
      BY ONLY <1>6, <1>15, <1>17
  <2>4. sum(own) + sum(back) = (sum(held) + sum(drawn)) + sum(left)
      BY ONLY <1>16, <2>1, <2>2
  <2>. QED  BY ONLY <1>17, <2>3, <2>4
<1>19. /\ net = [d \in DOMAIN b.invoices |-> Paid(b, d) - DiscountsOn(b, d)]
       /\ left = [s \in DOMAIN b.settlements |-> b.settlements[s].remaining]
    BY DEF net, left, S, D
<1>. QED  BY ONLY <1>8, <1>18, <1>19 DEF own, back

\* All money received and all excess of returns stays where it can be found,
\* through releases, corrections, bounced cheques and applications.
THEOREM MoneyStaysInOnePlace == Spec => []MoneyInOnePlace
<1>. DEFINE X == {b \in BooksType : Running(b) /\ Placed(b)}
            Inv == IInv /\ Running(Books) /\ Placed(Books)
<1>1. Init => Inv
    BY IInvInit, EmptyBooks DEF Running, Placed
<1>2. Within(X)
  <2>1. ASSUME NEW b \in X, NEW r, Sound(b), Move(b, r)
        PROVE  r \in X
      BY <2>1, MoveKept, MoveClaims, MovePlaced DEF Sound
  <2>. QED  BY <2>1 DEF Within
<1>3. Inv /\ [Next]_vars => Inv'
  <2> SUFFICES ASSUME Inv, [Next]_vars PROVE Books' \in X
      BY IInvNext
  <2>1. Books \in X
      BY DEF IInv, Sound
  <2>. HIDE DEF X
  <2>. QED  BY <1>2, <2>1, NextWithin
<1>4. Inv => MoneyInOnePlace
  <2> SUFFICES ASSUME Sound(Books), Running(Books), Placed(Books)
               PROVE  MoneyInOnePlace
      BY DEF IInv
  <2>. QED  BY PlacedMoney, BooksTables DEF MoneyInOnePlace
<1>. HIDE DEF Inv
<1>. QED  BY <1>1, <1>3, <1>4, PTL DEF Spec
===============================================================================
