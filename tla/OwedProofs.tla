------------------------------ MODULE OwedProofs -------------------------------
(***************************************************************************)
(* What the documents of a customer show is what he owes, and a correction *)
(* of a sale changes it by the difference of the totals and asks nothing   *)
(* twice: the theorems of Receivables that are about sums over documents,  *)
(* payments and carried returns at the same time.                          *)
(*                                                                         *)
(* The sums need facts about single rows: no payment is released twice,    *)
(* and a carried return stands where the last revision put it.  The first  *)
(* part adds them up in given books, the second shows that the calls and   *)
(* the transactions keep them, the third is about the replacement.         *)
(***************************************************************************)
EXTENDS ReceivablesProofs

-----------------------------------------------------------------------------
(* The discounts.                                                          *)

\* the discounts given with the payments that count
GivenRow(b) ==
    [s \in DOMAIN b.settlements |->
        IF Effective(b, s) THEN DiscountOf(b.settlements[s]) ELSE 0]

\* of these, the ones taken back
BackGiven(b, s, d) ==
    IF /\ d \in DOMAIN b.settlements[s].allocations /\ Effective(b, s)
       /\ Released(b, <<"RECEIPT", s, d>>)
    THEN b.settlements[s].allocations[d].discount ELSE 0

StillGiven(b, s, d) ==
    IF s \in EffectiveAllocations(b, d)
    THEN b.settlements[s].allocations[d].discount ELSE 0

DiscountRow(b) == [d \in DOMAIN b.invoices |-> DiscountsOn(b, d)]

\* The payment that a credit was made of still counts.
LEMMA CreditSourceCounts ==
    ASSUME NEW b, Sound(b), Placed(b), NEW u \in ReceiptCredits(b)
    PROVE  /\ b.settlements[u].origin \in {"RECEIPT"} \X Nat \X Nat
           /\ b.settlements[u].origin[2] \in DOMAIN b.settlements
           /\ Effective(b, b.settlements[u].origin[2])
           /\ b.settlements[u].origin[3] \in
                DOMAIN b.settlements[b.settlements[u].origin[2]].allocations
<1>. DEFINE from == b.settlements[u].origin
            s == from[2]
<1>1. u \in DOMAIN b.settlements /\ from # <<>> /\ from[1] = "RECEIPT"
    BY DEF ReceiptCredits
<1>2. b.settlements[u] \in Settlement
    BY <1>1, PlacedType
<1>3. from \in Origin
    BY <1>2 DEF Settlement
<1>4. from \in {"RECEIPT"} \X Nat \X Nat
    BY <1>1, <1>3 DEF Origin
<1>5. OriginLinked(b, from)
    BY <1>1 DEF Sound, Linked, RowLinked
<1>6. s \in DOMAIN b.settlements /\ from[3] \in DOMAIN b.settlements[s].allocations
    BY <1>1, <1>5 DEF OriginLinked
<1>7. SourceOf(b, from) = s
    BY <1>1 DEF SourceOf
<1>8. Effective(b, s)
  <2> SUFFICES ASSUME ~Effective(b, s) PROVE FALSE
      OBVIOUS
  <2>1. PlacedRow(b, s)
      BY <1>6 DEF Placed
  <2>2. /\ b.settlements[s].remaining \in Nat
        /\ Held(b, s) \in Nat /\ Drawn(b, s) \in Nat /\ Moved(b, s) \in Nat
      BY <1>6, PlacedType
  <2>3. 0 = b.settlements[s].remaining + Held(b, s) + Drawn(b, s) + Moved(b, s)
      BY <2>1 DEF PlacedRow
  <2>4. Moved(b, s) = 0
      BY <2>2, <2>3
  <2>. QED  BY <1>1, <1>6, <1>7, <2>4, NothingMoved
<1>. QED  BY <1>4, <1>6, <1>8

\* What is taken back for one payment on one document.
LEMMA TakenBackOnce ==
    ASSUME NEW b, Sound(b), Placed(b), ReleasedOnce(b),
           NEW s \in DOMAIN b.settlements, NEW d \in DOMAIN b.invoices,
           NEW G, G = {u \in ReceiptCredits(b) :
                        b.settlements[u].origin = <<"RECEIPT", s, d>>}
    PROVE  SumFunctionOnSet(TakenBy(b.settlements), G) = BackGiven(b, s, d)
<1>. DEFINE t == TakenBy(b.settlements)
            from == <<"RECEIPT", s, d>>
<1>1. CASE G = {}
  <2>1. ~Released(b, from)
    <3> SUFFICES ASSUME NEW u \in DOMAIN b.settlements,
                        b.settlements[u].origin = from
                 PROVE  FALSE
        BY DEF Released
    <3>1. from # <<>> /\ from[1] = "RECEIPT"
        OBVIOUS
    <3>2. u \in G
        BY <3>1 DEF ReceiptCredits
    <3>. QED  BY <1>1, <3>2
  <2>2. BackGiven(b, s, d) = 0
      BY <2>1 DEF BackGiven
  <2>3. SumFunctionOnSet(t, {}) = 0
      BY SumEmpty
  <2>. QED  BY <1>1, <2>2, <2>3
<1>2. ASSUME NEW u \in G PROVE SumFunctionOnSet(t, G) = BackGiven(b, s, d)
  <2>1. /\ u \in ReceiptCredits(b) /\ b.settlements[u].origin = from
        /\ u \in DOMAIN b.settlements
      BY DEF ReceiptCredits
  <2>2. from # <<>> /\ from[1] = "RECEIPT" /\ from[2] = s /\ from[3] = d
      OBVIOUS
  <2>3. G = {u}
    <3>1. \A v \in G : v = u
      <4>. TAKE v \in G
      <4>1. v \in DOMAIN b.settlements /\ b.settlements[v].origin = from
          BY DEF ReceiptCredits
      <4>. QED  BY <2>1, <2>2, <4>1 DEF ReleasedOnce
    <3>. QED  BY <3>1
  <2>4. Effective(b, s) /\ d \in DOMAIN b.settlements[s].allocations
      BY <2>1, <2>2, CreditSourceCounts
  <2>5. Released(b, from)
      BY <2>1 DEF Released
  <2>6. BackGiven(b, s, d) = b.settlements[s].allocations[d].discount
      BY <2>4, <2>5 DEF BackGiven
  <2>7. t[u] = b.settlements[s].allocations[d].discount
      BY <2>1, <2>2 DEF TakenBy
  <2>8. b.settlements[s].allocations[d].discount \in Nat
    <3>1. b.settlements[s] \in Settlement
        BY PlacedType
    <3>. QED  BY <2>4, <3>1, AllocationsType
  <2>9. t[u] \in Int
      BY <2>7, <2>8
  <2>. HIDE DEF t
  <2>10. SumFunctionOnSet(t, {u}) = t[u]
      BY <2>9, SumSingle
  <2>. QED  BY <2>3, <2>6, <2>7, <2>10
<1>. QED  BY <1>1, <1>2

\* All that was taken back, payment by payment and document by document.
LEMMA TakenBackSum ==
    ASSUME NEW b, Sound(b), Placed(b), ReleasedOnce(b)
    PROVE  /\ Total(TakenBy(b.settlements)) =
                Total([s \in DOMAIN b.settlements |->
                    SumFunctionOnSet([d \in DOMAIN b.invoices |-> BackGiven(b, s, d)],
                                     DOMAIN b.invoices)])
           /\ \A s \in DOMAIN b.settlements, d \in DOMAIN b.invoices :
                BackGiven(b, s, d) \in Nat
<1>. DEFINE S == DOMAIN b.settlements
            D == DOMAIN b.invoices
            Z == ReceiptCredits(b)
            t == TakenBy(b.settlements)
            payer == [u \in Z |-> b.settlements[u].origin[2]]
            doc == [u \in Z |-> b.settlements[u].origin[3]]
            row == [s \in S |-> SumFunctionOnSet([d \in D |-> BackGiven(b, s, d)], D)]
<1>1. /\ b.settlements \in Seq(Settlement) /\ b.invoices \in Seq(Invoice)
    BY DEF Sound, BooksType
<1>2. IsFiniteSet(S) /\ IsFiniteSet(D)
    BY ONLY <1>1, TableRows
<1>3. \A s \in S :
        /\ DOMAIN b.settlements[s].allocations \subseteq D
        /\ \A d \in DOMAIN b.settlements[s].allocations :
            b.settlements[s].allocations[d].discount \in Nat
  <2>. TAKE s \in S
  <2>1. b.settlements[s] \in Settlement
      BY PlacedType
  <2>2. DOMAIN b.settlements[s].allocations \subseteq D
      BY DEF Sound, Linked, RowLinked
  <2>. QED  BY <2>1, <2>2, AllocationsType
<1>4. \A s \in S, d \in D : BackGiven(b, s, d) \in Nat
    BY <1>3 DEF BackGiven
<1>5. \A u \in Z : payer[u] \in S /\ doc[u] \in D
  <2>. TAKE u \in Z
  <2>1. payer[u] \in S /\ doc[u] \in DOMAIN b.settlements[payer[u]].allocations
      BY CreditSourceCounts
  <2>. QED  BY <1>3, <2>1
<1>6. \A u \in Z : t[u] \in Int
  <2>. TAKE u \in Z
  <2>1. /\ payer[u] \in S /\ doc[u] \in DOMAIN b.settlements[payer[u]].allocations
        /\ u \in S /\ b.settlements[u].origin # <<>>
        /\ b.settlements[u].origin[1] = "RECEIPT"
      BY CreditSourceCounts DEF ReceiptCredits
  <2>2. t[u] = b.settlements[payer[u]].allocations[doc[u]].discount
      BY <2>1 DEF TakenBy
  <2>3. \A p, d : p \in S /\ d \in DOMAIN b.settlements[p].allocations
            => b.settlements[p].allocations[d].discount \in Nat
      BY ONLY <1>3
  <2>4. b.settlements[payer[u]].allocations[doc[u]].discount \in Nat
    <3>1. payer[u] \in S /\ doc[u] \in DOMAIN b.settlements[payer[u]].allocations
        BY ONLY <2>1
    <3>. QED  BY ONLY <2>3, <3>1
  <2>5. \A n \in Nat : n \in Int
      OBVIOUS
  <2>. QED  BY ONLY <2>2, <2>4, <2>5
<1>7. Z \in SUBSET S /\ DOMAIN t = S /\ \A u \in S \ Z : t[u] = 0
    BY DEF ReceiptCredits, TakenBy
<1>8. IsFiniteSet(Z)
    BY <1>2, <1>7, FS_Subset
<1>9. \A s \in S : row[s] = SumFunctionOnSet(t, Group(Z, payer, s))
  <2>. TAKE s \in S
  <2>. DEFINE G == Group(Z, payer, s)
              c == [d \in D |-> BackGiven(b, s, d)]
  <2>1. G \subseteq Z
      BY DEF Group
  <2>2. IsFiniteSet(G)
      BY <1>8, <2>1, FS_Subset
  <2>3. \A u \in G : t[u] \in Int /\ doc[u] \in D
      BY <1>5, <1>6, <2>1
  <2>4. \A d \in D : c[d] = SumFunctionOnSet(t, Group(G, doc, d))
    <3>. TAKE d \in D
    <3>. DEFINE H == {u \in ReceiptCredits(b) :
                        b.settlements[u].origin = <<"RECEIPT", s, d>>}
                L == Group(G, doc, d)
    <3>1. \A u : u \in L <=> u \in Z /\ payer[u] = s /\ doc[u] = d
        BY DEF Group
    <3>2. \A u \in Z : b.settlements[u].origin = <<"RECEIPT", payer[u], doc[u]>>
      <4>. TAKE u \in Z
      <4>1. b.settlements[u].origin \in {"RECEIPT"} \X Nat \X Nat
          BY CreditSourceCounts
      <4>2. payer[u] = b.settlements[u].origin[2] /\ doc[u] = b.settlements[u].origin[3]
          OBVIOUS
      <4>. QED  BY <4>1, <4>2
    <3>3. \A u : u \in H <=> u \in Z /\ b.settlements[u].origin = <<"RECEIPT", s, d>>
        OBVIOUS
    <3>4. SumFunctionOnSet(t, H) = BackGiven(b, s, d)
        BY TakenBackOnce
    <3>5. c[d] = BackGiven(b, s, d)
        OBVIOUS
    <3>. HIDE DEF H, L, payer, doc, Z, G, c
    <3>6. \A u : u \in L <=> u \in H
        BY <3>1, <3>2, <3>3
    <3>7. L = H
        BY <3>6
    <3>. QED  BY <3>4, <3>5, <3>7 DEF L
  <2>6. row[s] = SumFunctionOnSet(c, D)
      OBVIOUS
  <2>. HIDE DEF G, c, t, doc, D, row
  <2>5. SumFunctionOnSet(t, G) = SumFunctionOnSet(c, D)
      BY ONLY <1>2, <2>2, <2>3, <2>4, SumByGroup
  <2>. QED  BY <2>5, <2>6 DEF G
<1>11. DOMAIN row = S
    OBVIOUS
<1>12. \A u \in Z : payer[u] \in S
    BY <1>5
<1>13. \A u \in Z : t[u] \in Int /\ t[u] = t[u]
    BY <1>6
<1>. HIDE DEF row, payer, t, Z, S, D, doc
<1>15. SumFunctionOnSet(t, Z) = SumFunctionOnSet(row, S)
    BY ONLY <1>2, <1>6, <1>8, <1>9, <1>12, SumByGroup
<1>16. SumFunctionOnSet(t, S) = SumFunctionOnSet(t, Z)
    BY ONLY <1>2, <1>7, <1>13, SumFilter
<1>17. Total(t) = Total(row)
    BY <1>7, <1>11, <1>15, <1>16 DEF Total
<1>. QED  BY <1>4, <1>17 DEF S, D, t, row

\* The discounts given are those that documents still show, and those taken
\* back.
LEMMA DiscountsSplit ==
    ASSUME NEW b, Sound(b), Placed(b), ReleasedOnce(b)
    PROVE  /\ Total(GivenRow(b))
                = Total(DiscountRow(b)) + Total(TakenBy(b.settlements))
           /\ Total(DiscountRow(b)) \in Int
           /\ Total(TakenBy(b.settlements)) \in Int
           /\ \A s \in DOMAIN b.settlements : GivenRow(b)[s] \in Int
<1>. DEFINE S == DOMAIN b.settlements
            D == DOMAIN b.invoices
            f == [s \in S |-> [d \in D |-> StillGiven(b, s, d)]]
            t == [d \in D |-> [s \in S |-> StillGiven(b, s, d)]]
            back == [s \in S |-> [d \in D |-> BackGiven(b, s, d)]]
            still == [s \in S |-> SumFunctionOnSet(f[s], D)]
            taken == [s \in S |-> SumFunctionOnSet(back[s], D)]
            row == GivenRow(b)
            col == DiscountRow(b)
<1>1. /\ b.settlements \in Seq(Settlement) /\ b.invoices \in Seq(Invoice)
      /\ b \in BooksType
    BY DEF Sound, BooksType
<1>2. IsFiniteSet(S) /\ IsFiniteSet(D)
    BY ONLY <1>1, TableRows
<1>3. \A s \in S :
        /\ DOMAIN b.settlements[s].allocations \subseteq D
        /\ \A d \in DOMAIN b.settlements[s].allocations :
            b.settlements[s].allocations[d].discount \in Nat
  <2>. TAKE s \in S
  <2>1. b.settlements[s] \in Settlement
      BY PlacedType
  <2>2. DOMAIN b.settlements[s].allocations \subseteq D
      BY DEF Sound, Linked, RowLinked
  <2>. QED  BY <2>1, <2>2, AllocationsType
<1>4. \A s \in S, d \in D : StillGiven(b, s, d) \in Int
    BY <1>3 DEF StillGiven, EffectiveAllocations
<1>5. \A s \in S, d \in D : BackGiven(b, s, d) \in Int
    BY <1>3 DEF BackGiven
<1>6. \A s \in S : /\ still[s] \in Int /\ taken[s] \in Int
                   /\ row[s] = still[s] + taken[s]
  <2>. TAKE s \in S
  <2>. DEFINE A == DOMAIN b.settlements[s].allocations
              v == [d \in A |-> b.settlements[s].allocations[d].discount]
              w == [d \in D |-> IF d \in A /\ Effective(b, s)
                                THEN b.settlements[s].allocations[d].discount
                                ELSE 0]
              x == f[s]
              y == back[s]
  <2>1. A \in SUBSET D
      BY <1>3
  <2>2. \A d \in D : x[d] \in Int /\ y[d] \in Int /\ w[d] = x[d] + y[d]
    <3>. TAKE d \in D
    <3>1. x[d] = StillGiven(b, s, d) /\ y[d] = BackGiven(b, s, d)
        OBVIOUS
    <3>2. x[d] \in Int /\ y[d] \in Int
        BY <1>4, <1>5, <3>1
    <3>3. CASE d \in A /\ Effective(b, s)
      <4>1. w[d] = b.settlements[s].allocations[d].discount /\ w[d] \in Int
          BY <1>3, <3>3
      <4>2. CASE Released(b, <<"RECEIPT", s, d>>)
        <5>1. x[d] = 0 /\ y[d] = w[d]
            BY <3>1, <3>3, <4>1, <4>2 DEF StillGiven, BackGiven, EffectiveAllocations
        <5>. HIDE DEF x, y, w
        <5>. QED  BY <3>2, <4>1, <5>1
      <4>3. CASE ~Released(b, <<"RECEIPT", s, d>>)
        <5>1. x[d] = w[d] /\ y[d] = 0
            BY <3>1, <3>3, <4>1, <4>3 DEF StillGiven, BackGiven, EffectiveAllocations
        <5>. HIDE DEF x, y, w
        <5>. QED  BY <3>2, <4>1, <5>1
      <4>. QED  BY <4>2, <4>3
    <3>4. CASE ~(d \in A /\ Effective(b, s))
      <4>1. x[d] = 0 /\ y[d] = 0 /\ w[d] = 0
          BY <3>1, <3>4 DEF StillGiven, BackGiven, EffectiveAllocations
      <4>. QED  BY <3>2, <4>1
    <3>. QED  BY <3>3, <3>4
  <2>3. row[s] = SumFunctionOnSet(w, D)
    <3>1. CASE Effective(b, s)
      <4>1. \A d \in A : v[d] \in Int /\ w[d] = v[d]
          BY <1>3, <3>1
      <4>2. \A d \in D \ A : w[d] = 0
          OBVIOUS
      <4>3. row[s] = DiscountOf(b.settlements[s])
          BY <3>1 DEF GivenRow
      <4>4. row[s] = SumFunctionOnSet(v, A)
          BY <4>3 DEF DiscountOf, SumFunction
      <4>. HIDE DEF A, v, w, row, D
      <4>5. SumFunctionOnSet(w, D) = SumFunctionOnSet(v, A)
          BY ONLY <1>2, <2>1, <4>1, <4>2, SumFilter
      <4>. QED  BY <4>4, <4>5
    <3>2. CASE ~Effective(b, s)
      <4>1. \A d \in D : w[d] = 0
          BY <3>2
      <4>2. row[s] = 0
          BY <3>2 DEF GivenRow
      <4>. HIDE DEF w, row, D
      <4>. QED  BY <1>2, <4>1, <4>2, SumOfZeros
    <3>. QED  BY <3>1, <3>2
  <2>4. still[s] = SumFunctionOnSet(x, D) /\ taken[s] = SumFunctionOnSet(y, D)
      OBVIOUS
  <2>. HIDE DEF x, y, w, row, still, taken, D
  <2>5. SumFunctionOnSet(w, D) = SumFunctionOnSet(x, D) + SumFunctionOnSet(y, D)
      BY ONLY <1>2, <2>2, SumPlus
  <2>6. SumFunctionOnSet(x, D) \in Int /\ SumFunctionOnSet(y, D) \in Int
      BY <1>2, <2>2, SumInt
  <2>. QED  BY <2>3, <2>4, <2>5, <2>6
<1>7. \A d \in D : col[d] = SumFunctionOnSet(t[d], S) /\ col[d] \in Int
  <2>. TAKE d \in D
  <2>. DEFINE g == GivenBy(b, d)
              x == t[d]
  <2>1. DOMAIN g = S /\ \A s \in S : g[s] = x[s] /\ g[s] \in Int
    <3>1. \A s \in S : x[s] = StillGiven(b, s, d)
        OBVIOUS
    <3>2. \A s \in S : g[s] = StillGiven(b, s, d)
        BY DEF GivenBy, StillGiven
    <3>. QED  BY <1>4, <3>1, <3>2 DEF GivenBy
  <2>2. col[d] = Total(g) /\ col[d] \in Int
    <3>1. DiscountsOn(b, d) = Total(GivenBy(b, d)) /\ DiscountsOn(b, d) \in Nat
        BY <1>1, ClaimSums
    <3>2. col[d] = DiscountsOn(b, d)
        BY DEF DiscountRow
    <3>. QED  BY <3>1, <3>2
  <2>3. SumFunctionOnSet(g, S) = SumFunctionOnSet(x, S)
    <3>. HIDE DEF g, x, S
    <3>. QED  BY ONLY <1>2, <2>1, SumSame
  <2>. QED  BY <2>1, <2>2, <2>3 DEF Total
<1>8. \A s \in S, d \in D : f[s][d] \in Int /\ t[d][s] = f[s][d]
    BY <1>4
<1>9. DOMAIN row = S /\ DOMAIN col = D /\ DOMAIN taken = S /\ DOMAIN still = S
    BY DEF GivenRow, DiscountRow
<1>10. Total(TakenBy(b.settlements)) = Total(taken)
  <2>1. taken = [s \in S |-> SumFunctionOnSet([d \in D |-> BackGiven(b, s, d)], D)]
      OBVIOUS
  <2>. HIDE DEF taken
  <2>. QED  BY <2>1, TakenBackSum
<1>11. \A s \in S : still[s] = SumFunctionOnSet(f[s], D)
    OBVIOUS
<1>. HIDE DEF f, t, row, col, still, taken, back, S, D
<1>12. SumFunctionOnSet(still, S) = SumFunctionOnSet(col, D)
  <2>1. \A s \in S, d \in D : f[s][d] \in Int
      BY <1>8
  <2>2. \A s \in S, d \in D : t[d][s] = f[s][d]
      BY <1>8
  <2>3. \A d \in D : col[d] = SumFunctionOnSet(t[d], S)
      BY <1>7
  <2>. QED  BY ONLY <1>2, <1>11, <2>1, <2>2, <2>3, SumSwap
<1>13. SumFunctionOnSet(row, S) = SumFunctionOnSet(still, S) + SumFunctionOnSet(taken, S)
  <2>1. \A s \in S : still[s] \in Int /\ taken[s] \in Int /\ row[s] = still[s] + taken[s]
      BY <1>6
  <2>. QED  BY ONLY <1>2, <2>1, SumPlus
<1>14. SumFunctionOnSet(still, S) \in Int /\ SumFunctionOnSet(taken, S) \in Int
    BY <1>2, <1>6, SumInt
<1>15. \A s \in S : row[s] \in Int
    BY <1>6
<1>16. /\ Total(row) = Total(col) + Total(taken) /\ Total(col) \in Int
       /\ Total(taken) \in Int
    BY <1>9, <1>12, <1>13, <1>14 DEF Total
<1>. QED  BY <1>10, <1>15, <1>16 DEF row, col, S

-----------------------------------------------------------------------------
(* The returns that were carried.                                          *)

Open(b, d) == b.invoices[d].state = "LIVE" /\ Posted(b.invoices[d])

\* sale d was revised with its returns, its journal reversed
WithReturns(b, d) == b.invoices[d].state # "LIVE" /\ ~Posted(b.invoices[d])

\* what the carries apply to live sales
StandingRow(b) ==
    [c \in DOMAIN b.carries |->
        IF b.invoices[b.carries[c].invoice].state = "LIVE"
        THEN b.carries[c].applied ELSE 0]

CarriedRow(b) ==
    [d \in DOMAIN b.invoices |-> IF Open(b, d) THEN Carried(b, d) ELSE 0]

ExcessRow(b) == [n \in DOMAIN b.notes |-> ExcessOf(b, n)]

\* the returns that have been carried
ReturnRow(b) ==
    [n \in DOMAIN b.notes |->
        IF CarriesOf(b, n) # {} THEN b.notes[n].total ELSE 0]

NotedRow(b) == [d \in DOMAIN b.invoices |-> Noted(b, d)]

\* what was noted on the sales that were revised with their returns
GoneRow(b) ==
    [d \in DOMAIN b.invoices |-> IF WithReturns(b, d) THEN Noted(b, d) ELSE 0]

\* The carries in their types.
LEMMA CarryForm ==
    ASSUME NEW b, Sound(b), NEW c \in DOMAIN b.carries
    PROVE  /\ b.carries[c].note \in DOMAIN b.notes
           /\ b.carries[c].applied \in Nat /\ b.carries[c].invoice \in Nat
           /\ IsFiniteSet(DOMAIN b.carries)
<1>1. b.carries \in Seq(Carry)
    BY DEF Sound, BooksType
<1>2. b.carries[c] \in Carry /\ IsFiniteSet(DOMAIN b.carries)
    BY ONLY <1>1, TableRows, c \in DOMAIN b.carries
<1>3. b.carries[c].note \in DOMAIN b.notes
    BY DEF Sound, Linked
<1>. QED  BY <1>2, <1>3 DEF Carry

\* The carried amounts of the open sales are what the carries apply to live
\* ones.
LEMMA CarriedSum ==
    ASSUME NEW b, Sound(b), Tidy(b), ReturnsStand(b)
    PROVE  /\ Total(CarriedRow(b)) = Total(StandingRow(b))
           /\ \A d \in DOMAIN b.invoices : CarriedRow(b)[d] \in Nat
           /\ \A c \in DOMAIN b.carries : StandingRow(b)[c] \in Nat
<1>. DEFINE C == DOMAIN b.carries
            D == DOMAIN b.invoices
            w == StandingRow(b)
            row == CarriedRow(b)
            to == [c \in C |-> b.carries[c].invoice]
<1>1. /\ b.carries \in Seq(Carry) /\ b.invoices \in Seq(Invoice) /\ b \in BooksType
    BY DEF Sound, BooksType
<1>2. IsFiniteSet(C) /\ IsFiniteSet(D)
    BY ONLY <1>1, TableRows
<1>3. \A c \in C : b.carries[c].applied \in Nat
    BY CarryForm
<1>4. \A c \in C : w[c] \in Nat
    BY <1>3 DEF StandingRow
<1>5. \A c \in C : to[c] \in D
    BY DEF Tidy
<1>6. \A c \in C : CarryStands(b, c)
    BY DEF ReturnsStand
<1>7. \A d \in D : row[d] = SumFunctionOnSet(w, Group(C, to, d)) /\ row[d] \in Nat
  <2>. TAKE d \in D
  <2>. DEFINE G == Group(C, to, d)
              k == CarriedBy(b, d)
  <2>1. Carried(b, d) = Total(k) /\ Carried(b, d) \in Nat
      BY <1>1, ClaimSums
  <2>2. \A c : c \in G <=> c \in C /\ b.carries[c].invoice = d
      BY DEF Group
  <2>3. \A c \in G : b.carries[c].note \in PostedNotes(b)
    <3>. TAKE c \in G
    <3>1. c \in C /\ b.carries[c].note \in DOMAIN b.notes
        BY <2>2, CarryForm
    <3>2. Posted(b.notes[b.carries[c].note])
        BY <1>6, <3>1 DEF CarryStands
    <3>. QED  BY <3>1, <3>2 DEF PostedNotes
  <2>4. IsFiniteSet(G)
      BY <1>2, <2>2, FS_Subset
  <2>5. DOMAIN k = C
      BY DEF CarriedBy
  <2>6. \A c \in C : k[c] = IF c \in G THEN b.carries[c].applied ELSE 0
      BY <2>2, <2>3 DEF CarriedBy, CarriesTo
  <2>7. row[d] = IF Open(b, d) THEN Carried(b, d) ELSE 0
      BY DEF CarriedRow
  <2>8. CASE Open(b, d)
    <3>1. \A c \in G : w[c] = b.carries[c].applied
        BY <2>2, <2>8 DEF StandingRow, Open
    <3>. HIDE DEF G, k, w, C, row
    <3>2. G \in SUBSET C
        BY <2>2
    <3>3. \A c \in G : w[c] \in Int /\ k[c] = w[c]
        BY <1>4, <2>6, <3>1, <3>2
    <3>4. \A c \in C \ G : k[c] = 0
        BY <2>6
    <3>5. SumFunctionOnSet(k, C) = SumFunctionOnSet(w, G)
        BY ONLY <1>2, <3>2, <3>3, <3>4, SumFilter
    <3>. QED  BY <2>1, <2>5, <2>7, <2>8, <3>5 DEF Total, G
  <2>9. CASE ~Open(b, d)
    <3>1. \A c \in G : w[c] = 0
      <4>. TAKE c \in G
      <4>1. c \in C /\ b.carries[c].invoice = d
          BY <2>2
      <4>2. b.invoices[d].state # "LIVE"
          BY <1>6, <2>9, <4>1 DEF CarryStands, Open
      <4>. QED  BY <4>1, <4>2 DEF StandingRow
    <3>. HIDE DEF G, w, row
    <3>2. SumFunctionOnSet(w, G) = 0
        BY ONLY <2>4, <3>1, SumOfZeros
    <3>. QED  BY <2>7, <2>9, <3>2 DEF G
  <2>. QED  BY <2>8, <2>9
<1>8. DOMAIN row = D /\ DOMAIN w = C
    BY DEF CarriedRow, StandingRow
<1>9. \A d \in D : row[d] = SumFunctionOnSet(w, Group(C, to, d))
    BY <1>7
<1>10. \A c \in C : w[c] \in Int
    BY <1>4
<1>. HIDE DEF row, w, C, D, to
<1>11. SumFunctionOnSet(w, C) = SumFunctionOnSet(row, D)
    BY ONLY <1>2, <1>5, <1>9, <1>10, SumByGroup
<1>12. Total(row) = Total(w)
    BY <1>8, <1>11 DEF Total
<1>. QED  BY <1>4, <1>7, <1>12 DEF row, w, C, D

\* What the carries of one note apply to live sales and what of it became
\* advances is the note.
LEMMA NoteHonoured ==
    ASSUME NEW b, Sound(b), ReturnsStand(b), NEW n \in DOMAIN b.notes
    PROVE  /\ SumFunctionOnSet(StandingRow(b), CarriesOf(b, n)) + ExcessOf(b, n)
                = ReturnRow(b)[n]
           /\ SumFunctionOnSet(StandingRow(b), CarriesOf(b, n)) \in Int
           /\ ExcessOf(b, n) \in Int
<1>. DEFINE C == DOMAIN b.carries
            M == CarriesOf(b, n)
            w == StandingRow(b)
<1>1. /\ b.carries \in Seq(Carry) /\ b.notes \in Seq(Note) /\ b \in BooksType
    BY DEF Sound, BooksType
<1>2. IsFiniteSet(C)
    BY ONLY <1>1, TableRows
<1>3. \A c \in C : b.carries[c].applied \in Nat
    BY CarryForm
<1>4. \A c \in C : w[c] \in Int
    BY <1>3 DEF StandingRow
<1>5. M \in SUBSET C /\ IsFiniteSet(M)
  <2>1. M \subseteq C
      BY DEF CarriesOf
  <2>. QED  BY <1>2, <2>1, FS_Subset
<1>6. ExcessOf(b, n) \in Nat
    BY <1>1, ExcessSum
<1>7. CASE M = {}
  <2>1. ReturnCredits(b, n) = {}
    <3> SUFFICES ASSUME NEW s \in ReturnCredits(b, n) PROVE FALSE
        OBVIOUS
    <3>1. /\ s \in DOMAIN b.settlements
          /\ b.settlements[s].origin # <<>> /\ b.settlements[s].origin[1] = "RETURN"
          /\ b.carries[b.settlements[s].origin[2]].note = n
        BY DEF ReturnCredits
    <3>2. OriginLinked(b, b.settlements[s].origin)
        BY <3>1 DEF Sound, Linked, RowLinked
    <3>3. b.settlements[s].origin[2] \in M
        BY <3>1, <3>2 DEF OriginLinked, CarriesOf
    <3>. QED  BY <1>7, <3>3
  <2>2. ExcessOf(b, n) = SumFunctionOnSet(Amounts(b), ReturnCredits(b, n))
      BY <1>1, ExcessSum
  <2>3. ExcessOf(b, n) = 0
      BY <2>1, <2>2, SumEmpty
  <2>4. SumFunctionOnSet(w, M) = 0
      BY <1>7, SumEmpty
  <2>5. ReturnRow(b)[n] = 0
      BY <1>7 DEF ReturnRow
  <2>. QED  BY <2>3, <2>4, <2>5
<1>8. CASE M # {}
  <2>1. HonouredNote(b, n)
      BY DEF Sound, Honoured
  <2>2. PICK last \in M : /\ \A c \in M : c <= last
                          /\ b.carries[last].applied + ExcessOf(b, n) = b.notes[n].total
      BY <1>8, <2>1 DEF HonouredNote
  <2>3. \A c \in M : c \in C /\ c \in Nat /\ b.carries[c].note = n /\ CarryStands(b, c)
    <3>1. C \subseteq Nat
        BY <1>1
    <3>. QED  BY <3>1 DEF CarriesOf, ReturnsStand
  <2>4. \A c \in M : w[c] = IF b.invoices[b.carries[c].invoice].state = "LIVE"
                            THEN b.carries[c].applied ELSE 0
      BY <2>3 DEF StandingRow
  <2>5. w[last] = b.carries[last].applied
    <3>1. {e \in CarriesOf(b, n) : e > last} = {}
        BY <2>2, <2>3
    <3>2. b.invoices[b.carries[last].invoice].state # "LIVE"
                => b.carries[last].applied = 0
        BY <2>3, <3>1 DEF CarryStands
    <3>. QED  BY <2>4, <3>2
  <2>6. \A c \in M \ {last} : w[c] = 0
    <3>. TAKE c \in M \ {last}
    <3>1. last \in {e \in CarriesOf(b, n) : e > c}
        BY <2>2, <2>3
    <3>2. b.invoices[b.carries[c].invoice].state # "LIVE"
        BY <2>3, <3>1 DEF CarryStands
    <3>. QED  BY <2>4, <3>2
  <2>7. \A c \in M : w[c] \in Int
      BY <1>4, <1>5
  <2>8. ReturnRow(b)[n] = b.notes[n].total
      BY <1>8 DEF ReturnRow
  <2>. HIDE DEF M, w
  <2>9. {last} \in SUBSET M /\ \A c \in M \ {last} : w[c] = 0
      BY <2>6
  <2>10. SumFunctionOnSet(w, M) = SumFunctionOnSet(w, {last})
      BY ONLY <1>5, <2>7, <2>9, SumWithoutZeros
  <2>11. SumFunctionOnSet(w, {last}) = w[last]
      BY <2>7, SumSingle
  <2>12. w[last] \in Int
      BY <2>7
  <2>. QED  BY <1>6, <2>2, <2>5, <2>8, <2>10, <2>11, <2>12 DEF M, w
<1>. QED  BY <1>7, <1>8

\* The same over all notes.
LEMMA HonouredSum ==
    ASSUME NEW b, Sound(b), ReturnsStand(b)
    PROVE  /\ Total(StandingRow(b)) + Total(ExcessRow(b)) = Total(ReturnRow(b))
           /\ Total(StandingRow(b)) \in Int /\ Total(ExcessRow(b)) \in Int
<1>. DEFINE C == DOMAIN b.carries
            N == DOMAIN b.notes
            w == StandingRow(b)
            of == [c \in C |-> b.carries[c].note]
            part == [n \in N |-> SumFunctionOnSet(w, CarriesOf(b, n))]
            excess == ExcessRow(b)
            row == ReturnRow(b)
<1>1. /\ b.carries \in Seq(Carry) /\ b.notes \in Seq(Note) /\ b \in BooksType
    BY DEF Sound, BooksType
<1>2. IsFiniteSet(C) /\ IsFiniteSet(N)
    BY ONLY <1>1, TableRows
<1>3. \A c \in C : b.carries[c].applied \in Nat
    BY CarryForm
<1>4. \A c \in C : w[c] \in Int
    BY <1>3 DEF StandingRow
<1>5. \A c \in C : of[c] \in N
    BY CarryForm
<1>6. \A n \in N : part[n] = SumFunctionOnSet(w, Group(C, of, n))
  <2>. TAKE n \in N
  <2>1. Group(C, of, n) = CarriesOf(b, n)
      BY DEF Group, CarriesOf
  <2>. QED  BY <2>1
<1>7. \A n \in N : part[n] \in Int /\ excess[n] \in Int
                   /\ row[n] = part[n] + excess[n]
  <2>. TAKE n \in N
  <2>1. part[n] = SumFunctionOnSet(w, CarriesOf(b, n))
      OBVIOUS
  <2>2. excess[n] = ExcessOf(b, n)
      BY DEF ExcessRow
  <2>. HIDE DEF part, excess, w
  <2>. QED  BY <2>1, <2>2, NoteHonoured DEF w
<1>8. DOMAIN w = C /\ DOMAIN excess = N /\ DOMAIN row = N
    BY DEF StandingRow, ExcessRow, ReturnRow
<1>. HIDE DEF w, of, part, excess, row, C, N
<1>9. SumFunctionOnSet(w, C) = SumFunctionOnSet(part, N)
    BY ONLY <1>2, <1>4, <1>5, <1>6, SumByGroup
<1>10. SumFunctionOnSet(row, N) = SumFunctionOnSet(part, N) + SumFunctionOnSet(excess, N)
    BY ONLY <1>2, <1>7, SumPlus
<1>11. SumFunctionOnSet(part, N) \in Int /\ SumFunctionOnSet(excess, N) \in Int
    BY <1>2, <1>7, SumInt
<1>. QED  BY <1>8, <1>9, <1>10, <1>11 DEF Total, w, excess, row

\* the notes that are posted
PostedNoteRow(b) ==
    [n \in DOMAIN b.notes |-> IF Posted(b.notes[n]) THEN b.notes[n].total ELSE 0]

\* What is noted on the single sales is what the posted notes say.
LEMMA NotedSum ==
    ASSUME NEW b, Sound(b)
    PROVE  /\ SumFunction([n \in PostedNotes(b) |-> b.notes[n].total])
                = Total(NotedRow(b))
           /\ \A d \in DOMAIN b.invoices :
                /\ NotedRow(b)[d] = SumFunctionOnSet(PostedNoteRow(b), NotesOf(b, d))
                /\ NotedRow(b)[d] \in Nat
           /\ \A n \in DOMAIN b.notes : PostedNoteRow(b)[n] \in Nat
<1>. DEFINE N == DOMAIN b.notes
            D == DOMAIN b.invoices
            A == PostedNotes(b)
            f == [n \in A |-> b.notes[n].total]
            p == PostedNoteRow(b)
            row == NotedRow(b)
            on == [n \in N |-> b.notes[n].source]
<1>1. /\ b.notes \in Seq(Note) /\ b.invoices \in Seq(Invoice) /\ b \in BooksType
    BY DEF Sound, BooksType
<1>2. IsFiniteSet(N) /\ IsFiniteSet(D) /\ \A n \in N : b.notes[n] \in Note
    BY ONLY <1>1, TableRows
<1>3. \A n \in N : b.notes[n].total \in Nat
    BY <1>2, ReceivablesConstants DEF Note
<1>4. \A n \in N : p[n] \in Nat
    BY <1>3 DEF PostedNoteRow
<1>5. \A n \in N : on[n] \in D
    BY DEF Sound, Linked
<1>6. \A d \in D : row[d] = SumFunctionOnSet(p, NotesOf(b, d)) /\ row[d] \in Nat
  <2>. TAKE d \in D
  <2>. DEFINE G == NotesOf(b, d)
              k == NotedBy(b, d)
  <2>1. Noted(b, d) = Total(k) /\ Noted(b, d) \in Nat
      BY <1>1, ClaimSums
  <2>2. row[d] = Noted(b, d)
      BY DEF NotedRow
  <2>3. DOMAIN k = N /\ G \in SUBSET N
      BY DEF NotedBy, NotesOf
  <2>4. \A n \in G : p[n] \in Int /\ k[n] = p[n]
      BY <1>4 DEF NotedBy, PostedNotes, PostedNoteRow, NotesOf
  <2>5. \A n \in N \ G : k[n] = 0
      BY DEF NotedBy
  <2>. HIDE DEF G, k, p, N, row
  <2>6. SumFunctionOnSet(k, N) = SumFunctionOnSet(p, G)
      BY ONLY <1>2, <2>3, <2>4, <2>5, SumFilter
  <2>. QED  BY <2>1, <2>2, <2>3, <2>6 DEF Total, G
<1>7. \A d \in D : row[d] = SumFunctionOnSet(p, Group(N, on, d))
  <2>. TAKE d \in D
  <2>1. Group(N, on, d) = NotesOf(b, d)
      BY DEF Group, NotesOf
  <2>. QED  BY <1>6, <2>1
<1>8. DOMAIN p = N /\ DOMAIN row = D
    BY DEF PostedNoteRow, NotedRow
<1>9. Filters(f, p, A, N)
    BY <1>3 DEF Filters, PostedNotes, PostedNoteRow
<1>10. \A n \in N : p[n] \in Int
    BY <1>4
<1>. HIDE DEF N, D, A, f, p, row, on
<1>11. SumFunction(f) = Total(p)
    BY <1>2, <1>9, FilterSum
<1>12. SumFunctionOnSet(p, N) = SumFunctionOnSet(row, D)
    BY ONLY <1>2, <1>5, <1>7, <1>10, SumByGroup
<1>13. SumFunction(f) = Total(row)
    BY <1>8, <1>11, <1>12 DEF Total
<1>. QED  BY <1>4, <1>6, <1>13 DEF f, A, row, D, N, p

\* The returns that were carried are those noted on sales that were revised
\* with their returns.
LEMMA ReturnsSum ==
    ASSUME NEW b, Sound(b), ReturnsStand(b)
    PROVE  /\ Total(ReturnRow(b)) = Total(GoneRow(b))
           /\ \A d \in DOMAIN b.invoices : GoneRow(b)[d] \in Nat
<1>. DEFINE N == DOMAIN b.notes
            D == DOMAIN b.invoices
            v == ReturnRow(b)
            p == PostedNoteRow(b)
            row == GoneRow(b)
            on == [n \in N |-> b.notes[n].source]
<1>1. /\ b.notes \in Seq(Note) /\ b.invoices \in Seq(Invoice) /\ b \in BooksType
    BY DEF Sound, BooksType
<1>2. IsFiniteSet(N) /\ IsFiniteSet(D) /\ \A n \in N : b.notes[n] \in Note
    BY ONLY <1>1, TableRows
<1>3. \A n \in N : b.notes[n].total \in Nat
    BY <1>2, ReceivablesConstants DEF Note
<1>4. \A n \in N : on[n] \in D
    BY DEF Sound, Linked
<1>5. \A n \in N : CarriesOf(b, n) # {}
                    <=> Posted(b.notes[n]) /\ WithReturns(b, on[n])
  <2>. TAKE n \in N
  <2>1. ASSUME NEW c \in CarriesOf(b, n)
        PROVE  Posted(b.notes[n]) /\ WithReturns(b, on[n])
    <3>1. c \in DOMAIN b.carries /\ b.carries[c].note = n
        BY DEF CarriesOf
    <3>2. CarryStands(b, c)
        BY <3>1 DEF ReturnsStand
    <3>. QED  BY <3>1, <3>2 DEF CarryStands, WithReturns
  <2>2. ASSUME Posted(b.notes[n]), WithReturns(b, on[n])
        PROVE  CarriesOf(b, n) # {}
    <3>1. n \in PostedNotes(b)
        BY <2>2 DEF PostedNotes
    <3>. QED  BY <2>2, <3>1 DEF ReturnsStand, WithReturns
  <2>. QED  BY <2>1, <2>2
<1>6. \A n \in N : v[n] = IF WithReturns(b, on[n]) THEN p[n] ELSE 0
    BY <1>5 DEF ReturnRow, PostedNoteRow
<1>7. \A n \in N : p[n] \in Nat /\ v[n] \in Int
  <2>1. \A n \in N : p[n] \in Nat
      BY NotedSum
  <2>. HIDE DEF p, v, on
  <2>. QED  BY <1>6, <2>1
<1>8. \A d \in D : row[d] = SumFunctionOnSet(v, Group(N, on, d)) /\ row[d] \in Nat
  <2>. TAKE d \in D
  <2>. DEFINE G == NotesOf(b, d)
  <2>1. Group(N, on, d) = G
      BY DEF Group, NotesOf
  <2>2. /\ NotedRow(b)[d] = SumFunctionOnSet(p, G) /\ NotedRow(b)[d] \in Nat
        /\ NotedRow(b)[d] = Noted(b, d)
      BY NotedSum DEF NotedRow
  <2>3. row[d] = IF WithReturns(b, d) THEN Noted(b, d) ELSE 0
      BY DEF GoneRow
  <2>4. \A n \in G : n \in N /\ on[n] = d
      BY DEF NotesOf
  <2>5. IsFiniteSet(G)
      BY <1>2, <2>4, FS_Subset
  <2>. HIDE DEF G, row, v, p, on
  <2>6. CASE WithReturns(b, d)
    <3>1. \A n \in G : p[n] = v[n]
        BY <1>6, <2>4, <2>6
    <3>2. SumFunctionOnSet(p, G) = SumFunctionOnSet(v, G)
        BY ONLY <2>5, <3>1, SumSame
    <3>. QED  BY <2>1, <2>2, <2>3, <2>6, <3>2
  <2>7. CASE ~WithReturns(b, d)
    <3>1. \A n \in G : v[n] = 0
        BY <1>6, <2>4, <2>7
    <3>2. SumFunctionOnSet(v, G) = 0
        BY ONLY <2>5, <3>1, SumOfZeros
    <3>. QED  BY <2>1, <2>3, <2>7, <3>2
  <2>. QED  BY <2>6, <2>7
<1>9. DOMAIN v = N /\ DOMAIN row = D
    BY DEF ReturnRow, GoneRow
<1>10. \A d \in D : row[d] = SumFunctionOnSet(v, Group(N, on, d))
    BY <1>8
<1>11. \A n \in N : v[n] \in Int
    BY <1>7
<1>. HIDE DEF N, D, v, p, row, on
<1>12. SumFunctionOnSet(v, N) = SumFunctionOnSet(row, D)
    BY ONLY <1>2, <1>4, <1>10, <1>11, SumByGroup
<1>13. Total(row) = Total(v)
    BY <1>9, <1>12 DEF Total
<1>. QED  BY <1>8, <1>13 DEF v, row, D

-----------------------------------------------------------------------------
(* What the documents show, and what is owed.                              *)

OutstandingRow(b) == [d \in DOMAIN b.invoices |-> Outstanding(b, d)]

PaidRow(b) == [d \in DOMAIN b.invoices |-> Paid(b, d)]

NetRow(b) == [d \in DOMAIN b.invoices |-> Paid(b, d) - DiscountsOn(b, d)]

TotalRow(b) ==
    [d \in DOMAIN b.invoices |->
        IF Posted(b.invoices[d]) THEN b.invoices[d].total ELSE 0]

StrandedRow(b) ==
    [d \in DOMAIN b.invoices |->
        IF b.invoices[d].state = "LIVE" /\ ~Posted(b.invoices[d])
        THEN Paid(b, d) + Noted(b, d) ELSE 0]

RemainingRow(b) == [s \in DOMAIN b.settlements |-> b.settlements[s].remaining]

\* The books in which the sums hold.
Settled(b) ==
    /\ Sound(b) /\ Tidy(b) /\ Running(b) /\ Placed(b) /\ NetsZero(b)
    /\ NoneOverpaid(b) /\ ReleasedOnce(b) /\ ReturnsStand(b)

\* A sale that was cancelled, or revised without returns, is noted in full.
LEMMA CreditedInFull ==
    ASSUME NEW b, Sound(b), NetsZero(b), NoneOverpaid(b),
           NEW d \in DOMAIN b.invoices, b.invoices[d].state # "LIVE"
    PROVE  /\ Paid(b, d) = 0
           /\ Posted(b.invoices[d]) => Noted(b, d) = b.invoices[d].total
<1>. DEFINE k == b.invoices[d].correction
            N == NotesThatCount(b, d)
            f == [n \in N |-> b.notes[n].total]
<1>1. b \in BooksType
    BY DEF Sound
<1>2. Retirable(b, d, k)
    BY DEF NetsZero
<1>3. Paid(b, d) = 0
    BY <1>1, <1>2, NothingPaidIs DEF Retirable
<1>4. /\ b.invoices[d].total \in Nat /\ Noted(b, d) \in Nat /\ Carried(b, d) \in Nat
      /\ Paid(b, d) \in Nat
    BY <1>1, OutstandingType, ClaimSums
<1>5. BatchOutstanding(b, d) >= 0
    BY DEF NoneOverpaid
<1>6. Noted(b, d) <= b.invoices[d].total
    BY <1>3, <1>4, <1>5 DEF BatchOutstanding
<1>7. ASSUME Posted(b.invoices[d]) PROVE Noted(b, d) = b.invoices[d].total
  <2>1. b.invoices[d].reversals # 1
      BY <1>7 DEF Posted
  <2>2. /\ k \in DOMAIN b.notes /\ Posted(b.notes[k])
        /\ b.notes[k].source = d /\ b.notes[k].total = b.invoices[d].total
      BY <1>2, <2>1 DEF Retirable
  <2>3. k \in N
      BY <2>2 DEF NotesThatCount, NotesOf, PostedNotes
  <2>4. /\ IsFiniteSet(N) /\ \A n \in N : f[n] \in Nat
        /\ Noted(b, d) = SumFunctionOnSet(f, N)
      BY <1>1, NotedIs
  <2>5. f[k] = b.invoices[d].total
      BY <2>2, <2>3
  <2>. HIDE DEF f, N, k
  <2>6. IsFiniteSet(N \ {k}) /\ \A n \in N \ {k} : f[n] \in Nat
      BY <2>4, FS_Subset
  <2>7. SumFunctionOnSet(f, N \ {k}) \in Nat
      BY ONLY <2>6, SumNat
  <2>8. \A n \in N : f[n] \in Int
      BY <2>4
  <2>9. SumFunctionOnSet(f, N) = f[k] + SumFunctionOnSet(f, N \ {k})
      BY ONLY <2>3, <2>4, <2>8, SumRemove
  <2>. QED  BY <1>4, <1>6, <2>4, <2>5, <2>7, <2>9
<1>. QED  BY <1>3, <1>7

\* What one document shows.
LEMMA DocumentShows ==
    ASSUME NEW b, Settled(b), NEW d \in DOMAIN b.invoices
    PROVE  /\ OutstandingRow(b)[d] \in Int /\ CarriedRow(b)[d] \in Int
           /\ NotedRow(b)[d] \in Int /\ PaidRow(b)[d] \in Int
           /\ TotalRow(b)[d] \in Nat /\ StrandedRow(b)[d] \in Nat
           /\ GoneRow(b)[d] \in Int
           /\ OutstandingRow(b)[d] + CarriedRow(b)[d] + NotedRow(b)[d] + PaidRow(b)[d]
                = TotalRow(b)[d] + StrandedRow(b)[d] + GoneRow(b)[d]
<1>. DEFINE T == b.invoices[d].total
            N == Noted(b, d)
            C == Carried(b, d)
            P == Paid(b, d)
            O == Outstanding(b, d)
            live == b.invoices[d].state = "LIVE"
            posted == Posted(b.invoices[d])
<1>1. Sound(b) /\ b \in BooksType
    BY DEF Settled, Sound
<1>2. T \in Nat /\ N \in Nat /\ C \in Nat /\ P \in Nat /\ O \in Int
    BY <1>1, OutstandingType, ClaimSums
<1>3. /\ OutstandingRow(b)[d] = O /\ NotedRow(b)[d] = N /\ PaidRow(b)[d] = P
      /\ CarriedRow(b)[d] = (IF live /\ posted THEN C ELSE 0)
      /\ TotalRow(b)[d] = (IF posted THEN T ELSE 0)
      /\ StrandedRow(b)[d] = (IF live /\ ~posted THEN P + N ELSE 0)
      /\ GoneRow(b)[d] = (IF ~live /\ ~posted THEN N ELSE 0)
    BY DEF OutstandingRow, NotedRow, PaidRow, CarriedRow, TotalRow, StrandedRow,
           GoneRow, Open, WithReturns
<1>4. O = IF live /\ posted THEN T - N - C - P ELSE 0
    BY DEF Outstanding, Retired, BatchOutstanding
<1>5. ~live => P = 0 /\ (posted => N = T)
    BY CreditedInFull DEF Settled
<1>. HIDE DEF T, N, C, P, O, live, posted
<1>6. CASE live /\ posted
    BY <1>2, <1>3, <1>4, <1>6
<1>7. CASE live /\ ~posted
    BY <1>2, <1>3, <1>4, <1>7
<1>8. CASE ~live /\ posted
    BY <1>2, <1>3, <1>4, <1>5, <1>8
<1>9. CASE ~live /\ ~posted
    BY <1>2, <1>3, <1>4, <1>5, <1>9
<1>. QED  BY <1>6, <1>7, <1>8, <1>9

\* The documents added up.
LEMMA DocumentsShow ==
    ASSUME NEW b, Settled(b)
    PROVE  /\ Total(OutstandingRow(b)) + Total(CarriedRow(b)) + Total(NotedRow(b))
                + Total(PaidRow(b))
                = Total(TotalRow(b)) + Total(StrandedRow(b)) + Total(GoneRow(b))
           /\ Total(OutstandingRow(b)) \in Int /\ Total(CarriedRow(b)) \in Int
           /\ Total(NotedRow(b)) \in Int /\ Total(PaidRow(b)) \in Int
           /\ Total(TotalRow(b)) \in Int /\ Total(StrandedRow(b)) \in Int
           /\ Total(GoneRow(b)) \in Int
<1>. DEFINE D == DOMAIN b.invoices
            o == OutstandingRow(b)
            c == CarriedRow(b)
            n == NotedRow(b)
            p == PaidRow(b)
            t == TotalRow(b)
            s == StrandedRow(b)
            g == GoneRow(b)
            oc == [d \in D |-> o[d] + c[d]]
            np == [d \in D |-> n[d] + p[d]]
            ts == [d \in D |-> t[d] + s[d]]
            all == [d \in D |-> oc[d] + np[d]]
<1>1. b.invoices \in Seq(Invoice)
    BY DEF Settled, Sound, BooksType
<1>2. IsFiniteSet(D)
    BY ONLY <1>1, TableRows
<1>3. /\ DOMAIN o = D /\ DOMAIN c = D /\ DOMAIN n = D /\ DOMAIN p = D
      /\ DOMAIN t = D /\ DOMAIN s = D /\ DOMAIN g = D
    BY DEF OutstandingRow, CarriedRow, NotedRow, PaidRow, TotalRow, StrandedRow, GoneRow
<1>. HIDE DEF o, c, n, p, t, s, g
<1>4. \A d \in D : /\ o[d] \in Int /\ c[d] \in Int /\ n[d] \in Int /\ p[d] \in Int
                   /\ t[d] \in Int /\ s[d] \in Int /\ g[d] \in Int
                   /\ o[d] + c[d] + n[d] + p[d] = t[d] + s[d] + g[d]
  <2>. TAKE d \in D
  <2>1. /\ o[d] \in Int /\ c[d] \in Int /\ n[d] \in Int /\ p[d] \in Int
        /\ t[d] \in Nat /\ s[d] \in Nat /\ g[d] \in Int
        /\ o[d] + c[d] + n[d] + p[d] = t[d] + s[d] + g[d]
      BY DocumentShows DEF o, c, n, p, t, s, g
  <2>. QED  BY <2>1
<1>5. \A d \in D : o[d] \in Int /\ c[d] \in Int /\ oc[d] = o[d] + c[d]
    BY <1>4
<1>6. \A d \in D : n[d] \in Int /\ p[d] \in Int /\ np[d] = n[d] + p[d]
    BY <1>4
<1>7. \A d \in D : t[d] \in Int /\ s[d] \in Int /\ ts[d] = t[d] + s[d]
    BY <1>4
<1>8. \A d \in D : oc[d] \in Int /\ np[d] \in Int /\ all[d] = oc[d] + np[d]
    BY <1>4
<1>9. \A d \in D : ts[d] \in Int /\ g[d] \in Int /\ all[d] = ts[d] + g[d]
  <2>. TAKE d \in D
  <2>1. /\ o[d] \in Int /\ c[d] \in Int /\ n[d] \in Int /\ p[d] \in Int
        /\ t[d] \in Int /\ s[d] \in Int /\ g[d] \in Int
        /\ o[d] + c[d] + n[d] + p[d] = t[d] + s[d] + g[d]
      BY <1>4
  <2>2. ts[d] = t[d] + s[d] /\ all[d] = (o[d] + c[d]) + (n[d] + p[d])
      OBVIOUS
  <2>. HIDE DEF ts, all
  <2>. QED  BY <2>1, <2>2
<1>. HIDE DEF oc, np, ts, all, D
<1>10. SumFunctionOnSet(oc, D) = SumFunctionOnSet(o, D) + SumFunctionOnSet(c, D)
    BY ONLY <1>2, <1>5, SumPlus
<1>11. SumFunctionOnSet(np, D) = SumFunctionOnSet(n, D) + SumFunctionOnSet(p, D)
    BY ONLY <1>2, <1>6, SumPlus
<1>12. SumFunctionOnSet(ts, D) = SumFunctionOnSet(t, D) + SumFunctionOnSet(s, D)
    BY ONLY <1>2, <1>7, SumPlus
<1>13. SumFunctionOnSet(all, D) = SumFunctionOnSet(oc, D) + SumFunctionOnSet(np, D)
    BY ONLY <1>2, <1>8, SumPlus
<1>14. SumFunctionOnSet(all, D) = SumFunctionOnSet(ts, D) + SumFunctionOnSet(g, D)
    BY ONLY <1>2, <1>9, SumPlus
<1>15. SumFunctionOnSet(o, D) \in Int /\ SumFunctionOnSet(c, D) \in Int
    BY ONLY <1>2, <1>5, SumInt
<1>16. SumFunctionOnSet(n, D) \in Int /\ SumFunctionOnSet(p, D) \in Int
    BY ONLY <1>2, <1>6, SumInt
<1>17. SumFunctionOnSet(t, D) \in Int /\ SumFunctionOnSet(s, D) \in Int
    BY ONLY <1>2, <1>7, SumInt
<1>18. SumFunctionOnSet(g, D) \in Int
    BY ONLY <1>2, <1>9, SumInt
<1>19. /\ Total(o) = SumFunctionOnSet(o, D) /\ Total(c) = SumFunctionOnSet(c, D)
       /\ Total(n) = SumFunctionOnSet(n, D) /\ Total(p) = SumFunctionOnSet(p, D)
       /\ Total(t) = SumFunctionOnSet(t, D) /\ Total(s) = SumFunctionOnSet(s, D)
       /\ Total(g) = SumFunctionOnSet(g, D)
    BY <1>3 DEF Total
<1>20. /\ Total(o) + Total(c) + Total(n) + Total(p) = Total(t) + Total(s) + Total(g)
       /\ Total(o) \in Int /\ Total(c) \in Int /\ Total(n) \in Int /\ Total(p) \in Int
       /\ Total(t) \in Int /\ Total(s) \in Int /\ Total(g) \in Int
    BY ONLY <1>10, <1>11, <1>12, <1>13, <1>14, <1>15, <1>16, <1>17, <1>18, <1>19
<1>. QED  BY <1>20 DEF o, c, n, p, t, s, g

\* The sums of the definitions, over all documents and payments.
LEMMA DocumentSums ==
    ASSUME NEW b, Settled(b)
    PROVE  /\ SumFunction([d \in PostedInvoices(b) |-> b.invoices[d].total])
                = Total(TotalRow(b))
           /\ StrandedOn(b) = Total(StrandedRow(b))
           /\ Total(PaidRow(b)) = Total(NetRow(b)) + Total(DiscountRow(b))
           /\ Total(NetRow(b)) \in Int /\ Total(DiscountRow(b)) \in Int
<1>. DEFINE D == DOMAIN b.invoices
            A == PostedInvoices(b)
            B == Live(b) \ PostedInvoices(b)
            f == [d \in A |-> b.invoices[d].total]
            t == TotalRow(b)
            g == [d \in B |-> Paid(b, d) + Noted(b, d)]
            s == StrandedRow(b)
            p == PaidRow(b)
            n == NetRow(b)
            i == DiscountRow(b)
<1>1. b.invoices \in Seq(Invoice) /\ b \in BooksType /\ Sound(b)
    BY DEF Settled, Sound, BooksType
<1>2. IsFiniteSet(D)
    BY ONLY <1>1, TableRows
<1>3. \A d \in D : t[d] \in Nat /\ s[d] \in Nat
    BY DocumentShows
<1>4. Filters(f, t, A, D)
  <2>1. A \subseteq D /\ DOMAIN f = A /\ DOMAIN t = D
      BY DEF PostedInvoices, TotalRow
  <2>2. \A d \in A : t[d] = f[d]
      BY <2>1 DEF PostedInvoices, TotalRow
  <2>3. \A d \in D \ A : t[d] = 0
      BY DEF PostedInvoices, TotalRow
  <2>. HIDE DEF f, t, A
  <2>. QED  BY <1>3, <2>1, <2>2, <2>3 DEF Filters
<1>5. Filters(g, s, B, D)
  <2>1. B \subseteq D /\ DOMAIN g = B /\ DOMAIN s = D
      BY DEF Live, StrandedRow
  <2>2. \A d \in B : s[d] = g[d]
      BY <2>1 DEF Live, PostedInvoices, StrandedRow
  <2>3. \A d \in D \ B : s[d] = 0
      BY DEF Live, PostedInvoices, StrandedRow
  <2>. HIDE DEF g, s, B
  <2>. QED  BY <1>3, <2>1, <2>2, <2>3 DEF Filters
<1>6. \A d \in D : n[d] \in Int /\ i[d] \in Int /\ p[d] = n[d] + i[d]
  <2>. TAKE d \in D
  <2>1. Paid(b, d) \in Nat /\ DiscountsOn(b, d) \in Nat
      BY <1>1, ClaimSums
  <2>2. /\ n[d] = Paid(b, d) - DiscountsOn(b, d) /\ i[d] = DiscountsOn(b, d)
        /\ p[d] = Paid(b, d)
      BY DEF NetRow, DiscountRow, PaidRow
  <2>. HIDE DEF n, i, p
  <2>. QED  BY <2>1, <2>2
<1>7. DOMAIN p = D /\ DOMAIN n = D /\ DOMAIN i = D
    BY DEF PaidRow, NetRow, DiscountRow
<1>8. StrandedOn(b) = SumFunction(g)
    BY DEF StrandedOn
<1>. HIDE DEF f, t, g, s, p, n, i, A, B, D
<1>9. SumFunction(f) = Total(t)
    BY <1>2, <1>4, FilterSum
<1>10. SumFunction(g) = Total(s)
    BY <1>2, <1>5, FilterSum
<1>11. SumFunctionOnSet(p, D) = SumFunctionOnSet(n, D) + SumFunctionOnSet(i, D)
    BY ONLY <1>2, <1>6, SumPlus
<1>12. SumFunctionOnSet(n, D) \in Int /\ SumFunctionOnSet(i, D) \in Int
    BY ONLY <1>2, <1>6, SumInt
<1>13. /\ Total(p) = Total(n) + Total(i)
       /\ Total(n) \in Int /\ Total(i) \in Int
    BY <1>7, <1>11, <1>12 DEF Total
<1>. QED  BY <1>8, <1>9, <1>10, <1>13 DEF f, A, t, s, p, n, i

\* A payment that counts is the customer's, with what it gives in discount, or
\* a credit, which gives none.
LEMMA ReceivedRow ==
    ASSUME NEW b, Sound(b), NEW s \in DOMAIN b.settlements
    PROVE  /\ ReceivedBy(b.settlements)[s] = OwnRow(b)[s] + GivenRow(b)[s]
           /\ OwnRow(b)[s] \in Int /\ GivenRow(b)[s] \in Int
<1>. DEFINE row == b.settlements[s]
<1>1. row \in Settlement /\ row.amount \in Nat
    BY PlacedType
<1>2. DiscountOf(row) \in Nat
    BY <1>1, AllocationsType
<1>3. row.origin # <<>> => DiscountOf(row) = 0
  <2> SUFFICES ASSUME row.origin # <<>> PROVE DiscountOf(row) = 0
      OBVIOUS
  <2>. DEFINE f == [d \in DOMAIN row.allocations |-> row.allocations[d].discount]
  <2>1. RowLinked(b, row)
      BY DEF Sound, Linked
  <2>2. DOMAIN row.allocations = {}
      BY <2>1 DEF RowLinked
  <2>3. DOMAIN f = {}
      BY <2>2
  <2>4. DiscountOf(row) = SumFunctionOnSet(f, DOMAIN f)
      BY DEF DiscountOf, SumFunction
  <2>. HIDE DEF f
  <2>. QED  BY <2>3, <2>4, SumEmpty
<1>4. /\ OwnRow(b)[s] = IF Effective(b, s) /\ row.origin = <<>> THEN row.amount ELSE 0
      /\ GivenRow(b)[s] = IF Effective(b, s) THEN DiscountOf(row) ELSE 0
    BY DEF OwnRow, GivenRow
<1>5. ReceivedBy(b.settlements)[s]
        = IF Effective(b, s) /\ row.origin = <<>>
          THEN row.amount + DiscountOf(row) ELSE 0
    BY DEF ReceivedBy, Effective
<1>. HIDE DEF row
<1>. QED  BY <1>1, <1>2, <1>3, <1>4, <1>5

\* What the customer paid, the money and the discounts.
LEMMA ReceivedSum ==
    ASSUME NEW b, Sound(b)
    PROVE  /\ Total(ReceivedBy(b.settlements)) = Total(OwnRow(b)) + Total(GivenRow(b))
           /\ Total(OwnRow(b)) \in Int /\ Total(GivenRow(b)) \in Int
           /\ SumFunction([s \in {s \in DOMAIN b.settlements : Effective(b, s)} |->
                              b.settlements[s].remaining]) = Total(RemainingRow(b))
           /\ SumFunction(RemainingRow(b)) = Total(RemainingRow(b))
           /\ Total(RemainingRow(b)) \in Int
<1>. DEFINE S == DOMAIN b.settlements
            A == {s \in S : Effective(b, s)}
            f == [s \in A |-> b.settlements[s].remaining]
            r == RemainingRow(b)
            all == ReceivedBy(b.settlements)
            own == OwnRow(b)
            given == GivenRow(b)
<1>1. b.settlements \in Seq(Settlement)
    BY DEF Sound, BooksType
<1>2. IsFiniteSet(S)
    BY ONLY <1>1, TableRows
<1>3. \A s \in S : b.settlements[s].remaining \in Nat
    BY PlacedType
<1>4. \A s \in S : ~Effective(b, s) => b.settlements[s].remaining = 0
    BY DEF Sound, Linked, RowStatus, Effective
<1>5. Filters(f, r, A, S)
    BY <1>3, <1>4 DEF Filters, RemainingRow
<1>6. \A s \in S : own[s] \in Int /\ given[s] \in Int /\ all[s] = own[s] + given[s]
  <2>. TAKE s \in S
  <2>. HIDE DEF own, given, all
  <2>. QED  BY ReceivedRow DEF own, given, all
<1>7. DOMAIN all = S /\ DOMAIN own = S /\ DOMAIN given = S
    BY DEF ReceivedBy, OwnRow, GivenRow
<1>8. SumFunction(r) = Total(r)
    BY DEF SumFunction, Total
<1>. HIDE DEF S, A, f, r, all, own, given
<1>9. SumFunction(f) = Total(r) /\ Total(r) \in Nat
    BY <1>2, <1>5, FilterSum
<1>10. SumFunctionOnSet(all, S) = SumFunctionOnSet(own, S) + SumFunctionOnSet(given, S)
    BY ONLY <1>2, <1>6, SumPlus
<1>11. SumFunctionOnSet(own, S) \in Int /\ SumFunctionOnSet(given, S) \in Int
    BY ONLY <1>2, <1>6, SumInt
<1>12. /\ Total(all) = Total(own) + Total(given)
       /\ Total(own) \in Int /\ Total(given) \in Int
    BY <1>7, <1>10, <1>11 DEF Total
<1>. QED  BY <1>8, <1>9, <1>12 DEF f, A, S, r, all, own, given

\* The documents, less the unused advances, show what the party balance says.
LEMMA OwedIsShown ==
    ASSUME NEW b, Settled(b)
    PROVE  Owed(b) = PartyBalance(b) + StrandedOn(b)
<1>. DEFINE O == Total(OutstandingRow(b))
            C == Total(CarriedRow(b))
            N == Total(NotedRow(b))
            P == Total(PaidRow(b))
            T == Total(TotalRow(b))
            L == Total(StrandedRow(b))
            G == Total(GoneRow(b))
            Net == Total(NetRow(b))
            I == Total(DiscountRow(b))
            K == Total(TakenBy(b.settlements))
            R == Total(OwnRow(b))
            V == Total(GivenRow(b))
            M == Total(RemainingRow(b))
            E == Total(ExcessRow(b))
            W == Total(StandingRow(b))
            H == Total(ReturnRow(b))
<1>1. /\ Sound(b) /\ Tidy(b) /\ Running(b) /\ Placed(b) /\ NetsZero(b)
      /\ NoneOverpaid(b) /\ ReleasedOnce(b) /\ ReturnsStand(b)
    BY DEF Settled
<1>2. /\ O + C + N + P = T + L + G
      /\ O \in Int /\ C \in Int /\ N \in Int /\ P \in Int
      /\ T \in Int /\ L \in Int /\ G \in Int
    BY DocumentsShow
<1>3. /\ P = Net + I /\ Net \in Int /\ I \in Int /\ StrandedOn(b) = L
      /\ SumFunction([d \in PostedInvoices(b) |-> b.invoices[d].total]) = T
    BY DocumentSums
<1>4. C = W /\ W + E = H /\ H = G /\ W \in Int /\ E \in Int
    BY <1>1, CarriedSum, HonouredSum, ReturnsSum
<1>5. SumFunction([n \in PostedNotes(b) |-> b.notes[n].total]) = N
    BY <1>1, NotedSum
<1>6. V = I + K /\ K \in Int
    BY <1>1, DiscountsSplit
<1>7. /\ SumFunction([s \in Received(b) |-> b.settlements[s].amount
                                              + DiscountOf(b.settlements[s])]) = R + V
      /\ SumFunction([s \in ReceiptCredits(b) |-> DiscountTakenBack(b, s)]) = K
    BY <1>1, PaymentSums, ReceivedSum
<1>8. R \in Int /\ V \in Int /\ M \in Int
    BY <1>1, ReceivedSum
<1>9. R + E = Net + M
  <2>1. SumFunction([s \in Received(b) |-> b.settlements[s].amount]) = R
      BY <1>1, CameIn
  <2>2. SumFunction([n \in DOMAIN b.notes |-> ExcessOf(b, n)]) = E
      BY DEF ExcessRow, SumFunction, Total
  <2>3. SumFunction([d \in DOMAIN b.invoices |-> Paid(b, d) - DiscountsOn(b, d)]) = Net
      BY DEF NetRow, SumFunction, Total
  <2>4. SumFunction([s \in DOMAIN b.settlements |-> b.settlements[s].remaining]) = M
      BY DEF RemainingRow, SumFunction, Total
  <2>. QED  BY <1>1, <2>1, <2>2, <2>3, <2>4, PlacedMoney
<1>10. Owed(b) = O - M
  <2>1. SumFunction([d \in DOMAIN b.invoices |-> Outstanding(b, d)]) = O
      BY DEF OutstandingRow, SumFunction, Total
  <2>. QED  BY <1>1, <2>1, ReceivedSum DEF Owed
<1>11. PartyBalance(b) = T - N - (R + V) + K
    BY <1>3, <1>5, <1>7 DEF PartyBalance, PartyBalanceKeepingDiscounts
<1>. HIDE DEF O, C, N, P, T, L, G, Net, I, K, R, V, M, E, W, H
<1>. QED  BY <1>2, <1>3, <1>4, <1>6, <1>8, <1>9, <1>10, <1>11

-----------------------------------------------------------------------------
(* No payment is released twice.                                           *)

\* r is b with one payment more, that releases nothing released before, or
\* with no more payments
Fresh(b, row) ==
    \/ row.origin = <<>> \/ row.origin[1] # "RECEIPT"
    \/ ~Released(b, row.origin)

MorePayments(b, r) ==
    \/ DOMAIN r.settlements = DOMAIN b.settlements
    \/ \E row : r.settlements = Append(b.settlements, row) /\ Fresh(b, row)

\* Then no payment is released twice, if none was before.
LEMMA ReleasedOnceStays ==
    ASSUME NEW b, Sound(b), ReleasedOnce(b), NEW r, Kept(b, r), MorePayments(b, r)
    PROVE  ReleasedOnce(r)
<1> SUFFICES ASSUME NEW u \in DOMAIN r.settlements, NEW v \in DOMAIN r.settlements,
                    r.settlements[u].origin # <<>>,
                    r.settlements[u].origin[1] = "RECEIPT",
                    r.settlements[v].origin = r.settlements[u].origin
             PROVE  u = v
    BY DEF ReleasedOnce
<1>1. \A s \in DOMAIN b.settlements :
        r.settlements[s].origin = b.settlements[s].origin
    BY DEF Kept, SameRow
<1>2. CASE u \in DOMAIN b.settlements /\ v \in DOMAIN b.settlements
    BY <1>1, <1>2 DEF ReleasedOnce
<1>3. CASE ~(u \in DOMAIN b.settlements /\ v \in DOMAIN b.settlements)
  <2>1. PICK row : r.settlements = Append(b.settlements, row) /\ Fresh(b, row)
      BY <1>3 DEF MorePayments
  <2>2. b.settlements \in Seq(Settlement)
      BY DEF Sound, BooksType
  <2>. DEFINE k == Len(b.settlements) + 1
  <2>3. /\ DOMAIN r.settlements = DOMAIN b.settlements \cup {k}
        /\ r.settlements[k].origin = row.origin
      BY <2>1, <2>2, RowAdded
  <2>. HIDE DEF k
  <2>4. \A s \in DOMAIN b.settlements :
            row.origin # <<>> /\ row.origin[1] = "RECEIPT"
            => b.settlements[s].origin # row.origin
      BY <2>1 DEF Fresh, Released
  <2>. QED  BY <1>1, <1>3, <2>3, <2>4
<1>. QED  BY <1>2, <1>3

\* Every call of the service adds such a payment, or none.
LEMMA MovePayments ==
    ASSUME NEW b, Sound(b), NEW r, Move(b, r)
    PROVE  MorePayments(b, r)
<1>0. b \in BooksType
    BY DEF Sound
<1>1. ASSUME NEW d, NEW s \in EffectiveAllocations(b, d), r = ReceiptStep(b, s, b, d)
      PROVE  MorePayments(b, r)
  <2>. DEFINE gross == b.settlements[s].allocations[d].amount
              given == b.settlements[s].allocations[d].discount
              row == Advance(gross - given, <<"RECEIPT", s, d>>, 0)
  <2>1. CreditAdded(b, r, row, given)
      BY <1>1, ReceiptCredit
  <2>2. row.origin = <<"RECEIPT", s, d>>
      BY DEF Advance
  <2>3. ~Released(b, <<"RECEIPT", s, d>>)
      BY DEF EffectiveAllocations
  <2>4. r.settlements = Append(b.settlements, row)
      BY <2>1 DEF CreditAdded
  <2>. HIDE DEF row
  <2>. QED  BY <2>2, <2>3, <2>4 DEF MorePayments, Fresh
<1>2. ASSUME NEW d, NEW x \in EffectiveApplications(b, d), r = ApplicationStep(b, x, b)
      PROVE  MorePayments(b, r)
  <2>. DEFINE row == Advance(b.applications[x].amount, <<"APPLICATION", x>>, 0)
  <2>1. CreditAdded(b, r, row, 0)
      BY <1>2, ApplicationCredit
  <2>2. row.origin = <<"APPLICATION", x>>
      BY DEF Advance
  <2>3. r.settlements = Append(b.settlements, row)
      BY <2>1 DEF CreditAdded
  <2>. HIDE DEF row
  <2>4. row.origin[1] # "RECEIPT"
      BY <2>2
  <2>. QED  BY <2>3, <2>4 DEF MorePayments, Fresh
<1>3. CASE ReleaseMove(b, r)
    BY <1>1, <1>2, <1>3 DEF ReleaseMove
<1>4. CASE ApplyMove(b, r)
  <2>1. PICK s \in DOMAIN b.settlements, amount \in Nat \ {0} :
            r.settlements = AdvanceDrawn(b, s, amount)
      BY <1>4, ApplyTables
  <2>. QED  BY <2>1 DEF AdvanceDrawn, MorePayments
<1>5. CASE NoteMove(b, r)
    BY <1>5, NoteTables DEF SameBut, MorePayments
<1>6. CASE EntryMove(b, r)
    BY <1>6, EntryTables DEF SameBut, MorePayments
<1>7. CASE InvoiceMove(b, r)
    BY <1>7, InvoiceTables DEF InvoiceRow, SameBut, MorePayments
<1>8. CASE CarryMove(b, r)
  <2>0. Len(b.invoices) + 1 \in Nat
    <3>1. b.invoices \in Seq(Invoice)
        BY <1>0 DEF BooksType
    <3>. QED  BY <3>1
  <2>1. PICK left \in Nat, n \in DOMAIN b.notes, replacement \in Nat :
            r = CarryStep([books |-> b, left |-> left], n, replacement).books
      BY <1>8, <2>0 DEF CarryMove
  <2>. DEFINE excess == Available(b, n) - Lesser(left, Available(b, n))
              k == Len(b.carries) + 1
              q == CarryStep([books |-> b, left |-> left], n, replacement).books
              row == Advance(excess, <<"RETURN", k>>, 0)
  <2>2. q.settlements = IF excess = 0 THEN b.settlements ELSE Append(b.settlements, row)
      BY CarryIs
  <2>3. r = q
      BY <2>1
  <2>4. row.origin = <<"RETURN", k>>
      BY DEF Advance
  <2>. HIDE DEF q, excess, row
  <2>5. row.origin[1] # "RECEIPT"
      BY <2>4
  <2>. QED  BY <2>2, <2>3, <2>5 DEF MorePayments, Fresh
<1>9. ASSUME NEW row, Recorded(b, r, row)
      PROVE  MorePayments(b, r)
  <2>1. row.origin = <<>>
      BY <1>9, OfferedLinked
  <2>2. r.settlements = Append(b.settlements, row)
      BY <1>9 DEF Recorded
  <2>. QED  BY <2>1, <2>2 DEF MorePayments, Fresh
<1>10. ASSUME NEW s \in DOMAIN b.settlements, r = SettlementPosted(b, s)
       PROVE  MorePayments(b, r)
    BY <1>0, <1>10, PostedIs DEF MorePayments
<1>11. ASSUME NEW s \in DOMAIN b.settlements, r = SettlementReversed(b, s)
       PROVE  MorePayments(b, r)
    BY <1>0, <1>11, ReversedTables DEF MorePayments
<1>12. ASSUME NEW q, NEW status, r = ChequeSet(b, q, status)
       PROVE  MorePayments(b, r)
  <2>1. r.settlements = b.settlements
      BY <1>0, <1>12 DEF ChequeSet, BooksType
  <2>. QED  BY <2>1 DEF MorePayments
<1>13. CASE PaymentMove(b, r)
    BY <1>9, <1>10, <1>11, <1>12, <1>13 DEF PaymentMove
<1>. QED  BY <1>3, <1>4, <1>5, <1>6, <1>7, <1>8, <1>13 DEF Move, PlainMove

\* So no call releases a payment twice.
LEMMA MoveReleasedOnce ==
    ASSUME NEW b, Sound(b), ReleasedOnce(b), NEW r, Move(b, r)
    PROVE  ReleasedOnce(r)
BY MoveKept, MovePayments, ReleasedOnceStays

-----------------------------------------------------------------------------
(* The returns of revised sales, from books to books.                      *)

\* r and b have the same invoices, notes and carries.
SameSales(b, r) ==
    r.invoices = b.invoices /\ r.notes = b.notes /\ r.carries = b.carries

\* The payments, the cheques and the ledger are not among these.
LEMMA SalesLeft ==
    ASSUME NEW b, {"invoices", "notes", "carries"} \subseteq DOMAIN b, NEW x
    PROVE  /\ SameSales(b, [b EXCEPT !.settlements = x])
           /\ SameSales(b, [b EXCEPT !.accounts = x])
           /\ SameSales(b, [b EXCEPT !.applications = x])
           /\ SameSales(b, [b EXCEPT !.cheques = x])
           /\ DOMAIN [b EXCEPT !.settlements = x] = DOMAIN b
           /\ DOMAIN [b EXCEPT !.accounts = x] = DOMAIN b
           /\ DOMAIN [b EXCEPT !.applications = x] = DOMAIN b
           /\ DOMAIN [b EXCEPT !.cheques = x] = DOMAIN b
BY DEF SameSales

\* A payment, the clearing of a cheque and its return leave the sales alone.
LEMMA PaymentsLeaveSales ==
    ASSUME NEW b, Sound(b), NEW r,
           PaymentStep(b, r) \/ ClearStep(b, r) \/ ReturnStep(b, r)
    PROVE  SameSales(b, r)
<1>. DEFINE Sales == {"invoices", "notes", "carries"}
            Like(c) == Sales \subseteq DOMAIN c /\ SameSales(b, c)
<1>1. Like(b)
    BY DEF Sound, BooksType, SameSales
<1>2. ASSUME NEW c, Like(c), NEW x
      PROVE  /\ Like([c EXCEPT !.settlements = x]) /\ Like([c EXCEPT !.accounts = x])
             /\ Like([c EXCEPT !.applications = x]) /\ Like([c EXCEPT !.cheques = x])
    BY <1>2, SalesLeft DEF SameSales
<1>. HIDE DEF Like
<1>3. ASSUME NEW c, Like(c), NEW s
      PROVE  Like(SettlementPosted(c, s)) /\ Like(SettlementReversed(c, s))
  <2>1. \A u, v, w, x, y : Like(u) => Like(Journal(u, v, w, x, y))
      BY <1>2 DEF Journal
  <2>2. Like(SettlementPosted(c, s))
      BY <1>2, <1>3, <2>1 DEF SettlementPosted
  <2>3. \A x, y : Like([c EXCEPT !.applications = x, !.settlements[s] = y])
      BY <1>2, <1>3
  <2>4. Like(SettlementReversed(c, s))
      BY <2>1, <2>3 DEF SettlementReversed
  <2>. QED  BY <2>2, <2>4
<1>4. ASSUME NEW c, Like(c), NEW q, NEW status
      PROVE  Like([c EXCEPT !.cheques[q].status = status])
    BY <1>2, <1>4
<1>5. CASE PaymentStep(b, r)
  <2>1. \A row : Like(WithPayment(b, row))
      BY <1>1, <1>2 DEF WithPayment
  <2>2. \A row : Like(WithCheque(b, row))
      BY <1>1, <1>2 DEF WithCheque
  <2>3. Like(r)
      BY <1>3, <1>5, <2>1, <2>2 DEF PaymentStep
  <2>. QED  BY <2>3 DEF Like
<1>6. CASE ClearStep(b, r)
  <2>1. \A q : Like(Presented(b, q))
      BY <1>1, <1>2 DEF Presented
  <2>2. PICK q \in DOMAIN b.cheques :
            r = [SettlementPosted(Presented(b, q),
                                  Presented(b, q).cheques[q].settlement)
                    EXCEPT !.cheques[q].status = "CLEARED"]
      BY <1>6 DEF ClearStep
  <2>. DEFINE e == SettlementPosted(Presented(b, q),
                                    Presented(b, q).cheques[q].settlement)
  <2>3. Like(e)
      BY <1>3, <2>1
  <2>. HIDE DEF e
  <2>4. Like(r)
      BY <1>4, <2>2, <2>3 DEF e
  <2>. QED  BY <2>4 DEF Like
<1>7. CASE ReturnStep(b, r)
  <2>1. \A q : Like(Returned(b, q))
      BY <1>1, <1>3 DEF Returned
  <2>2. PICK q \in DOMAIN b.cheques, status \in {"RECEIVED", "BOUNCED", "CANCELLED"} :
            r = [Returned(b, q) EXCEPT !.cheques[q].status = status]
      BY ONLY <1>7 DEF ReturnStep
  <2>3. Like(Returned(b, q))
      BY ONLY <2>1
  <2>4. Like([Returned(b, q) EXCEPT !.cheques[q].status = status])
      BY ONLY <1>4, <2>3
  <2>5. Like(r)
      BY ONLY <2>2, <2>4
  <2>. QED  BY <2>5 DEF Like
<1>. QED  BY <1>5, <1>6, <1>7

\* on the documents other than those in D, the payments that count are those
\* of b
SamePaidBut(b, r, D) ==
    \A e : e \notin D =>
        /\ EffectiveAllocations(r, e) = EffectiveAllocations(b, e)
        /\ EffectiveApplications(r, e) = EffectiveApplications(b, e)

\* An application counts on its document, and on no other.
LEMMA AppliedElsewhere ==
    ASSUME NEW c, Sound(c), NEW s \in DOMAIN c.settlements, NEW d \in Nat,
           NEW amount \in Nat \ {0}, amount <= c.settlements[s].remaining
    PROVE  LET r == Applied(c, s, d, amount)
           IN  /\ r \in BooksType /\ SameSales(c, r) /\ Due(r) = Due(c)
               /\ SamePaidBut(c, r, {d})
<1>. DEFINE r == Applied(c, s, d, amount)
            row == [advance |-> s, document |-> d, amount |-> amount,
                    journal |-> "POSTED"]
            j == Len(c.applications) + 1
<1>1. /\ r \in BooksType
      /\ SameBut(r, c, {"settlements", "applications"})
      /\ r.settlements = AdvanceDrawn(c, s, amount)
      /\ r.applications = Append(c.applications, row)
      /\ Due(r) = Due(c)
    BY AppliedIs DEF Sound
<1>2. c.settlements \in Seq(Settlement) /\ c.applications \in Seq(Application)
    BY DEF Sound, BooksType
<1>3. row.document = d
    OBVIOUS
<1>. HIDE DEF r, row
<1>4. /\ DOMAIN r.applications = DOMAIN c.applications \cup {j}
      /\ \A a \in DOMAIN c.applications : r.applications[a] = c.applications[a]
      /\ r.applications[j].document = d
    BY <1>1, <1>2, <1>3, RowAdded
<1>. HIDE DEF j
<1>5. /\ DOMAIN r.settlements = DOMAIN c.settlements
      /\ \A t \in DOMAIN c.settlements :
            /\ r.settlements[t].status = c.settlements[t].status
            /\ r.settlements[t].allocations = c.settlements[t].allocations
            /\ r.settlements[t].origin = c.settlements[t].origin
  <2>1. \A t \in DOMAIN c.settlements : c.settlements[t] \in Settlement
      BY <1>2
  <2>2. /\ DOMAIN r.settlements = DOMAIN c.settlements
        /\ \A t \in DOMAIN c.settlements : t # s => r.settlements[t] = c.settlements[t]
        /\ r.settlements[s] = [c.settlements[s] EXCEPT !.remaining = @ - amount]
      BY <1>1, <1>2 DEF AdvanceDrawn
  <2>3. /\ r.settlements[s].status = c.settlements[s].status
        /\ r.settlements[s].allocations = c.settlements[s].allocations
        /\ r.settlements[s].origin = c.settlements[s].origin
      BY <2>1, <2>2 DEF Settlement
  <2>. QED  BY <2>2, <2>3
<1>6. ASSUME NEW e PROVE EffectiveAllocations(r, e) = EffectiveAllocations(c, e)
    BY <1>5 DEF EffectiveAllocations, Effective, Released
<1>7. ASSUME NEW e, e # d
      PROVE  EffectiveApplications(r, e) = EffectiveApplications(c, e)
  <2>1. \A o : Released(r, o) <=> Released(c, o)
      BY <1>5 DEF Released
  <2>2. \A a \in DOMAIN c.applications :
            Effective(r, c.applications[a].advance)
                <=> Effective(c, c.applications[a].advance)
      BY <1>5 DEF Sound, Linked, ApplicationLinked, Effective
  <2>. QED  BY <1>4, <1>7, <2>1, <2>2 DEF EffectiveApplications
<1>8. SamePaidBut(c, r, {d}) /\ SameSales(c, r)
    BY <1>1, <1>6, <1>7 DEF SamePaidBut, SameBut, SameSales
<1>. QED  BY <1>1, <1>8 DEF r

\* The application of advances leaves the sales alone, and what is paid on
\* other documents.
LEMMA ApplicationsLeaveSales ==
    ASSUME NEW b, Sound(b), NEW d \in DOMAIN b.invoices,
           NEW S \in SUBSET UnusedAdvances(b), NEW r, r = AppliedAll(b, S, d)
    PROVE  /\ SameSales(b, r) /\ Onto(b, r)
           /\ SamePaidBut(b, r, {d}) /\ Due(r) = Due(b)
<1>. DEFINE X == {c \in BooksType : /\ SameSales(b, c) /\ Due(c) = Due(b)
                                    /\ SamePaidBut(b, c, {d})}
<1>1. b \in X
    BY DEF Sound, SameSales, SamePaidBut
<1>2. ApplicationStays(X, d)
  <2> SUFFICES ASSUME NEW c \in X, NEW s \in DOMAIN c.settlements,
                      NEW amount \in Nat \ {0}, d \in DOMAIN c.invoices,
                      Sound(c), amount <= c.settlements[s].remaining
               PROVE  Applied(c, s, d, amount) \in X
      BY DEF ApplicationStays
  <2>1. d \in Nat
    <3>1. c.invoices \in Seq(Invoice)
        BY DEF BooksType
    <3>. QED  BY <3>1
  <2>. DEFINE e == Applied(c, s, d, amount)
  <2>2. /\ e \in BooksType /\ SameSales(c, e) /\ Due(e) = Due(c)
        /\ SamePaidBut(c, e, {d})
      BY <2>1, AppliedElsewhere
  <2>. HIDE DEF e
  <2>3. e \in X
      BY <2>2 DEF SamePaidBut, SameSales
  <2>. QED  BY <2>3 DEF e
<1>. HIDE DEF X
<1>3. UsableFor(b, S, d)
    BY AdvancesUsable
<1>4. r \in X /\ Onto(b, r)
    BY <1>1, <1>2, <1>3, AppliedAllStays
<1>. QED  BY <1>4 DEF X

\* The returns in P, and these alone, have been carried to invoice k, once.
CarriedOnce(b, r, P, k) ==
    /\ \A c \in DOMAIN b.carries :
            c \in DOMAIN r.carries /\ r.carries[c] = b.carries[c]
    /\ \A c \in DOMAIN r.carries \ DOMAIN b.carries :
            /\ r.carries[c].note \in P /\ r.carries[c].invoice = k
            /\ \A e \in DOMAIN b.carries : e < c
    /\ \A n \in P : \E c \in DOMAIN r.carries \ DOMAIN b.carries :
            r.carries[c].note = n
    /\ \A c, e \in DOMAIN r.carries \ DOMAIN b.carries :
            r.carries[c].note = r.carries[e].note => c = e

\* the payments that count on every document are those of b
SamePaid(b, r) ==
    /\ \A e : EffectiveAllocations(r, e) = EffectiveAllocations(b, e)
    /\ \A e : EffectiveApplications(r, e) = EffectiveApplications(b, e)

\* One more return carried.
LEMMA CarriedOnceMore ==
    ASSUME NEW b, NEW c, c.carries \in Seq(Carry), NEW P, NEW k,
           CarriedOnce(b, c, P, k), NEW n, n \notin P, NEW row,
           row.note = n, row.invoice = k, b.carries \in Seq(Carry),
           NEW r, r.carries = Append(c.carries, row)
    PROVE  CarriedOnce(b, r, P \cup {n}, k)
<1>. DEFINE i == Len(c.carries) + 1
<1>1. /\ DOMAIN r.carries = DOMAIN c.carries \cup {i} /\ i \notin DOMAIN c.carries
      /\ r.carries[i] = row
      /\ \A x \in DOMAIN c.carries : r.carries[x] = c.carries[x]
    BY RowAdded
<1>2. i \notin DOMAIN b.carries /\ \A e \in DOMAIN b.carries : e < i
  <2>1. /\ DOMAIN c.carries = 1..Len(c.carries) /\ Len(c.carries) \in Nat
        /\ DOMAIN b.carries \subseteq Nat \ {0}
      BY ONLY c.carries \in Seq(Carry), b.carries \in Seq(Carry), TableRows
  <2>2. DOMAIN b.carries \subseteq DOMAIN c.carries
      BY DEF CarriedOnce
  <2>. QED  BY <2>1, <2>2
<1>. HIDE DEF i
<1>3. \A x \in DOMAIN b.carries :
            x \in DOMAIN r.carries /\ r.carries[x] = b.carries[x]
    BY <1>1 DEF CarriedOnce
<1>4. DOMAIN r.carries \ DOMAIN b.carries
        = (DOMAIN c.carries \ DOMAIN b.carries) \cup {i}
    BY <1>1, <1>2
<1>5. \A x \in DOMAIN r.carries \ DOMAIN b.carries :
            /\ r.carries[x].note \in P \cup {n} /\ r.carries[x].invoice = k
            /\ \A e \in DOMAIN b.carries : e < x
    BY <1>1, <1>2, <1>4 DEF CarriedOnce
<1>6. ASSUME NEW m \in P \cup {n}
      PROVE  \E x \in DOMAIN r.carries \ DOMAIN b.carries : r.carries[x].note = m
  <2>1. CASE m = n
      BY <1>1, <1>4, <2>1
  <2>2. CASE m \in P
    <3>1. PICK x \in DOMAIN c.carries \ DOMAIN b.carries : c.carries[x].note = m
        BY <2>2 DEF CarriedOnce
    <3>. QED  BY <1>1, <1>4, <3>1
  <2>. QED  BY <2>1, <2>2
<1>7. \A x, e \in DOMAIN r.carries \ DOMAIN b.carries :
            r.carries[x].note = r.carries[e].note => x = e
  <2>1. \A x \in DOMAIN c.carries \ DOMAIN b.carries :
            r.carries[x].note = c.carries[x].note /\ c.carries[x].note # n
      BY <1>1 DEF CarriedOnce
  <2>. QED  BY <1>1, <1>4, <2>1 DEF CarriedOnce
<1>. QED  BY <1>3, <1>5, <1>6, <1>7 DEF CarriedOnce

\* One return carried adds a row to the carries, and no amount is entered on
\* the customer's account.
LEMMA CarryAdds ==
    ASSUME NEW b, Sound(b), NEW left \in Nat, NEW n \in DOMAIN b.notes,
           NEW replacement \in Nat, NEW q,
           q = CarryStep([books |-> b, left |-> left], n, replacement)
    PROVE  /\ q.left \in Nat /\ q.books \in BooksType
           /\ Due(q.books) = Due(b)
           /\ q.books.carries = Append(b.carries,
                 CarryRow(b, n, replacement, Lesser(left, Available(b, n))))
<1>. DEFINE acc == [books |-> b, left |-> left]
            applied == Lesser(left, Available(b, n))
            excess == Available(b, n) - applied
            k == Len(b.carries) + 1
            c == CarryStep(acc, n, replacement)
            r == c.books
<1>1. /\ Available(b, n) \in Nat /\ applied \in Nat /\ excess \in Nat
      /\ CarryStep(acc, n, replacement).left = left - applied
      /\ left - applied \in Nat
      /\ r \in BooksType
      /\ SameBut(r, b, {"settlements", "carries"})
      /\ r.carries = Append(b.carries, CarryRow(b, n, replacement, applied))
      /\ r.settlements =
            IF excess = 0 THEN b.settlements
            ELSE Append(b.settlements, Advance(excess, <<"RETURN", k>>, 0))
      /\ Due(r) = Due(b)
    BY ONLY Sound(b), left \in Nat, n \in DOMAIN b.notes, replacement \in Nat, CarryIs
<1>2. /\ c.books \in BooksType /\ Due(c.books) = Due(b)
      /\ c.books.carries
            = Append(b.carries, CarryRow(b, n, replacement, Lesser(left, Available(b, n))))
  <2>. HIDE DEF c
  <2>. QED  BY ONLY <1>1
<1>3. q.left \in Nat
    BY CarryLeaves
<1>4. q = c
    OBVIOUS
<1>. HIDE DEF c
<1>. QED  BY <1>2, <1>3, <1>4

\* The returns of a revised sale are carried to its replacement, each of them
\* once; no payment is touched by it, and the sale is taken out of the ledger.
LEMMA ReturnsAreCarried ==
    ASSUME NEW b, Sound(b), NEW d \in DOMAIN b.invoices,
           NEW k \in Nat, NEW total \in Nat,
           NEW r, r = ReturnsCarried(b, d, k, total)
    PROVE  /\ CarriedOnce(b, r, RetainedReturns(b, d), k)
           /\ SamePaid(b, r)
           /\ Due(r) = Due(b) - b.invoices[d].total
<1>. DEFINE S == RetainedReturns(b, d)
            c == Emptied(b, d)
            Good(e, P) == /\ e \in BooksType /\ CarriedOnce(b, e, P, k)
                          /\ SamePaid(b, e) /\ Due(e) = Due(c)
            Y == [P \in SUBSET S |->
                    {acc \in [books : BooksType, left : Nat] : Good(acc.books, P)}]
<1>1. /\ c \in BooksType /\ SameBut(c, b, {"invoices"})
      /\ Due(c) = Due(b) - b.invoices[d].total
  <2>. DEFINE row == [b.invoices[d] EXCEPT !.reversals = 1]
              amount == -b.invoices[d].total
  <2>1. b.invoices[d] \in Invoice /\ b.invoices[d].total \in Nat
      BY OutstandingType DEF Sound
  <2>2. row \in Invoice /\ row.total = b.invoices[d].total /\ amount \in Int
    <3>1. row \in Invoice
        BY ReturnsCarriedShape DEF Sound
    <3>. QED  BY <2>1, <3>1 DEF Invoice
  <2>3. c = InvoiceSet(b, d, row, amount)
      BY DEF Emptied
  <2>. HIDE DEF c, row, amount
  <2>4. Onto(b, c) /\ InvoiceRow(b, c, d, row) /\ Due(c) = Due(b) + amount
      BY <2>2, <2>3, InvoiceSetRow
  <2>5. Due(c) = Due(b) - b.invoices[d].total
    <3>1. Due(b) \in Int
        BY BalanceType
    <3>. QED  BY <2>1, <2>4, <3>1 DEF amount
  <2>. QED  BY <2>4, <2>5 DEF Onto, Sound, InvoiceRow
<1>. HIDE DEF c
<1>2. Good(c, {})
  <2>1. c.carries = b.carries
      BY <1>1 DEF SameBut
  <2>2. CarriedOnce(b, c, {}, k)
      BY <2>1 DEF CarriedOnce
  <2>3. SamePaid(b, c)
      BY <1>1 DEF SameBut, SamePaid, EffectiveAllocations, EffectiveApplications,
                  Effective, Released
  <2>. QED  BY <1>1, <2>2, <2>3
<1>3. ASSUME NEW P \in SUBSET S, NEW n \in S \ P, NEW e, NEW left \in Nat,
             NEW q, Good(e, P), Sound(e), n \in DOMAIN e.notes,
             q = CarryStep([books |-> e, left |-> left], n, k)
      PROVE  Good(q.books, P \cup {n}) /\ q.left \in Nat
  <2>. DEFINE f == q.books
  <2>2. f = CarryStep([books |-> e, left |-> left], n, k).books
      BY <1>3
  <2>. DEFINE applied == Lesser(left, Available(e, n))
  <2>1. /\ f \in BooksType /\ Due(f) = Due(e) /\ q.left \in Nat
        /\ f.carries = Append(e.carries, CarryRow(e, n, k, applied))
    <3>. HIDE DEF Good
    <3>. QED  BY <1>3, CarryAdds
  <2>. HIDE DEF f, applied
  <2>3. /\ \A i : EffectiveAllocations(f, i) = EffectiveAllocations(e, i)
        /\ \A i : EffectiveApplications(f, i) = EffectiveApplications(e, i)
      BY ONLY <1>3, <2>2, k \in Nat, left \in Nat, CarryClaims
  <2>4. SamePaid(b, f)
      BY <1>3, <2>3 DEF SamePaid
  <2>5. CarriedOnce(b, f, P \cup {n}, k)
    <3>1. f.carries = Append(e.carries, CarryRow(e, n, k, applied))
        BY <2>1
    <3>. DEFINE row == CarryRow(e, n, k, applied)
    <3>2. row.note = n /\ row.invoice = k
        BY DEF CarryRow
    <3>3. e.carries \in Seq(Carry) /\ b.carries \in Seq(Carry)
        BY <1>3 DEF Sound, BooksType
    <3>4. n \notin P /\ CarriedOnce(b, e, P, k)
        BY <1>3
    <3>. HIDE DEF row, Good
    <3>. QED  BY <3>1, <3>2, <3>3, <3>4, CarriedOnceMore DEF row
  <2>6. Due(f) = Due(c)
      BY <1>3, <2>1
  <2>. QED  BY <2>1, <2>4, <2>5, <2>6 DEF f
<1>. HIDE DEF Good
<1>4. [books |-> c, left |-> total] \in Y[{}]
    BY <1>1, <1>2
<1>5. CarriesStay(Y, S, k)
  <2> SUFFICES ASSUME NEW P \in SUBSET S, NEW n \in S \ P, NEW acc \in Y[P],
                      Sound(acc.books), acc.left \in Nat,
                      acc = [books |-> acc.books, left |-> acc.left],
                      n \in DOMAIN acc.books.notes
               PROVE  CarryStep(acc, n, k) \in Y[P \cup {n}]
      BY DEF CarriesStay
  <2>. DEFINE q == CarryStep(acc, n, k)
  <2>1. Good(acc.books, P)
      OBVIOUS
  <2>2. q = CarryStep([books |-> acc.books, left |-> acc.left], n, k)
      OBVIOUS
  <2>3. q = [books |-> q.books, left |-> q.left]
      BY DEF CarryStep
  <2>. HIDE DEF q
  <2>4. Good(q.books, P \cup {n}) /\ q.left \in Nat
      BY <1>3, <2>1, <2>2
  <2>5. q.books \in BooksType
      BY <2>4 DEF Good
  <2>6. q \in Y[P \cup {n}]
      BY <2>3, <2>4, <2>5
  <2>. QED  BY <2>6 DEF q
<1>6. Y[S] = {acc \in [books : BooksType, left : Nat] : Good(acc.books, S)}
    OBVIOUS
<1>. HIDE DEF Y, S
<1>7. \E left \in Nat : [books |-> r, left |-> left] \in Y[S]
    BY <1>4, <1>5, ReturnsCarriedStays DEF c, S
<1>8. Good(r, S)
    BY <1>6, <1>7
<1>. QED  BY <1>1, <1>8 DEF Good, S

\* A receipt released takes its discount back, and an application has none.
LEMMA ReleaseDue ==
    ASSUME NEW b, Sound(b), NEW d
    PROVE  /\ \A s \in EffectiveAllocations(b, d) :
                LET r == ReceiptStep(b, s, b, d)
                IN  Due(r) + DiscountsOn(r, d) = Due(b) + DiscountsOn(b, d)
           /\ \A a \in EffectiveApplications(b, d) :
                LET r == ApplicationStep(b, a, b)
                IN  Due(r) + DiscountsOn(r, d) = Due(b) + DiscountsOn(b, d)
<1>. DEFINE E == EffectiveAllocations(b, d)
            f == [s \in E |-> b.settlements[s].allocations[d].discount]
<1>1. /\ b \in BooksType /\ Due(b) \in Int /\ IsFiniteSet(E)
      /\ E \subseteq DOMAIN b.settlements
    BY BalanceType, PaidIs DEF Sound, EffectiveAllocations
<1>2. \A s \in E : f[s] \in Int
  <2>1. ASSUME NEW s \in E PROVE b.settlements[s].allocations[d].discount \in Int
    <3>1. b.settlements \in Seq(Settlement)
        BY DEF Sound, BooksType
    <3>2. b.settlements[s] \in Settlement
        BY <1>1, <2>1, <3>1
    <3>3. d \in DOMAIN b.settlements[s].allocations
        BY <2>1 DEF EffectiveAllocations
    <3>. QED  BY <3>2, <3>3, AllocationsType
  <2>. QED  BY <2>1
<1>3. DiscountsOn(b, d) = SumFunctionOnSet(f, E)
    BY DEF DiscountsOn, SumFunction
<1>4. ASSUME NEW r, Kept(b, r), EffectiveAllocations(r, d) \subseteq E
      PROVE  DiscountsOn(r, d) = SumFunctionOnSet(f, EffectiveAllocations(r, d))
  <2>. DEFINE D == EffectiveAllocations(r, d)
              g == [s \in D |-> r.settlements[s].allocations[d].discount]
  <2>1. DiscountsOn(r, d) = SumFunctionOnSet(g, D)
      BY DEF DiscountsOn, SumFunction
  <2>2. \A s \in D : g[s] = f[s]
      BY <1>1, <1>4 DEF Kept, SameRow
  <2>3. IsFiniteSet(D)
      BY <1>1, <1>4, FS_Subset
  <2>. HIDE DEF D, f, g
  <2>4. SumFunctionOnSet(g, D) = SumFunctionOnSet(f, D)
      BY ONLY <2>2, <2>3, SumSame
  <2>. QED  BY <2>1, <2>4 DEF D
<1>. HIDE DEF f
<1>5. ASSUME NEW s \in E, NEW r, r = ReceiptStep(b, s, b, d)
      PROVE  Due(r) + DiscountsOn(r, d) = Due(b) + DiscountsOn(b, d)
  <2>1. Kept(b, r) /\ EffectiveAllocations(r, d) = E \ {s}
    <3>. DEFINE q == ReceiptStep(b, s, b, d)
    <3>1. Onto(b, q) /\ EffectiveAllocations(q, d) = E \ {s}
        BY ReceiptReleased
    <3>. HIDE DEF q
    <3>2. r = q
        BY <1>5 DEF q
    <3>. QED  BY <3>1, <3>2 DEF Onto
  <2>2. Due(r) = Due(b) + f[s]
    <3>. DEFINE given == b.settlements[s].allocations[d].discount
                gross == b.settlements[s].allocations[d].amount
    <3>1. CreditAdded(b, r, Advance(gross - given, <<"RECEIPT", s, d>>, 0), given)
        BY <1>5, ReceiptCredit
    <3>2. f[s] = given
        BY DEF f
    <3>. HIDE DEF given, gross
    <3>. QED  BY <3>1, <3>2 DEF CreditAdded
  <2>3. DiscountsOn(r, d) = SumFunctionOnSet(f, E \ {s})
      BY <1>4, <2>1
  <2>4. SumFunctionOnSet(f, E) = f[s] + SumFunctionOnSet(f, E \ {s})
      BY <1>1, <1>2, SumRemove
  <2>5. SumFunctionOnSet(f, E \ {s}) \in Int /\ f[s] \in Int
    <3>1. IsFiniteSet(E \ {s}) /\ \A x \in E \ {s} : f[x] \in Int
        BY <1>1, <1>2, FS_Subset
    <3>. QED  BY <1>2, <3>1, SumInt
  <2>. QED  BY <1>1, <1>3, <2>2, <2>3, <2>4, <2>5
<1>6. ASSUME NEW a \in EffectiveApplications(b, d), NEW r,
             r = ApplicationStep(b, a, b)
      PROVE  Due(r) + DiscountsOn(r, d) = Due(b) + DiscountsOn(b, d)
  <2>1. Kept(b, r) /\ EffectiveAllocations(r, d) = E
    <3>. DEFINE q == ApplicationStep(b, a, b)
    <3>1. Onto(b, q) /\ EffectiveAllocations(q, d) = E
        BY ApplicationReleased
    <3>. HIDE DEF q
    <3>2. r = q
        BY <1>6 DEF q
    <3>. QED  BY <3>1, <3>2 DEF Onto
  <2>2. Due(r) = Due(b) + 0
    <3>. DEFINE gross == b.applications[a].amount
    <3>1. CreditAdded(b, r, Advance(gross, <<"APPLICATION", a>>, 0), 0)
        BY <1>6, ApplicationCredit
    <3>. HIDE DEF gross
    <3>. QED  BY <3>1 DEF CreditAdded
  <2>3. DiscountsOn(r, d) = SumFunctionOnSet(f, E)
      BY <1>4, <2>1
  <2>. QED  BY <1>1, <1>3, <2>2, <2>3
<1>. QED  BY <1>5, <1>6

\* The release of a sale's payments takes back the discounts given on it, and
\* leaves the payments of the other documents alone.
LEMMA ReleasedDue ==
    ASSUME NEW b, Sound(b), NEW d, NEW r, r = PaymentsReleased(b, d)
    PROVE  /\ Onto(b, r) /\ SameSales(b, r) /\ NothingPaid(r, d)
           /\ SamePaidBut(b, r, {d})
           /\ Due(r) = Due(b) + DiscountsOn(b, d)
<1>. DEFINE X == {c \in BooksType :
                    /\ SamePaidBut(b, c, {d})
                    /\ Due(c) + DiscountsOn(c, d) = Due(b) + DiscountsOn(b, d)}
<1>1. b \in X
    BY DEF Sound, SamePaidBut
<1>2. ReleasesStay(X, d)
  <2>1. ASSUME NEW c \in X, Sound(c), NEW s \in EffectiveAllocations(c, d)
        PROVE  ReceiptStep(c, s, c, d) \in X
    <3>. DEFINE e == ReceiptStep(c, s, c, d)
    <3>1. /\ Onto(c, e)
          /\ \A i : EffectiveAllocations(e, i) =
                        EffectiveAllocations(c, i) \ (IF i = d THEN {s} ELSE {})
          /\ \A i : EffectiveApplications(e, i) = EffectiveApplications(c, i)
        BY <2>1, ReceiptReleased
    <3>2. Due(e) + DiscountsOn(e, d) = Due(c) + DiscountsOn(c, d)
        BY <2>1, ReleaseDue
    <3>. HIDE DEF e
    <3>3. SamePaidBut(b, e, {d})
        BY <3>1 DEF SamePaidBut
    <3>4. e \in X
        BY <3>1, <3>2, <3>3 DEF Onto, Sound
    <3>. QED  BY <3>4 DEF e
  <2>2. ASSUME NEW c \in X, Sound(c), NEW a \in EffectiveApplications(c, d)
        PROVE  ApplicationStep(c, a, c) \in X
    <3>. DEFINE e == ApplicationStep(c, a, c)
    <3>1. /\ Onto(c, e)
          /\ \A i : EffectiveAllocations(e, i) = EffectiveAllocations(c, i)
          /\ \A i : EffectiveApplications(e, i) =
                        EffectiveApplications(c, i) \ (IF i = d THEN {a} ELSE {})
        BY <2>2, ApplicationReleased
    <3>2. Due(e) + DiscountsOn(e, d) = Due(c) + DiscountsOn(c, d)
        BY <2>2, ReleaseDue
    <3>. HIDE DEF e
    <3>3. SamePaidBut(b, e, {d})
        BY <3>1 DEF SamePaidBut
    <3>4. e \in X
        BY <3>1, <3>2, <3>3 DEF Onto, Sound
    <3>. QED  BY <3>4 DEF e
  <2>. QED  BY <2>1, <2>2 DEF ReleasesStay
<1>. HIDE DEF X
<1>3. r \in X /\ Onto(b, r) /\ SameDocuments(b, r) /\ NothingPaid(r, d)
    BY <1>1, <1>2, PaymentsReleasedStays
<1>4. SamePaidBut(b, r, {d}) /\ Due(r) + DiscountsOn(r, d) = Due(b) + DiscountsOn(b, d)
    BY <1>3 DEF X
<1>5. DiscountsOn(r, d) = 0
  <2>. DEFINE E == EffectiveAllocations(r, d)
              f == [s \in E |-> r.settlements[s].allocations[d].discount]
  <2>1. DiscountsOn(r, d) = SumFunctionOnSet(f, E)
      BY DEF DiscountsOn, SumFunction
  <2>2. E = {}
      BY <1>3 DEF NothingPaid
  <2>. HIDE DEF E, f
  <2>. QED  BY <2>1, <2>2, SumEmpty
<1>6. Due(r) \in Int /\ Due(b) \in Int
    BY <1>3, BalanceType DEF Onto
<1>7. DiscountsOn(b, d) \in Int
    BY ClaimSums DEF Sound
<1>8. Due(r) = Due(b) + DiscountsOn(b, d)
    BY ONLY <1>4, <1>5, <1>6, <1>7
<1>. QED  BY <1>3, <1>4, <1>8 DEF SameDocuments, SameSales

\* sale d of books b has been retired in r: its payments are released, their
\* discounts taken back, and its total is off the customer's account
Undid(b, r, d) ==
    /\ Onto(b, r)
    /\ DOMAIN r.invoices = DOMAIN b.invoices
    /\ \A e \in DOMAIN b.invoices : e # d => r.invoices[e] = b.invoices[e]
    /\ r.invoices[d].state # "LIVE"
    /\ r.invoices[d].previous = b.invoices[d].previous
    /\ SamePaidBut(b, r, {d})
    /\ Due(r) = Due(b) + DiscountsOn(b, d) - b.invoices[d].total

\* with a credit note
Credited(b, r, d) ==
    /\ Undid(b, r, d)
    /\ Posted(r.invoices[d])
    /\ r.carries = b.carries
    /\ r.notes = Append(b.notes, [source |-> d, total |-> b.invoices[d].total,
                                  reversals |-> 0])

\* or with the reversal of its journal, and its returns carried to invoice k
Revised(b, r, d, k) ==
    /\ Undid(b, r, d)
    /\ r.invoices[d].reversals = 1
    /\ r.notes = b.notes
    /\ CarriedOnce(b, r, RetainedReturns(b, d), k)

\* A retired sale's row has another state; what is paid stays what it was.
LEMMA RetiredRow ==
    ASSUME NEW b, Sound(b), NEW d \in DOMAIN b.invoices,
           NEW state \in {"CANCELLED", "REVISED"}, NEW correction \in Nat,
           NEW r, r = RetiredAs(b, d, state, correction)
    PROVE  /\ Onto(b, r) /\ SamePaid(b, r) /\ Due(r) = Due(b)
           /\ r.notes = b.notes /\ r.carries = b.carries
           /\ DOMAIN r.invoices = DOMAIN b.invoices
           /\ \A e \in DOMAIN b.invoices : e # d => r.invoices[e] = b.invoices[e]
           /\ r.invoices[d].state = state
           /\ r.invoices[d].reversals = b.invoices[d].reversals
           /\ r.invoices[d].previous = b.invoices[d].previous
<1>. DEFINE row == [b.invoices[d] EXCEPT !.state = state, !.correction = correction]
            amount == 0
<1>1. b.invoices[d] \in Invoice
    BY OutstandingType DEF Sound
<1>2. /\ row \in Invoice /\ row.total = b.invoices[d].total
      /\ row.state = state /\ row.reversals = b.invoices[d].reversals
      /\ row.previous = b.invoices[d].previous
    BY <1>1 DEF Invoice
<1>3. r = InvoiceSet(b, d, row, amount) /\ amount \in Int
    BY DEF RetiredAs
<1>. HIDE DEF row, amount
<1>4. Onto(b, r) /\ InvoiceRow(b, r, d, row) /\ Due(r) = Due(b) + amount
    BY <1>2, <1>3, InvoiceSetRow
<1>5. Due(r) = Due(b)
    BY <1>4, BalanceType DEF amount
<1>6. SameBut(r, b, {"invoices"})
    BY <1>4 DEF InvoiceRow
<1>7. SamePaid(b, r)
    BY <1>6 DEF SameBut, SamePaid, EffectiveAllocations, EffectiveApplications,
                Effective, Released
<1>. QED  BY <1>2, <1>4, <1>5, <1>6, <1>7 DEF InvoiceRow, SameBut

\* A sale that is cancelled, or revised without returns.
LEMMA CreditedIs ==
    ASSUME NEW b, Sound(b), NEW d \in DOMAIN b.invoices, Posted(b.invoices[d]),
           NEW state \in {"CANCELLED", "REVISED"},
           NEW r, r = [WhollyCredited(b, d) EXCEPT
                          !.invoices[d].state = state,
                          !.invoices[d].correction = Len(WhollyCredited(b, d).notes)]
    PROVE  Credited(b, r, d) /\ r.invoices[d].state = state
<1>. DEFINE c == PaymentsReleased(b, d)
            w == WhollyCredited(b, d)
            amount == b.invoices[d].total
            note == [source |-> d, total |-> amount, reversals |-> 0]
            k == Len(w.notes)
<1>0. state \in {"CANCELLED", "REVISED"}
    OBVIOUS
<1>1. /\ Onto(b, c) /\ SameSales(b, c) /\ SamePaidBut(b, c, {d})
      /\ Due(c) = Due(b) + DiscountsOn(b, d)
    BY ReleasedDue
<1>2. amount \in Amount /\ amount \in Int /\ d \in Nat
  <2>1. b.invoices[d] \in Invoice /\ b.invoices[d].total \in Nat
      BY OutstandingType DEF Sound
  <2>2. b.invoices \in Seq(Invoice)
      BY DEF Sound, BooksType
  <2>. QED  BY <2>1, <2>2 DEF Invoice
<1>3. w = NotePosted(c, d, amount)
    BY DEF WhollyCredited
<1>4. Sound(c) /\ d \in DOMAIN c.invoices /\ c \in BooksType
    BY <1>1 DEF Onto, Sound, SameSales
<1>. HIDE DEF c, w, amount
<1>5. Onto(c, w)
    BY <1>2, <1>3, <1>4, NoteOnto
<1>6. /\ SameBut(w, c, {"notes"}) /\ w.notes = Append(c.notes, note)
      /\ Due(w) = Due(c) - amount
    BY <1>2, <1>3, <1>4, NoteIs
<1>. HIDE DEF note
<1>7. SamePaid(c, w)
    BY <1>6 DEF SameBut, SamePaid, EffectiveAllocations, EffectiveApplications,
                Effective, Released
<1>8. Sound(w) /\ w \in BooksType /\ d \in DOMAIN w.invoices /\ k \in Nat
  <2>1. Sound(w) /\ w.notes \in Seq(Note)
      BY <1>5 DEF Onto, Sound, BooksType
  <2>. QED  BY <1>4, <1>6, <2>1 DEF SameBut, Sound
<1>. HIDE DEF k
<1>9. r = RetiredAs(w, d, state, k)
  <2>1. r = [w EXCEPT !.invoices[d].state = state, !.invoices[d].correction = k]
      BY DEF w, k
  <2>2. CASE state = "CANCELLED"
    <3>1. "CANCELLED" \in {"CANCELLED", "REVISED"}
        OBVIOUS
    <3>2. r = [w EXCEPT !.invoices[d].state = "CANCELLED",
                        !.invoices[d].correction = k]
        BY <2>1, <2>2
    <3>3. r = RetiredAs(w, d, "CANCELLED", k)
        BY ONLY <1>8, <3>1, <3>2, RetiredIs
    <3>. QED  BY <2>2, <3>3
  <2>3. CASE state = "REVISED"
    <3>1. "REVISED" \in {"CANCELLED", "REVISED"}
        OBVIOUS
    <3>2. r = [w EXCEPT !.invoices[d].state = "REVISED",
                        !.invoices[d].correction = k]
        BY <2>1, <2>3
    <3>3. r = RetiredAs(w, d, "REVISED", k)
        BY ONLY <1>8, <3>1, <3>2, RetiredIs
    <3>. QED  BY <2>3, <3>3
  <2>. QED  BY <1>0, <2>2, <2>3
<1>10. /\ Onto(w, r) /\ SamePaid(w, r) /\ Due(r) = Due(w)
       /\ r.notes = w.notes /\ r.carries = w.carries
       /\ DOMAIN r.invoices = DOMAIN w.invoices
       /\ \A e \in DOMAIN w.invoices : e # d => r.invoices[e] = w.invoices[e]
       /\ r.invoices[d].state = state
       /\ r.invoices[d].reversals = w.invoices[d].reversals
       /\ r.invoices[d].previous = w.invoices[d].previous
    BY ONLY <1>0, <1>8, <1>9, RetiredRow
<1>11. Onto(b, r)
    BY <1>1, <1>5, <1>10, OntoTransitive
<1>12. w.invoices = b.invoices /\ w.carries = b.carries /\ w.notes = Append(b.notes, note)
    BY <1>1, <1>6 DEF SameBut, SameSales
<1>13. SamePaidBut(b, r, {d})
    BY <1>1, <1>7, <1>10 DEF SamePaid, SamePaidBut
<1>14. Due(r) = Due(b) + DiscountsOn(b, d) - amount
  <2>1. Due(b) \in Int /\ DiscountsOn(b, d) \in Int
      BY BalanceType, ClaimSums DEF Sound
  <2>. QED  BY <1>1, <1>2, <1>6, <1>10, <2>1
<1>15. Undid(b, r, d)
    BY <1>10, <1>11, <1>12, <1>13, <1>14 DEF Undid, amount
<1>16. Posted(r.invoices[d])
    BY <1>10, <1>12 DEF Posted
<1>. QED  BY <1>10, <1>12, <1>15, <1>16 DEF Credited, note, amount

\* the books e with sale d revised
RevisedIn(e, d) == [e EXCEPT !.invoices[d].state = "REVISED"]

\* A sale that is revised with returns.
LEMMA RevisedWithReturns ==
    ASSUME NEW b, Sound(b), NEW d \in DOMAIN b.invoices,
           NEW k \in Nat, NEW total \in Nat,
           NEW e, e = ReturnsCarried(PaymentsReleased(b, d), d, k, total),
           NEW r, r = RevisedIn(e, d)
    PROVE  Revised(b, r, d, k) /\ r.invoices[d].state = "REVISED"
<1>. DEFINE c == PaymentsReleased(b, d)
            amount == b.invoices[d].total
            correction == e.invoices[d].correction
<1>1. /\ Onto(b, c) /\ SameSales(b, c) /\ SamePaidBut(b, c, {d})
      /\ Due(c) = Due(b) + DiscountsOn(b, d)
    BY ReleasedDue
<1>0. e = ReturnsCarried(c, d, k, total)
    OBVIOUS
<1>. HIDE DEF c
<1>2. Sound(c) /\ d \in DOMAIN c.invoices /\ c \in BooksType
    BY <1>1 DEF Onto, Sound, SameSales
<1>3. /\ CarriedOnce(c, e, RetainedReturns(c, d), k) /\ SamePaid(c, e)
      /\ Due(e) = Due(c) - c.invoices[d].total
    BY <1>0, <1>2, ReturnsAreCarried
<1>4. /\ Onto(c, e) /\ e.invoices = Emptied(c, d).invoices /\ e.notes = c.notes
  <2>. DEFINE X == [P \in SUBSET RetainedReturns(c, d) |->
                        [books : BooksType, left : Nat]]
  <2>1. Emptied(c, d) \in BooksType
    <3>. DEFINE row == [c.invoices[d] EXCEPT !.reversals = 1]
                u == -c.invoices[d].total
    <3>1. c.invoices[d] \in Invoice /\ c.invoices[d].total \in Nat
        BY <1>2, OutstandingType
    <3>2. row \in Invoice /\ row.total = c.invoices[d].total /\ u \in Int
      <4>1. row \in Invoice
          BY <1>2, ReturnsCarriedShape
      <4>. QED  BY <3>1, <4>1 DEF Invoice
    <3>3. Emptied(c, d) = InvoiceSet(c, d, row, u)
        BY DEF Emptied
    <3>. HIDE DEF row, u
    <3>4. Onto(c, Emptied(c, d))
        BY <1>2, <3>2, <3>3, InvoiceSetRow
    <3>. QED  BY <3>4 DEF Onto, Sound
  <2>2. [books |-> Emptied(c, d), left |-> total] \in X[{}]
      BY <2>1
  <2>3. CarriesStay(X, RetainedReturns(c, d), k)
    <3> SUFFICES ASSUME NEW P \in SUBSET RetainedReturns(c, d),
                        NEW n \in RetainedReturns(c, d) \ P, NEW acc \in X[P],
                        Sound(acc.books), acc.left \in Nat,
                        acc = [books |-> acc.books, left |-> acc.left],
                        n \in DOMAIN acc.books.notes
                 PROVE  CarryStep(acc, n, k) \in X[P \cup {n}]
        BY DEF CarriesStay
    <3>. DEFINE q == CarryStep(acc, n, k)
    <3>1. q = CarryStep([books |-> acc.books, left |-> acc.left], n, k)
        OBVIOUS
    <3>2. q = [books |-> q.books, left |-> q.left]
        BY DEF CarryStep
    <3>. HIDE DEF q
    <3>3. q.left \in Nat /\ q.books \in BooksType
        BY <3>1, CarryAdds
    <3>4. q \in X[P \cup {n}]
        BY <3>2, <3>3
    <3>. QED  BY <3>4 DEF q
  <2>. HIDE DEF X
  <2>. QED  BY <1>0, <1>2, <2>2, <2>3, ReturnsCarriedStays
<1>5. /\ DOMAIN e.invoices = DOMAIN c.invoices
      /\ \A i \in DOMAIN c.invoices : i # d => e.invoices[i] = c.invoices[i]
      /\ e.invoices[d] = [c.invoices[d] EXCEPT !.reversals = 1]
      /\ c.invoices[d] \in Invoice
  <2>1. c.invoices \in Seq(Invoice) /\ c.invoices[d] \in Invoice
      BY <1>2, OutstandingType DEF BooksType
  <2>2. Emptied(c, d).invoices
            = [c.invoices EXCEPT ![d] = [c.invoices[d] EXCEPT !.reversals = 1]]
      BY <1>2 DEF Emptied, InvoiceSet, Journal, BooksType
  <2>. QED  BY <1>2, <1>4, <2>1, <2>2
<1>6. /\ e.invoices[d].reversals = 1
      /\ e.invoices[d].previous = c.invoices[d].previous
    BY <1>5 DEF Invoice
<1>7. Sound(e) /\ e \in BooksType /\ d \in DOMAIN e.invoices
    BY <1>2, <1>4, <1>5 DEF Onto, Sound
<1>8. correction \in Nat
  <2>1. e.invoices[d] \in Invoice
      BY <1>7, OutstandingType
  <2>. QED  BY <2>1 DEF Invoice
<1>9. r = RetiredAs(e, d, "REVISED", correction)
  <2>1. r = [e EXCEPT !.invoices[d].state = "REVISED"]
      BY DEF RevisedIn
  <2>. HIDE DEF correction
  <2>2. correction = e.invoices[d].correction
      BY DEF correction
  <2>. QED  BY <1>7, <2>1, <2>2, RevisedIs
<1>. HIDE DEF correction
<1>10. /\ Onto(e, r) /\ SamePaid(e, r) /\ Due(r) = Due(e)
       /\ r.notes = e.notes /\ r.carries = e.carries
       /\ DOMAIN r.invoices = DOMAIN e.invoices
       /\ \A i \in DOMAIN e.invoices : i # d => r.invoices[i] = e.invoices[i]
       /\ r.invoices[d].state = "REVISED"
       /\ r.invoices[d].reversals = e.invoices[d].reversals
       /\ r.invoices[d].previous = e.invoices[d].previous
  <2>1. "REVISED" \in {"CANCELLED", "REVISED"}
      OBVIOUS
  <2>. QED  BY ONLY <1>7, <1>8, <1>9, <2>1, RetiredRow
<1>11. Onto(b, r)
    BY <1>1, <1>4, <1>10, OntoTransitive
<1>12. c.invoices = b.invoices /\ c.carries = b.carries /\ c.notes = b.notes
    BY <1>1 DEF SameSales
<1>13. SamePaidBut(b, r, {d})
    BY <1>1, <1>3, <1>10 DEF SamePaid, SamePaidBut
<1>14. Due(r) = Due(b) + DiscountsOn(b, d) - amount
  <2>1. Due(b) \in Int /\ DiscountsOn(b, d) \in Int /\ amount \in Int
      BY BalanceType, ClaimSums, OutstandingType DEF Sound
  <2>2. Due(r) = Due(c) - amount
      BY <1>3, <1>10, <1>12
  <2>. HIDE DEF amount
  <2>. QED  BY <1>1, <2>1, <2>2
<1>15. Undid(b, r, d)
    BY <1>5, <1>6, <1>10, <1>11, <1>12, <1>13, <1>14 DEF Undid, amount
<1>16. CarriedOnce(b, r, RetainedReturns(b, d), k)
  <2>1. RetainedReturns(c, d) = RetainedReturns(b, d)
      BY <1>12 DEF RetainedReturns
  <2>. QED  BY <1>3, <1>10, <1>12, <2>1 DEF CarriedOnce
<1>. QED  BY <1>4, <1>6, <1>10, <1>12, <1>15, <1>16 DEF Revised

\* The sales and notes of b and r from which ReturnsStand follows alike: the
\* carries stay, and so does every sale, but for the journal of a live one to
\* which nothing has been carried; no carried note is reversed, and a note
\* that counts is an old one or one of a sale in the ledger.
LikeReturns(b, r) ==
    /\ r.carries = b.carries
    /\ \A d \in DOMAIN b.invoices :
        /\ r.invoices[d].state = b.invoices[d].state
        /\ \/ r.invoices[d].reversals = b.invoices[d].reversals
           \/ /\ b.invoices[d].state = "LIVE"
              /\ \A c \in DOMAIN b.carries : b.carries[c].invoice # d
    /\ \A c \in DOMAIN b.carries : r.notes[b.carries[c].note] = b.notes[b.carries[c].note]
    /\ \A n \in PostedNotes(r) :
        \/ n \in PostedNotes(b) /\ r.notes[n].source = b.notes[n].source
        \/ /\ r.notes[n].source \in DOMAIN r.invoices
           /\ Posted(r.invoices[r.notes[n].source])

\* It follows, indeed.
LEMMA ReturnsLike ==
    ASSUME NEW b, Sound(b), ReturnsStand(b), NEW r, LikeReturns(b, r),
           \A c \in DOMAIN b.carries : b.carries[c].invoice \in DOMAIN b.invoices
    PROVE  ReturnsStand(r)
<1>1. /\ \A c \in DOMAIN b.carries : /\ b.carries[c].note \in DOMAIN b.notes
                                     /\ b.carries[c].invoice \in DOMAIN b.invoices
      /\ \A n \in DOMAIN b.notes : b.notes[n].source \in DOMAIN b.invoices
    BY DEF Sound, Linked
<1>2. \A n : CarriesOf(r, n) = CarriesOf(b, n)
    BY DEF LikeReturns, CarriesOf
<1>3. ASSUME NEW c \in DOMAIN r.carries PROVE CarryStands(r, c)
  <2>. DEFINE row == b.carries[c]
              n == row.note
              i == row.invoice
              s == b.notes[n].source
              later == {e \in CarriesOf(b, n) : e > c}
  <2>1. /\ c \in DOMAIN b.carries /\ r.carries[c] = row
        /\ r.notes[n] = b.notes[n]
        /\ n \in DOMAIN b.notes /\ i \in DOMAIN b.invoices /\ s \in DOMAIN b.invoices
      BY <1>1 DEF LikeReturns
  <2>2. /\ Posted(b.notes[n])
        /\ b.invoices[s].state # "LIVE" /\ ~Posted(b.invoices[s])
        /\ IF b.invoices[i].state = "LIVE"
           THEN Posted(b.invoices[i]) /\ later = {}
           ELSE row.applied = 0 \/ later # {}
      BY <2>1 DEF ReturnsStand, CarryStands
  <2>3. /\ r.invoices[s].state # "LIVE" /\ ~Posted(r.invoices[s])
      BY <2>1, <2>2 DEF LikeReturns, Posted
  <2>4. /\ r.invoices[i].state = b.invoices[i].state
        /\ Posted(r.invoices[i]) <=> Posted(b.invoices[i])
      BY <2>1 DEF LikeReturns, Posted
  <2>5. {e \in CarriesOf(r, n) : e > c} = later
      BY <1>2
  <2>. HIDE DEF later
  <2>. QED  BY <2>1, <2>2, <2>3, <2>4, <2>5 DEF CarryStands
<1>4. ASSUME NEW n \in PostedNotes(r),
             r.invoices[r.notes[n].source].state # "LIVE",
             ~Posted(r.invoices[r.notes[n].source])
      PROVE  CarriesOf(r, n) # {}
  <2>. DEFINE s == b.notes[n].source
  <2>1. n \in PostedNotes(b) /\ r.notes[n].source = s
      BY <1>4 DEF LikeReturns
  <2>2. s \in DOMAIN b.invoices
      BY <1>1, <2>1 DEF PostedNotes
  <2>3. b.invoices[s].state # "LIVE" /\ ~Posted(b.invoices[s])
      BY <1>4, <2>1, <2>2 DEF LikeReturns, Posted
  <2>. QED  BY <1>2, <2>1, <2>3 DEF ReturnsStand
<1>. QED  BY <1>3, <1>4 DEF ReturnsStand

\* The returns stand when a sale is retired with a credit note, to which no
\* return has been carried that is applied there.
LEMMA CreditedStands ==
    ASSUME NEW b, Sound(b), Tidy(b), ReturnsStand(b), NEW d \in DOMAIN b.invoices,
           b.invoices[d].state = "LIVE",
           \A c \in DOMAIN b.carries :
                b.carries[c].invoice = d => b.carries[c].applied = 0,
           NEW r, Credited(b, r, d)
    PROVE  ReturnsStand(r)
<1>. DEFINE note == [source |-> d, total |-> b.invoices[d].total, reversals |-> 0]
            j == Len(b.notes) + 1
<1>1. /\ \A c \in DOMAIN b.carries : /\ b.carries[c].note \in DOMAIN b.notes
                                     /\ b.carries[c].invoice \in DOMAIN b.invoices
      /\ \A n \in DOMAIN b.notes : b.notes[n].source \in DOMAIN b.invoices
    BY DEF Sound, Linked, Tidy
<1>2. /\ DOMAIN r.notes = DOMAIN b.notes \cup {j} /\ j \notin DOMAIN b.notes
      /\ r.notes[j].source = d
      /\ \A n \in DOMAIN b.notes : r.notes[n] = b.notes[n]
  <2>1. b.notes \in Seq(Note) /\ r.notes = Append(b.notes, note) /\ note.source = d
      BY DEF Sound, BooksType, Credited
  <2>. HIDE DEF note
  <2>. QED  BY <2>1, RowAdded
<1>. HIDE DEF j
<1>3. /\ r.carries = b.carries
      /\ \A e \in DOMAIN b.invoices : e # d => r.invoices[e] = b.invoices[e]
      /\ r.invoices[d].state # "LIVE" /\ Posted(r.invoices[d])
    BY DEF Credited, Undid
<1>4. \A n : CarriesOf(r, n) = CarriesOf(b, n)
    BY <1>3 DEF CarriesOf
<1>5. ASSUME NEW c \in DOMAIN r.carries PROVE CarryStands(r, c)
  <2>. DEFINE row == b.carries[c]
              n == row.note
              i == row.invoice
              s == b.notes[n].source
              later == {e \in CarriesOf(b, n) : e > c}
  <2>1. /\ c \in DOMAIN b.carries /\ r.carries[c] = row
        /\ r.notes[n] = b.notes[n]
        /\ n \in DOMAIN b.notes /\ i \in DOMAIN b.invoices /\ s \in DOMAIN b.invoices
      BY <1>1, <1>2, <1>3
  <2>2. /\ Posted(b.notes[n])
        /\ b.invoices[s].state # "LIVE" /\ ~Posted(b.invoices[s])
        /\ IF b.invoices[i].state = "LIVE"
           THEN Posted(b.invoices[i]) /\ later = {}
           ELSE row.applied = 0 \/ later # {}
      BY <2>1 DEF ReturnsStand, CarryStands
  <2>3. r.invoices[s] = b.invoices[s]
      BY <1>3, <2>1, <2>2
  <2>4. {e \in CarriesOf(r, n) : e > c} = later
      BY <1>4
  <2>5. i = d => row.applied = 0
      BY <2>1
  <2>. HIDE DEF later
  <2>6. CASE i = d
      BY <1>3, <2>1, <2>2, <2>3, <2>5, <2>6 DEF CarryStands
  <2>7. CASE i # d
    <3>1. r.invoices[i] = b.invoices[i]
        BY <1>3, <2>1, <2>7
    <3>. QED  BY <2>1, <2>2, <2>3, <2>4, <3>1 DEF CarryStands
  <2>. QED  BY <2>6, <2>7
<1>6. ASSUME NEW n \in PostedNotes(r),
             r.invoices[r.notes[n].source].state # "LIVE",
             ~Posted(r.invoices[r.notes[n].source])
      PROVE  CarriesOf(r, n) # {}
  <2>1. n \in DOMAIN b.notes /\ n \in PostedNotes(b) /\ r.notes[n] = b.notes[n]
      BY <1>2, <1>3, <1>6 DEF PostedNotes
  <2>2. r.invoices[b.notes[n].source] = b.invoices[b.notes[n].source]
      BY <1>1, <1>3, <1>6, <2>1
  <2>. QED  BY <1>4, <1>6, <2>1, <2>2 DEF ReturnsStand
<1>. QED  BY <1>5, <1>6 DEF ReturnsStand

\* What makes a carry stand, part by part.
LEMMA CarryStandsWhen ==
    ASSUME NEW r, NEW c, NEW n, NEW i, NEW s,
           r.carries[c].note = n, r.carries[c].invoice = i, r.notes[n].source = s,
           Posted(r.notes[n]),
           r.invoices[s].state # "LIVE", ~Posted(r.invoices[s]),
           r.invoices[i].state = "LIVE"
           => Posted(r.invoices[i]) /\ {e \in CarriesOf(r, n) : e > c} = {},
           r.invoices[i].state # "LIVE"
           => r.carries[c].applied = 0 \/ {e \in CarriesOf(r, n) : e > c} # {}
    PROVE  CarryStands(r, c)
BY DEF CarryStands

\* The returns stand when a sale is revised with its returns and its
\* replacement is entered.
LEMMA RevisedStands ==
    ASSUME NEW b, Sound(b), Tidy(b), ReturnsStand(b), NEW d \in DOMAIN b.invoices,
           b.invoices[d].state = "LIVE", NEW k, k \notin DOMAIN b.invoices,
           NEW u, Revised(b, u, d, k), NEW r,
           r.notes = u.notes, r.carries = u.carries,
           \A e \in DOMAIN u.invoices : r.invoices[e] = u.invoices[e],
           r.invoices[k].state = "LIVE", Posted(r.invoices[k])
    PROVE  ReturnsStand(r)
<1>. DEFINE S == RetainedReturns(b, d)
            New == DOMAIN r.carries \ DOMAIN b.carries
<1>1. /\ \A c \in DOMAIN b.carries : /\ b.carries[c].note \in DOMAIN b.notes
                                     /\ b.carries[c].invoice \in DOMAIN b.invoices
      /\ \A n \in DOMAIN b.notes : b.notes[n].source \in DOMAIN b.invoices
    BY DEF Sound, Linked, Tidy
<1>2. /\ r.notes = b.notes
      /\ \A e \in DOMAIN b.invoices : e # d => r.invoices[e] = b.invoices[e]
      /\ r.invoices[d].state # "LIVE" /\ ~Posted(r.invoices[d])
    BY DEF Revised, Undid, Posted
<1>3. /\ \A c \in DOMAIN b.carries :
            c \in DOMAIN r.carries /\ r.carries[c] = b.carries[c]
      /\ \A c \in New : /\ r.carries[c].note \in S /\ r.carries[c].invoice = k
                        /\ \A e \in DOMAIN b.carries : e < c
      /\ \A n \in S : \E c \in New : r.carries[c].note = n
      /\ \A c, e \in New : r.carries[c].note = r.carries[e].note => c = e
    BY DEF Revised, CarriedOnce
<1>0. DOMAIN r.carries \subseteq Int
  <2>1. u.carries \in Seq(Carry)
      BY DEF Revised, Undid, Onto, Sound, BooksType
  <2>. QED  BY <2>1
<1>4. \A n \in S : /\ n \in DOMAIN b.notes
                   /\ \/ b.notes[n].source = d /\ Posted(b.notes[n])
                      \/ \E c \in DOMAIN b.carries :
                            b.carries[c].note = n /\ b.carries[c].invoice = d
    BY DEF RetainedReturns
<1>. HIDE DEF S
<1>5. ASSUME NEW c \in DOMAIN b.carries
      PROVE  LET n == b.carries[c].note
                 i == b.carries[c].invoice
                 s == b.notes[n].source
                 later == {e \in CarriesOf(b, n) : e > c}
             IN  /\ n \in DOMAIN b.notes /\ i \in DOMAIN b.invoices
                 /\ s \in DOMAIN b.invoices /\ s # d
                 /\ Posted(b.notes[n])
                 /\ r.invoices[s] = b.invoices[s]
                 /\ b.invoices[s].state # "LIVE" /\ ~Posted(b.invoices[s])
                 /\ IF b.invoices[i].state = "LIVE"
                    THEN Posted(b.invoices[i]) /\ later = {}
                    ELSE b.carries[c].applied = 0 \/ later # {}
    BY <1>1, <1>2 DEF ReturnsStand, CarryStands
<1>6. ASSUME NEW c \in DOMAIN b.carries PROVE CarryStands(r, c)
  <2>. DEFINE row == b.carries[c]
              n == row.note
              i == row.invoice
              s == b.notes[n].source
              later == {e \in CarriesOf(b, n) : e > c}
              after == {e \in CarriesOf(r, n) : e > c}
  <2>1. /\ r.carries[c] = row /\ i \in DOMAIN b.invoices
        /\ s \in DOMAIN b.invoices /\ s # d
        /\ Posted(r.notes[n])
        /\ r.invoices[s].state # "LIVE" /\ ~Posted(r.invoices[s])
      BY <1>2, <1>3, <1>5
  <2>2. IF b.invoices[i].state = "LIVE"
        THEN Posted(b.invoices[i]) /\ later = {}
        ELSE row.applied = 0 \/ later # {}
      BY <1>5
  <2>3. later \subseteq after
      BY <1>3 DEF CarriesOf
  <2>0. /\ r.carries[c].note = n /\ r.carries[c].invoice = i
        /\ r.carries[c].applied = row.applied /\ r.notes[n].source = s
        /\ after = {e \in CarriesOf(r, n) : e > c}
      BY <1>2, <2>1
  <2>4. CASE i = d
    <3>1. n \in S
        BY <1>1, <2>4 DEF S, RetainedReturns
    <3>2. PICK e \in New : r.carries[e].note = n
        BY <1>3, <3>1
    <3>3. e > c
        BY <1>0, <1>3, <3>2
    <3>4. after # {}
        BY <3>2, <3>3 DEF CarriesOf
    <3>5. r.invoices[i].state # "LIVE"
        BY <1>2, <2>4
    <3>. HIDE DEF after, later, row, n, i, s
    <3>. QED  BY <2>0, <2>1, <3>4, <3>5, CarryStandsWhen
  <2>5. CASE i # d /\ b.invoices[i].state = "LIVE"
    <3>1. n \notin S
      <4> SUFFICES ASSUME n \in S PROVE FALSE
          OBVIOUS
      <4>1. PICK e \in DOMAIN b.carries :
                b.carries[e].note = n /\ b.carries[e].invoice = d
          BY <1>4, <2>1
      <4>2. {x \in CarriesOf(b, n) : x > e} = {}
          BY <1>5, <4>1
      <4>3. e \in CarriesOf(b, n) /\ c \in CarriesOf(b, n) /\ e # c
          BY <2>5, <4>1 DEF CarriesOf
      <4>4. e \in Int /\ c \in Int
          BY <1>0, <1>3, <4>1
      <4>. QED  BY <2>2, <2>5, <4>2, <4>3, <4>4
    <3>2. after = {}
      <4>1. ASSUME NEW e \in after PROVE FALSE
        <5>1. e \notin New
            BY <1>3, <3>1 DEF CarriesOf
        <5>2. e \in later
            BY <1>3, <5>1 DEF CarriesOf
        <5>. QED  BY <2>2, <2>5, <5>2
      <4>. QED  BY <4>1
    <3>3. r.invoices[i] = b.invoices[i]
        BY <1>2, <2>1, <2>5
    <3>. HIDE DEF after, later, row, n, i, s
    <3>. QED  BY <2>0, <2>1, <2>2, <2>5, <3>2, <3>3, CarryStandsWhen
  <2>6. CASE i # d /\ b.invoices[i].state # "LIVE"
    <3>1. r.invoices[i] = b.invoices[i]
        BY <1>2, <2>1, <2>6
    <3>2. row.applied = 0 \/ after # {}
        BY <2>2, <2>3, <2>6
    <3>. HIDE DEF after, later, row, n, i, s
    <3>. QED  BY <2>0, <2>1, <2>6, <3>1, <3>2, CarryStandsWhen
  <2>. QED  BY <2>4, <2>5, <2>6
<1>7. ASSUME NEW c \in New PROVE CarryStands(r, c)
  <2>. DEFINE n == r.carries[c].note
              s == b.notes[n].source
              after == {e \in CarriesOf(r, n) : e > c}
  <2>1. n \in S /\ r.carries[c].invoice = k
      BY <1>3
  <2>2. /\ Posted(r.notes[n])
        /\ r.invoices[s].state # "LIVE" /\ ~Posted(r.invoices[s])
    <3>1. CASE s = d /\ Posted(b.notes[n])
        BY <1>2, <3>1
    <3>2. CASE \E e \in DOMAIN b.carries :
                    b.carries[e].note = n /\ b.carries[e].invoice = d
      <4>1. PICK e \in DOMAIN b.carries :
                b.carries[e].note = n /\ b.carries[e].invoice = d
          BY <3>2
      <4>2. /\ Posted(b.notes[n]) /\ r.invoices[s] = b.invoices[s]
            /\ b.invoices[s].state # "LIVE" /\ ~Posted(b.invoices[s])
          BY <1>5, <4>1
      <4>. QED  BY <1>2, <4>2
    <3>3. \/ s = d /\ Posted(b.notes[n])
          \/ \E e \in DOMAIN b.carries :
                b.carries[e].note = n /\ b.carries[e].invoice = d
        BY <1>4, <2>1
    <3>. QED  BY <3>1, <3>2, <3>3
  <2>3. after = {}
    <3>1. ASSUME NEW e \in after PROVE FALSE
      <4>1. e \in DOMAIN r.carries /\ r.carries[e].note = n /\ e > c
          BY DEF CarriesOf
      <4>2. e \in Int /\ c \in Int
          BY <1>0, <4>1
      <4>3. e \in New
          BY <1>3, <4>1, <4>2
      <4>. QED  BY <1>3, <4>1, <4>2, <4>3
    <3>. QED  BY <3>1
  <2>4. r.notes[n].source = s
      BY <1>2
  <2>. HIDE DEF s, after
  <2>. QED  BY <2>1, <2>2, <2>3, <2>4 DEF CarryStands, after
<1>8. ASSUME NEW n \in PostedNotes(r),
             r.invoices[r.notes[n].source].state # "LIVE",
             ~Posted(r.invoices[r.notes[n].source])
      PROVE  CarriesOf(r, n) # {}
  <2>. DEFINE s == b.notes[n].source
  <2>1. n \in PostedNotes(b) /\ n \in DOMAIN b.notes /\ r.notes[n].source = s
        /\ s \in DOMAIN b.invoices
      BY <1>1, <1>2 DEF PostedNotes
  <2>2. CASE s = d
    <3>1. n \in S
        BY <2>1, <2>2 DEF S, RetainedReturns, PostedNotes
    <3>. QED  BY <1>3, <3>1 DEF CarriesOf
  <2>3. CASE s # d
    <3>1. CarriesOf(b, n) # {}
        BY <1>2, <1>8, <2>1, <2>3 DEF ReturnsStand
    <3>. QED  BY <1>3, <3>1 DEF CarriesOf
  <2>. QED  BY <2>2, <2>3
<1>. QED  BY <1>6, <1>7, <1>8 DEF ReturnsStand

-----------------------------------------------------------------------------
(* The posting of an invoice and the replacing of a sale, as relations.    *)

\* v is u with invoice k entered, of a total and for a previous one
Entry(u, v, k, total, previous) ==
    /\ Onto(u, v)
    /\ SameBut(v, u, {"invoices"})
    /\ k \notin DOMAIN u.invoices
    /\ DOMAIN v.invoices = DOMAIN u.invoices \cup {k}
    /\ \A e \in DOMAIN u.invoices : v.invoices[e] = u.invoices[e]
    /\ v.invoices[k].total = total /\ v.invoices[k].reversals = 0
    /\ v.invoices[k].state = "LIVE" /\ v.invoices[k].previous = previous
    /\ Due(v) = Due(u) + total

\* An invoice that is entered is an entry.
LEMMA EntryIs ==
    ASSUME NEW u, Sound(u), NEW total \in Amount, NEW previous \in Nat,
           NEW k, k = Len(u.invoices) + 1,
           NEW v, v = InvoiceEntered(u, total, previous)
    PROVE  Entry(u, v, k, total, previous)
<1>. DEFINE row == [total |-> total, reversals |-> 0, state |-> "LIVE",
                    correction |-> 0, previous |-> previous]
<1>1. Onto(u, v)
    BY InvoiceOnto
<1>2. /\ SameBut(v, u, {"invoices"}) /\ v.invoices = Append(u.invoices, row)
      /\ Due(v) = Due(u) + total
    BY InvoiceIs DEF Sound
<1>3. /\ row.total = total /\ row.reversals = 0 /\ row.state = "LIVE"
      /\ row.previous = previous
    OBVIOUS
<1>4. u.invoices \in Seq(Invoice)
    BY DEF Sound, BooksType
<1>. HIDE DEF row
<1>5. /\ DOMAIN v.invoices = DOMAIN u.invoices \cup {k} /\ k \notin DOMAIN u.invoices
      /\ v.invoices[k] = row
      /\ \A e \in DOMAIN u.invoices : v.invoices[e] = u.invoices[e]
    BY <1>2, <1>4, RowAdded
<1>. QED  BY <1>1, <1>2, <1>3, <1>5 DEF Entry

\* r is v with advances applied to invoice k
Linking(v, r, k) ==
    /\ Onto(v, r) /\ SameSales(v, r) /\ SamePaidBut(v, r, {k}) /\ Due(r) = Due(v)

\* Two applications of advances are one.
LEMMA LinkingTwice ==
    ASSUME NEW v, NEW c, NEW r, NEW k, Linking(v, c, k), Linking(c, r, k)
    PROVE  Linking(v, r, k)
<1>1. Onto(v, r)
    BY OntoTransitive DEF Linking
<1>. QED  BY <1>1 DEF Linking, SameSales, SamePaidBut

\* The posting of an invoice is an entry, with advances applied to it.
LEMMA PostingIs ==
    ASSUME NEW u, Sound(u), NEW total \in Amount, NEW previous \in Nat,
           NEW link \in BOOLEAN, NEW k, k = Len(u.invoices) + 1,
           NEW c, c = InvoicePosted(u, total, previous, link)
    PROVE  \E v : Entry(u, v, k, total, previous) /\ Linking(v, c, k)
<1>. DEFINE v == InvoiceEntered(u, total, previous)
<1>1. Entry(u, v, k, total, previous)
    BY EntryIs
<1>2. c = IF link THEN AppliedAll(v, UnusedAdvances(v), Len(v.invoices)) ELSE v
    BY DEF InvoicePosted, InvoiceEntered
<1>3. Len(v.invoices) = k
  <2>1. /\ u.invoices \in Seq(Invoice)
        /\ v.invoices = Append(u.invoices,
                [total |-> total, reversals |-> 0, state |-> "LIVE",
                 correction |-> 0, previous |-> previous])
      BY InvoiceIs DEF Sound, BooksType
  <2>. HIDE DEF v
  <2>. QED  BY <2>1, RowAdded
<1>. HIDE DEF v
<1>4. Sound(v) /\ k \in DOMAIN v.invoices
    BY <1>1 DEF Entry, Onto
<1>5. CASE link
  <2>1. UnusedAdvances(v) \in SUBSET UnusedAdvances(v)
      OBVIOUS
  <2>2. c = AppliedAll(v, UnusedAdvances(v), k)
      BY <1>2, <1>3, <1>5
  <2>3. Linking(v, c, k)
      BY <1>4, <2>1, <2>2, ApplicationsLeaveSales DEF Linking
  <2>. QED  BY <1>1, <2>3
<1>6. CASE ~link
  <2>1. Linking(v, v, k)
      BY <1>4, OntoItself DEF Linking, SameSales, SamePaidBut
  <2>. QED  BY <1>1, <1>2, <1>6, <2>1
<1>. QED  BY <1>5, <1>6

\* Sale d of books b is replaced by invoice k: u are the books when it has been
\* undone, v when k has been entered, and r when advances have been applied.
Replaced(b, u, v, r, d, k, total) ==
    /\ Posted(b.invoices[d]) /\ b.invoices[d].state = "LIVE"
    /\ u.invoices[d].state = "REVISED"
    /\ \/ RetainedReturns(b, d) = {} /\ Credited(b, u, d)
       \/ Revised(b, u, d, k)
    /\ Entry(u, v, k, total, d)
    /\ Linking(v, r, k)

\* The replacing of a sale does that.
LEMMA ReplacedIs ==
    ASSUME NEW b, Sound(b), NEW r, NEW d \in DOMAIN b.invoices,
           NEW total \in Amount, NEW link \in BOOLEAN,
           NEW k, k = Len(b.invoices) + 1,
           Editable(b, d, TRUE),
           NEW S, NEW c, c = InvoicePosted(Undone(b, d, k, total), total, d, link),
           S \subseteq UnusedAdvances(c), r = AppliedAll(c, S, k)
    PROVE  \E u, v : Replaced(b, u, v, r, d, k, total) /\ Linking(v, c, k)
<1>. DEFINE u == Undone(b, d, k, total)
<1>1. Posted(b.invoices[d]) /\ b.invoices[d].state = "LIVE"
    BY DEF Editable
<1>2. b.invoices \in Seq(Invoice) /\ k \in Nat /\ d \in Nat /\ total \in Nat
  <2>1. b.invoices \in Seq(Invoice)
      BY DEF Sound, BooksType
  <2>. QED  BY <2>1, ReceivablesConstants
<1>3. /\ \/ RetainedReturns(b, d) = {} /\ Credited(b, u, d)
         \/ Revised(b, u, d, k)
      /\ u.invoices[d].state = "REVISED"
  <2>1. CASE RetainedReturns(b, d) = {}
    <3>. DEFINE w == WhollyCredited(b, d)
    <3>1. u = [w EXCEPT !.invoices[d].state = "REVISED",
                        !.invoices[d].correction = Len(w.notes)]
        BY <2>1 DEF Undone
    <3>2. "REVISED" \in {"CANCELLED", "REVISED"}
        OBVIOUS
    <3>3. Credited(b, u, d) /\ u.invoices[d].state = "REVISED"
        BY ONLY <1>1, <3>1, <3>2, Sound(b), d \in DOMAIN b.invoices, CreditedIs
    <3>. QED  BY <2>1, <3>3
  <2>2. CASE RetainedReturns(b, d) # {}
    <3>. DEFINE e == ReturnsCarried(PaymentsReleased(b, d), d, k, total)
    <3>1. u = RevisedIn(e, d)
        BY <2>2 DEF Undone, RevisedIn
    <3>2. e = ReturnsCarried(PaymentsReleased(b, d), d, k, total)
        OBVIOUS
    <3>. HIDE DEF u, e
    <3>3. Revised(b, u, d, k) /\ u.invoices[d].state = "REVISED"
        BY ONLY <1>2, <3>1, <3>2, Sound(b), d \in DOMAIN b.invoices, RevisedWithReturns
    <3>. QED  BY <3>3
  <2>. QED  BY <2>1, <2>2
<1>. HIDE DEF u
<1>4. Undid(b, u, d)
    BY <1>3 DEF Credited, Revised
<1>5. Sound(u) /\ Len(u.invoices) + 1 = k
  <2>1. u.invoices \in Seq(Invoice) /\ DOMAIN u.invoices = DOMAIN b.invoices /\ Sound(u)
      BY <1>4 DEF Undid, Onto, Sound, BooksType
  <2>2. Len(u.invoices) = Len(b.invoices)
    <3>1. /\ DOMAIN u.invoices = 1..Len(u.invoices) /\ Len(u.invoices) \in Nat
          /\ DOMAIN b.invoices = 1..Len(b.invoices) /\ Len(b.invoices) \in Nat
        BY ONLY <1>2, <2>1, TableRows
    <3>. QED  BY ONLY <2>1, <3>1, IntervalLength
  <2>. QED  BY <2>1, <2>2
<1>6. PICK v : Entry(u, v, k, total, d) /\ Linking(v, c, k)
  <2>1. c = InvoicePosted(u, total, d, link)
      BY DEF u
  <2>. QED  BY <1>2, <1>5, <2>1, PostingIs
<1>7. Linking(c, r, k)
  <2>1. Sound(c) /\ k \in DOMAIN c.invoices
      BY <1>6 DEF Linking, Onto, SameSales, Entry
  <2>2. S \in SUBSET UnusedAdvances(c) /\ r = AppliedAll(c, S, k)
      OBVIOUS
  <2>3. /\ SameSales(c, r) /\ Onto(c, r)
        /\ SamePaidBut(c, r, {k}) /\ Due(r) = Due(c)
      BY ONLY <2>1, <2>2, ApplicationsLeaveSales
  <2>. QED  BY <2>3 DEF Linking
<1>8. Linking(v, r, k)
    BY <1>6, <1>7, LinkingTwice
<1>9. Replaced(b, u, v, r, d, k, total)
    BY <1>1, <1>3, <1>6, <1>8 DEF Replaced
<1>. QED  BY <1>6, <1>9
-----------------------------------------------------------------------------
(* Every transaction lets the returns stand.                               *)

\* A sale whose correction is admitted, and which has no returns, has had
\* nothing applied to it that was carried.
LEMMA NothingApplied ==
    ASSUME NEW b, Sound(b), ReturnsStand(b), NEW d \in DOMAIN b.invoices,
           Editable(b, d, FALSE),
           NEW c \in DOMAIN b.carries, b.carries[c].invoice = d
    PROVE  b.carries[c].applied = 0
<1>. DEFINE none == [n \in {} |-> Available(b, n)]
<1>1. /\ Posted(b.invoices[d]) /\ b.invoices[d].state = "LIVE"
      /\ Noted(b, d) = 0
      /\ Outstanding(b, d) + Paid(b, d) + SumFunction(none) = b.invoices[d].total
    BY DEF Editable
<1>2. SumFunction(none) = 0
  <2>1. DOMAIN none = {}
      OBVIOUS
  <2>. HIDE DEF none
  <2>. QED  BY <2>1, SumEmpty DEF SumFunction
<1>. HIDE DEF none
<1>3. /\ Outstanding(b, d) = b.invoices[d].total - Noted(b, d) - Carried(b, d) - Paid(b, d)
      /\ Carried(b, d) \in Nat /\ Paid(b, d) \in Nat /\ b.invoices[d].total \in Nat
      /\ Carried(b, d) = Total(CarriedBy(b, d))
    BY <1>1, ClaimSums, OutstandingType DEF Sound, Outstanding, Retired, BatchOutstanding
<1>4. Total(CarriedBy(b, d)) = 0
    BY <1>1, <1>2, <1>3
<1>. DEFINE f == CarriedBy(b, d)
            D == DOMAIN f
<1>5. c \in CarriesTo(b, d)
    BY DEF Sound, Linked, ReturnsStand, CarryStands, CarriesTo, PostedNotes
<1>6. /\ b.carries \in Seq(Carry) /\ b.carries[c] \in Carry
      /\ \A e \in DOMAIN b.carries : b.carries[e].applied \in Nat
  <2>1. b.carries \in Seq(Carry)
      BY DEF Sound, BooksType
  <2>2. \A e \in DOMAIN b.carries : b.carries[e] \in Carry
      BY <2>1
  <2>. QED  BY <2>1, <2>2 DEF Carry
<1>7. /\ D = DOMAIN b.carries /\ \A e \in D : f[e] \in Nat
      /\ f[c] = b.carries[c].applied
    BY <1>5, <1>6 DEF CarriedBy
<1>8. IsFiniteSet(D)
    BY <1>6, <1>7, TableRows
<1>. HIDE DEF f
<1>9. SumFunctionOnSet(f, D \ {c}) \in Nat
    BY <1>7, <1>8, SumNat, FS_Subset
<1>10. SumFunctionOnSet(f, D) = f[c] + SumFunctionOnSet(f, D \ {c})
    BY <1>7, <1>8, SumRemove
<1>. QED  BY <1>4, <1>7, <1>9, <1>10 DEF Total, f

\* A step that leaves the sales alone lets the returns stand.
LEMMA SameSalesReturns ==
    ASSUME NEW b, Sound(b), Tidy(b), ReturnsStand(b), NEW r, SameSales(b, r)
    PROVE  ReturnsStand(r)
<1>1. LikeReturns(b, r)
    BY DEF LikeReturns, SameSales, PostedNotes
<1>. QED  BY <1>1, ReturnsLike DEF Tidy

\* So does an invoice that is posted.
LEMMA EntryReturns ==
    ASSUME NEW b, Sound(b), ReturnsStand(b),
           \A c \in DOMAIN b.carries : b.carries[c].invoice \in DOMAIN b.invoices,
           NEW v, NEW r, NEW k, NEW total, NEW previous,
           Entry(b, v, k, total, previous), Linking(v, r, k)
    PROVE  ReturnsStand(r)
<1>1. /\ r.carries = b.carries /\ r.notes = b.notes
      /\ \A e \in DOMAIN b.invoices : r.invoices[e] = b.invoices[e]
    BY DEF Entry, Linking, SameSales, SameBut
<1>2. LikeReturns(b, r)
    BY <1>1 DEF LikeReturns, PostedNotes
<1>. QED  BY <1>2, ReturnsLike

\* So does a credit note.
LEMMA NoteReturns ==
    ASSUME NEW b, Sound(b), Tidy(b), ReturnsStand(b), NEW d \in DOMAIN b.invoices,
           NEW amount \in Amount, NoteAccepted(b, d, amount),
           NEW r, r = NotePosted(b, d, amount)
    PROVE  ReturnsStand(r)
<1>. DEFINE row == [source |-> d, total |-> amount, reversals |-> 0]
            j == Len(b.notes) + 1
<1>1. d \in Nat /\ b.notes \in Seq(Note)
  <2>1. b.invoices \in Seq(Invoice) /\ b.notes \in Seq(Note)
      BY DEF Sound, BooksType
  <2>. QED  BY <2>1
<1>2. SameBut(r, b, {"notes"}) /\ r.notes = Append(b.notes, row)
    BY <1>1, NoteIs DEF Sound
<1>3. row.source = d
    OBVIOUS
<1>. HIDE DEF row
<1>4. /\ DOMAIN r.notes = DOMAIN b.notes \cup {j} /\ r.notes[j].source = d
      /\ \A n \in DOMAIN b.notes : r.notes[n] = b.notes[n]
    BY <1>1, <1>2, <1>3, RowAdded
<1>. HIDE DEF j
<1>5. r.invoices = b.invoices /\ r.carries = b.carries
    BY <1>2 DEF SameBut
<1>6. \A c \in DOMAIN b.carries : b.carries[c].note \in DOMAIN b.notes
    BY DEF Sound, Linked
<1>7. ASSUME NEW n \in PostedNotes(r)
      PROVE  \/ n \in PostedNotes(b) /\ r.notes[n].source = b.notes[n].source
             \/ /\ r.notes[n].source \in DOMAIN r.invoices
                /\ Posted(r.invoices[r.notes[n].source])
    BY <1>4, <1>5 DEF PostedNotes, NoteAccepted
<1>8. LikeReturns(b, r)
    BY <1>4, <1>5, <1>6, <1>7 DEF LikeReturns
<1>. QED  BY <1>8, ReturnsLike DEF Tidy

\* So does a reversal by hand, which nothing that is carried is open to.
LEMMA ReverseReturns ==
    ASSUME NEW b, Sound(b), Tidy(b), ReturnsStand(b), NEW r, ReverseStep(b, r)
    PROVE  ReturnsStand(r)
<1>0. MaxReversals \in Nat
    BY ReceivablesConstants
<1>1. ASSUME NEW d \in DOMAIN b.invoices,
             b.invoices[d].reversals < MaxReversals,
             b.invoices[d].state = "LIVE",
             \A c \in DOMAIN b.carries : b.carries[c].invoice # d,
             r = InvoiceSet(b, d, Turn(b.invoices[d]), Flip(b.invoices[d]))
      PROVE  ReturnsStand(r)
  <2>. DEFINE row == Turn(b.invoices[d])
              amount == Flip(b.invoices[d])
  <2>1. b.invoices[d] \in Invoice /\ b.invoices[d].reversals \in Int
    <3>1. b.invoices[d] \in Invoice
        BY OutstandingType DEF Sound
    <3>. QED  BY <1>0, <3>1 DEF Invoice
  <2>2. b.invoices[d].reversals <= MaxReversals
      BY <1>0, <1>1, <2>1
  <2>3. /\ row \in Invoice /\ row.total = b.invoices[d].total /\ amount \in Int
        /\ row.state = b.invoices[d].state
    <3>1. row \in Invoice /\ row.total = b.invoices[d].total /\ amount \in Int
        BY <2>1, <2>2, TurnType
    <3>2. row.state = b.invoices[d].state
        BY <2>1 DEF Turn, Invoice
    <3>. QED  BY <3>1, <3>2
  <2>4. r = InvoiceSet(b, d, row, amount)
      BY <1>1
  <2>. HIDE DEF row, amount
  <2>5. InvoiceRow(b, r, d, row)
      BY <2>3, <2>4, InvoiceSetRow
  <2>6. /\ r.notes = b.notes /\ r.carries = b.carries
        /\ r.invoices[d].state = b.invoices[d].state
        /\ \A e \in DOMAIN b.invoices : e # d => r.invoices[e] = b.invoices[e]
      BY <2>3, <2>5 DEF InvoiceRow, SameBut
  <2>7. LikeReturns(b, r)
      BY <1>1, <2>6 DEF LikeReturns, PostedNotes
  <2>. QED  BY <2>7, ReturnsLike DEF Tidy
<1>2. ASSUME NEW n \in DOMAIN b.notes,
             b.notes[n].reversals < MaxReversals,
             \A c \in DOMAIN b.carries : b.carries[c].note # n,
             r = NoteSet(b, n, Turn(b.notes[n]), -Flip(b.notes[n]))
      PROVE  ReturnsStand(r)
  <2>. DEFINE row == Turn(b.notes[n])
              amount == -Flip(b.notes[n])
  <2>1. b.notes[n] \in Note /\ b.notes[n].reversals \in Nat
    <3>1. b.notes \in Seq(Note)
        BY DEF Sound, BooksType
    <3>2. b.notes[n] \in Note
        BY <3>1
    <3>. QED  BY <1>0, <3>2 DEF Note
  <2>2. b.notes[n].reversals <= MaxReversals
      BY <1>0, <1>2, <2>1
  <2>3. /\ row \in Note /\ row.total = b.notes[n].total
        /\ row.source = b.notes[n].source
      BY <2>1, <2>2, TurnType
  <2>4. amount \in Int
    <3>1. Flip(b.notes[n]) \in Int
        BY <2>1, TurnType
    <3>. QED  BY <3>1
  <2>5. ~Posted(row)
      BY <2>1 DEF Turn, Posted, Note
  <2>6. r = NoteSet(b, n, row, amount)
      BY <1>2
  <2>. HIDE DEF row, amount
  <2>7. NoteRow(b, r, n, row)
      BY ONLY <2>3, <2>4, <2>6, Sound(b), n \in DOMAIN b.notes, NoteSetRow
  <2>8. /\ r.invoices = b.invoices /\ r.carries = b.carries
        /\ DOMAIN r.notes = DOMAIN b.notes /\ r.notes[n] = row
        /\ \A m \in DOMAIN b.notes : m # n => r.notes[m] = b.notes[m]
      BY <2>7 DEF NoteRow, SameBut
  <2>9. \A m \in PostedNotes(r) :
            m \in PostedNotes(b) /\ r.notes[m].source = b.notes[m].source
      BY <2>5, <2>8 DEF PostedNotes
  <2>10. \A c \in DOMAIN b.carries :
            b.carries[c].note \in DOMAIN b.notes /\ b.carries[c].note # n
      BY <1>2 DEF Sound, Linked
  <2>11. LikeReturns(b, r)
      BY <2>8, <2>9, <2>10 DEF LikeReturns
  <2>. QED  BY <2>11, ReturnsLike DEF Tidy
<1>. QED  BY <1>1, <1>2 DEF ReverseStep

\* The cancelling of a sale lets the returns stand.
LEMMA CancelReturns ==
    ASSUME NEW b, Sound(b), Tidy(b), ReturnsStand(b), NEW r, CancelStep(b, r)
    PROVE  ReturnsStand(r)
<1>1. PICK d \in DOMAIN b.invoices :
        /\ Editable(b, d, FALSE)
        /\ LET c == WhollyCredited(b, d)
           IN  r = [c EXCEPT !.invoices[d].state = "CANCELLED",
                             !.invoices[d].correction = Len(c.notes)]
    BY DEF CancelStep
<1>. DEFINE w == WhollyCredited(b, d)
<1>2. Posted(b.invoices[d]) /\ b.invoices[d].state = "LIVE"
    BY <1>1 DEF Editable
<1>3. r = [w EXCEPT !.invoices[d].state = "CANCELLED",
                    !.invoices[d].correction = Len(w.notes)]
    BY <1>1
<1>4. "CANCELLED" \in {"CANCELLED", "REVISED"}
    OBVIOUS
<1>5. Credited(b, r, d)
    BY ONLY <1>2, <1>3, <1>4, Sound(b), d \in DOMAIN b.invoices, CreditedIs
<1>6. \A c \in DOMAIN b.carries :
            b.carries[c].invoice = d => b.carries[c].applied = 0
    BY <1>1, NothingApplied
<1>. QED  BY <1>2, <1>5, <1>6, CreditedStands

\* So does its replacing.
LEMMA ReplacedReturns ==
    ASSUME NEW b, Sound(b), Tidy(b), ReturnsStand(b), NEW d \in DOMAIN b.invoices,
           NEW u, NEW v, NEW r, NEW k, NEW total, Replaced(b, u, v, r, d, k, total)
    PROVE  ReturnsStand(r)
<1>1. /\ b.invoices[d].state = "LIVE"
      /\ Entry(u, v, k, total, d) /\ Linking(v, r, k)
    BY DEF Replaced
<1>2. Undid(b, u, d)
    BY DEF Replaced, Credited, Revised
<1>3. /\ Sound(u) /\ DOMAIN u.invoices = DOMAIN b.invoices
      /\ k \notin DOMAIN b.invoices
    BY <1>1, <1>2 DEF Undid, Onto, Entry
<1>4. CASE RetainedReturns(b, d) = {} /\ Credited(b, u, d)
  <2>1. \A c \in DOMAIN b.carries : b.carries[c].invoice # d
    <3>1. \A c \in DOMAIN b.carries : b.carries[c].note \in DOMAIN b.notes
        BY DEF Sound, Linked
    <3>. QED  BY <1>4, <3>1 DEF RetainedReturns
  <2>2. ReturnsStand(u)
      BY <1>1, <1>4, <2>1, CreditedStands
  <2>3. \A c \in DOMAIN u.carries : u.carries[c].invoice \in DOMAIN u.invoices
      BY <1>3, <1>4 DEF Credited, Tidy
  <2>. QED  BY <1>1, <1>3, <2>2, <2>3, EntryReturns
<1>5. CASE Revised(b, u, d, k)
  <2>1. /\ r.notes = u.notes /\ r.carries = u.carries
        /\ \A e \in DOMAIN u.invoices : r.invoices[e] = u.invoices[e]
        /\ r.invoices[k].state = "LIVE" /\ Posted(r.invoices[k])
      BY <1>1 DEF Entry, Linking, SameSales, SameBut, Posted
  <2>. QED  BY <1>1, <1>3, <1>5, <2>1, RevisedStands
<1>. QED  BY <1>4, <1>5 DEF Replaced

\* r are the books b with sale d replaced by a new invoice of a total, to
\* which the credits of its family have been applied; c are the books before
\* those were
Replacing(b, r, d, total) ==
    LET k == Len(b.invoices) + 1
    IN  /\ Editable(b, d, TRUE)
        /\ \E u, v, c :
              /\ Replaced(b, u, v, r, d, k, total) /\ Linking(v, c, k)
              /\ r = AppliedAll(c, FamilyCredits(c, Family(b, d) \cup {k}), k)

\* That is what the transaction that replaces a sale does.
LEMMA ReplaceStepIs ==
    ASSUME NEW b, Sound(b), NEW r, ReplaceStep(b, r)
    PROVE  \E d \in DOMAIN b.invoices, total \in Amount : Replacing(b, r, d, total)
<1>1. PICK d \in DOMAIN b.invoices, total \in Amount, link \in BOOLEAN :
        /\ Editable(b, d, TRUE)
        /\ LET replacement == Len(b.invoices) + 1
               posted == InvoicePosted(Undone(b, d, replacement, total),
                                       total, d, link)
               family == Family(b, d) \cup {replacement}
           IN  r = AppliedAll(posted, FamilyCredits(posted, family), replacement)
    BY DEF ReplaceStep
<1>. DEFINE k == Len(b.invoices) + 1
            c == InvoicePosted(Undone(b, d, k, total), total, d, link)
            S == FamilyCredits(c, Family(b, d) \cup {k})
<1>2. S \subseteq UnusedAdvances(c)
    BY DEF FamilyCredits
<1>3. r = AppliedAll(c, S, k)
    BY <1>1
<1>4. k = Len(b.invoices) + 1 /\ c = InvoicePosted(Undone(b, d, k, total), total, d, link)
    OBVIOUS
<1>5. S = FamilyCredits(c, Family(b, d) \cup {k})
    OBVIOUS
<1>. HIDE DEF k, c, S
<1>6. PICK u, v : Replaced(b, u, v, r, d, k, total) /\ Linking(v, c, k)
    BY <1>1, <1>2, <1>3, <1>4, ReplacedIs
<1>7. /\ Editable(b, d, TRUE)
      /\ Replaced(b, u, v, r, d, k, total) /\ Linking(v, c, k)
      /\ r = AppliedAll(c, FamilyCredits(c, Family(b, d) \cup {k}), k)
    BY <1>1, <1>3, <1>5, <1>6
<1>8. Replacing(b, r, d, total)
    BY <1>7 DEF Replacing, k
<1>. QED  BY <1>8

\* Every transaction lets the returns stand.
LEMMA StepReturns ==
    ASSUME NEW b, Sound(b), Tidy(b), ReturnsStand(b), NEW r, Step(b, r)
    PROVE  ReturnsStand(r)
<1>1. ASSUME NEW total \in Amount, NEW link \in BOOLEAN,
             r = InvoicePosted(b, total, 0, link)
      PROVE  ReturnsStand(r)
  <2>. DEFINE k == Len(b.invoices) + 1
              zero == 0
  <2>1. zero \in Nat /\ k = Len(b.invoices) + 1 /\ r = InvoicePosted(b, total, zero, link)
      BY <1>1
  <2>. HIDE DEF k, zero
  <2>2. PICK v : Entry(b, v, k, total, zero) /\ Linking(v, r, k)
      BY <2>1, PostingIs
  <2>. QED  BY <2>2, EntryReturns DEF Tidy
<1>2. ASSUME NEW d \in DOMAIN b.invoices, NEW amount \in Amount,
             NoteAccepted(b, d, amount), r = NotePosted(b, d, amount)
      PROVE  ReturnsStand(r)
    BY <1>2, NoteReturns
<1>3. ASSUME NEW s \in DOMAIN b.settlements, NEW d \in DOMAIN b.invoices,
             NEW amount \in Amount, ApplicationAccepted(b, s, d, amount),
             r = Applied(b, s, d, amount)
      PROVE  ReturnsStand(r)
  <2>1. amount \in Nat \ {0} /\ amount <= b.settlements[s].remaining
      BY <1>3, ReceivablesConstants DEF ApplicationAccepted
  <2>2. d \in Nat
    <3>1. b.invoices \in Seq(Invoice)
        BY DEF Sound, BooksType
    <3>. QED  BY <3>1
  <2>3. SameSales(b, r)
      BY <1>3, <2>1, <2>2, AppliedElsewhere
  <2>. QED  BY <2>3, SameSalesReturns
<1>4. CASE PaymentStep(b, r) \/ ClearStep(b, r) \/ ReturnStep(b, r)
    BY <1>4, PaymentsLeaveSales, SameSalesReturns
<1>5. CASE CancelStep(b, r)
    BY <1>5, CancelReturns
<1>6. CASE ReplaceStep(b, r)
  <2>. DEFINE k == Len(b.invoices) + 1
  <2>1. PICK d \in DOMAIN b.invoices, total \in Amount : Replacing(b, r, d, total)
      BY <1>6, ReplaceStepIs
  <2>2. PICK u, v : Replaced(b, u, v, r, d, k, total)
      BY <2>1 DEF Replacing
  <2>. HIDE DEF k
  <2>. QED  BY <2>2, ReplacedReturns
<1>7. CASE ReverseStep(b, r)
    BY <1>7, ReverseReturns
<1>. QED  BY <1>1, <1>2, <1>3, <1>4, <1>5, <1>6, <1>7 DEF Step

-----------------------------------------------------------------------------
(* The documents show what is owed.                                        *)

\* the books of a customer, as far as what is owed depends on them
SettledBooks == Settled(Books) /\ Len(invoices) <= MaxInvoices

\* They are settled at the beginning.
LEMMA SettledInit == Init => SettledBooks
<1> SUFFICES ASSUME Init PROVE SettledBooks
    OBVIOUS
<1>1. IInv
    BY IInvInit
<1>2. /\ DOMAIN Books.invoices = {} /\ DOMAIN Books.notes = {}
      /\ DOMAIN Books.settlements = {} /\ DOMAIN Books.applications = {}
      /\ DOMAIN Books.carries = {}
    BY EmptyBooks
<1>3. Running(Books) /\ Placed(Books) /\ NetsZero(Books) /\ NoneOverpaid(Books)
    BY <1>2 DEF Running, Placed, NetsZero, NoneOverpaid
<1>4. ReleasedOnce(Books) /\ ReturnsStand(Books)
    BY <1>2 DEF ReleasedOnce, ReturnsStand, PostedNotes
<1>. QED  BY <1>1, <1>3, <1>4 DEF IInv, Settled, SettledBooks

\* Every step keeps them so.
LEMMA SettledNext == SettledBooks /\ [Next]_vars => SettledBooks'
<1> SUFFICES ASSUME SettledBooks, [Next]_vars PROVE SettledBooks'
    OBVIOUS
<1>. DEFINE X == {b \in BooksType :
                    /\ Running(b) /\ Placed(b) /\ NetsZero(b) /\ NoneOverpaid(b)
                    /\ ReleasedOnce(b)}
<1>1. Settled(Books) /\ IInv
    BY DEF SettledBooks, Settled, IInv
<1>2. Books \in X
    BY <1>1 DEF Settled, Sound
<1>3. Within(X)
  <2>1. ASSUME NEW b \in X, NEW r, Sound(b), Move(b, r)
        PROVE  r \in X
    <3>1. Sound(r) /\ r \in BooksType
        BY <2>1, MoveKept DEF Sound
    <3>2. Running(r) /\ NetsZero(r) /\ NoneOverpaid(r)
        BY <2>1, MoveClaims, MoveNetsZero, MoveNoneOverpaid
    <3>3. Placed(r) /\ ReleasedOnce(r)
        BY <2>1, <3>1, MovePlaced, MoveReleasedOnce
    <3>. QED  BY <3>1, <3>2, <3>3
  <2>. QED  BY <2>1 DEF Within
<1>4. Books' \in X
  <2>. HIDE DEF X
  <2>. QED  BY <1>1, <1>2, <1>3, NextWithin
<1>5. IInv'
    BY <1>1, IInvNext
<1>6. ReturnsStand(Books')
  <2>1. CASE Next
    <3>1. Step(Books, Books')
        BY <1>1, <2>1, NextIs
    <3>. QED  BY <1>1, <3>1, StepReturns DEF Settled
  <2>2. CASE UNCHANGED vars
    <3>1. Books' = Books
        BY <2>2 DEF vars, Books
    <3>. QED  BY <1>1, <3>1 DEF Settled
  <2>. QED  BY <2>1, <2>2
<1>7. Settled(Books')
    BY <1>4, <1>5, <1>6 DEF IInv, Settled
<1>. QED  BY <1>5, <1>7 DEF IInv, SettledBooks

\* They are settled in all states.
LEMMA BooksSettled == Spec => []SettledBooks
BY SettledInit, SettledNext, PTL DEF Spec

\* The outstanding amounts of the single documents, less the unused advances,
\* are the balance of the customer, but for what is stranded on documents
\* whose journal was reversed by hand.
THEOREM DocumentsShowTheBalance == Spec => []OwedAgrees
<1>1. SettledBooks => OwedAgrees
    BY OwedIsShown DEF SettledBooks, OwedAgrees, Stranded, StrandedOn
<1>. QED  BY <1>1, BooksSettled, PTL

-----------------------------------------------------------------------------
(* What the replacing of a sale changes.                                   *)

\* The replacing of a sale, and no other transaction, makes a live sale a
\* revised one.
LEMMA RevisedBy ==
    ASSUME NEW b, Sound(b), NEW r, Step(b, r), NEW d \in DOMAIN b.invoices,
           b.invoices[d].state = "LIVE", r.invoices[d].state = "REVISED"
    PROVE  \E total \in Amount : Replacing(b, r, d, total)
<1>1. ASSUME NEW total \in Amount, NEW link \in BOOLEAN,
             r = InvoicePosted(b, total, 0, link)
      PROVE  FALSE
  <2>. DEFINE k == Len(b.invoices) + 1
              zero == 0
  <2>1. zero \in Nat /\ k = Len(b.invoices) + 1 /\ r = InvoicePosted(b, total, zero, link)
      BY <1>1
  <2>. HIDE DEF k, zero
  <2>2. PICK v : Entry(b, v, k, total, zero) /\ Linking(v, r, k)
      BY <2>1, PostingIs
  <2>. QED  BY <2>2 DEF Entry, Linking, SameSales
<1>2. ASSUME NEW e \in DOMAIN b.invoices, NEW amount \in Amount,
             r = NotePosted(b, e, amount)
      PROVE  FALSE
  <2>1. e \in Nat
    <3>1. b.invoices \in Seq(Invoice)
        BY DEF Sound, BooksType
    <3>. QED  BY <3>1
  <2>2. SameBut(r, b, {"notes"})
      BY <1>2, <2>1, NoteIs DEF Sound
  <2>. QED  BY <2>2 DEF SameBut
<1>3. ASSUME NEW s \in DOMAIN b.settlements, NEW e \in DOMAIN b.invoices,
             NEW amount \in Amount, ApplicationAccepted(b, s, e, amount),
             r = Applied(b, s, e, amount)
      PROVE  FALSE
  <2>1. amount \in Nat \ {0} /\ amount <= b.settlements[s].remaining
      BY <1>3, ReceivablesConstants DEF ApplicationAccepted
  <2>2. e \in Nat
    <3>1. b.invoices \in Seq(Invoice)
        BY DEF Sound, BooksType
    <3>. QED  BY <3>1
  <2>3. SameSales(b, r)
      BY <1>3, <2>1, <2>2, AppliedElsewhere
  <2>. QED  BY <2>3 DEF SameSales
<1>4. CASE PaymentStep(b, r) \/ ClearStep(b, r) \/ ReturnStep(b, r)
    BY <1>4, PaymentsLeaveSales DEF SameSales
<1>5. CASE CancelStep(b, r)
  <2>1. PICK e \in DOMAIN b.invoices :
            /\ Editable(b, e, FALSE)
            /\ LET c == WhollyCredited(b, e)
               IN  r = [c EXCEPT !.invoices[e].state = "CANCELLED",
                                 !.invoices[e].correction = Len(c.notes)]
      BY <1>5 DEF CancelStep
  <2>. DEFINE w == WhollyCredited(b, e)
  <2>2. Posted(b.invoices[e])
      BY <2>1 DEF Editable
  <2>3. r = [w EXCEPT !.invoices[e].state = "CANCELLED",
                      !.invoices[e].correction = Len(w.notes)]
      BY <2>1
  <2>4. "CANCELLED" \in {"CANCELLED", "REVISED"}
      OBVIOUS
  <2>5. Credited(b, r, e) /\ r.invoices[e].state = "CANCELLED"
      BY ONLY <2>2, <2>3, <2>4, Sound(b), e \in DOMAIN b.invoices, CreditedIs
  <2>. QED  BY <2>5 DEF Credited, Undid
<1>6. CASE ReverseStep(b, r)
  <2>1. PlainMove(b, r) /\ Onto(b, r)
      BY <1>6, ReverseStepIs
  <2>2. CASE \E e \in DOMAIN b.invoices :
                r = InvoiceSet(b, e, Turn(b.invoices[e]), Flip(b.invoices[e]))
    <3>1. PICK e \in DOMAIN b.invoices :
                r = InvoiceSet(b, e, Turn(b.invoices[e]), Flip(b.invoices[e]))
        BY <2>2
    <3>2. /\ b.invoices \in Seq(Invoice) /\ b.invoices[e] \in Invoice
          /\ b \in BooksType
        BY OutstandingType DEF Sound, BooksType
    <3>3. r.invoices = [b.invoices EXCEPT ![e] = Turn(b.invoices[e])]
        BY <3>1, <3>2 DEF InvoiceSet, Journal, BooksType
    <3>4. Turn(b.invoices[e]).state = b.invoices[e].state
        BY <3>2 DEF Turn, Invoice
    <3>5. r.invoices[d].state = b.invoices[d].state
        BY <3>2, <3>3, <3>4
    <3>. QED  BY <3>5
  <2>3. CASE \E n \in DOMAIN b.notes :
                r = NoteSet(b, n, Turn(b.notes[n]), -Flip(b.notes[n]))
    <3>1. r.invoices = b.invoices
        BY <2>3 DEF NoteSet, Journal, Sound, BooksType
    <3>. QED  BY <3>1
  <2>. QED  BY <1>6, <2>2, <2>3 DEF ReverseStep
<1>7. CASE ReplaceStep(b, r)
  <2>. DEFINE k == Len(b.invoices) + 1
  <2>1. PICK e \in DOMAIN b.invoices, total \in Amount : Replacing(b, r, e, total)
      BY <1>7, ReplaceStepIs
  <2>2. PICK u, v : Replaced(b, u, v, r, e, k, total)
      BY <2>1 DEF Replacing
  <2>3. e = d
    <3>1. \A i \in DOMAIN b.invoices : i # e => r.invoices[i] = b.invoices[i]
        BY <2>2 DEF Replaced, Credited, Revised, Undid, Entry, Linking, SameSales
    <3>. QED  BY <3>1
  <2>. QED  BY <2>1, <2>3
<1>. QED  BY <1>1, <1>2, <1>3, <1>4, <1>5, <1>6, <1>7 DEF Step

\* What a customer owes for documents and payments is a whole number, the
\* reinstated documents natural ones.
LEMMA PartyBalanceType ==
    ASSUME NEW b, Sound(b)
    PROVE  /\ PartyBalance(b) \in Int
           /\ Reinstated(b.invoices) \in Int /\ Reinstated(b.notes) \in Int
<1>1. /\ b.invoices \in Seq(Invoice) /\ Invoice \in {Invoice, Note}
      /\ b.notes \in Seq(Note) /\ Note \in {Invoice, Note}
    BY DEF Sound, BooksType
<1>. DEFINE posted == SumFunction([d \in PostedInvoices(b) |-> b.invoices[d].total])
            noted == SumFunction([n \in PostedNotes(b) |-> b.notes[n].total])
            received == SumFunction([s \in Received(b) |-> b.settlements[s].amount
                                            + DiscountOf(b.settlements[s])])
            taken == SumFunction([s \in ReceiptCredits(b) |-> DiscountTakenBack(b, s)])
<1>2. posted \in Int /\ Reinstated(b.invoices) \in Int
  <2>. DEFINE q == b.invoices
              S == {i \in DOMAIN q : Posted(q[i])}
  <2>1. Reinstated(q) \in Nat /\ SumFunction([i \in S |-> q[i].total]) \in Nat
      BY <1>1, InForceIs
  <2>2. PostedInvoices(b) = S
      BY DEF PostedInvoices
  <2>. QED  BY <2>1, <2>2
<1>3. noted \in Int /\ Reinstated(b.notes) \in Int
  <2>. DEFINE q == b.notes
              S == {i \in DOMAIN q : Posted(q[i])}
  <2>1. Reinstated(q) \in Nat /\ SumFunction([i \in S |-> q[i].total]) \in Nat
      BY <1>1, InForceIs
  <2>2. PostedNotes(b) = S
      BY DEF PostedNotes
  <2>. QED  BY <2>1, <2>2
<1>4. received \in Int /\ taken \in Int
    BY PaymentSums, BalanceType
<1>5. PartyBalance(b) = posted - noted - received + taken
    BY DEF PartyBalance, PartyBalanceKeepingDiscounts
<1>. HIDE DEF posted, noted, received, taken
<1>. QED  BY <1>2, <1>3, <1>4, <1>5

\* The replacing of a sale leaves the reinstated documents.
LEMMA ReplacedReinstates ==
    ASSUME NEW b, Sound(b), NEW d \in DOMAIN b.invoices,
           NEW u, NEW v, NEW r, NEW k, NEW total, Replaced(b, u, v, r, d, k, total)
    PROVE  /\ Reinstated(r.invoices) = Reinstated(b.invoices)
           /\ Reinstated(r.notes) = Reinstated(b.notes)
<1>1. /\ Posted(b.invoices[d]) /\ Entry(u, v, k, total, d) /\ Linking(v, r, k)
    BY DEF Replaced
<1>2. /\ Undid(b, u, d)
      /\ Posted(u.invoices[d]) \/ u.invoices[d].reversals = 1
    BY DEF Replaced, Credited, Revised
<1>3. /\ DOMAIN r.invoices = DOMAIN b.invoices \cup {k} /\ k \notin DOMAIN b.invoices
      /\ \A e \in DOMAIN b.invoices : e # d => r.invoices[e] = b.invoices[e]
      /\ Posted(r.invoices[k])
      /\ Posted(r.invoices[d]) \/ ~InForce(r.invoices[d])
    BY <1>1, <1>2 DEF Undid, Entry, Linking, SameSales, Posted, InForce
<1>4. Reinstated(r.invoices) = Reinstated(b.invoices)
  <2>. DEFINE A == {i \in DOMAIN b.invoices : InForce(b.invoices[i]) /\ ~Posted(b.invoices[i])}
              B == {i \in DOMAIN r.invoices : InForce(r.invoices[i]) /\ ~Posted(r.invoices[i])}
  <2>1. A = B
      BY <1>1, <1>3
  <2>2. \A i \in A : r.invoices[i] = b.invoices[i]
      BY <1>1, <1>3
  <2>3. [i \in A |-> b.invoices[i].total] = [i \in B |-> r.invoices[i].total]
      BY <2>1, <2>2
  <2>. QED  BY <2>3 DEF Reinstated
<1>5. Reinstated(r.notes) = Reinstated(b.notes)
  <2>. DEFINE A == {i \in DOMAIN b.notes : InForce(b.notes[i]) /\ ~Posted(b.notes[i])}
              B == {i \in DOMAIN r.notes : InForce(r.notes[i]) /\ ~Posted(r.notes[i])}
              note == [source |-> d, total |-> b.invoices[d].total, reversals |-> 0]
              j == Len(b.notes) + 1
  <2>1. r.notes = u.notes
      BY <1>1 DEF Entry, Linking, SameSales, SameBut
  <2>2. CASE u.notes = b.notes
      BY <2>1, <2>2
  <2>3. CASE u.notes = Append(b.notes, note)
    <3>1. b.notes \in Seq(Note) /\ Posted(note)
        BY DEF Sound, BooksType, Posted
    <3>. HIDE DEF note
    <3>2. /\ DOMAIN r.notes = DOMAIN b.notes \cup {j} /\ r.notes[j] = note
          /\ \A n \in DOMAIN b.notes : r.notes[n] = b.notes[n]
        BY <2>1, <2>3, <3>1, RowAdded
    <3>3. A = B
        BY <3>1, <3>2
    <3>4. [i \in A |-> b.notes[i].total] = [i \in B |-> r.notes[i].total]
        BY <3>2, <3>3
    <3>. QED  BY <3>4 DEF Reinstated
  <2>. QED  BY <2>2, <2>3 DEF Replaced, Credited, Revised
<1>. QED  BY <1>4, <1>5

\* The same payments are worth the same.
LEMMA SamePaidSame ==
    ASSUME NEW b, NEW r, Kept(b, r), NEW e,
           EffectiveAllocations(r, e) = EffectiveAllocations(b, e),
           EffectiveApplications(r, e) = EffectiveApplications(b, e)
    PROVE  Paid(r, e) = Paid(b, e)
<1>1. [s \in EffectiveAllocations(r, e) |-> r.settlements[s].allocations[e].amount]
      = [s \in EffectiveAllocations(b, e) |-> b.settlements[s].allocations[e].amount]
    BY DEF Kept, SameRow, EffectiveAllocations
<1>2. [a \in EffectiveApplications(r, e) |-> r.applications[a].amount]
      = [a \in EffectiveApplications(b, e) |-> b.applications[a].amount]
    BY DEF Kept, EffectiveApplications
<1>. QED  BY <1>1, <1>2 DEF Paid

\* What is paid for a sale, but for the two of the replacement, stays.
LEMMA ReplacedPaid ==
    ASSUME NEW b, NEW d, NEW u, NEW v, NEW r, NEW k, NEW total,
           Replaced(b, u, v, r, d, k, total)
    PROVE  Onto(b, r) /\ SamePaidBut(b, r, {d, k})
<1>1. Undid(b, u, d) /\ Entry(u, v, k, total, d) /\ Linking(v, r, k)
    BY DEF Replaced, Credited, Revised
<1>2. SamePaidBut(u, v, {})
    BY <1>1 DEF Entry, SameBut, SamePaidBut, EffectiveAllocations,
                EffectiveApplications, Effective, Released
<1>3. Onto(b, r)
    BY <1>1, OntoTransitive DEF Undid, Entry, Linking
<1>4. SamePaidBut(b, u, {d}) /\ SamePaidBut(v, r, {k})
    BY <1>1 DEF Undid, Linking
<1>5. SamePaidBut(b, r, {d, k})
    BY <1>2, <1>4 DEF SamePaidBut
<1>. QED  BY <1>3, <1>5

\* The replacing of a sale leaves what is stranded.
LEMMA ReplacedStrands ==
    ASSUME NEW b, Sound(b), NEW d \in DOMAIN b.invoices,
           NEW u, NEW v, NEW r, NEW k, NEW total, Replaced(b, u, v, r, d, k, total)
    PROVE  StrandedOn(r) = StrandedOn(b)
<1>1. /\ Posted(b.invoices[d]) /\ Entry(u, v, k, total, d) /\ Linking(v, r, k)
      /\ Undid(b, u, d)
    BY DEF Replaced, Credited, Revised
<1>2. /\ DOMAIN r.invoices = DOMAIN b.invoices \cup {k} /\ k \notin DOMAIN b.invoices
      /\ \A e \in DOMAIN b.invoices : e # d => r.invoices[e] = b.invoices[e]
      /\ Posted(r.invoices[k]) /\ r.invoices[d].state # "LIVE"
    BY <1>1 DEF Undid, Entry, Linking, SameSales, Posted
<1>3. Onto(b, r) /\ SamePaidBut(b, r, {d, k})
    BY ReplacedPaid
<1>. DEFINE L == Live(b) \ PostedInvoices(b)
            M == Live(r) \ PostedInvoices(r)
<1>4. L = M
    BY <1>1, <1>2 DEF Live, PostedInvoices
<1>5. \A e \in L : e \in DOMAIN b.invoices /\ e # d /\ e # k
    BY <1>1, <1>2 DEF Live, PostedInvoices
<1>. HIDE DEF L, M
<1>6. ASSUME NEW e \in L PROVE Paid(r, e) = Paid(b, e)
  <2>1. /\ EffectiveAllocations(r, e) = EffectiveAllocations(b, e)
        /\ EffectiveApplications(r, e) = EffectiveApplications(b, e)
        /\ Kept(b, r)
      BY <1>3, <1>5 DEF SamePaidBut, Onto
  <2>. QED  BY <2>1, SamePaidSame
<1>7. ASSUME NEW e \in L PROVE Noted(r, e) = Noted(b, e)
  <2>. DEFINE A == NotesOf(b, e) \cap PostedNotes(b)
              B == NotesOf(r, e) \cap PostedNotes(r)
              note == [source |-> d, total |-> b.invoices[d].total, reversals |-> 0]
              j == Len(b.notes) + 1
  <2>1. r.notes = u.notes
      BY <1>1 DEF Entry, Linking, SameSales, SameBut
  <2>2. CASE u.notes = b.notes
      BY <2>1, <2>2 DEF Noted, NotesOf, PostedNotes
  <2>3. CASE u.notes = Append(b.notes, note)
    <3>1. b.notes \in Seq(Note) /\ note.source = d
        BY DEF Sound, BooksType
    <3>. HIDE DEF note
    <3>2. /\ DOMAIN r.notes = DOMAIN b.notes \cup {j} /\ r.notes[j] = note
          /\ \A n \in DOMAIN b.notes : r.notes[n] = b.notes[n]
        BY <2>1, <2>3, <3>1, RowAdded
    <3>. HIDE DEF j
    <3>3. r.notes[j].source # e
        BY <1>5, <3>1, <3>2
    <3>4. A = B
        BY <3>2, <3>3 DEF NotesOf, PostedNotes
    <3>5. [n \in A |-> b.notes[n].total] = [n \in B |-> r.notes[n].total]
        BY <3>2, <3>4 DEF NotesOf
    <3>. QED  BY <3>5 DEF Noted
  <2>. QED  BY <2>2, <2>3 DEF Replaced, Credited, Revised
<1>8. [e \in M |-> Paid(r, e) + Noted(r, e)] = [e \in L |-> Paid(b, e) + Noted(b, e)]
    BY <1>4, <1>6, <1>7
<1>. QED  BY <1>8 DEF StrandedOn, L, M

\* The books of the customer show the balance that party-balance.ts computes.
ShowsBalance(b) ==
    Due(b) = PartyBalance(b) + Reinstated(b.invoices) - Reinstated(b.notes)

\* The replacing of a sale changes what is owed by the difference of the
\* totals, and by the discounts it takes back.
LEMMA ReplacedOwes ==
    ASSUME NEW b, Settled(b), ShowsBalance(b), NEW d \in DOMAIN b.invoices,
           NEW u, NEW v, NEW r, Settled(r), ShowsBalance(r), NEW k, NEW total \in Amount,
           Replaced(b, u, v, r, d, k, total)
    PROVE  Owed(r) - Owed(b) = total - b.invoices[d].total + DiscountsOn(b, d)
<1>1. Sound(b) /\ Sound(r)
    BY DEF Settled
<1>2. Owed(b) = PartyBalance(b) + StrandedOn(b) /\ Owed(r) = PartyBalance(r) + StrandedOn(r)
    BY OwedIsShown
<1>3. StrandedOn(r) = StrandedOn(b)
    BY <1>1, ReplacedStrands
<1>4. StrandedOn(b) \in Int
    BY DocumentSums, DocumentsShow
<1>5. /\ Reinstated(r.invoices) = Reinstated(b.invoices)
      /\ Reinstated(r.notes) = Reinstated(b.notes)
    BY <1>1, ReplacedReinstates
<1>6. /\ PartyBalance(b) \in Int /\ PartyBalance(r) \in Int
      /\ Reinstated(b.invoices) \in Int /\ Reinstated(b.notes) \in Int
    BY <1>1, PartyBalanceType
<1>7. Due(r) = Due(b) + DiscountsOn(b, d) - b.invoices[d].total + total
  <2>1. Undid(b, u, d) /\ Entry(u, v, k, total, d) /\ Linking(v, r, k)
      BY DEF Replaced, Credited, Revised
  <2>. QED  BY <2>1 DEF Undid, Entry, Linking
<1>8. /\ Due(b) \in Int /\ DiscountsOn(b, d) \in Int /\ b.invoices[d].total \in Int
      /\ total \in Int
    BY <1>1, BalanceType, ClaimSums, OutstandingType, ReceivablesConstants DEF Sound
<1>9. /\ Due(b) = PartyBalance(b) + Reinstated(b.invoices) - Reinstated(b.notes)
      /\ Due(r) = PartyBalance(r) + Reinstated(b.invoices) - Reinstated(b.notes)
    BY <1>5 DEF ShowsBalance
<1>. QED  BY ONLY <1>2, <1>3, <1>4, <1>6, <1>7, <1>8, <1>9

\* The invoice that replaces a sale is the last one.
LEMMA ReplacedLast ==
    ASSUME NEW b, Sound(b), NEW d \in DOMAIN b.invoices, NEW u, NEW v,
           NEW r, Sound(r), NEW k, NEW total, Replaced(b, u, v, r, d, k, total)
    PROVE  Len(r.invoices) = k /\ r.invoices[k].total = total
<1>1. Entry(u, v, k, total, d) /\ Linking(v, r, k) /\ Undid(b, u, d)
    BY DEF Replaced, Credited, Revised
<1>2. /\ DOMAIN r.invoices = DOMAIN b.invoices \cup {k} /\ k \notin DOMAIN b.invoices
      /\ r.invoices[k].total = total
    BY <1>1 DEF Entry, Linking, SameSales, Undid
<1>3. r.invoices \in Seq(Invoice) /\ b.invoices \in Seq(Invoice)
    BY DEF Sound, BooksType
<1>4. /\ DOMAIN b.invoices = 1..Len(b.invoices) /\ Len(b.invoices) \in Nat
      /\ DOMAIN r.invoices = 1..Len(r.invoices) /\ Len(r.invoices) \in Nat
    BY ONLY <1>3, TableRows
<1>. DEFINE m == Len(b.invoices)
            n == Len(r.invoices)
<1>. HIDE DEF m, n
<1>5. m \in Nat /\ n \in Nat /\ 1..n = 1..m \cup {k} /\ k \notin 1..m
    BY <1>2, <1>4 DEF m, n
<1>6. k \in 1..n /\ m < k
    BY <1>5
<1>7. n \in 1..n /\ n \notin 1..m
    BY <1>5, <1>6
<1>8. n = k
    BY <1>5, <1>7
<1>. QED  BY <1>2, <1>8 DEF n

\* Replacing a sale changes what the customer owes by the difference of the
\* two totals and by the discounts that the correction takes back, whatever
\* was paid, returned or applied before.
THEOREM ReplacementsOweTheDifference == Spec => ReplacementOwesTheDifference
<1>1. ASSUME SettledBooks, SettledBooks', PartyBalanceAgrees, PartyBalanceAgrees',
             [Next]_vars,
             NEW d \in DOMAIN invoices,
             invoices[d].state = "LIVE", invoices'[d].state = "REVISED"
      PROVE  Owed(Books') - Owed(Books)
                = invoices'[Len(invoices')].total - invoices[d].total
                  + DiscountsOn(Books, d)
  <2>. DEFINE k == Len(Books.invoices) + 1
  <2>1. Books.invoices = invoices /\ Books'.invoices = invoices'
      BY DEF Books
  <2>2. Next
      BY <1>1 DEF vars
  <2>3. Settled(Books) /\ Settled(Books') /\ IInv
      BY <1>1 DEF SettledBooks, Settled, IInv
  <2>4. Step(Books, Books')
      BY <2>2, <2>3, NextIs
  <2>5. PICK total \in Amount : \E u, v : Replaced(Books, u, v, Books', d, k, total)
    <3>1. \E total \in Amount : Replacing(Books, Books', d, total)
        BY <1>1, <2>1, <2>3, <2>4, RevisedBy DEF Settled
    <3>. QED  BY <3>1 DEF Replacing
  <2>. HIDE DEF k
  <2>6. PICK u, v : Replaced(Books, u, v, Books', d, k, total)
      BY <2>5
  <2>7. ShowsBalance(Books) /\ ShowsBalance(Books')
      BY <1>1 DEF ShowsBalance, PartyBalanceAgrees, Due, Books
  <2>8. Sound(Books) /\ Sound(Books') /\ d \in DOMAIN Books.invoices
      BY <2>1, <2>3 DEF Settled
  <2>9. Owed(Books') - Owed(Books)
            = total - Books.invoices[d].total + DiscountsOn(Books, d)
      BY <2>3, <2>6, <2>7, <2>8, ReplacedOwes
  <2>10. Len(Books'.invoices) = k /\ Books'.invoices[k].total = total
      BY <2>6, <2>8, ReplacedLast
  <2>. QED  BY <2>1, <2>9, <2>10
<1>2. SettledBooks /\ SettledBooks' /\ PartyBalanceAgrees /\ PartyBalanceAgrees'
      /\ [Next]_vars
      => [\A d \in DOMAIN invoices :
             invoices[d].state = "LIVE" /\ invoices'[d].state = "REVISED" =>
               Owed(Books') - Owed(Books) =
                   invoices'[Len(invoices')].total - invoices[d].total
                   + DiscountsOn(Books, d)]_vars
    BY <1>1
<1>. QED  BY <1>2, BooksSettled, LedgerShowsPartyBalance, PTL
          DEF Spec, ReplacementOwesTheDifference

-----------------------------------------------------------------------------
(* What the credits of a corrected sale pay.                               *)

\* An application pays its amount of the document, and takes it from the
\* advance.
LEMMA AppliedPays ==
    ASSUME NEW c, Sound(c), NEW s \in DOMAIN c.settlements,
           NEW d \in DOMAIN c.invoices, NEW amount \in Nat \ {0},
           amount <= c.settlements[s].remaining, amount <= Outstanding(c, d),
           c.settlements[s].status = "POSTED",
           NEW r, r = Applied(c, s, d, amount)
    PROVE  /\ Outstanding(r, d) = Outstanding(c, d) - amount
           /\ DOMAIN r.settlements = DOMAIN c.settlements
           /\ r.settlements[s].remaining = c.settlements[s].remaining - amount
           /\ \A t \in DOMAIN c.settlements : t # s => r.settlements[t] = c.settlements[t]
<1>. DEFINE row == [advance |-> s, document |-> d, amount |-> amount,
                    journal |-> "POSTED"]
            j == Len(c.applications) + 1
<1>0. /\ c.settlements \in Seq(Settlement) /\ c.applications \in Seq(Application)
      /\ c \in BooksType /\ d \in Nat
  <2>1. c.invoices \in Seq(Invoice) /\ c.settlements \in Seq(Settlement)
        /\ c.applications \in Seq(Application) /\ c \in BooksType
      BY DEF Sound, BooksType
  <2>. QED  BY <2>1
<1>1. /\ r \in BooksType
      /\ SameBut(r, c, {"settlements", "applications"})
      /\ r.settlements = AdvanceDrawn(c, s, amount)
      /\ r.applications = Append(c.applications, row)
    BY <1>0, AppliedIs
<1>2. /\ row.document = d /\ row.advance = s /\ row.journal = "POSTED"
      /\ row.amount = amount
    OBVIOUS
<1>. HIDE DEF row
<1>3. /\ DOMAIN r.applications = DOMAIN c.applications \cup {j}
      /\ j \notin DOMAIN c.applications
      /\ \A a \in DOMAIN c.applications : r.applications[a] = c.applications[a]
      /\ r.applications[j] = row
    BY <1>0, <1>1, RowAdded
<1>. HIDE DEF j
<1>4. /\ DOMAIN r.settlements = DOMAIN c.settlements
      /\ \A t \in DOMAIN c.settlements : t # s => r.settlements[t] = c.settlements[t]
      /\ r.settlements[s] = [c.settlements[s] EXCEPT !.remaining = @ - amount]
    BY <1>0, <1>1 DEF AdvanceDrawn
<1>5. \A t \in DOMAIN c.settlements : c.settlements[t] \in Settlement
    BY <1>0
<1>6. /\ r.settlements[s].status = c.settlements[s].status
      /\ r.settlements[s].allocations = c.settlements[s].allocations
      /\ r.settlements[s].origin = c.settlements[s].origin
      /\ r.settlements[s].remaining = c.settlements[s].remaining - amount
    BY <1>4, <1>5 DEF Settlement
<1>7. \A t \in DOMAIN c.settlements :
            /\ r.settlements[t].status = c.settlements[t].status
            /\ r.settlements[t].allocations = c.settlements[t].allocations
            /\ r.settlements[t].origin = c.settlements[t].origin
    BY <1>4, <1>6
<1>8. EffectiveAllocations(r, d) = EffectiveAllocations(c, d)
    BY <1>4, <1>7 DEF EffectiveAllocations, Effective, Released
<1>9. \A o : Released(r, o) <=> Released(c, o)
    BY <1>4, <1>7 DEF Released
<1>10. ~Released(r, <<"APPLICATION", j>>)
  <2> SUFFICES ASSUME NEW t \in DOMAIN c.settlements,
                      c.settlements[t].origin = <<"APPLICATION", j>>
               PROVE  FALSE
      BY <1>9 DEF Released
  <2>1. RowLinked(c, c.settlements[t])
      BY DEF Sound, Linked
  <2>2. OriginLinked(c, c.settlements[t].origin)
      BY <2>1 DEF RowLinked
  <2>. QED  BY <1>3, <2>2 DEF OriginLinked
<1>11. EffectiveApplications(r, d) = EffectiveApplications(c, d) \cup {j}
  <2>1. \A a \in DOMAIN c.applications :
            Effective(r, c.applications[a].advance)
                <=> Effective(c, c.applications[a].advance)
      BY <1>7 DEF Sound, Linked, ApplicationLinked, Effective
  <2>2. j \in EffectiveApplications(r, d)
      BY <1>2, <1>3, <1>6, <1>10 DEF EffectiveApplications, Effective
  <2>3. \A a \in DOMAIN c.applications :
            a \in EffectiveApplications(r, d) <=> a \in EffectiveApplications(c, d)
      BY <1>3, <1>9, <2>1 DEF EffectiveApplications
  <2>4. /\ EffectiveApplications(r, d) \subseteq DOMAIN c.applications \cup {j}
        /\ EffectiveApplications(c, d) \subseteq DOMAIN c.applications
      BY <1>3 DEF EffectiveApplications
  <2>. QED  BY <2>2, <2>3, <2>4
<1>12. PaidOff(r, d) = PaidOff(c, d)
    BY <1>7, <1>8 DEF PaidOff, EffectiveAllocations
<1>. DEFINE A == EffectiveApplications(c, d)
            f == UsedUp(c, d)
            g == UsedUp(r, d)
<1>13. /\ g[j] = amount /\ j \notin A /\ \A a \in A : g[a] = f[a]
    BY <1>2, <1>3, <1>11 DEF UsedUp, EffectiveApplications
<1>14. /\ IsFiniteSet(A) /\ \A a \in A : f[a] \in Nat
       /\ SumFunctionOnSet(f, A) \in Nat
       /\ SumFunctionOnSet(PaidOff(c, d), EffectiveAllocations(c, d)) \in Nat
       /\ Paid(c, d) = SumFunctionOnSet(PaidOff(c, d), EffectiveAllocations(c, d))
                         + SumFunctionOnSet(f, A)
    BY <1>0, PaidIs
<1>15. Paid(r, d) = SumFunctionOnSet(PaidOff(r, d), EffectiveAllocations(r, d))
                      + SumFunctionOnSet(g, EffectiveApplications(r, d))
    BY <1>1, PaidIs
<1>. HIDE DEF A, f, g
<1>16. SumFunctionOnSet(g, A \cup {j}) = amount + SumFunctionOnSet(f, A)
  <2>1. /\ IsFiniteSet(A \cup {j}) /\ \A a \in A \cup {j} : g[a] \in Int
        /\ (A \cup {j}) \ {j} = A
      BY <1>13, <1>14, FS_AddElement
  <2>2. SumFunctionOnSet(g, A \cup {j}) = g[j] + SumFunctionOnSet(g, (A \cup {j}) \ {j})
      BY <2>1, SumRemove
  <2>3. SumFunctionOnSet(g, A) = SumFunctionOnSet(f, A)
      BY <1>13, <1>14, SumSame
  <2>. QED  BY <1>13, <2>1, <2>2, <2>3
<1>17. Paid(r, d) = Paid(c, d) + amount
  <2>1. EffectiveApplications(r, d) = A \cup {j}
      BY <1>11 DEF A
  <2>. DEFINE x == SumFunctionOnSet(PaidOff(c, d), EffectiveAllocations(c, d))
              y == SumFunctionOnSet(f, A)
  <2>2. x \in Nat /\ y \in Nat /\ Paid(c, d) = x + y /\ Paid(r, d) = x + (amount + y)
      BY <1>8, <1>12, <1>14, <1>15, <1>16, <2>1
  <2>. HIDE DEF x, y
  <2>. QED  BY <2>2
<1>18. r.invoices = c.invoices /\ r.notes = c.notes /\ r.carries = c.carries
    BY <1>1 DEF SameBut
<1>19. Noted(r, d) = Noted(c, d) /\ Carried(r, d) = Carried(c, d)
    BY <1>18 DEF Noted, NotesOf, PostedNotes, Carried, CarriesTo
<1>20. ~Retired(c, d) /\ ~Retired(r, d)
  <2>1. Outstanding(c, d) # 0
      BY <1>0, OutstandingType
  <2>2. ~Retired(c, d)
      BY <2>1 DEF Outstanding
  <2>. QED  BY <1>18, <2>2 DEF Retired
<1>21. Outstanding(r, d) = Outstanding(c, d) - amount
  <2>. DEFINE T == c.invoices[d].total
              x == Noted(c, d)
              y == Carried(c, d)
              z == Paid(c, d)
  <2>1. /\ Outstanding(c, d) = T - x - y - z
        /\ Outstanding(r, d) = T - x - y - (z + amount)
      BY <1>17, <1>18, <1>19, <1>20 DEF Outstanding, BatchOutstanding
  <2>2. x \in Int /\ y \in Int /\ z \in Int /\ T \in Int
      BY <1>0, ClaimSums, OutstandingType
  <2>. HIDE DEF T, x, y, z
  <2>. QED  BY <2>1, <2>2
<1>. QED  BY <1>4, <1>6, <1>21
\* the books e, in which the advances in P have been applied to invoice d of
\* books c: it is paid, or they are used up
UsedOn(c, e, d, P) ==
    /\ Onto(c, e)
    /\ DOMAIN e.settlements = DOMAIN c.settlements
    /\ \A s \in DOMAIN c.settlements :
            e.settlements[s].remaining <= c.settlements[s].remaining
    /\ Outstanding(e, d) <= 0 \/ \A s \in P : e.settlements[s].remaining = 0

\* One advance more is applied.
LEMMA UsedOnMore ==
    ASSUME NEW c, Sound(c), NEW d \in DOMAIN c.invoices,
           NEW P, P \subseteq DOMAIN c.settlements, NEW s \in UnusedAdvances(c),
           NEW e, UsedOn(c, e, d, P)
    PROVE  UsedOn(c, ApplyStep(e, s, d), d, P \cup {s})
<1>. DEFINE left == e.settlements[s].remaining
            open == Outstanding(e, d)
            amount == Lesser(left, open)
            r == ApplyStep(e, s, d)
<1>1. /\ Sound(e) /\ Kept(c, e) /\ Steady(c, e) /\ Onto(c, e)
      /\ DOMAIN e.settlements = DOMAIN c.settlements
      /\ open <= 0 \/ \A t \in P : e.settlements[t].remaining = 0
    BY DEF UsedOn, Onto
<1>2. /\ s \in DOMAIN e.settlements /\ s \in DOMAIN c.settlements
      /\ d \in DOMAIN e.invoices
      /\ e.settlements[s].type = "CUSTOMER_ADVANCE"
      /\ e.settlements[s].status = "POSTED"
    BY <1>1 DEF Kept, Steady, SameRow, UnusedAdvances, Effective
<1>3. /\ \A t \in DOMAIN c.settlements :
            e.settlements[t].remaining \in Nat /\ c.settlements[t].remaining \in Nat
      /\ open \in Int
  <2>1. c.settlements \in Seq(Settlement) /\ e.settlements \in Seq(Settlement)
      BY <1>1 DEF Sound, BooksType
  <2>2. \A t \in DOMAIN c.settlements :
            c.settlements[t] \in Settlement /\ e.settlements[t] \in Settlement
      BY <1>1, <2>1
  <2>3. open \in Int
      BY <1>1, <1>2, OutstandingType DEF Sound
  <2>. HIDE DEF open
  <2>. QED  BY <2>2, <2>3 DEF Settlement
<1>4. left \in Nat
    BY <1>2, <1>3
<1>5. CASE amount > 0
  <2>1. /\ amount \in Nat \ {0} /\ amount <= left /\ amount <= open
        /\ amount = left \/ amount = open
    <3>. HIDE DEF left, open
    <3>. QED  BY <1>3, <1>4, <1>5 DEF Lesser
  <2>2. r = Applied(e, s, d, amount)
      BY <1>5 DEF ApplyStep
  <2>. HIDE DEF amount, r
  <2>3. /\ Outstanding(r, d) = open - amount
        /\ DOMAIN r.settlements = DOMAIN e.settlements
        /\ r.settlements[s].remaining = left - amount
        /\ \A t \in DOMAIN e.settlements : t # s => r.settlements[t] = e.settlements[t]
      BY <1>1, <1>2, <2>1, <2>2, AppliedPays
  <2>4. Onto(e, r)
      BY <1>1, <1>2, <2>1, <2>2, AppliedOnto
  <2>5. Onto(c, r)
      BY <1>1, <2>4, OntoTransitive
  <2>6. left <= c.settlements[s].remaining
      BY <1>2 DEF UsedOn
  <2>7. \A t \in DOMAIN c.settlements :
            r.settlements[t].remaining <= c.settlements[t].remaining
    <3>1. r.settlements[s].remaining <= c.settlements[s].remaining
      <4>. HIDE DEF left
      <4>. QED  BY <1>2, <1>3, <1>4, <2>1, <2>3, <2>6
    <3>2. \A t \in DOMAIN c.settlements : t # s =>
            r.settlements[t].remaining <= c.settlements[t].remaining
        BY <1>1, <2>3 DEF UsedOn
    <3>. QED  BY <3>1, <3>2
  <2>8. Outstanding(r, d) <= 0 \/ \A t \in P \cup {s} : r.settlements[t].remaining = 0
    <3>1. CASE amount = open
      <4>. HIDE DEF open
      <4>. QED  BY <1>3, <2>3, <3>1
    <3>2. CASE amount = left
      <4>1. r.settlements[s].remaining = 0
        <5>. HIDE DEF left
        <5>. QED  BY <1>4, <2>3, <3>2
      <4>2. open > 0
        <5>. HIDE DEF open
        <5>. QED  BY <1>3, <2>1
      <4>3. \A t \in P : e.settlements[t].remaining = 0
        <5>. HIDE DEF open
        <5>. QED  BY <1>1, <1>3, <4>2
      <4>4. \A t \in P : t # s => r.settlements[t].remaining = 0
          BY <1>1, <2>3, <4>3
      <4>. QED  BY <4>1, <4>4
    <3>. QED  BY <2>1, <3>1, <3>2
  <2>9. UsedOn(c, r, d, P \cup {s})
      BY <1>1, <2>3, <2>5, <2>7, <2>8 DEF UsedOn
  <2>. QED  BY <2>9 DEF r
<1>6. CASE ~(amount > 0)
  <2>1. r = e
      BY <1>6 DEF ApplyStep
  <2>2. open <= 0 \/ left = 0
    <3>. HIDE DEF left, open
    <3>. QED  BY <1>3, <1>4, <1>6 DEF Lesser
  <2>. HIDE DEF r, amount
  <2>3. open <= 0 \/ \A t \in P \cup {s} : e.settlements[t].remaining = 0
      BY <1>1, <2>2
  <2>4. UsedOn(c, e, d, P \cup {s})
      BY <2>3 DEF UsedOn
  <2>5. UsedOn(c, r, d, P \cup {s})
      BY <2>1, <2>4
  <2>. QED  BY <2>5 DEF r
<1>. QED  BY <1>5, <1>6

\* After the application of advances an invoice is paid, or they are used up.
LEMMA AdvancesUsed ==
    ASSUME NEW c, Sound(c), NEW d \in DOMAIN c.invoices,
           NEW S \in SUBSET UnusedAdvances(c), NEW r, r = AppliedAll(c, S, d)
    PROVE  UsedOn(c, r, d, S)
<1>. DEFINE T == [P \in SUBSET S |-> {e \in BooksType : UsedOn(c, e, d, P)}]
<1>1. /\ S \subseteq DOMAIN c.settlements /\ IsFiniteSet(S) /\ S \subseteq Nat
      /\ \A s \in DOMAIN c.settlements : c.settlements[s].remaining \in Nat
  <2>1. c.settlements \in Seq(Settlement)
      BY DEF Sound, BooksType
  <2>2. /\ DOMAIN c.settlements \subseteq Nat
        /\ IsFiniteSet(DOMAIN c.settlements)
        /\ \A s \in DOMAIN c.settlements : c.settlements[s] \in Settlement
      BY <2>1, TableRows
  <2>3. S \subseteq DOMAIN c.settlements
      BY DEF UnusedAdvances
  <2>. QED  BY <2>2, <2>3, FS_Subset DEF Settlement
<1>2. c \in T[{}]
  <2>1. Onto(c, c) /\ c \in BooksType
      BY OntoItself DEF Sound
  <2>2. UsedOn(c, c, d, {})
      BY <1>1, <2>1 DEF UsedOn
  <2>. QED  BY <2>1, <2>2
<1>3. ASSUME NEW P \in SUBSET S, NEW s \in S \ P, NEW e \in T[P]
      PROVE  ApplyStep(e, s, d) \in T[P \cup {s}]
  <2>. DEFINE q == ApplyStep(e, s, d)
  <2>1. UsedOn(c, e, d, P) /\ s \in UnusedAdvances(c) /\ P \subseteq DOMAIN c.settlements
      BY <1>1
  <2>2. UsedOn(c, q, d, P \cup {s})
      BY <2>1, UsedOnMore
  <2>. HIDE DEF q
  <2>3. q \in BooksType
      BY <2>2 DEF UsedOn, Onto, Sound
  <2>4. q \in T[P \cup {s}]
      BY <2>2, <2>3
  <2>. QED  BY <2>4 DEF q
<1>4. T[S] = {e \in BooksType : UsedOn(c, e, d, S)}
    OBVIOUS
<1>. HIDE DEF T
<1>5. r \in T[S]
    BY <1>1, <1>2, <1>3, ApplyAllIn
<1>. QED  BY <1>4, <1>5

-----------------------------------------------------------------------------
(* The family of a sale.                                                   *)

\* g is the table of families that Family defines
IsFamily(b, g) ==
    g = [k \in 0..Len(b.invoices) |->
            IF k = 0 THEN {} ELSE {k} \cup g[b.invoices[k].previous]]

\* The definition of Family.
LEMMA FamilyShape ==
    ASSUME NEW b, NEW d
    PROVE  Family(b, d) = (CHOOSE g : IsFamily(b, g))[d]
BY DEF Family, IsFamily

\* the invoices in D are replacements of others in it, or of none
Closed(b, D) == \A i \in D : b.invoices[i].previous \in D \cup {0}

\* The invoice itself, and all it replaced, make up such a table.
LEMMA FamilyExists ==
    ASSUME NEW b, Sound(b), ReplacesEarlier(b)
    PROVE  \E g : IsFamily(b, g)
<1>. DEFINE N == Len(b.invoices)
            before(k) == {e \in 1..N : \A D \in SUBSET (1..N) :
                            k \in D /\ Closed(b, D) => e \in D}
            g == [k \in 0..N |-> IF k = 0 THEN {} ELSE before(k)]
<1>1. N \in Nat /\ DOMAIN b.invoices = 1..N
  <2>1. b.invoices \in Seq(Invoice)
      BY DEF Sound, BooksType
  <2>. QED  BY <2>1
<1>2. ASSUME NEW k \in 1..N
      PROVE  /\ b.invoices[k].previous \in 0..N
             /\ g[k] = {k} \cup g[b.invoices[k].previous]
  <2>. DEFINE p == b.invoices[k].previous
              D0 == {k} \cup g[p]
  <2>1. p \in 0..N
    <3>1. p \in 0..(k - 1)
        BY <1>1 DEF ReplacesEarlier
    <3>. HIDE DEF p, N
    <3>. QED  BY <1>1, <3>1
  <2>2. g[k] = before(k)
      BY <1>1
  <2>3. p = 0 => g[p] = {}
      OBVIOUS
  <2>4. p # 0 => p \in 1..N /\ g[p] = before(p)
      BY <1>1, <2>1
  <2>. HIDE DEF g
  <2>5. g[p] \subseteq 1..N
      BY <2>3, <2>4
  <2>6. ASSUME NEW e \in before(k) PROVE e \in D0
    <3>1. D0 \in SUBSET (1..N)
        BY <2>5
    <3>2. p \in D0 \cup {0}
        BY <2>4
    <3>3. ASSUME NEW i \in g[p] PROVE b.invoices[i].previous \in g[p] \cup {0}
      <4>1. p # 0 /\ i \in before(p)
          BY <2>3, <2>4, <3>3
      <4>2. \A D \in SUBSET (1..N) : p \in D /\ Closed(b, D)
                => b.invoices[i].previous \in D \cup {0}
          BY <4>1 DEF Closed
      <4>3. CASE b.invoices[i].previous = 0
          BY <4>3
      <4>4. CASE b.invoices[i].previous # 0
        <5>1. \A D \in SUBSET (1..N) : p \in D /\ Closed(b, D)
                => b.invoices[i].previous \in D
            BY <4>2, <4>4
        <5>2. b.invoices[i].previous \in 1..N
          <6>1. i \in 1..N
              BY <2>5, <3>3
          <6>2. b.invoices[i].previous \in 0..(i - 1)
              BY <1>1, <6>1 DEF ReplacesEarlier
          <6>. HIDE DEF N
          <6>. QED  BY <1>1, <4>4, <6>1, <6>2
        <5>3. b.invoices[i].previous \in before(p)
            BY <5>1, <5>2
        <5>. QED  BY <2>4, <4>1, <5>3
      <4>. QED  BY <4>3, <4>4
    <3>4. Closed(b, D0)
        BY <3>2, <3>3 DEF Closed
    <3>. QED  BY <3>1, <3>4
  <2>7. ASSUME NEW e \in D0 PROVE e \in before(k)
    <3>1. e \in 1..N
        BY <2>5
    <3>2. ASSUME NEW D \in SUBSET (1..N), k \in D, Closed(b, D)
          PROVE  e \in D
      <4>1. CASE e = k
          BY <3>2, <4>1
      <4>2. CASE e \in g[p]
        <5>1. p # 0 /\ e \in before(p)
            BY <2>3, <2>4, <4>2
        <5>2. p \in D
            BY <3>2, <5>1 DEF Closed
        <5>. QED  BY <3>2, <5>1, <5>2
      <4>. QED  BY <4>1, <4>2
    <3>. QED  BY <3>1, <3>2
  <2>8. before(k) = D0
      BY <2>6, <2>7
  <2>. QED  BY <2>1, <2>2, <2>8
<1>3. g[0] = {}
    BY <1>1
<1>4. DOMAIN g = 0..N /\ g = [k \in 0..N |-> g[k]]
    OBVIOUS
<1>. HIDE DEF g
<1>5. \A k \in 0..N : g[k] = IF k = 0 THEN {} ELSE {k} \cup g[b.invoices[k].previous]
  <2>1. \A k \in 0..N : k # 0 => k \in 1..N
    <3>. HIDE DEF N
    <3>. QED  BY <1>1
  <2>. QED  BY <1>2, <1>3, <2>1
<1>6. g = [k \in 0..N |-> IF k = 0 THEN {} ELSE {k} \cup g[b.invoices[k].previous]]
    BY <1>4, <1>5
<1>. QED  BY <1>6 DEF IsFamily

\* A sale is in its family, and so is what a sale in it replaced.
LEMMA FamilyIs ==
    ASSUME NEW b, Sound(b), ReplacesEarlier(b), NEW d \in DOMAIN b.invoices
    PROVE  /\ d \in Family(b, d) /\ Family(b, d) \subseteq DOMAIN b.invoices
           /\ Closed(b, Family(b, d))
<1>. DEFINE N == Len(b.invoices)
            g == CHOOSE g : IsFamily(b, g)
            Good(k) == /\ k \in g[k] /\ g[k] \subseteq 1..N /\ Closed(b, g[k])
            Bad == {k \in 1..N : ~Good(k)}
<1>1. N \in Nat /\ DOMAIN b.invoices = 1..N
  <2>1. b.invoices \in Seq(Invoice)
      BY DEF Sound, BooksType
  <2>. QED  BY <2>1
<1>2. IsFamily(b, g)
    BY FamilyExists
<1>3. Family(b, d) = g[d]
    BY FamilyShape
<1>. HIDE DEF g
<1>4. g[0] = {} /\ \A k \in 1..N : g[k] = {k} \cup g[b.invoices[k].previous]
  <2>1. g = [k \in 0..N |-> IF k = 0 THEN {} ELSE {k} \cup g[b.invoices[k].previous]]
      BY <1>2 DEF IsFamily
  <2>2. 0 \in 0..N /\ \A k \in 1..N : k \in 0..N /\ k # 0
    <3>. HIDE DEF N
    <3>. QED  BY <1>1
  <2>. HIDE DEF N
  <2>. QED  BY <2>1, <2>2
<1>5. Bad = {}
  <2> SUFFICES ASSUME Bad # {} PROVE FALSE
      OBVIOUS
  <2>1. Bad \in SUBSET Nat
      BY <1>1
  <2>. HIDE DEF Bad
  <2>2. PICK k \in Bad : \A m \in Bad : k <= m
      BY <2>1, LeastNatural
  <2>3. k \in 1..N /\ ~Good(k)
      BY DEF Bad
  <2>. DEFINE p == b.invoices[k].previous
  <2>4. p \in 0..(k - 1)
      BY <1>1, <2>3 DEF ReplacesEarlier
  <2>5. g[k] = {k} \cup g[p]
      BY <1>4, <2>3
  <2>. HIDE DEF p, N
  <2>6. CASE p = 0
    <3>1. g[k] = {k}
        BY <1>4, <2>5, <2>6
    <3>2. Closed(b, {k})
        BY <2>6 DEF Closed, p
    <3>. QED  BY <2>3, <3>1, <3>2 DEF N
  <2>7. CASE p # 0
    <3>1. p \in 1..N /\ ~(k <= p)
        BY <1>1, <2>3, <2>4, <2>7
    <3>2. Good(p)
        BY <2>2, <3>1 DEF Bad
    <3>3. Closed(b, {k} \cup g[p])
        BY <3>2 DEF Closed, p
    <3>. QED  BY <2>3, <2>5, <3>2, <3>3
  <2>. QED  BY <2>6, <2>7
<1>6. Good(d)
    BY <1>1, <1>5
<1>. QED  BY <1>1, <1>3, <1>6

-----------------------------------------------------------------------------
(* Every transaction lets an invoice replace an earlier one.               *)

\* the invoices of b replace in r what they replaced
SamePrevious(b, r) ==
    \A e \in DOMAIN b.invoices : r.invoices[e].previous = b.invoices[e].previous

\* a new invoice of r replaces one of b, or none
NewReplacesOld(b, r) ==
    LET k == Len(b.invoices) + 1
    IN  \/ DOMAIN r.invoices = DOMAIN b.invoices
        \/ /\ DOMAIN r.invoices = DOMAIN b.invoices \cup {k}
           /\ r.invoices[k].previous \in DOMAIN b.invoices \cup {0}

\* What an invoice replaces never changes; a new one replaces an earlier one,
\* or none.
LEMMA StepPrevious ==
    ASSUME NEW b, Sound(b), NEW r, Step(b, r)
    PROVE  SamePrevious(b, r) /\ NewReplacesOld(b, r)
<1>0. MaxReversals \in Nat
    BY ReceivablesConstants
<1>1. ASSUME NEW total \in Amount, NEW link \in BOOLEAN,
             r = InvoicePosted(b, total, 0, link)
      PROVE  SamePrevious(b, r) /\ NewReplacesOld(b, r)
  <2>. DEFINE k == Len(b.invoices) + 1
              zero == 0
  <2>1. zero \in Nat /\ k = Len(b.invoices) + 1 /\ r = InvoicePosted(b, total, zero, link)
      BY <1>1
  <2>2. zero \in DOMAIN b.invoices \cup {0}
      OBVIOUS
  <2>. HIDE DEF k, zero
  <2>3. PICK v : Entry(b, v, k, total, zero) /\ Linking(v, r, k)
      BY <2>1, PostingIs
  <2>. QED  BY <2>2, <2>3 DEF Entry, Linking, SameSales, SamePrevious,
                         NewReplacesOld, k
<1>2. ASSUME NEW e \in DOMAIN b.invoices, NEW amount \in Amount,
             r = NotePosted(b, e, amount)
      PROVE  SamePrevious(b, r) /\ NewReplacesOld(b, r)
  <2>1. e \in Nat
    <3>1. b.invoices \in Seq(Invoice)
        BY DEF Sound, BooksType
    <3>. QED  BY <3>1
  <2>2. SameBut(r, b, {"notes"})
      BY <1>2, <2>1, NoteIs DEF Sound
  <2>. QED  BY <2>2 DEF SameBut, SamePrevious, NewReplacesOld
<1>3. ASSUME NEW s \in DOMAIN b.settlements, NEW e \in DOMAIN b.invoices,
             NEW amount \in Amount, ApplicationAccepted(b, s, e, amount),
             r = Applied(b, s, e, amount)
      PROVE  SamePrevious(b, r) /\ NewReplacesOld(b, r)
  <2>1. amount \in Nat \ {0} /\ amount <= b.settlements[s].remaining
      BY <1>3, ReceivablesConstants DEF ApplicationAccepted
  <2>2. e \in Nat
    <3>1. b.invoices \in Seq(Invoice)
        BY DEF Sound, BooksType
    <3>. QED  BY <3>1
  <2>3. SameSales(b, r)
      BY <1>3, <2>1, <2>2, AppliedElsewhere
  <2>. QED  BY <2>3 DEF SameSales, SamePrevious, NewReplacesOld
<1>4. CASE PaymentStep(b, r) \/ ClearStep(b, r) \/ ReturnStep(b, r)
    BY <1>4, PaymentsLeaveSales DEF SameSales, SamePrevious, NewReplacesOld
<1>5. CASE CancelStep(b, r)
  <2>1. PICK e \in DOMAIN b.invoices :
            /\ Editable(b, e, FALSE)
            /\ LET c == WhollyCredited(b, e)
               IN  r = [c EXCEPT !.invoices[e].state = "CANCELLED",
                                 !.invoices[e].correction = Len(c.notes)]
      BY <1>5 DEF CancelStep
  <2>. DEFINE w == WhollyCredited(b, e)
  <2>2. Posted(b.invoices[e])
      BY <2>1 DEF Editable
  <2>3. r = [w EXCEPT !.invoices[e].state = "CANCELLED",
                      !.invoices[e].correction = Len(w.notes)]
      BY <2>1
  <2>4. "CANCELLED" \in {"CANCELLED", "REVISED"}
      OBVIOUS
  <2>5. Credited(b, r, e)
      BY ONLY <2>2, <2>3, <2>4, Sound(b), e \in DOMAIN b.invoices, CreditedIs
  <2>. QED  BY <2>5 DEF Credited, Undid, SamePrevious, NewReplacesOld
<1>6. CASE ReverseStep(b, r)
  <2>1. CASE \E e \in DOMAIN b.invoices :
                r = InvoiceSet(b, e, Turn(b.invoices[e]), Flip(b.invoices[e]))
    <3>1. PICK e \in DOMAIN b.invoices :
                r = InvoiceSet(b, e, Turn(b.invoices[e]), Flip(b.invoices[e]))
        BY <2>1
    <3>2. /\ b.invoices \in Seq(Invoice) /\ b.invoices[e] \in Invoice
          /\ b \in BooksType
        BY OutstandingType DEF Sound, BooksType
    <3>3. r.invoices = [b.invoices EXCEPT ![e] = Turn(b.invoices[e])]
        BY <3>1, <3>2 DEF InvoiceSet, Journal, BooksType
    <3>4. Turn(b.invoices[e]).previous = b.invoices[e].previous
        BY <3>2 DEF Turn, Invoice
    <3>5. SamePrevious(b, r)
        BY <3>2, <3>3, <3>4 DEF SamePrevious
    <3>6. DOMAIN r.invoices = DOMAIN b.invoices
        BY <3>3
    <3>. QED  BY <3>5, <3>6 DEF NewReplacesOld
  <2>2. CASE \E n \in DOMAIN b.notes :
                r = NoteSet(b, n, Turn(b.notes[n]), -Flip(b.notes[n]))
    <3>1. r.invoices = b.invoices
        BY <2>2 DEF NoteSet, Journal, Sound, BooksType
    <3>. QED  BY <3>1 DEF SamePrevious, NewReplacesOld
  <2>. QED  BY <1>6, <2>1, <2>2 DEF ReverseStep
<1>7. CASE ReplaceStep(b, r)
  <2>. DEFINE k == Len(b.invoices) + 1
  <2>1. PICK e \in DOMAIN b.invoices, total \in Amount : Replacing(b, r, e, total)
      BY <1>7, ReplaceStepIs
  <2>2. PICK u, v : Replaced(b, u, v, r, e, k, total)
      BY <2>1 DEF Replacing
  <2>. HIDE DEF k
  <2>3. Undid(b, u, e) /\ Entry(u, v, k, total, e) /\ Linking(v, r, k)
      BY <2>2 DEF Replaced, Credited, Revised
  <2>4. /\ DOMAIN u.invoices = DOMAIN b.invoices
        /\ \A i \in DOMAIN b.invoices : u.invoices[i].previous = b.invoices[i].previous
      BY <2>3 DEF Undid
  <2>5. /\ DOMAIN r.invoices = DOMAIN u.invoices \cup {k}
        /\ \A i \in DOMAIN u.invoices : r.invoices[i] = u.invoices[i]
        /\ r.invoices[k].previous = e
      BY <2>3 DEF Entry, Linking, SameSales
  <2>. QED  BY <2>4, <2>5 DEF SamePrevious, NewReplacesOld, k
<1>. QED  BY <1>1, <1>2, <1>3, <1>4, <1>5, <1>6, <1>7 DEF Step

\* An invoice replaces an earlier one, or none, after every transaction.
LEMMA StepReplacesEarlier ==
    ASSUME NEW b, Sound(b), ReplacesEarlier(b), NEW r, Step(b, r)
    PROVE  ReplacesEarlier(r)
<1>. DEFINE k == Len(b.invoices) + 1
<1>1. DOMAIN b.invoices = 1..Len(b.invoices) /\ Len(b.invoices) \in Nat
  <2>1. b.invoices \in Seq(Invoice)
      BY DEF Sound, BooksType
  <2>. QED  BY <2>1
<1>2. /\ SamePrevious(b, r)
      /\ \/ DOMAIN r.invoices = DOMAIN b.invoices
         \/ /\ DOMAIN r.invoices = DOMAIN b.invoices \cup {k}
            /\ r.invoices[k].previous \in DOMAIN b.invoices \cup {0}
    BY StepPrevious DEF NewReplacesOld
<1>3. \A e \in DOMAIN b.invoices : r.invoices[e].previous \in 0..(e - 1)
    BY <1>2 DEF SamePrevious, ReplacesEarlier
<1>4. DOMAIN b.invoices \cup {0} = 0..(k - 1)
    BY <1>1
<1>. HIDE DEF k
<1>. QED  BY <1>2, <1>3, <1>4 DEF ReplacesEarlier

\* the books of a customer, in which no invoice replaces a later one
OrderedBooks == SettledBooks /\ ReplacesEarlier(Books)

\* They are so in all states.
LEMMA BooksOrdered == Spec => []OrderedBooks
<1>1. Init => ReplacesEarlier(Books)
  <2>1. Init => DOMAIN Books.invoices = {}
      BY EmptyBooks
  <2>. QED  BY <2>1 DEF ReplacesEarlier
<1>2. SettledBooks /\ ReplacesEarlier(Books) /\ [Next]_vars => ReplacesEarlier(Books')
  <2> SUFFICES ASSUME SettledBooks, ReplacesEarlier(Books), [Next]_vars
               PROVE  ReplacesEarlier(Books')
      OBVIOUS
  <2>1. Settled(Books) /\ IInv
      BY DEF SettledBooks, Settled, IInv
  <2>2. CASE Next
    <3>1. Step(Books, Books')
        BY <2>1, <2>2, NextIs
    <3>. QED  BY <2>1, <3>1, StepReplacesEarlier DEF Settled
  <2>3. CASE UNCHANGED vars
    <3>1. Books' = Books
        BY <2>3 DEF vars, Books
    <3>. QED  BY <3>1
  <2>. QED  BY <2>2, <2>3
<1>3. Init => OrderedBooks
    BY <1>1, SettledInit DEF OrderedBooks
<1>4. OrderedBooks /\ [Next]_vars => OrderedBooks'
    BY <1>2, SettledNext DEF OrderedBooks
<1>. QED  BY <1>3, <1>4, PTL DEF Spec

-----------------------------------------------------------------------------
(* What the customer is asked for a sale that replaces another.            *)

\* A sale that replaces another descends from the family of that one.
LEMMA ReplacedLineage ==
    ASSUME NEW b, Sound(b), ReplacesEarlier(b), NEW d \in DOMAIN b.invoices,
           NEW u, NEW v, NEW r, NEW k, NEW total, Replaced(b, u, v, r, d, k, total)
    PROVE  Lineage(r, k) \subseteq Family(b, d) \cup {k}
<1>. DEFINE F == Family(b, d)
            D == F \cup {k}
<1>1. Undid(b, u, d) /\ Entry(u, v, k, total, d) /\ Linking(v, r, k)
    BY DEF Replaced, Credited, Revised
<1>2. /\ DOMAIN r.invoices = DOMAIN b.invoices \cup {k} /\ k \notin DOMAIN b.invoices
      /\ r.invoices[k].previous = d
      /\ \A i \in DOMAIN b.invoices : r.invoices[i].previous = b.invoices[i].previous
  <2>1. /\ DOMAIN u.invoices = DOMAIN b.invoices
        /\ \A i \in DOMAIN b.invoices : u.invoices[i].previous = b.invoices[i].previous
      BY <1>1 DEF Undid
  <2>2. /\ DOMAIN r.invoices = DOMAIN u.invoices \cup {k} /\ k \notin DOMAIN u.invoices
        /\ \A i \in DOMAIN u.invoices : r.invoices[i] = u.invoices[i]
        /\ r.invoices[k].previous = d
      BY <1>1 DEF Entry, Linking, SameSales
  <2>. QED  BY <2>1, <2>2
<1>3. d \in F /\ F \subseteq DOMAIN b.invoices /\ Closed(b, F)
    BY FamilyIs
<1>. HIDE DEF F
<1>4. D \in SUBSET DOMAIN r.invoices /\ k \in D
    BY <1>2, <1>3
<1>5. \A i \in D : r.invoices[i].previous \in D \cup {0}
    BY <1>2, <1>3 DEF Closed
<1>. HIDE DEF D
<1>6. \A e \in Lineage(r, k) : e \in D
    BY <1>4, <1>5 DEF Lineage
<1>. QED  BY <1>6 DEF D, F

\* A credit that is unused after the application of advances was one before.
LEMMA CreditStays ==
    ASSUME NEW c, Sound(c), NEW r, NEW k, NEW S, UsedOn(c, r, k, S),
           NEW D, NEW E, E \subseteq D
    PROVE  FamilyCredits(r, E) \subseteq FamilyCredits(c, D)
<1> SUFFICES ASSUME NEW s \in FamilyCredits(r, E) PROVE s \in FamilyCredits(c, D)
    OBVIOUS
<1>. DEFINE from == r.settlements[s].origin
<1>1. /\ s \in UnusedAdvances(r) /\ from # <<>>
      /\ \/ from[1] = "RECEIPT" /\ from[3] \in E
         \/ from[1] = "APPLICATION" /\ r.applications[from[2]].document \in E
         \/ from[1] = "RETURN" /\ r.carries[from[2]].invoice \in E
    BY DEF FamilyCredits
<1>2. /\ DOMAIN r.settlements = DOMAIN c.settlements /\ Kept(c, r) /\ Steady(c, r)
      /\ \A t \in DOMAIN c.settlements :
            r.settlements[t].remaining <= c.settlements[t].remaining
      /\ Sound(r)
    BY DEF UsedOn, Onto
<1>3. s \in DOMAIN c.settlements
    BY <1>1, <1>2 DEF UnusedAdvances
<1>4. /\ c.settlements[s].type = r.settlements[s].type
      /\ c.settlements[s].status = r.settlements[s].status
      /\ c.settlements[s].origin = from
      /\ r.settlements[s].remaining <= c.settlements[s].remaining
    BY <1>2, <1>3 DEF Kept, SameRow, Steady
<1>5. r.settlements[s].remaining \in Nat /\ c.settlements[s].remaining \in Nat
  <2>1. r.settlements \in Seq(Settlement) /\ c.settlements \in Seq(Settlement)
      BY <1>2 DEF Sound, BooksType
  <2>2. r.settlements[s] \in Settlement /\ c.settlements[s] \in Settlement
      BY <1>2, <1>3, <2>1
  <2>. QED  BY <2>2 DEF Settlement
<1>6. s \in UnusedAdvances(c)
    BY <1>1, <1>3, <1>4, <1>5 DEF UnusedAdvances, Effective
<1>7. OriginLinked(c, from)
    BY <1>1, <1>3, <1>4 DEF Sound, Linked, RowLinked
<1>8. /\ \A a \in DOMAIN c.applications :
            r.applications[a].document = c.applications[a].document
      /\ \A e \in DOMAIN c.carries : r.carries[e] = c.carries[e]
    BY <1>2 DEF Kept
<1>. HIDE DEF from
<1>9. \/ from[1] = "RECEIPT" /\ from[3] \in D
      \/ from[1] = "APPLICATION" /\ c.applications[from[2]].document \in D
      \/ from[1] = "RETURN" /\ c.carries[from[2]].invoice \in D
    BY <1>1, <1>7, <1>8 DEF OriginLinked
<1>. QED  BY <1>1, <1>4, <1>6, <1>9 DEF FamilyCredits

\* The invoice that replaces a sale is paid by the credits of the family, as
\* far as they go.
LEMMA ReplacedAsks ==
    ASSUME NEW b, Sound(b), ReplacesEarlier(b), NEW d \in DOMAIN b.invoices,
           NEW u, NEW v, NEW c, NEW k, NEW total,
           NEW r, Settled(r), Replaced(b, u, v, r, d, k, total), Linking(v, c, k),
           r = AppliedAll(c, FamilyCredits(c, Family(b, d) \cup {k}), k)
    PROVE  Outstanding(r, k) = 0 \/ FamilyCredits(r, Lineage(r, k)) = {}
<1>. DEFINE D == Family(b, d) \cup {k}
            S == FamilyCredits(c, D)
<1>1. Entry(u, v, k, total, d) /\ Linking(v, r, k)
    BY DEF Replaced
<1>2. /\ Sound(c) /\ k \in DOMAIN c.invoices /\ k \in DOMAIN r.invoices
    BY <1>1 DEF Entry, Linking, SameSales, Onto
<1>3. S \in SUBSET UnusedAdvances(c) /\ r = AppliedAll(c, S, k)
    BY DEF FamilyCredits
<1>4. Lineage(r, k) \subseteq D
    BY ReplacedLineage
<1>. HIDE DEF D, S
<1>5. UsedOn(c, r, k, S)
    BY <1>2, <1>3, AdvancesUsed
<1>6. CASE Outstanding(r, k) <= 0
  <2>1. BatchOutstanding(r, k) >= 0 /\ BatchOutstanding(r, k) \in Int
        /\ Outstanding(r, k) \in {0, BatchOutstanding(r, k)}
      BY <1>2, OutstandingType DEF Settled, Sound, NoneOverpaid, Outstanding
  <2>. QED  BY <1>6, <2>1
<1>7. CASE \A s \in S : r.settlements[s].remaining = 0
  <2> SUFFICES ASSUME NEW s \in FamilyCredits(r, Lineage(r, k)) PROVE FALSE
      OBVIOUS
  <2>1. s \in FamilyCredits(c, D)
      BY <1>2, <1>4, <1>5, CreditStays
  <2>2. s \in S
      BY <2>1 DEF S
  <2>3. r.settlements[s].remaining > 0
      BY DEF FamilyCredits, UnusedAdvances
  <2>. QED  BY <1>7, <2>2, <2>3
<1>. QED  BY <1>5, <1>6, <1>7 DEF UsedOn

\* A customer is not asked to pay twice for a corrected sale: while the
\* replacement has something outstanding when it is posted, no credit from
\* the sales it replaces is left unused.
THEOREM NobodyPaysTwice == Spec => NothingAskedTwice
<1>1. ASSUME OrderedBooks, OrderedBooks', [Next]_vars, NEW d \in DOMAIN invoices,
             invoices[d].state = "LIVE", invoices'[d].state = "REVISED"
      PROVE  \/ Outstanding(Books', Len(invoices')) = 0
             \/ FamilyCredits(Books', Lineage(Books', Len(invoices'))) = {}
  <2>. DEFINE k == Len(Books.invoices) + 1
  <2>1. Books.invoices = invoices /\ Books'.invoices = invoices'
      BY DEF Books
  <2>2. Next
      BY <1>1 DEF vars
  <2>3. Settled(Books) /\ Settled(Books') /\ IInv /\ ReplacesEarlier(Books)
      BY <1>1 DEF OrderedBooks, SettledBooks, Settled, IInv
  <2>4. Step(Books, Books')
      BY <2>2, <2>3, NextIs
  <2>5. /\ Sound(Books) /\ Sound(Books') /\ d \in DOMAIN Books.invoices
        /\ Books.invoices[d].state = "LIVE" /\ Books'.invoices[d].state = "REVISED"
      BY <1>1, <2>1, <2>3 DEF Settled
  <2>6. PICK total \in Amount : Replacing(Books, Books', d, total)
      BY ONLY <2>4, <2>5, RevisedBy
  <2>7. PICK u, v, c :
            /\ Replaced(Books, u, v, Books', d, k, total) /\ Linking(v, c, k)
            /\ Books' = AppliedAll(c, FamilyCredits(c, Family(Books, d) \cup {k}), k)
      BY <2>6 DEF Replacing
  <2>. HIDE DEF k
  <2>8. \/ Outstanding(Books', k) = 0
        \/ FamilyCredits(Books', Lineage(Books', k)) = {}
      BY <2>3, <2>5, <2>7, ReplacedAsks
  <2>9. Len(Books'.invoices) = k
      BY <2>5, <2>7, ReplacedLast
  <2>. QED  BY <2>1, <2>8, <2>9
<1>2. OrderedBooks /\ OrderedBooks' /\ [Next]_vars
      => [\A d \in DOMAIN invoices :
             invoices[d].state = "LIVE" /\ invoices'[d].state = "REVISED" =>
               LET b == Books'
                   replacement == Len(invoices')
               IN  Outstanding(b, replacement) = 0
                   \/ FamilyCredits(b, Lineage(b, replacement)) = {}]_vars
    BY <1>1
<1>. QED  BY <1>2, BooksOrdered, PTL DEF Spec, NothingAskedTwice

===============================================================================
