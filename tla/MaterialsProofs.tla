---------------------------- MODULE MaterialsProofs ----------------------------
(***************************************************************************)
(* Proofs about Materials, for any warehouses, projects, lots, quantities  *)
(* and costs.                                                              *)
(*                                                                         *)
(* An operation is an effect on the tables, written at once or later.  So  *)
(* the invariant says two things of the tables: that they are good, and    *)
(* that they would be good with the effect that is held back inserted.     *)
(* The second is what the first needs when the effect is written, and it   *)
(* is stable because an effect is dropped as soon as another is written.   *)
(* To say it, what the model computes from its variables is written here   *)
(* as a function of the tables.                                            *)
(***************************************************************************)
EXTENDS Materials, SumFacts

-----------------------------------------------------------------------------
(* The rows of project material.                                           *)

Deduction == {"CONSUMPTION", "RETURN_TO_INVENTORY", "RETURN_TO_VENDOR",
              "TRANSFER_OUT"}

ReversedIn(mv, i) == \E k \in DOMAIN mv : mv[k].of = i

\* the rows a balance counts for the receipt r
Lines(mv, r) ==
    {i \in DOMAIN mv :
        /\ i = r \/ mv[i].source = r
        /\ mv[i].project = mv[r].project
        /\ mv[i].kind # "REVERSAL"
        /\ ~ReversedIn(mv, i)}

\* what is left of receipt r: of its quantity, or of its total
Part == {"quantity", "total"}
Left(mv, r, f) == SumFunction([i \in Lines(mv, r) |-> Signed(mv[i], mv[i][f])])

ReceiptsIn(mv) == {i \in DOMAIN mv : mv[i].kind \in Receipt}

LeftAtAll(mv, f) == SumFunction([r \in ReceiptsIn(mv) |-> Left(mv, r, f)])

SpentIn(mv) ==
    {i \in DOMAIN mv :
        /\ mv[i].kind \in {"CONSUMPTION", "RETURN_TO_VENDOR"}
        /\ ~ReversedIn(mv, i)}
SpentAtAll(mv) == SumFunction([i \in SpentIn(mv) |-> mv[i].quantity])

\* deductions are made from receipts of the same project, a transfer comes
\* in at another one, and a reversal reverses a row
RowSourced(mv, row) ==
    /\ row.kind \in Deduction =>
          /\ row.of = 0
          /\ row.source \in ReceiptsIn(mv)
          /\ mv[row.source].project = row.project
    /\ row.kind = "INVENTORY_ISSUE_TO_PROJECT" => row.of = 0 /\ row.source = 0
    /\ row.kind = "TRANSFER_IN" =>
          /\ row.of = 0
          /\ row.source \in DOMAIN mv
          /\ row.project # mv[row.source].project
    /\ row.kind = "REVERSAL" => row.of \in DOMAIN mv

Sourced(mv) == \A i \in DOMAIN mv : RowSourced(mv, mv[i])

\* a receipt never gives more than came in, and has no value when it has
\* given all
Covered(mv) ==
    \A r \in ReceiptsIn(mv) :
        /\ Left(mv, r, "quantity") \in 0..mv[r].quantity
        /\ Left(mv, r, "total") \in 0..mv[r].total
        /\ Left(mv, r, "quantity") = 0 => Left(mv, r, "total") = 0

-----------------------------------------------------------------------------
(* Arithmetic.                                                             *)

\* Division by a positive number.
LEMMA Division ==
    ASSUME NEW a \in Int, NEW b \in Int, b > 0
    PROVE  /\ a \div b \in Int
           /\ b * (a \div b) <= a
           /\ a < b * (a \div b) + b
OBVIOUS

\* Rounding gives an integer.
LEMMA RoundedInteger ==
    ASSUME NEW n \in Int, NEW d \in Nat \ {0}
    PROVE  Rounded(n, d) \in Int
<1>1. 2 * n + d \in Int /\ d - 2 * n \in Int /\ 2 * d \in Int /\ 2 * d > 0
  OBVIOUS
<1>2. (2 * n + d) \div (2 * d) \in Int /\ (d - 2 * n) \div (2 * d) \in Int
  BY <1>1, Division
<1> QED BY <1>2 DEF Rounded

\* A part of the goods has a part of their value: what is taken for a smaller
\* quantity is between nothing and all of it.
LEMMA RoundedPart ==
    ASSUME NEW a \in Nat, NEW v \in Nat, NEW q \in Nat \ {0}, q < a
    PROVE  Rounded(q * v, a) \in 0..v
<1> DEFINE n == q * v
           k == (2 * n + a) \div (2 * a)
<1>1. n \in Nat /\ n <= (a - 1) * v /\ n >= 0
  <2>1. n \in Nat
    OBVIOUS
  <2>2. (a - 1) - q \in Nat
    OBVIOUS
  <2>3. ((a - 1) - q) * v \in Nat
    BY <2>2
  <2>4. ((a - 1) - q) * v = (a - 1) * v - n
    OBVIOUS
  <2>5. (a - 1) * v \in Nat
    OBVIOUS
  <2> HIDE DEF n
  <2> QED BY <2>1, <2>3, <2>4, <2>5
<1>2. Rounded(n, a) = k
  BY <1>1 DEF Rounded
<1>3. k \in Int /\ (2 * a) * k <= 2 * n + a /\ 2 * n + a < (2 * a) * k + 2 * a
  <2> HIDE DEF n
  <2>1. 2 * n + a \in Int /\ 2 * a \in Int /\ 2 * a > 0
    BY <1>1
  <2> QED BY <2>1, Division
<1> HIDE DEF n, k
<1>4. k >= 0
  <2> SUFFICES ASSUME k <= -1 PROVE FALSE
    BY <1>3
  <2>1. (2 * a) * k <= -(2 * a)
    BY <1>3
  <2> QED BY <2>1, <1>3, <1>1
<1>5. k <= v
  <2> SUFFICES ASSUME k >= v + 1 PROVE FALSE
    BY <1>3
  <2>1. (2 * a) * k >= (2 * a) * (v + 1)
    BY <1>3
  <2>2. (2 * a) * (v + 1) = 2 * (a * v) + 2 * a
    OBVIOUS
  <2>3. (a - 1) * v = a * v - v
    OBVIOUS
  <2>4. a * v \in Nat
    OBVIOUS
  <2> QED BY <2>1, <2>2, <2>3, <2>4, <1>3, <1>1
<1> QED BY <1>2, <1>3, <1>4, <1>5 DEF n

\* What is rounded is no further than a half from what it was.
LEMMA RoundedBounds ==
    ASSUME NEW n \in Int, NEW d \in Nat \ {0}
    PROVE  /\ Rounded(n, d) \in Int
           /\ (2 * d) * Rounded(n, d) <= 2 * n + d
           /\ 2 * n - d <= (2 * d) * Rounded(n, d)
<1>1. 2 * n + d \in Int /\ d - 2 * n \in Int /\ 2 * d \in Int /\ 2 * d > 0
  OBVIOUS
<1> DEFINE up == (2 * n + d) \div (2 * d)
           down == (d - 2 * n) \div (2 * d)
<1>2. /\ up \in Int /\ (2 * d) * up <= 2 * n + d
      /\ 2 * n + d < (2 * d) * up + 2 * d
  BY <1>1, Division
<1>3. /\ down \in Int /\ (2 * d) * down <= d - 2 * n
      /\ d - 2 * n < (2 * d) * down + 2 * d
  BY <1>1, Division
<1>4. Rounded(n, d) = IF n >= 0 THEN up ELSE -down
  BY DEF Rounded
<1> HIDE DEF up, down
<1>5. CASE n >= 0
  <2>1. Rounded(n, d) = up
    BY <1>4, <1>5
  <2>2. 2 * n - d <= (2 * d) * up
    <3> DEFINE p == (2 * d) * up
    <3>1. p \in Int
      BY <1>2
    <3>2. 2 * n + d < p + 2 * d
      BY <1>2
    <3> HIDE DEF p
    <3>3. 2 * n - d <= p
      BY <3>1, <3>2
    <3> QED BY <3>3 DEF p
  <2> QED BY <1>2, <2>1, <2>2
<1>6. CASE ~(n >= 0)
  <2>1. Rounded(n, d) = -down
    BY <1>4, <1>6
  <2> DEFINE p == (2 * d) * down
  <2>2. (2 * d) * (-down) = -p /\ p \in Int /\ -down \in Int
    BY <1>3
  <2>3. p <= d - 2 * n /\ d - 2 * n < p + 2 * d
    BY <1>3
  <2> HIDE DEF p
  <2>4. -p <= 2 * n + d /\ 2 * n - d <= -p
    BY <2>2, <2>3
  <2> QED BY <2>1, <2>2, <2>4
<1> QED BY <1>5, <1>6

\* A sum that is rounded is within one of the sum of what is rounded.
LEMMA RoundedSum ==
    ASSUME NEW a \in Int, NEW b \in Nat \ {0},
           NEW c \in Int, NEW d \in Nat \ {0}
    PROVE  /\ Rounded(a * d + c * b, b * d) \in Int
           /\ Rounded(a, b) \in Int /\ Rounded(c, d) \in Int
           /\ Rounded(a * d + c * b, b * d)
                <= Rounded(a, b) + Rounded(c, d) + 1
           /\ Rounded(a, b) + Rounded(c, d)
                <= Rounded(a * d + c * b, b * d) + 1
<1> DEFINE n == a * d + c * b
           m == b * d
           r == Rounded(n, m)
           s == Rounded(a, b)
           t == Rounded(c, d)
<1>1. n \in Int /\ m \in Nat \ {0} /\ m > 0
  OBVIOUS
<1>2. r \in Int /\ (2 * m) * r <= 2 * n + m /\ 2 * n - m <= (2 * m) * r
  <2> HIDE DEF n, m
  <2> QED BY <1>1, RoundedBounds
<1>3. s \in Int /\ (2 * b) * s <= 2 * a + b /\ 2 * a - b <= (2 * b) * s
  BY RoundedBounds
<1>4. t \in Int /\ (2 * d) * t <= 2 * c + d /\ 2 * c - d <= (2 * d) * t
  BY RoundedBounds
<1> HIDE DEF r, s, t
<1> DEFINE x == a * d
           y == c * b
<1>5. n = x + y /\ x \in Int /\ y \in Int
  OBVIOUS
<1>6. m * s \in Int /\ 2 * (m * s) <= 2 * x + m /\ 2 * x - m <= 2 * (m * s)
  <2> DEFINE u == (2 * b) * s
             v == 2 * a + b
             w == 2 * a - b
  <2>1. u \in Int /\ v \in Int /\ w \in Int /\ u <= v /\ w <= u
    BY <1>3
  <2>2. d * u = 2 * (m * s) /\ m * s \in Int
    BY <1>3
  <2>3. d * v = 2 * x + m /\ d * w = 2 * x - m
    OBVIOUS
  <2> HIDE DEF u, v, w
  <2>4. d * u <= d * v /\ d * w <= d * u
    BY <2>1
  <2> QED BY ONLY <2>2, <2>3, <2>4
<1>7. m * t \in Int /\ 2 * (m * t) <= 2 * y + m /\ 2 * y - m <= 2 * (m * t)
  <2> DEFINE u == (2 * d) * t
             v == 2 * c + d
             w == 2 * c - d
  <2>1. u \in Int /\ v \in Int /\ w \in Int /\ u <= v /\ w <= u
    BY <1>4
  <2>2. b * u = 2 * (m * t) /\ m * t \in Int
    BY <1>4
  <2>3. b * v = 2 * y + m /\ b * w = 2 * y - m
    OBVIOUS
  <2> HIDE DEF u, v, w
  <2>4. b * u <= b * v /\ b * w <= b * u
    BY <2>1
  <2> QED BY ONLY <2>2, <2>3, <2>4
<1> HIDE DEF n, m, x, y
<1>8. m * r \in Int /\ 2 * (m * r) <= 2 * n + m /\ 2 * n - m <= 2 * (m * r)
  <2>1. (2 * m) * r = 2 * (m * r) /\ m * r \in Int
    BY <1>1, <1>2
  <2> QED BY <1>2, <2>1
<1>9. r <= s + t + 1
  <2> SUFFICES ASSUME r >= s + t + 2 PROVE FALSE
    BY <1>2, <1>3, <1>4
  <2> DEFINE k == s + t + 2
  <2>1. m * k = m * s + m * t + 2 * m
    BY <1>1, <1>3, <1>4
  <2>2. k \in Int /\ r >= k
    BY <1>3, <1>4
  <2> HIDE DEF k
  <2>3. m * r >= m * k
    BY <1>1, <1>2, <2>2
  <2> QED BY ONLY <1>1, <1>5, <1>6, <1>7, <1>8, <2>1, <2>3
<1>10. s + t <= r + 1
  <2> SUFFICES ASSUME s + t - 2 >= r PROVE FALSE
    BY <1>2, <1>3, <1>4
  <2> DEFINE k == s + t - 2
  <2>1. m * k = m * s + m * t - 2 * m
    BY <1>1, <1>3, <1>4
  <2>2. k \in Int /\ k >= r
    BY <1>3, <1>4
  <2> HIDE DEF k
  <2>3. m * k >= m * r
    BY <1>1, <1>2, <2>2
  <2> QED BY ONLY <1>1, <1>5, <1>6, <1>7, <1>8, <2>1, <2>3
<1> QED BY <1>2, <1>3, <1>4, <1>9, <1>10 DEF n, m, r, s, t

-----------------------------------------------------------------------------
(* What the rows are.                                                      *)

\* The fields of a row.
LEMMA MoveFields ==
    ASSUME NEW m \in Move
    PROVE  /\ m.kind \in Kind /\ m.project \in Project
           /\ m.warehouse \in Warehouse /\ m.lot \in AnyLot
           /\ m.quantity \in Nat \ {0} /\ m.total \in Nat
           /\ m.source \in Nat /\ m.of \in Nat /\ m.bill \in Nat
BY DEF Move

\* What is counted of a row is a natural number, added or taken off.
LEMMA SignedPart ==
    ASSUME NEW m \in Move, NEW f \in Part
    PROVE  /\ m[f] \in Nat
           /\ m.kind \in Receipt => Signed(m, m[f]) = m[f]
           /\ m.kind \notin Receipt => Signed(m, m[f]) = -m[f]
           /\ Signed(m, m[f]) \in Int
<1>1. m.quantity \in Nat /\ m.total \in Nat
  BY MoveFields
<1>2. m[f] \in Nat
  <2>1. CASE f = "quantity"
    BY <1>1, <2>1
  <2>2. CASE f = "total"
    BY <1>1, <2>2
  <2> QED BY <2>1, <2>2 DEF Part
<1> QED BY <1>2 DEF Signed

\* The rows counted for a receipt are itself and deductions.
LEMMA LineKinds ==
    ASSUME NEW mv \in Seq(Move), Sourced(mv), NEW r \in ReceiptsIn(mv),
           NEW i \in Lines(mv, r)
    PROVE  /\ i \in DOMAIN mv /\ r \in DOMAIN mv
           /\ i # r => mv[i].kind \in Deduction /\ mv[i].kind \notin Receipt
<1>1. i \in DOMAIN mv /\ r \in DOMAIN mv /\ r # 0
  BY TableRows DEF Lines, ReceiptsIn
<1>2. mv[i].kind \in Kind
  BY <1>1, TableRows, MoveFields
<1>3. i # r => mv[i].source = r /\ mv[i].project = mv[r].project
                 /\ mv[i].kind # "REVERSAL"
  BY DEF Lines
<1>4. i # r => mv[i].kind \in Deduction
  BY <1>1, <1>2, <1>3 DEF Sourced, RowSourced, Kind, Deduction
<1> QED BY <1>1, <1>4 DEF Deduction, Receipt

\* The lines of a receipt are finitely many, and count as integers.
LEMMA LinesFinite ==
    ASSUME NEW mv \in Seq(Move), NEW r, NEW f \in Part
    PROVE  /\ IsFiniteSet(Lines(mv, r))
           /\ Lines(mv, r) \subseteq DOMAIN mv
           /\ \A i \in DOMAIN mv : Signed(mv[i], mv[i][f]) \in Int
           /\ Left(mv, r, f) \in Int
<1>1. Lines(mv, r) \subseteq DOMAIN mv
  BY DEF Lines
<1>2. IsFiniteSet(Lines(mv, r))
  BY <1>1, TableRows, FS_Subset
<1>3. \A i \in DOMAIN mv : Signed(mv[i], mv[i][f]) \in Int
  BY TableRows, SignedPart
<1> DEFINE t == [i \in Lines(mv, r) |-> Signed(mv[i], mv[i][f])]
<1>4. Left(mv, r, f) = SumFunctionOnSet(t, Lines(mv, r))
  BY DEF Left, SumFunction
<1>5. \A i \in Lines(mv, r) : t[i] \in Int
  BY <1>1, <1>3
<1> HIDE DEF t
<1>6. SumFunctionOnSet(t, Lines(mv, r)) \in Int
  BY <1>2, <1>5, SumInt
<1> QED BY <1>1, <1>2, <1>3, <1>4, <1>6

-----------------------------------------------------------------------------
(* One more row.                                                           *)

\* mv2 is mv with one more row, number n
Grown(mv, row, mv2, n) ==
    /\ mv2 \in Seq(Move)
    /\ n = Len(mv) + 1 /\ n \in Nat \ {0} /\ n \notin DOMAIN mv
    /\ DOMAIN mv2 = DOMAIN mv \cup {n}
    /\ mv2[n] = row
    /\ \A i \in DOMAIN mv : mv2[i] = mv[i]

\* Appending a row is that.
LEMMA GrownBy ==
    ASSUME NEW mv \in Seq(Move), NEW row \in Move
    PROVE  Grown(mv, row, Append(mv, row), Len(mv) + 1)
<1>1. Append(mv, row) \in Seq(Move) /\ Len(mv) \in Nat
  OBVIOUS
<1> QED BY <1>1, RowAdded DEF Grown

\* What a row reverses, and what it is taken from, are earlier rows.
LEMMA Backwards ==
    ASSUME NEW mv \in Seq(Move), Sourced(mv), NEW i \in DOMAIN mv
    PROVE  /\ mv[i].of \in DOMAIN mv \cup {0}
           /\ mv[i].kind # "REVERSAL" => mv[i].source \in DOMAIN mv \cup {0}
<1>1. mv[i].kind \in Kind
  BY TableRows, MoveFields
<1> QED BY <1>1 DEF Sourced, RowSourced, Kind, Deduction, ReceiptsIn

\* A new row reverses what it names and nothing else.
LEMMA ReversedAfter ==
    ASSUME NEW mv \in Seq(Move), Sourced(mv), NEW row \in Move,
           NEW mv2, NEW n, Grown(mv, row, mv2, n),
           row.of \in DOMAIN mv \cup {0}
    PROVE  /\ \A i \in DOMAIN mv :
                 ReversedIn(mv2, i) <=> ReversedIn(mv, i) \/ row.of = i
           /\ ~ReversedIn(mv2, n)
<1>1. ASSUME NEW i \in DOMAIN mv
      PROVE  ReversedIn(mv2, i) <=> ReversedIn(mv, i) \/ row.of = i
  BY DEF ReversedIn, Grown
<1>2. ~ReversedIn(mv2, n)
  <2> SUFFICES ASSUME NEW k \in DOMAIN mv2, mv2[k].of = n PROVE FALSE
    BY DEF ReversedIn
  <2>1. CASE k = n
    BY <2>1 DEF Grown
  <2>2. CASE k \in DOMAIN mv
    BY <2>2, Backwards DEF Grown
  <2> QED BY <2>1, <2>2 DEF Grown
<1> QED BY <1>1, <1>2

\* A deduction is counted for its receipt, a receipt for itself.
LEMMA LinesAfter ==
    ASSUME NEW mv \in Seq(Move), Sourced(mv), NEW row \in Move,
           NEW mv2, NEW n, Grown(mv, row, mv2, n),
           row.kind # "REVERSAL", row.of = 0,
           row.source \in DOMAIN mv \cup {0}
    PROVE  /\ \A r \in DOMAIN mv :
                 Lines(mv2, r) =
                    IF row.source = r /\ row.project = mv[r].project
                    THEN Lines(mv, r) \cup {n} ELSE Lines(mv, r)
           /\ Lines(mv2, n) = {n}
<1>1. /\ \A i \in DOMAIN mv : ReversedIn(mv2, i) <=> ReversedIn(mv, i)
      /\ ~ReversedIn(mv2, n)
  <2>1. 0 \notin DOMAIN mv
    BY TableRows
  <2> QED BY <2>1, ReversedAfter
<1>2. ASSUME NEW r \in DOMAIN mv
      PROVE  Lines(mv2, r) =
                    IF row.source = r /\ row.project = mv[r].project
                    THEN Lines(mv, r) \cup {n} ELSE Lines(mv, r)
  <2>1. ASSUME NEW i \in DOMAIN mv
        PROVE  i \in Lines(mv2, r) <=> i \in Lines(mv, r)
    BY <1>1 DEF Lines, Grown
  <2>2. n \in Lines(mv2, r) <=> row.source = r /\ row.project = mv[r].project
    BY <1>1 DEF Lines, Grown
  <2>3. Lines(mv, r) \subseteq DOMAIN mv /\ Lines(mv2, r) \subseteq DOMAIN mv \cup {n}
    BY DEF Lines, Grown
  <2>4. n \notin DOMAIN mv
    BY DEF Grown
  <2> QED BY <2>1, <2>2, <2>3, <2>4
<1>3. Lines(mv2, n) = {n}
  <2>1. ASSUME NEW i \in DOMAIN mv PROVE i \notin Lines(mv2, n)
    <3>1. i # n /\ n # 0 /\ n \notin DOMAIN mv
      BY DEF Grown
    <3>2. mv[i].kind # "REVERSAL" => mv[i].source # n
      BY <3>1, Backwards
    <3> QED BY <3>1, <3>2 DEF Lines, Grown
  <2>2. n \in Lines(mv2, n)
    BY <1>1 DEF Lines, Grown
  <2> QED BY <2>1, <2>2 DEF Lines, Grown
<1> QED BY <1>2, <1>3

\* What is reversed is no longer counted for any receipt.
LEMMA LinesReversed ==
    ASSUME NEW mv \in Seq(Move), Sourced(mv), NEW row \in Move,
           NEW mv2, NEW n, Grown(mv, row, mv2, n),
           row.kind = "REVERSAL", row.of \in DOMAIN mv
    PROVE  \A r \in DOMAIN mv : Lines(mv2, r) = Lines(mv, r) \ {row.of}
<1>1. \A i \in DOMAIN mv :
         ReversedIn(mv2, i) <=> ReversedIn(mv, i) \/ row.of = i
  BY ReversedAfter
<1> SUFFICES ASSUME NEW r \in DOMAIN mv
             PROVE  Lines(mv2, r) = Lines(mv, r) \ {row.of}
  OBVIOUS
<1>2. ASSUME NEW i \in DOMAIN mv
      PROVE  i \in Lines(mv2, r) <=> i \in Lines(mv, r) /\ i # row.of
  BY <1>1 DEF Lines, Grown
<1>3. n \notin Lines(mv2, r)
  BY DEF Lines, Grown
<1>4. Lines(mv, r) \subseteq DOMAIN mv /\ Lines(mv2, r) \subseteq DOMAIN mv \cup {n}
  BY DEF Lines, Grown
<1> QED BY <1>2, <1>3, <1>4

-----------------------------------------------------------------------------
(* What is left of a receipt.                                              *)

\* What is left of a receipt is what came in, unless it was reversed, less
\* what has been deducted; no deduction is more than all of them.
LEMMA LeftIs ==
    ASSUME NEW mv \in Seq(Move), Sourced(mv), NEW r \in ReceiptsIn(mv),
           NEW f \in Part
    PROVE  \E d \in Nat :
              /\ Left(mv, r, f) = (IF r \in Lines(mv, r) THEN mv[r][f] ELSE 0) - d
              /\ \A i \in Lines(mv, r) : i # r => mv[i][f] <= d
<1> DEFINE S == Lines(mv, r) \ {r}
           t == [i \in Lines(mv, r) |-> Signed(mv[i], mv[i][f])]
           u == [i \in S |-> mv[i][f]]
           z == [i \in S |-> 0]
<1>1. IsFiniteSet(Lines(mv, r)) /\ Lines(mv, r) \subseteq DOMAIN mv
      /\ (\A i \in DOMAIN mv : Signed(mv[i], mv[i][f]) \in Int)
  BY LinesFinite
<1>2. \A i \in Lines(mv, r) : t[i] \in Int
  BY <1>1
<1>3. \A i \in S : u[i] \in Nat /\ t[i] = -u[i] /\ u[i] = mv[i][f]
  <2> SUFFICES ASSUME NEW i \in S
               PROVE  mv[i][f] \in Nat /\ Signed(mv[i], mv[i][f]) = -mv[i][f]
    OBVIOUS
  <2>1. mv[i] \in Move /\ mv[i].kind \notin Receipt
    BY <1>1, TableRows, LineKinds
  <2> QED BY <2>1, SignedPart
<1>4. Left(mv, r, f) = SumFunctionOnSet(t, Lines(mv, r))
  BY DEF Left, SumFunction
<1>5. r \in Lines(mv, r) => t[r] = mv[r][f] /\ mv[r][f] \in Nat
  <2>1. mv[r] \in Move /\ mv[r].kind \in Receipt
    BY TableRows DEF ReceiptsIn
  <2> QED BY <2>1, SignedPart
<1>6. IsFiniteSet(S) /\ S \subseteq Lines(mv, r)
  BY <1>1, FS_Subset
<1>7. \A i \in S : z[i] = 0
  OBVIOUS
<1> HIDE DEF t, u, z, S
<1>8. SumFunctionOnSet(u, S) \in Nat
  BY <1>3, <1>6, SumNat
<1>9. SumFunctionOnSet(t, S) = -SumFunctionOnSet(u, S)
  <2>1. SumFunctionOnSet(z, S) = SumFunctionOnSet(t, S) + SumFunctionOnSet(u, S)
    <3>1. \A i \in S : t[i] \in Int /\ u[i] \in Int /\ z[i] = t[i] + u[i]
      BY <1>3, <1>7
    <3> QED BY <1>6, <3>1, SumPlus
  <2>2. SumFunctionOnSet(z, S) = 0
    BY <1>6, <1>7, SumOfZeros
  <2>3. SumFunctionOnSet(t, S) \in Int
    BY <1>2, <1>6, SumInt
  <2> QED BY <2>1, <2>2, <2>3, <1>8
<1>10. SumFunctionOnSet(t, Lines(mv, r))
         = (IF r \in Lines(mv, r) THEN mv[r][f] ELSE 0) + SumFunctionOnSet(t, S)
  <2>1. CASE r \in Lines(mv, r)
    BY <2>1, <1>1, <1>2, <1>5, SumRemove DEF S
  <2>2. CASE r \notin Lines(mv, r)
    <3>1. S = Lines(mv, r)
      BY <2>2 DEF S
    <3>2. SumFunctionOnSet(t, S) \in Int
      BY <1>2, <1>6, SumInt
    <3> QED BY <3>1, <3>2, <2>2
  <2> QED BY <2>1, <2>2
<1>11. \A i \in S : mv[i][f] <= SumFunctionOnSet(u, S)
  <2> SUFFICES ASSUME NEW i \in S PROVE mv[i][f] <= SumFunctionOnSet(u, S)
    OBVIOUS
  <2>1. SumFunctionOnSet(u, S) = u[i] + SumFunctionOnSet(u, S \ {i})
    <3>1. \A j \in S : u[j] \in Int
      BY <1>3
    <3> QED BY <1>6, <3>1, SumRemove
  <2>2. SumFunctionOnSet(u, S \ {i}) \in Nat
    <3>1. IsFiniteSet(S \ {i}) /\ \A j \in S \ {i} : u[j] \in Nat
      BY <1>3, <1>6, FS_Subset
    <3> QED BY <3>1, SumNat
  <2> QED BY <2>1, <2>2, <1>3
<1>12. Left(mv, r, f) = (IF r \in Lines(mv, r) THEN mv[r][f] ELSE 0)
                          - SumFunctionOnSet(u, S)
  BY <1>4, <1>5, <1>8, <1>9, <1>10
<1>13. \A i \in Lines(mv, r) : i # r => mv[i][f] <= SumFunctionOnSet(u, S)
  BY <1>11 DEF S
<1> QED BY <1>8, <1>12, <1>13

\* No more is left than came in.
LEMMA LeftAtMost ==
    ASSUME NEW mv \in Seq(Move), Sourced(mv), NEW r \in ReceiptsIn(mv),
           NEW f \in Part
    PROVE  Left(mv, r, f) \in Int /\ Left(mv, r, f) <= mv[r][f]
<1>1. PICK d \in Nat :
         Left(mv, r, f) = (IF r \in Lines(mv, r) THEN mv[r][f] ELSE 0) - d
  BY LeftIs
<1>2. mv[r][f] \in Nat
  BY TableRows, SignedPart DEF ReceiptsIn
<1> QED BY <1>1, <1>2

\* Nothing has been deducted from a receipt that is there in full.
LEMMA Untouched ==
    ASSUME NEW mv \in Seq(Move), Sourced(mv), NEW r \in ReceiptsIn(mv),
           mv[r].quantity <= Left(mv, r, "quantity")
    PROVE  Lines(mv, r) = {r}
<1>1. PICK d \in Nat :
         /\ Left(mv, r, "quantity") =
              (IF r \in Lines(mv, r) THEN mv[r].quantity ELSE 0) - d
         /\ \A i \in Lines(mv, r) : i # r => mv[i].quantity <= d
  <2>1. "quantity" \in Part
    BY DEF Part
  <2> QED BY <2>1, LeftIs
<1>2. \A i \in DOMAIN mv : mv[i].quantity \in Nat \ {0}
  BY TableRows, MoveFields
<1>3. r \in DOMAIN mv /\ Lines(mv, r) \subseteq DOMAIN mv
  BY DEF ReceiptsIn, Lines
<1>4. r \in Lines(mv, r) /\ d = 0
  BY <1>1, <1>2, <1>3
<1>5. ASSUME NEW i \in Lines(mv, r), i # r PROVE FALSE
  BY <1>1, <1>2, <1>3, <1>4, <1>5
<1> QED BY <1>4, <1>5

\* A receipt that has not given too much and of which something is deducted
\* has not been reversed.
LEMMA NotReversed ==
    ASSUME NEW mv \in Seq(Move), Sourced(mv), NEW r \in ReceiptsIn(mv),
           Left(mv, r, "quantity") >= 0,
           NEW i \in Lines(mv, r), i # r
    PROVE  r \in Lines(mv, r)
<1>1. PICK d \in Nat :
         /\ Left(mv, r, "quantity") =
              (IF r \in Lines(mv, r) THEN mv[r].quantity ELSE 0) - d
         /\ mv[i].quantity <= d
  <2>1. "quantity" \in Part
    BY DEF Part
  <2> QED BY <2>1, LeftIs
<1>2. mv[i].quantity \in Nat \ {0}
  BY TableRows, MoveFields, LineKinds
<1> QED BY <1>1, <1>2

\* What is left when the lines are the same, one more, or one less.
LEMMA LeftChanges ==
    ASSUME NEW mv \in Seq(Move), NEW row \in Move,
           NEW mv2, NEW n, Grown(mv, row, mv2, n), NEW f \in Part, NEW r
    PROVE  /\ Lines(mv2, r) = Lines(mv, r) => Left(mv2, r, f) = Left(mv, r, f)
           /\ Lines(mv2, r) = Lines(mv, r) \cup {n} =>
                 Left(mv2, r, f) = Left(mv, r, f) + Signed(row, row[f])
           /\ \A i \in Lines(mv, r) : Lines(mv2, r) = Lines(mv, r) \ {i} =>
                 Left(mv2, r, f) = Left(mv, r, f) - Signed(mv[i], mv[i][f])
<1> DEFINE S == Lines(mv, r)
           S2 == Lines(mv2, r)
           t == [i \in S |-> Signed(mv[i], mv[i][f])]
           t2 == [i \in S2 |-> Signed(mv2[i], mv2[i][f])]
<1>1. IsFiniteSet(S) /\ S \subseteq DOMAIN mv
      /\ (\A i \in DOMAIN mv : Signed(mv[i], mv[i][f]) \in Int)
  BY LinesFinite
<1>2. IsFiniteSet(S2) /\ S2 \subseteq DOMAIN mv2
      /\ (\A i \in DOMAIN mv2 : Signed(mv2[i], mv2[i][f]) \in Int)
  BY LinesFinite DEF Grown
<1>3. /\ Left(mv, r, f) = SumFunctionOnSet(t, S)
      /\ Left(mv2, r, f) = SumFunctionOnSet(t2, S2)
  BY DEF Left, SumFunction
<1>4. /\ \A i \in S : t[i] \in Int /\ t[i] = Signed(mv[i], mv[i][f])
      /\ \A i \in S2 : t2[i] \in Int
  BY <1>1, <1>2
<1>5. n \notin S /\ \A i \in S : i \in S2 => t2[i] = t[i]
  BY <1>1 DEF Grown
<1>6. n \in S2 => t2[n] = Signed(row, row[f])
  BY DEF Grown
<1> HIDE DEF S, S2, t, t2
<1>7. ASSUME S2 = S PROVE Left(mv2, r, f) = Left(mv, r, f)
  BY <1>1, <1>3, <1>5, <1>7, SumSame
<1>8. ASSUME S2 = S \cup {n}
      PROVE  Left(mv2, r, f) = Left(mv, r, f) + Signed(row, row[f])
  <2>1. n \in S2 /\ t2[n] \in Int /\ \A i \in S : t[i] \in Int /\ t2[i] = t[i]
    BY <1>4, <1>5, <1>8
  <2>2. SumFunctionOnSet(t2, S2) = t2[n] + SumFunctionOnSet(t2, S2 \ {n})
    BY <1>2, <1>4, <2>1, SumRemove
  <2>3. SumFunctionOnSet(t2, S2 \ {n}) = SumFunctionOnSet(t, S)
    <3>1. S2 \ {n} = S
      BY <1>5, <1>8
    <3> QED BY <3>1, <1>1, <2>1, SumSame
  <2>4. SumFunctionOnSet(t, S) \in Int
    BY <1>1, <1>4, SumInt
  <2> QED BY <2>1, <2>2, <2>3, <2>4, <1>3, <1>6
<1>9. ASSUME NEW i \in S, S2 = S \ {i}
      PROVE  Left(mv2, r, f) = Left(mv, r, f) - Signed(mv[i], mv[i][f])
  <2>1. SumFunctionOnSet(t, S) = t[i] + SumFunctionOnSet(t, S \ {i})
    BY <1>1, <1>4, SumRemove
  <2>2. SumFunctionOnSet(t2, S2) = SumFunctionOnSet(t, S2)
    BY <1>2, <1>5, <1>9, SumSame
  <2>3. SumFunctionOnSet(t, S2) \in Int
    BY <1>2, <1>4, <1>9, SumInt
  <2> QED BY <2>1, <2>2, <2>3, <1>3, <1>4, <1>9
<1> QED BY <1>7, <1>8, <1>9 DEF S, S2

-----------------------------------------------------------------------------
(* What is left at all, and what is spent.                                 *)

\* These are integers.
LEMMA AtAllInteger ==
    ASSUME NEW mv \in Seq(Move)
    PROVE  /\ \A f \in Part : LeftAtAll(mv, f) \in Int
           /\ SpentAtAll(mv) \in Int
           /\ IsFiniteSet(ReceiptsIn(mv)) /\ ReceiptsIn(mv) \subseteq DOMAIN mv
           /\ IsFiniteSet(SpentIn(mv)) /\ SpentIn(mv) \subseteq DOMAIN mv
<1>1. IsFiniteSet(ReceiptsIn(mv)) /\ ReceiptsIn(mv) \subseteq DOMAIN mv
  <2>1. ReceiptsIn(mv) \subseteq DOMAIN mv
    BY DEF ReceiptsIn
  <2> QED BY <2>1, TableRows, FS_Subset
<1>2. IsFiniteSet(SpentIn(mv)) /\ SpentIn(mv) \subseteq DOMAIN mv
  <2>1. SpentIn(mv) \subseteq DOMAIN mv
    BY DEF SpentIn
  <2> QED BY <2>1, TableRows, FS_Subset
<1>3. ASSUME NEW f \in Part PROVE LeftAtAll(mv, f) \in Int
  <2> DEFINE t == [r \in ReceiptsIn(mv) |-> Left(mv, r, f)]
  <2>1. \A r \in ReceiptsIn(mv) : t[r] \in Int
    BY LinesFinite
  <2>2. LeftAtAll(mv, f) = SumFunctionOnSet(t, ReceiptsIn(mv))
    BY DEF LeftAtAll, SumFunction
  <2> HIDE DEF t
  <2> QED BY <1>1, <2>1, <2>2, SumInt
<1>4. SpentAtAll(mv) \in Int
  <2> DEFINE t == [i \in SpentIn(mv) |-> mv[i].quantity]
  <2>1. \A i \in SpentIn(mv) : t[i] \in Int
    BY <1>2, TableRows, MoveFields
  <2>2. SpentAtAll(mv) = SumFunctionOnSet(t, SpentIn(mv))
    BY DEF SpentAtAll, SumFunction
  <2> HIDE DEF t
  <2> QED BY <1>2, <2>1, <2>2, SumInt
<1> QED BY <1>1, <1>2, <1>3, <1>4

\* What is left at all changes by what is left of the one receipt that is
\* affected.
LEMMA AtAllChanges ==
    ASSUME NEW mv \in Seq(Move), NEW row \in Move,
           NEW mv2, NEW n, Grown(mv, row, mv2, n), row.kind \notin Receipt,
           NEW f \in Part, NEW r \in ReceiptsIn(mv),
           \A x \in ReceiptsIn(mv) : x # r => Left(mv2, x, f) = Left(mv, x, f)
    PROVE  /\ ReceiptsIn(mv2) = ReceiptsIn(mv)
           /\ LeftAtAll(mv2, f)
                = LeftAtAll(mv, f) + (Left(mv2, r, f) - Left(mv, r, f))
<1> DEFINE S == ReceiptsIn(mv)
           t == [x \in S |-> Left(mv, x, f)]
           t2 == [x \in S |-> Left(mv2, x, f)]
<1>1. ReceiptsIn(mv2) = S
  BY DEF ReceiptsIn, Grown
<1>2. /\ LeftAtAll(mv, f) = SumFunctionOnSet(t, S)
      /\ LeftAtAll(mv2, f) = SumFunctionOnSet(t2, S)
  BY <1>1 DEF LeftAtAll, SumFunction
<1>3. IsFiniteSet(S)
  BY AtAllInteger
<1>4. \A x \in S : t[x] \in Int /\ t2[x] \in Int
  BY LinesFinite DEF Grown
<1>5. \A x \in S : x # r => t[x] = t2[x]
  OBVIOUS
<1>6. t[r] = Left(mv, r, f) /\ t2[r] = Left(mv2, r, f) /\ r \in S
  OBVIOUS
<1> HIDE DEF S, t, t2
<1>7. SumFunctionOnSet(t2, S) = SumFunctionOnSet(t, S) + (t2[r] - t[r])
  <2>1. \A x \in S : t[x] \in Int
    BY <1>4
  <2>2. \A x \in S : t2[x] \in Int
    BY <1>4
  <2>3. SumFunctionOnSet(t, S) = t[r] + SumFunctionOnSet(t, S \ {r})
    BY <1>3, <1>6, <2>1, SumRemove
  <2>4. SumFunctionOnSet(t2, S) = t2[r] + SumFunctionOnSet(t2, S \ {r})
    BY <1>3, <1>6, <2>2, SumRemove
  <2>5. IsFiniteSet(S \ {r}) /\ (\A x \in S \ {r} : t[x] = t2[x] /\ t[x] \in Int)
    BY <1>3, <1>5, <2>1, FS_Subset
  <2>6. /\ SumFunctionOnSet(t, S \ {r}) = SumFunctionOnSet(t2, S \ {r})
        /\ SumFunctionOnSet(t, S \ {r}) \in Int
    BY <2>5, SumSame, SumInt
  <2> QED BY <1>4, <1>6, <2>3, <2>4, <2>6
<1> QED BY <1>1, <1>2, <1>6, <1>7 DEF S

\* A new receipt adds what it brings.
LEMMA AtAllGrows ==
    ASSUME NEW mv \in Seq(Move), NEW row \in Move,
           NEW mv2, NEW n, Grown(mv, row, mv2, n), row.kind \in Receipt,
           NEW f \in Part,
           \A x \in ReceiptsIn(mv) : Left(mv2, x, f) = Left(mv, x, f)
    PROVE  /\ ReceiptsIn(mv2) = ReceiptsIn(mv) \cup {n}
           /\ LeftAtAll(mv2, f) = LeftAtAll(mv, f) + Left(mv2, n, f)
<1> DEFINE S == ReceiptsIn(mv)
           S2 == ReceiptsIn(mv2)
           t == [x \in S |-> Left(mv, x, f)]
           t2 == [x \in S2 |-> Left(mv2, x, f)]
<1>1. S2 = S \cup {n} /\ n \notin S
  BY DEF ReceiptsIn, Grown
<1>2. /\ LeftAtAll(mv, f) = SumFunctionOnSet(t, S)
      /\ LeftAtAll(mv2, f) = SumFunctionOnSet(t2, S2)
  BY DEF LeftAtAll, SumFunction
<1>3. IsFiniteSet(S) /\ IsFiniteSet(S2)
  BY AtAllInteger DEF Grown
<1>4. (\A x \in S : t[x] \in Int) /\ (\A x \in S2 : t2[x] \in Int)
  BY LinesFinite DEF Grown
<1>5. \A x \in S : t[x] = t2[x]
  BY <1>1
<1>6. t2[n] = Left(mv2, n, f) /\ n \in S2 /\ S2 \ {n} = S
  BY <1>1
<1> HIDE DEF S, S2, t, t2
<1>7. SumFunctionOnSet(t2, S2) = t2[n] + SumFunctionOnSet(t2, S2 \ {n})
  BY <1>3, <1>4, <1>6, SumRemove
<1>8. SumFunctionOnSet(t2, S) = SumFunctionOnSet(t, S)
  BY <1>3, <1>5, SumSame
<1>9. SumFunctionOnSet(t, S) \in Int /\ t2[n] \in Int
  BY <1>3, <1>4, <1>6, SumInt
<1>10. LeftAtAll(mv2, f) = LeftAtAll(mv, f) + Left(mv2, n, f)
  <2>1. SumFunctionOnSet(t2, S2) = t2[n] + SumFunctionOnSet(t, S)
    BY <1>6, <1>7, <1>8
  <2> QED BY <1>2, <1>6, <1>9, <2>1
<1>11. ReceiptsIn(mv2) = ReceiptsIn(mv) \cup {n}
  BY <1>1 DEF S, S2
<1> QED BY <1>10, <1>11

\* What a new row adds to what is spent.
LEMMA SpentAfter ==
    ASSUME NEW mv \in Seq(Move), Sourced(mv), NEW row \in Move,
           NEW mv2, NEW n, Grown(mv, row, mv2, n), row.of = 0
    PROVE  SpentAtAll(mv2) = SpentAtAll(mv)
              + (IF row.kind \in {"CONSUMPTION", "RETURN_TO_VENDOR"}
                 THEN row.quantity ELSE 0)
<1> DEFINE S == SpentIn(mv)
           S2 == SpentIn(mv2)
           t == [x \in S |-> mv[x].quantity]
           t2 == [x \in S2 |-> mv2[x].quantity]
<1>1. /\ \A i \in DOMAIN mv : ReversedIn(mv2, i) <=> ReversedIn(mv, i)
      /\ ~ReversedIn(mv2, n)
  <2>1. 0 \notin DOMAIN mv
    BY TableRows
  <2> QED BY <2>1, ReversedAfter
<1>2. S2 = IF row.kind \in {"CONSUMPTION", "RETURN_TO_VENDOR"}
           THEN S \cup {n} ELSE S
  <2>1. \A i \in DOMAIN mv : i \in S2 <=> i \in S
    BY <1>1 DEF SpentIn, Grown
  <2>2. n \in S2 <=> row.kind \in {"CONSUMPTION", "RETURN_TO_VENDOR"}
    BY <1>1 DEF SpentIn, Grown
  <2>3. S2 \subseteq DOMAIN mv \cup {n} /\ S \subseteq DOMAIN mv
    BY DEF SpentIn, Grown
  <2> HIDE DEF S, S2
  <2> QED BY <2>1, <2>2, <2>3
<1>3. /\ SpentAtAll(mv) = SumFunctionOnSet(t, S)
      /\ SpentAtAll(mv2) = SumFunctionOnSet(t2, S2)
  BY DEF SpentAtAll, SumFunction
<1>4. IsFiniteSet(S) /\ IsFiniteSet(S2) /\ n \notin S
  BY AtAllInteger DEF Grown
<1>5. (\A x \in S : t[x] \in Int) /\ (\A x \in S2 : t2[x] \in Int)
  BY TableRows, MoveFields, AtAllInteger DEF Grown
<1>6. \A x \in S : x \in S2 => t2[x] = t[x]
  BY DEF SpentIn, Grown
<1>7. n \in S2 => t2[n] = row.quantity
  BY DEF Grown
<1> HIDE DEF S, S2, t, t2
<1>8. SumFunctionOnSet(t, S) \in Int
  BY <1>4, <1>5, SumInt
<1>9. CASE row.kind \in {"CONSUMPTION", "RETURN_TO_VENDOR"}
  <2>1. n \in S2 /\ S2 \ {n} = S
    BY <1>2, <1>4, <1>9
  <2>2. SumFunctionOnSet(t2, S2) = t2[n] + SumFunctionOnSet(t2, S2 \ {n})
    BY <1>4, <1>5, <2>1, SumRemove
  <2>3. SumFunctionOnSet(t2, S) = SumFunctionOnSet(t, S)
    BY <1>4, <1>6, <2>1, SumSame
  <2>4. t2[n] \in Int
    BY <1>5, <2>1
  <2>5. SumFunctionOnSet(t2, S2) = t2[n] + SumFunctionOnSet(t, S)
    BY <2>1, <2>2, <2>3
  <2>6. SumFunctionOnSet(t2, S2) = SumFunctionOnSet(t, S) + row.quantity
    BY <2>1, <2>4, <2>5, <1>7, <1>8
  <2> QED BY <2>6, <1>3, <1>9
<1>10. CASE row.kind \notin {"CONSUMPTION", "RETURN_TO_VENDOR"}
  <2>1. S2 = S
    BY <1>2, <1>10
  <2>2. SumFunctionOnSet(t2, S) = SumFunctionOnSet(t, S)
    BY <1>4, <1>6, <2>1, SumSame
  <2> QED BY <2>1, <2>2, <1>3, <1>8, <1>10
<1> QED BY <1>9, <1>10

\* What a reversal takes from what is spent.
LEMMA SpentReversed ==
    ASSUME NEW mv \in Seq(Move), Sourced(mv), NEW row \in Move,
           NEW mv2, NEW n, Grown(mv, row, mv2, n),
           row.kind = "REVERSAL", row.of \in DOMAIN mv
    PROVE  SpentAtAll(mv2) = SpentAtAll(mv)
              - (IF row.of \in SpentIn(mv) THEN mv[row.of].quantity ELSE 0)
<1> DEFINE S == SpentIn(mv)
           S2 == SpentIn(mv2)
           t == [x \in S |-> mv[x].quantity]
           t2 == [x \in S2 |-> mv2[x].quantity]
<1>1. \A i \in DOMAIN mv :
         ReversedIn(mv2, i) <=> ReversedIn(mv, i) \/ row.of = i
  BY ReversedAfter
<1>2. S2 = S \ {row.of}
  <2>1. \A i \in DOMAIN mv : i \in S2 <=> i \in S /\ i # row.of
    BY <1>1 DEF SpentIn, Grown
  <2>2. n \notin S2
    BY DEF SpentIn, Grown
  <2>3. S2 \subseteq DOMAIN mv \cup {n} /\ S \subseteq DOMAIN mv
    BY DEF SpentIn, Grown
  <2> HIDE DEF S, S2
  <2> QED BY <2>1, <2>2, <2>3
<1>3. /\ SpentAtAll(mv) = SumFunctionOnSet(t, S)
      /\ SpentAtAll(mv2) = SumFunctionOnSet(t2, S2)
  BY DEF SpentAtAll, SumFunction
<1>4. IsFiniteSet(S) /\ IsFiniteSet(S2)
  BY AtAllInteger DEF Grown
<1>5. \A x \in S : t[x] \in Int /\ t[x] = mv[x].quantity
  BY TableRows, MoveFields, AtAllInteger
<1>6. \A x \in S2 : t2[x] = t[x]
  BY <1>2 DEF SpentIn, Grown
<1> HIDE DEF S, S2, t, t2
<1>7. SumFunctionOnSet(t2, S2) = SumFunctionOnSet(t, S2)
  BY <1>4, <1>6, SumSame
<1>8. SumFunctionOnSet(t, S2) \in Int
  BY <1>2, <1>4, <1>5, SumInt
<1>9. CASE row.of \in S
  <2>1. SumFunctionOnSet(t, S) = t[row.of] + SumFunctionOnSet(t, S \ {row.of})
    BY <1>4, <1>5, <1>9, SumRemove
  <2> QED BY <2>1, <1>2, <1>3, <1>5, <1>7, <1>8, <1>9 DEF S
<1>10. CASE row.of \notin S
  <2>1. S2 = S
    BY <1>2, <1>10
  <2> QED BY <2>1, <1>3, <1>7, <1>8, <1>10 DEF S
<1> QED BY <1>9, <1>10

-----------------------------------------------------------------------------
(* What an operation does to the rows.                                     *)

\* mv2 has rows as sound as mv, and so much more is left and spent.
Onward(mv, mv2, quantity, total, spent) ==
    /\ mv2 \in Seq(Move) /\ Sourced(mv2) /\ Covered(mv2)
    /\ LeftAtAll(mv2, "quantity") = LeftAtAll(mv, "quantity") + quantity
    /\ LeftAtAll(mv2, "total") = LeftAtAll(mv, "total") + total
    /\ SpentAtAll(mv2) = SpentAtAll(mv) + spent

\* A row that is sound may be appended to sound rows.
LEMMA SourcedAfter ==
    ASSUME NEW mv \in Seq(Move), Sourced(mv), NEW row \in Move,
           RowSourced(mv, row), NEW mv2, NEW n, Grown(mv, row, mv2, n)
    PROVE  /\ Sourced(mv2)
           /\ row.of \in DOMAIN mv \cup {0}
           /\ row.kind # "REVERSAL" => /\ row.of = 0
                                       /\ row.source \in DOMAIN mv \cup {0}
<1>1. ASSUME NEW m, RowSourced(mv, m) PROVE RowSourced(mv2, m)
  BY <1>1 DEF RowSourced, Grown, ReceiptsIn
<1>2. Sourced(mv2)
  BY <1>1 DEF Sourced, Grown
<1>3. row.kind \in Kind
  BY MoveFields
<1> QED BY <1>2, <1>3 DEF RowSourced, Kind, Deduction, ReceiptsIn

\* The parts.
LEMMA Parts == "quantity" \in Part /\ "total" \in Part
BY DEF Part

\* What is taken from a receipt that has enough.
LEMMA Deducted ==
    ASSUME NEW mv \in Seq(Move), Sourced(mv), Covered(mv), NEW row \in Move,
           RowSourced(mv, row), row.kind \in Deduction,
           row.quantity <= Left(mv, row.source, "quantity"),
           row.total <= Left(mv, row.source, "total"),
           row.quantity = Left(mv, row.source, "quantity") =>
              row.total = Left(mv, row.source, "total")
    PROVE  Onward(mv, Append(mv, row), -row.quantity, -row.total,
                  IF row.kind \in {"CONSUMPTION", "RETURN_TO_VENDOR"}
                  THEN row.quantity ELSE 0)
<1> DEFINE mv2 == Append(mv, row)
           n == Len(mv) + 1
           r == row.source
<1>1. Grown(mv, row, mv2, n)
  BY GrownBy
<1>2. /\ r \in ReceiptsIn(mv) /\ mv[r].project = row.project /\ row.of = 0
      /\ row.kind # "REVERSAL" /\ row.kind \notin Receipt
  BY DEF RowSourced, Deduction, Receipt
<1> HIDE DEF mv2, n
<1>3. Sourced(mv2) /\ row.source \in DOMAIN mv \cup {0} /\ mv2 \in Seq(Move)
  BY <1>1, <1>2, SourcedAfter DEF Grown
<1>4. /\ \A x \in ReceiptsIn(mv) : x # r => Lines(mv2, x) = Lines(mv, x)
      /\ Lines(mv2, r) = Lines(mv, r) \cup {n}
  <2>1. \A x \in DOMAIN mv :
          Lines(mv2, x) = IF row.source = x /\ row.project = mv[x].project
                          THEN Lines(mv, x) \cup {n} ELSE Lines(mv, x)
    BY <1>1, <1>2, <1>3, LinesAfter
  <2> QED BY <2>1, <1>2 DEF ReceiptsIn
<1>5. ASSUME NEW f \in Part
      PROVE  /\ \A x \in ReceiptsIn(mv) : x # r => Left(mv2, x, f) = Left(mv, x, f)
             /\ Left(mv2, r, f) = Left(mv, r, f) - row[f]
             /\ Left(mv, r, f) \in Int /\ row[f] \in Nat
             /\ ReceiptsIn(mv2) = ReceiptsIn(mv)
             /\ LeftAtAll(mv2, f) = LeftAtAll(mv, f) - row[f]
  <2>1. \A x \in ReceiptsIn(mv) : x # r => Left(mv2, x, f) = Left(mv, x, f)
    BY <1>1, <1>4, LeftChanges
  <2>2. Left(mv2, r, f) = Left(mv, r, f) + Signed(row, row[f])
    BY <1>1, <1>4, LeftChanges
  <2>3. Signed(row, row[f]) = -row[f] /\ row[f] \in Nat
    BY <1>2, SignedPart
  <2>4. Left(mv, r, f) \in Int
    BY LinesFinite
  <2>5. /\ ReceiptsIn(mv2) = ReceiptsIn(mv)
        /\ LeftAtAll(mv2, f)
             = LeftAtAll(mv, f) + (Left(mv2, r, f) - Left(mv, r, f))
    BY <1>1, <1>2, <2>1, AtAllChanges
  <2>6. LeftAtAll(mv, f) \in Int
    BY AtAllInteger
  <2> QED BY <2>1, <2>2, <2>3, <2>4, <2>5, <2>6
<1>6. /\ row["quantity"] = row.quantity /\ row["total"] = row.total
      /\ row.quantity \in Nat \ {0} /\ row.total \in Nat
  BY MoveFields
<1>7. Covered(mv2)
  <2> SUFFICES ASSUME NEW x \in ReceiptsIn(mv)
               PROVE  /\ Left(mv2, x, "quantity") \in 0..mv2[x].quantity
                      /\ Left(mv2, x, "total") \in 0..mv2[x].total
                      /\ Left(mv2, x, "quantity") = 0 => Left(mv2, x, "total") = 0
    BY <1>5, Parts DEF Covered
  <2>1. mv2[x] = mv[x] /\ mv[x].quantity \in Nat /\ mv[x].total \in Nat
    BY <1>1, TableRows, MoveFields DEF Grown, ReceiptsIn
  <2>2. /\ Left(mv, x, "quantity") \in 0..mv[x].quantity
        /\ Left(mv, x, "total") \in 0..mv[x].total
        /\ Left(mv, x, "quantity") = 0 => Left(mv, x, "total") = 0
    BY DEF Covered
  <2>3. CASE x # r
    BY <2>1, <2>2, <2>3, <1>5, Parts
  <2>4. CASE x = r
    <3>1. /\ Left(mv2, r, "quantity") = Left(mv, r, "quantity") - row.quantity
          /\ Left(mv2, r, "total") = Left(mv, r, "total") - row.total
      BY <1>5, <1>6, Parts
    <3> QED BY <3>1, <2>1, <2>2, <2>4, <1>6
  <2> QED BY <2>3, <2>4
<1>8. SpentAtAll(mv2) = SpentAtAll(mv)
              + (IF row.kind \in {"CONSUMPTION", "RETURN_TO_VENDOR"}
                 THEN row.quantity ELSE 0)
  BY <1>1, <1>2, SpentAfter
<1>9. /\ LeftAtAll(mv2, "quantity") = LeftAtAll(mv, "quantity") + -row.quantity
      /\ LeftAtAll(mv2, "total") = LeftAtAll(mv, "total") + -row.total
  <2>1. LeftAtAll(mv, "quantity") \in Int /\ LeftAtAll(mv, "total") \in Int
    BY AtAllInteger, Parts
  <2> QED BY <2>1, <1>5, <1>6, Parts
<1> QED BY <1>3, <1>7, <1>8, <1>9 DEF Onward, mv2

\* What comes in at a project.
LEMMA Received ==
    ASSUME NEW mv \in Seq(Move), Sourced(mv), Covered(mv), NEW row \in Move,
           RowSourced(mv, row), row.kind \in Receipt
    PROVE  /\ Onward(mv, Append(mv, row), row.quantity, row.total, 0)
           /\ \A f \in Part, x \in ReceiptsIn(mv) :
                 Left(Append(mv, row), x, f) = Left(mv, x, f)
<1> DEFINE mv2 == Append(mv, row)
           n == Len(mv) + 1
<1>1. Grown(mv, row, mv2, n)
  BY GrownBy
<1>2. /\ row.of = 0 /\ row.kind # "REVERSAL"
      /\ row.kind \notin {"CONSUMPTION", "RETURN_TO_VENDOR"}
      /\ \A x \in ReceiptsIn(mv) :
            x \in DOMAIN mv /\ ~(row.source = x /\ row.project = mv[x].project)
  <2>1. 0 \notin DOMAIN mv
    BY TableRows
  <2> QED BY <2>1 DEF RowSourced, Receipt, ReceiptsIn
<1> HIDE DEF mv2, n
<1>3. Sourced(mv2) /\ row.source \in DOMAIN mv \cup {0} /\ mv2 \in Seq(Move)
  BY <1>1, <1>2, SourcedAfter DEF Grown
<1>4. /\ \A x \in ReceiptsIn(mv) : Lines(mv2, x) = Lines(mv, x)
      /\ Lines(mv2, n) = {n}
  <2>1. /\ \A x \in DOMAIN mv :
             Lines(mv2, x) = IF row.source = x /\ row.project = mv[x].project
                             THEN Lines(mv, x) \cup {n} ELSE Lines(mv, x)
        /\ Lines(mv2, n) = {n}
    BY <1>1, <1>2, <1>3, LinesAfter
  <2> QED BY <2>1, <1>2
<1>5. ASSUME NEW f \in Part
      PROVE  /\ \A x \in ReceiptsIn(mv) : Left(mv2, x, f) = Left(mv, x, f)
             /\ Left(mv2, n, f) = row[f]
             /\ row[f] \in Nat
             /\ ReceiptsIn(mv2) = ReceiptsIn(mv) \cup {n}
             /\ LeftAtAll(mv2, f) = LeftAtAll(mv, f) + row[f]
  <2>1. \A x \in ReceiptsIn(mv) : Left(mv2, x, f) = Left(mv, x, f)
    BY <1>1, <1>4, LeftChanges
  <2>2. Signed(row, row[f]) = row[f] /\ row[f] \in Nat
    BY <1>2, SignedPart
  <2>3. Left(mv2, n, f) = row[f]
    <3> DEFINE t == [i \in {n} |-> Signed(mv2[i], mv2[i][f])]
    <3>1. Left(mv2, n, f) = SumFunctionOnSet(t, {n})
      BY <1>4 DEF Left, SumFunction
    <3>2. t[n] = row[f] /\ t[n] \in Int
      BY <1>1, <2>2 DEF Grown
    <3> HIDE DEF t
    <3> QED BY <3>1, <3>2, SumSingle
  <2>4. /\ ReceiptsIn(mv2) = ReceiptsIn(mv) \cup {n}
        /\ LeftAtAll(mv2, f) = LeftAtAll(mv, f) + Left(mv2, n, f)
    BY <1>1, <2>1, AtAllGrows
  <2> QED BY <2>1, <2>2, <2>3, <2>4
<1>6. /\ row["quantity"] = row.quantity /\ row["total"] = row.total
      /\ row.quantity \in Nat \ {0} /\ row.total \in Nat
  BY MoveFields
<1>7. Covered(mv2)
  <2> SUFFICES ASSUME NEW x \in ReceiptsIn(mv) \cup {n}
               PROVE  /\ Left(mv2, x, "quantity") \in 0..mv2[x].quantity
                      /\ Left(mv2, x, "total") \in 0..mv2[x].total
                      /\ Left(mv2, x, "quantity") = 0 => Left(mv2, x, "total") = 0
    BY <1>5, Parts DEF Covered
  <2>1. CASE x \in ReceiptsIn(mv)
    <3>1. mv2[x] = mv[x]
      BY <1>1, <2>1 DEF Grown, ReceiptsIn
    <3> QED BY <3>1, <2>1, <1>5, Parts DEF Covered
  <2>2. CASE x = n
    <3>1. mv2[n] = row
      BY <1>1 DEF Grown
    <3>2. Left(mv2, n, "quantity") = row.quantity /\ Left(mv2, n, "total") = row.total
      BY <1>5, <1>6, Parts
    <3> QED BY <3>1, <3>2, <2>2, <1>6
  <2> QED BY <2>1, <2>2
<1>8. SpentAtAll(mv2) = SpentAtAll(mv) + 0
  BY <1>1, <1>2, SpentAfter
<1>9. /\ LeftAtAll(mv2, "quantity") = LeftAtAll(mv, "quantity") + row.quantity
      /\ LeftAtAll(mv2, "total") = LeftAtAll(mv, "total") + row.total
  BY <1>5, <1>6, Parts
<1> QED BY <1>3, <1>5, <1>7, <1>8, <1>9 DEF Onward, mv2

\* A reversal names one row, and takes it out of one receipt.
LEMMA OneReversed ==
    ASSUME NEW mv \in Seq(Move), Sourced(mv), Covered(mv), NEW row \in Move,
           row.kind = "REVERSAL", row.of \in DOMAIN mv,
           NEW r \in ReceiptsIn(mv), row.of \in Lines(mv, r),
           \A x \in ReceiptsIn(mv) : x # r => row.of \notin Lines(mv, x)
    PROVE  /\ Sourced(Append(mv, row)) /\ Append(mv, row) \in Seq(Move)
           /\ ReceiptsIn(Append(mv, row)) = ReceiptsIn(mv)
           /\ \A i \in DOMAIN mv : Append(mv, row)[i] = mv[i]
           /\ \A f \in Part :
                 /\ \A x \in ReceiptsIn(mv) :
                       x # r => Left(Append(mv, row), x, f) = Left(mv, x, f)
                 /\ Left(Append(mv, row), r, f)
                      = Left(mv, r, f) - Signed(mv[row.of], mv[row.of][f])
                 /\ LeftAtAll(Append(mv, row), f)
                      = LeftAtAll(mv, f) - Signed(mv[row.of], mv[row.of][f])
           /\ SpentAtAll(Append(mv, row)) = SpentAtAll(mv)
                - (IF row.of \in SpentIn(mv) THEN mv[row.of].quantity ELSE 0)
<1> DEFINE mv2 == Append(mv, row)
           n == Len(mv) + 1
           i == row.of
<1>1. Grown(mv, row, mv2, n)
  BY GrownBy
<1>2. row.kind \notin Receipt /\ RowSourced(mv, row)
  BY DEF RowSourced, Deduction, Receipt
<1> HIDE DEF mv2, n
<1>3. Sourced(mv2) /\ mv2 \in Seq(Move) /\ \A j \in DOMAIN mv : mv2[j] = mv[j]
  BY <1>1, <1>2, SourcedAfter DEF Grown
<1>4. /\ \A x \in ReceiptsIn(mv) : x # r => Lines(mv2, x) = Lines(mv, x)
      /\ Lines(mv2, r) = Lines(mv, r) \ {i}
  <2>1. \A x \in DOMAIN mv : Lines(mv2, x) = Lines(mv, x) \ {row.of}
    BY <1>1, LinesReversed
  <2>2. ReceiptsIn(mv) \subseteq DOMAIN mv
    BY DEF ReceiptsIn
  <2> QED BY <2>1, <2>2
<1>5. ASSUME NEW f \in Part
      PROVE  /\ \A x \in ReceiptsIn(mv) : x # r => Left(mv2, x, f) = Left(mv, x, f)
             /\ Left(mv2, r, f) = Left(mv, r, f) - Signed(mv[i], mv[i][f])
             /\ ReceiptsIn(mv2) = ReceiptsIn(mv)
             /\ LeftAtAll(mv2, f) = LeftAtAll(mv, f) - Signed(mv[i], mv[i][f])
  <2>1. \A x \in ReceiptsIn(mv) : x # r => Left(mv2, x, f) = Left(mv, x, f)
    BY <1>1, <1>4, LeftChanges
  <2>2. Left(mv2, r, f) = Left(mv, r, f) - Signed(mv[i], mv[i][f])
    BY <1>1, <1>4, LeftChanges
  <2>3. Signed(mv[i], mv[i][f]) \in Int
    BY TableRows, SignedPart
  <2>4. Left(mv, r, f) \in Int
    BY LinesFinite
  <2>5. /\ ReceiptsIn(mv2) = ReceiptsIn(mv)
        /\ LeftAtAll(mv2, f)
             = LeftAtAll(mv, f) + (Left(mv2, r, f) - Left(mv, r, f))
    BY <1>1, <1>2, <2>1, AtAllChanges
  <2>6. LeftAtAll(mv, f) \in Int
    BY AtAllInteger
  <2> QED BY <2>1, <2>2, <2>3, <2>4, <2>5, <2>6
<1>6. SpentAtAll(mv2) = SpentAtAll(mv)
                - (IF i \in SpentIn(mv) THEN mv[i].quantity ELSE 0)
  BY <1>1, SpentReversed
<1> QED BY <1>3, <1>5, <1>6, Parts DEF mv2

\* What is taken back of a deduction.
LEMMA TakenBack ==
    ASSUME NEW mv \in Seq(Move), Sourced(mv), Covered(mv), NEW row \in Move,
           row.kind = "REVERSAL", row.of \in DOMAIN mv,
           mv[row.of].kind \in Deduction, ~ReversedIn(mv, row.of)
    PROVE  /\ Onward(mv, Append(mv, row), mv[row.of].quantity, mv[row.of].total,
                     -(IF mv[row.of].kind \in {"CONSUMPTION", "RETURN_TO_VENDOR"}
                       THEN mv[row.of].quantity ELSE 0))
           /\ \A f \in Part, x \in ReceiptsIn(mv) : x # mv[row.of].source =>
                 Left(Append(mv, row), x, f) = Left(mv, x, f)
           /\ \A i \in DOMAIN mv : Append(mv, row)[i] = mv[i]
<1> DEFINE mv2 == Append(mv, row)
           i == row.of
           r == mv[i].source
<1>1. /\ r \in ReceiptsIn(mv) /\ r \in DOMAIN mv
      /\ mv[r].project = mv[i].project
      /\ i \in DOMAIN mv /\ mv[i] \in Move
      /\ mv[i].kind \notin Receipt /\ mv[i].kind # "REVERSAL"
  BY TableRows DEF Sourced, RowSourced, Deduction, Receipt, ReceiptsIn
<1>2. i \in Lines(mv, r) /\ i # r
  BY <1>1 DEF Lines, ReceiptsIn
<1>3. \A x \in ReceiptsIn(mv) : x # r => i \notin Lines(mv, x)
  BY <1>1 DEF Lines, ReceiptsIn
<1> HIDE DEF r
<1>4. /\ Sourced(mv2) /\ mv2 \in Seq(Move)
      /\ ReceiptsIn(mv2) = ReceiptsIn(mv)
      /\ \A j \in DOMAIN mv : mv2[j] = mv[j]
      /\ \A f \in Part :
            /\ \A x \in ReceiptsIn(mv) : x # r => Left(mv2, x, f) = Left(mv, x, f)
            /\ Left(mv2, r, f) = Left(mv, r, f) - Signed(mv[i], mv[i][f])
            /\ LeftAtAll(mv2, f) = LeftAtAll(mv, f) - Signed(mv[i], mv[i][f])
      /\ SpentAtAll(mv2) = SpentAtAll(mv)
                - (IF i \in SpentIn(mv) THEN mv[i].quantity ELSE 0)
  BY <1>1, <1>2, <1>3, OneReversed
<1> HIDE DEF mv2, i
<1>5. ASSUME NEW f \in Part
      PROVE  /\ Signed(mv[i], mv[i][f]) = -mv[i][f] /\ mv[i][f] \in Nat
             /\ Left(mv, r, f) \in Int /\ LeftAtAll(mv, f) \in Int
             /\ Left(mv2, r, f) = Left(mv, r, f) + mv[i][f]
             /\ LeftAtAll(mv2, f) = LeftAtAll(mv, f) + mv[i][f]
  <2>1. Signed(mv[i], mv[i][f]) = -mv[i][f] /\ mv[i][f] \in Nat
    BY <1>1, SignedPart
  <2>2. Left(mv, r, f) \in Int /\ LeftAtAll(mv, f) \in Int
    BY LinesFinite, AtAllInteger
  <2> QED BY <2>1, <2>2, <1>4
<1>6. /\ mv[i]["quantity"] = mv[i].quantity /\ mv[i]["total"] = mv[i].total
      /\ mv[i].quantity \in Nat \ {0} /\ mv[i].total \in Nat
  BY <1>1, MoveFields
<1>7. Covered(mv2)
  <2> SUFFICES ASSUME NEW x \in ReceiptsIn(mv)
               PROVE  /\ Left(mv2, x, "quantity") \in 0..mv2[x].quantity
                      /\ Left(mv2, x, "total") \in 0..mv2[x].total
                      /\ Left(mv2, x, "quantity") = 0 => Left(mv2, x, "total") = 0
    BY <1>4 DEF Covered
  <2>1. mv2[x] = mv[x]
    BY <1>4 DEF ReceiptsIn
  <2>2. /\ Left(mv, x, "quantity") \in 0..mv[x].quantity
        /\ Left(mv, x, "total") \in 0..mv[x].total
        /\ Left(mv, x, "quantity") = 0 => Left(mv, x, "total") = 0
    BY DEF Covered
  <2>3. CASE x # r
    BY <2>1, <2>2, <2>3, <1>4, Parts
  <2>4. CASE x = r
    <3>1. /\ Left(mv2, r, "quantity") = Left(mv, r, "quantity") + mv[i].quantity
          /\ Left(mv2, r, "total") = Left(mv, r, "total") + mv[i].total
      BY <1>5, <1>6, Parts
    <3>2. /\ Left(mv2, r, "quantity") <= mv2[r]["quantity"]
          /\ Left(mv2, r, "total") <= mv2[r]["total"]
      BY <1>4, <2>4, Parts, LeftAtMost
    <3>3. /\ mv2[r]["quantity"] = mv[r].quantity /\ mv2[r]["total"] = mv[r].total
          /\ mv[r].quantity \in Nat /\ mv[r].total \in Nat
      BY <1>1, <2>1, <2>4, TableRows, MoveFields
    <3> QED BY <3>1, <3>2, <3>3, <2>1, <2>2, <2>4, <1>6
  <2> QED BY <2>3, <2>4
<1>8. SpentAtAll(mv2) = SpentAtAll(mv)
         + -(IF mv[i].kind \in {"CONSUMPTION", "RETURN_TO_VENDOR"}
             THEN mv[i].quantity ELSE 0)
  <2>1. i \in SpentIn(mv) <=> mv[i].kind \in {"CONSUMPTION", "RETURN_TO_VENDOR"}
    BY <1>1 DEF SpentIn, i
  <2>2. SpentAtAll(mv) \in Int
    BY AtAllInteger
  <2> QED BY <2>1, <2>2, <1>4, <1>6
<1>9. /\ LeftAtAll(mv2, "quantity") = LeftAtAll(mv, "quantity") + mv[i].quantity
      /\ LeftAtAll(mv2, "total") = LeftAtAll(mv, "total") + mv[i].total
  BY <1>5, <1>6, Parts
<1>10. Onward(mv, mv2, mv[i].quantity, mv[i].total,
              -(IF mv[i].kind \in {"CONSUMPTION", "RETURN_TO_VENDOR"}
                THEN mv[i].quantity ELSE 0))
  BY <1>4, <1>7, <1>8, <1>9 DEF Onward
<1> QED BY <1>4, <1>10 DEF mv2, i, r

\* What is given back of a receipt that is there in full.
LEMMA GivenBack ==
    ASSUME NEW mv \in Seq(Move), Sourced(mv), Covered(mv), NEW row \in Move,
           row.kind = "REVERSAL", row.of \in DOMAIN mv,
           mv[row.of].kind \in Receipt,
           mv[row.of].quantity <= Left(mv, row.of, "quantity")
    PROVE  Onward(mv, Append(mv, row), -mv[row.of].quantity, -mv[row.of].total, 0)
<1> DEFINE mv2 == Append(mv, row)
           i == row.of
<1>1. i \in ReceiptsIn(mv) /\ i \in DOMAIN mv /\ mv[i] \in Move
  BY TableRows DEF ReceiptsIn
<1>2. Lines(mv, i) = {i}
  BY <1>1, Untouched
<1>3. \A x \in ReceiptsIn(mv) : x # i => i \notin Lines(mv, x)
  BY LineKinds
<1>4. /\ Sourced(mv2) /\ mv2 \in Seq(Move)
      /\ ReceiptsIn(mv2) = ReceiptsIn(mv)
      /\ \A j \in DOMAIN mv : mv2[j] = mv[j]
      /\ \A f \in Part :
            /\ \A x \in ReceiptsIn(mv) : x # i => Left(mv2, x, f) = Left(mv, x, f)
            /\ Left(mv2, i, f) = Left(mv, i, f) - Signed(mv[i], mv[i][f])
            /\ LeftAtAll(mv2, f) = LeftAtAll(mv, f) - Signed(mv[i], mv[i][f])
      /\ SpentAtAll(mv2) = SpentAtAll(mv)
                - (IF i \in SpentIn(mv) THEN mv[i].quantity ELSE 0)
  BY <1>1, <1>2, <1>3, OneReversed
<1> HIDE DEF mv2, i
<1>5. ASSUME NEW f \in Part
      PROVE  /\ Left(mv2, i, f) = 0
             /\ mv[i][f] \in Nat
             /\ LeftAtAll(mv, f) \in Int
             /\ LeftAtAll(mv2, f) = LeftAtAll(mv, f) - mv[i][f]
  <2>1. Signed(mv[i], mv[i][f]) = mv[i][f] /\ mv[i][f] \in Nat
    BY <1>1, SignedPart DEF ReceiptsIn
  <2>2. Left(mv, i, f) = mv[i][f]
    <3> DEFINE t == [j \in {i} |-> Signed(mv[j], mv[j][f])]
    <3>1. Left(mv, i, f) = SumFunctionOnSet(t, {i})
      BY <1>2 DEF Left, SumFunction
    <3>2. t[i] = mv[i][f] /\ t[i] \in Int
      BY <2>1
    <3> HIDE DEF t
    <3> QED BY <3>1, <3>2, SumSingle
  <2>3. LeftAtAll(mv, f) \in Int
    BY AtAllInteger
  <2> QED BY <2>1, <2>2, <2>3, <1>4
<1>6. /\ mv[i]["quantity"] = mv[i].quantity /\ mv[i]["total"] = mv[i].total
      /\ mv[i].quantity \in Nat \ {0} /\ mv[i].total \in Nat
  BY <1>1, MoveFields
<1>7. Covered(mv2)
  <2> SUFFICES ASSUME NEW x \in ReceiptsIn(mv)
               PROVE  /\ Left(mv2, x, "quantity") \in 0..mv2[x].quantity
                      /\ Left(mv2, x, "total") \in 0..mv2[x].total
                      /\ Left(mv2, x, "quantity") = 0 => Left(mv2, x, "total") = 0
    BY <1>4 DEF Covered
  <2>1. mv2[x] = mv[x]
    BY <1>4 DEF ReceiptsIn
  <2>2. CASE x # i
    BY <2>1, <2>2, <1>4, Parts DEF Covered
  <2>3. CASE x = i
    BY <2>1, <2>3, <1>5, <1>6, Parts
  <2> QED BY <2>2, <2>3
<1>8. SpentAtAll(mv2) = SpentAtAll(mv) + 0
  <2>1. i \notin SpentIn(mv)
    BY <1>1 DEF SpentIn, ReceiptsIn, Receipt
  <2>2. SpentAtAll(mv) \in Int
    BY AtAllInteger
  <2> QED BY <2>1, <2>2, <1>4
<1>9. /\ LeftAtAll(mv2, "quantity") = LeftAtAll(mv, "quantity") + -mv[i].quantity
      /\ LeftAtAll(mv2, "total") = LeftAtAll(mv, "total") + -mv[i].total
  BY <1>5, <1>6, Parts
<1> QED BY <1>4, <1>7, <1>8, <1>9 DEF Onward, mv2, i

-----------------------------------------------------------------------------
(* The stock.                                                              *)

StockType == [Warehouse -> [AnyLot -> Held]]
StockRow == [warehouse : Warehouse, lot : AnyLot, entered : Int, moved : Int,
             value : Int]

OnShelf(st, w, l) == st[w][l].entered + st[w][l].moved

\* all that the rows of st moved between stock and projects, or are worth
InAll(st, f) ==
    SumFunction([w \in Warehouse |-> SumFunction([l \in AnyLot |-> st[w][l][f]])])

\* No warehouse lacks a named lot.
LotsHeld(st) == \A w \in Warehouse, l \in Lot : OnShelf(st, w, l) >= 0

\* The sets of warehouses and lots are finite.
LEMMA FiniteSets_ == IsFiniteSet(Warehouse) /\ IsFiniteSet(AnyLot)
<1>1. IsFiniteSet(Lot) /\ IsFiniteSet(Warehouse)
  BY MaterialsConstants
<1> QED BY <1>1, FS_AddElement DEF AnyLot

\* The fields of what a warehouse has of a lot.
LEMMA HeldFields ==
    ASSUME NEW st \in StockType, NEW w \in Warehouse, NEW l \in AnyLot
    PROVE  /\ st[w][l] \in Held
           /\ st[w][l].entered \in Int /\ st[w][l].moved \in Int
           /\ st[w][l].value \in Int /\ st[w][l].seen \in BOOLEAN
           /\ OnShelf(st, w, l) \in Int
<1>1. st[w][l] \in Held
  BY DEF StockType
<1>2. /\ st[w][l].entered \in Int /\ st[w][l].moved \in Int
      /\ st[w][l].value \in Int /\ st[w][l].seen \in BOOLEAN
  BY <1>1 DEF Held
<1> QED BY <1>1, <1>2 DEF OnShelf

\* The fields of a row.
LEMMA StockRowFields ==
    ASSUME NEW row \in StockRow
    PROVE  /\ row.warehouse \in Warehouse /\ row.lot \in AnyLot
           /\ row.entered \in Int /\ row.moved \in Int /\ row.value \in Int
BY DEF StockRow

\* A row changes what its warehouse has of its lot.
LEMMA AddedAt ==
    ASSUME NEW st \in StockType, NEW row \in StockRow
    PROVE  /\ Added(st, row) \in StockType
           /\ \A w \in Warehouse, l \in AnyLot :
                 Added(st, row)[w][l] =
                    IF w = row.warehouse /\ l = row.lot
                    THEN [entered |-> st[w][l].entered + row.entered,
                          moved |-> st[w][l].moved + row.moved,
                          value |-> st[w][l].value + row.value, seen |-> TRUE]
                    ELSE st[w][l]
<1> DEFINE v == row.warehouse
           k == row.lot
           new == [entered |-> st[v][k].entered + row.entered,
                   moved |-> st[v][k].moved + row.moved,
                   value |-> st[v][k].value + row.value, seen |-> TRUE]
<1>1. v \in Warehouse /\ k \in AnyLot
  BY StockRowFields
<1>2. new \in Held
  BY <1>1, StockRowFields, HeldFields DEF Held
<1>3. Added(st, row) = [st EXCEPT ![v][k] = new]
  BY DEF Added
<1> HIDE DEF new, v, k
<1>4. [st EXCEPT ![v][k] = new] \in StockType
  BY <1>1, <1>2 DEF StockType
<1>5. \A w \in Warehouse, l \in AnyLot :
         [st EXCEPT ![v][k] = new][w][l] = IF w = v /\ l = k THEN new ELSE st[w][l]
  BY <1>1 DEF StockType
<1>6. ASSUME NEW w \in Warehouse, NEW l \in AnyLot
      PROVE  Added(st, row)[w][l] =
                    IF w = v /\ l = k
                    THEN [entered |-> st[w][l].entered + row.entered,
                          moved |-> st[w][l].moved + row.moved,
                          value |-> st[w][l].value + row.value, seen |-> TRUE]
                    ELSE st[w][l]
  <2>1. CASE w = v /\ l = k
    BY <1>3, <1>5, <2>1 DEF new
  <2>2. CASE ~(w = v /\ l = k)
    BY <1>3, <1>5, <2>2
  <2> QED BY <2>1, <2>2
<1> QED BY <1>3, <1>4, <1>6 DEF v, k

\* A row adds its amount to what is in all.
LEMMA InAllAdded ==
    ASSUME NEW st \in StockType, NEW row \in StockRow,
           NEW f \in {"moved", "value"}
    PROVE  /\ InAll(st, f) \in Int
           /\ InAll(Added(st, row), f) = InAll(st, f) + row[f]
<1> DEFINE st2 == Added(st, row)
           v == row.warehouse
           k == row.lot
           s == [w \in Warehouse |-> [l \in AnyLot |-> st[w][l][f]]]
           s2 == [w \in Warehouse |-> [l \in AnyLot |-> st2[w][l][f]]]
           t == [w \in Warehouse |-> SumFunctionOnSet(s[w], AnyLot)]
           t2 == [w \in Warehouse |-> SumFunctionOnSet(s2[w], AnyLot)]
<1>1. v \in Warehouse /\ k \in AnyLot /\ row[f] \in Int
  <2>1. f = "moved" \/ f = "value"
    OBVIOUS
  <2> QED BY <2>1, StockRowFields
<1>2. /\ InAll(st, f) = SumFunctionOnSet(t, Warehouse)
      /\ InAll(st2, f) = SumFunctionOnSet(t2, Warehouse)
  BY DEF InAll, SumFunction
<1>3. \A w \in Warehouse, l \in AnyLot :
         /\ s[w][l] \in Int /\ s2[w][l] \in Int
         /\ s2[w][l] = IF w = v /\ l = k THEN s[w][l] + row[f] ELSE s[w][l]
  <2> SUFFICES ASSUME NEW w \in Warehouse, NEW l \in AnyLot
               PROVE  /\ st[w][l][f] \in Int /\ st2[w][l][f] \in Int
                      /\ st2[w][l][f] = IF w = v /\ l = k
                                        THEN st[w][l][f] + row[f] ELSE st[w][l][f]
    OBVIOUS
  <2>1. st2[w][l] = IF w = v /\ l = k
                    THEN [entered |-> st[w][l].entered + row.entered,
                          moved |-> st[w][l].moved + row.moved,
                          value |-> st[w][l].value + row.value, seen |-> TRUE]
                    ELSE st[w][l]
    BY AddedAt
  <2> HIDE DEF st2, v, k
  <2>2. /\ st[w][l].moved \in Int /\ st[w][l].value \in Int
        /\ row.moved \in Int /\ row.value \in Int
    BY HeldFields, StockRowFields
  <2>3. CASE f = "moved"
    BY <2>1, <2>2, <2>3
  <2>4. CASE f = "value"
    BY <2>1, <2>2, <2>4
  <2> QED BY <2>3, <2>4
<1>4. \A w \in Warehouse : /\ t[w] = SumFunctionOnSet(s[w], AnyLot)
                           /\ t2[w] = SumFunctionOnSet(s2[w], AnyLot)
  OBVIOUS
<1> HIDE DEF s, s2, t, t2, v, k
<1>5. \A w \in Warehouse : t[w] \in Int /\ t2[w] \in Int
  BY <1>3, <1>4, FiniteSets_, SumInt
<1>6. \A w \in Warehouse : w # v => t2[w] = t[w]
  <2> SUFFICES ASSUME NEW w \in Warehouse, w # v PROVE t2[w] = t[w]
    OBVIOUS
  <2>1. \A l \in AnyLot : s[w][l] = s2[w][l]
    BY <1>3
  <2>2. SumFunctionOnSet(s[w], AnyLot) = SumFunctionOnSet(s2[w], AnyLot)
    BY <2>1, FiniteSets_, SumSame
  <2> QED BY <2>2, <1>4
<1>7. t2[v] = t[v] + row[f]
  <2> DEFINE a == s[v]
             a2 == s2[v]
  <2>1. /\ \A l \in AnyLot : a[l] \in Int
        /\ \A l \in AnyLot : a2[l] \in Int
        /\ \A l \in AnyLot : l # k => a[l] = a2[l]
        /\ a2[k] = a[k] + row[f] /\ a[k] \in Int
    BY <1>1, <1>3
  <2>2. t[v] = SumFunctionOnSet(a, AnyLot) /\ t2[v] = SumFunctionOnSet(a2, AnyLot)
    BY <1>1, <1>4
  <2> HIDE DEF a, a2
  <2>3. SumFunctionOnSet(a2, AnyLot) = SumFunctionOnSet(a, AnyLot) + (a2[k] - a[k])
    <3>1. SumFunctionOnSet(a, AnyLot) = a[k] + SumFunctionOnSet(a, AnyLot \ {k})
      BY <1>1, <2>1, FiniteSets_, SumRemove
    <3>2. SumFunctionOnSet(a2, AnyLot) = a2[k] + SumFunctionOnSet(a2, AnyLot \ {k})
      BY <1>1, <2>1, FiniteSets_, SumRemove
    <3>3. IsFiniteSet(AnyLot \ {k})
      BY FiniteSets_, FS_Subset
    <3>4. \A l \in AnyLot \ {k} : a[l] = a2[l] /\ a[l] \in Int
      BY <2>1
    <3>5. /\ SumFunctionOnSet(a, AnyLot \ {k}) = SumFunctionOnSet(a2, AnyLot \ {k})
          /\ SumFunctionOnSet(a, AnyLot \ {k}) \in Int
      BY <3>3, <3>4, SumSame, SumInt
    <3>6. a[k] \in Int /\ a2[k] \in Int
      BY <1>1, <2>1
    <3> QED BY <3>1, <3>2, <3>5, <3>6
  <2>4. SumFunctionOnSet(a, AnyLot) \in Int
    BY <2>1, FiniteSets_, SumInt
  <2> QED BY <1>1, <2>1, <2>2, <2>3, <2>4
<1>8. SumFunctionOnSet(t2, Warehouse) = SumFunctionOnSet(t, Warehouse) + (t2[v] - t[v])
  <2>1. \A w \in Warehouse : t[w] \in Int
    BY <1>5
  <2>2. \A w \in Warehouse : t2[w] \in Int
    BY <1>5
  <2>3. \A w \in Warehouse : w # v => t[w] = t2[w]
    BY <1>6
  <2>4. SumFunctionOnSet(t, Warehouse)
          = t[v] + SumFunctionOnSet(t, Warehouse \ {v})
    BY <1>1, <2>1, FiniteSets_, SumRemove
  <2>5. SumFunctionOnSet(t2, Warehouse)
          = t2[v] + SumFunctionOnSet(t2, Warehouse \ {v})
    BY <1>1, <2>2, FiniteSets_, SumRemove
  <2>6. IsFiniteSet(Warehouse \ {v})
    BY FiniteSets_, FS_Subset
  <2>7. \A w \in Warehouse \ {v} : t[w] = t2[w] /\ t[w] \in Int
    BY <2>1, <2>3
  <2>8. /\ SumFunctionOnSet(t, Warehouse \ {v}) = SumFunctionOnSet(t2, Warehouse \ {v})
        /\ SumFunctionOnSet(t, Warehouse \ {v}) \in Int
    BY <2>6, <2>7, SumSame, SumInt
  <2> QED BY <1>1, <2>1, <2>2, <2>4, <2>5, <2>8
<1>9. SumFunctionOnSet(t, Warehouse) \in Int
  BY <1>5, FiniteSets_, SumInt
<1> QED BY <1>1, <1>2, <1>5, <1>7, <1>8, <1>9

\* What is in all is an integer.
LEMMA InAllInteger ==
    ASSUME NEW st \in StockType
    PROVE  InAll(st, "moved") \in Int /\ InAll(st, "value") \in Int
<1>1. ASSUME NEW f \in {"moved", "value"} PROVE InAll(st, f) \in Int
  <2> DEFINE s == [w \in Warehouse |-> [l \in AnyLot |-> st[w][l][f]]]
             t == [w \in Warehouse |-> SumFunctionOnSet(s[w], AnyLot)]
  <2>1. InAll(st, f) = SumFunctionOnSet(t, Warehouse)
    BY DEF InAll, SumFunction
  <2>2. \A w \in Warehouse, l \in AnyLot : s[w][l] \in Int
    <3> SUFFICES ASSUME NEW w \in Warehouse, NEW l \in AnyLot
                 PROVE  st[w][l][f] \in Int
      OBVIOUS
    <3>1. st[w][l].moved \in Int /\ st[w][l].value \in Int
      BY HeldFields
    <3>2. CASE f = "moved"
      BY <3>1, <3>2
    <3>3. CASE f = "value"
      BY <3>1, <3>3
    <3> QED BY <3>2, <3>3
  <2>3. \A w \in Warehouse : t[w] = SumFunctionOnSet(s[w], AnyLot)
    OBVIOUS
  <2> HIDE DEF s, t
  <2>4. \A w \in Warehouse : t[w] \in Int
    BY <2>2, <2>3, FiniteSets_, SumInt
  <2>5. SumFunctionOnSet(t, Warehouse) \in Int
    BY <2>4, FiniteSets_, SumInt
  <2> QED BY <2>1, <2>5
<1> QED BY <1>1
-----------------------------------------------------------------------------
(* The rows of an effect are added one after the other.                    *)

FoldStep(g, st, q, S) ==
    IF S = {} THEN st ELSE Added(g[S \ {Max(S)}], q[Max(S)])

IsFold(g, st, q) == g = [S \in SUBSET (DOMAIN q) |-> FoldStep(g, st, q, S)]

\* The definition of the fold, for rows.
LEMMA FoldShape ==
    ASSUME NEW st, NEW q
    PROVE  FoldLeft(Added, st, q) = (CHOOSE g : IsFold(g, st, q))[DOMAIN q]
BY DEF FoldLeft, MapThenFoldSet, IsFold, FoldStep

\* The last of one and of two rows.
LEMMA LastOf == Max({1}) = 1 /\ Max({2}) = 2 /\ Max({1, 2}) = 2
<1>1. IsFiniteSet({1}) /\ IsFiniteSet({2}) /\ IsFiniteSet({1, 2})
  <2>1. IsFiniteSet({1}) /\ IsFiniteSet({2})
    BY FS_Singleton
  <2>2. {1, 2} = {1} \cup {2}
    OBVIOUS
  <2> QED BY <2>1, <2>2, FS_Union
<1>2. Max({1}) \in {1} /\ Max({2}) \in {2}
  BY <1>1, MaxOfSet
<1>3. Max({1, 2}) \in {1, 2} /\ \A y \in {1, 2} : y <= Max({1, 2})
  BY <1>1, MaxOfSet
<1> QED BY <1>2, <1>3

\* No row, one row, two rows.
LEMMA FoldOfTwo ==
    ASSUME NEW st
    PROVE  /\ FoldLeft(Added, st, <<>>) = st
           /\ \A a : FoldLeft(Added, st, <<a>>) = Added(st, a)
           /\ \A a, b : FoldLeft(Added, st, <<a, b>>) = Added(Added(st, a), b)
<1>1. FoldLeft(Added, st, <<>>) = st
  <2> DEFINE h == [S \in {{}} |-> st]
  <2>1. SUBSET (DOMAIN <<>>) = {{}} /\ DOMAIN <<>> = {}
    OBVIOUS
  <2>2. IsFold(h, st, <<>>)
    <3>1. \A S \in {{}} : FoldStep(h, st, <<>>, S) = st
      BY DEF FoldStep
    <3> QED BY <2>1, <3>1 DEF IsFold
  <2> DEFINE g == CHOOSE g : IsFold(g, st, <<>>)
  <2>3. IsFold(g, st, <<>>)
    BY <2>2
  <2>4. FoldLeft(Added, st, <<>>) = g[{}]
    BY <2>1, FoldShape
  <2> HIDE DEF g
  <2>5. g[{}] = FoldStep(g, st, <<>>, {})
    BY <2>1, <2>3 DEF IsFold
  <2> QED BY <2>4, <2>5 DEF FoldStep
<1>2. ASSUME NEW a PROVE FoldLeft(Added, st, <<a>>) = Added(st, a)
  <2> DEFINE q == <<a>>
             h == [S \in SUBSET {1} |-> IF S = {} THEN st ELSE Added(st, a)]
  <2>1. DOMAIN q = {1} /\ q[1] = a
    OBVIOUS
  <2> HIDE DEF q
  <2>2. \A S \in SUBSET {1} : S = {} \/ S = {1}
    OBVIOUS
  <2>3. IsFold(h, st, q)
    <3>1. \A S \in SUBSET {1} :
             FoldStep(h, st, q, S) = IF S = {} THEN st ELSE Added(st, a)
      <4>1. {1} \ {Max({1})} = {} /\ h[{}] = st
        BY LastOf
      <4> HIDE DEF h
      <4> QED BY <2>1, <2>2, <4>1, LastOf DEF FoldStep
    <3>2. h = [S \in SUBSET {1} |-> FoldStep(h, st, q, S)]
      BY <3>1, Zenon
    <3> QED BY <2>1, <3>2 DEF IsFold
  <2> DEFINE g == CHOOSE g : IsFold(g, st, q)
  <2>4. IsFold(g, st, q)
    BY <2>3
  <2>5. FoldLeft(Added, st, q) = g[{1}]
    BY <2>1, FoldShape
  <2> HIDE DEF g, h
  <2>6. \A S \in SUBSET {1} : g[S] = FoldStep(g, st, q, S)
    BY <2>1, <2>4 DEF IsFold
  <2>7. g[{}] = st
    BY <2>6 DEF FoldStep
  <2>8. g[{1}] = Added(g[{}], a)
    <3>1. {1} \ {Max({1})} = {}
      BY LastOf
    <3> QED BY <2>1, <2>6, <3>1, LastOf DEF FoldStep
  <2> QED BY <2>5, <2>7, <2>8 DEF q
<1>3. ASSUME NEW a, NEW b
      PROVE  FoldLeft(Added, st, <<a, b>>) = Added(Added(st, a), b)
  <2> DEFINE q == <<a, b>>
             v(S) == IF S = {} THEN st
                     ELSE IF S = {1} THEN Added(st, a)
                     ELSE IF S = {2} THEN Added(st, b)
                     ELSE Added(Added(st, a), b)
             h == [S \in SUBSET {1, 2} |-> v(S)]
  <2>1. DOMAIN q = {1, 2} /\ q[1] = a /\ q[2] = b
    OBVIOUS
  <2> HIDE DEF q
  <2>2. /\ \A S \in SUBSET {1, 2} : S = {} \/ S = {1} \/ S = {2} \/ S = {1, 2}
        /\ {1} # {2} /\ {1} # {1, 2} /\ {2} # {1, 2} /\ {1, 2} # {}
    <3>1. ASSUME NEW S \in SUBSET {1, 2}
          PROVE  S = {} \/ S = {1} \/ S = {2} \/ S = {1, 2}
      <4>1. CASE 1 \in S /\ 2 \in S
        BY <4>1
      <4>2. CASE 1 \in S /\ 2 \notin S
        BY <4>2
      <4>3. CASE 1 \notin S /\ 2 \in S
        BY <4>3
      <4>4. CASE 1 \notin S /\ 2 \notin S
        BY <4>4
      <4> QED BY <4>1, <4>2, <4>3, <4>4
    <3>2. 1 # 2 /\ 1 \in {1} /\ 1 \notin {2} /\ 2 \notin {1} /\ 2 \in {1, 2}
      OBVIOUS
    <3> QED BY <3>1, <3>2
  <2>3. IsFold(h, st, q)
    <3>1. ASSUME NEW S \in SUBSET {1, 2} PROVE FoldStep(h, st, q, S) = v(S)
      <4>1. /\ {1} \ {Max({1})} = {} /\ {2} \ {Max({2})} = {}
            /\ {1, 2} \ {Max({1, 2})} = {1}
        BY LastOf
      <4>2. h[{}] = st /\ h[{1}] = Added(st, a)
        BY <2>2
      <4> HIDE DEF h
      <4>3. CASE S = {}
        BY <4>3 DEF FoldStep
      <4>4. CASE S = {1}
        BY <2>1, <4>1, <4>2, <4>4, LastOf DEF FoldStep
      <4>5. CASE S = {2}
        BY <2>1, <2>2, <4>1, <4>2, <4>5, LastOf DEF FoldStep
      <4>6. CASE S = {1, 2}
        BY <2>1, <2>2, <4>1, <4>2, <4>6, LastOf DEF FoldStep
      <4> QED BY <2>2, <4>3, <4>4, <4>5, <4>6
    <3>2. h = [S \in SUBSET {1, 2} |-> FoldStep(h, st, q, S)]
      BY <3>1, Zenon
    <3> QED BY <2>1, <3>2 DEF IsFold
  <2> DEFINE g == CHOOSE g : IsFold(g, st, q)
  <2>4. IsFold(g, st, q)
    BY <2>3
  <2>5. FoldLeft(Added, st, q) = g[{1, 2}]
    BY <2>1, FoldShape
  <2> HIDE DEF g, h
  <2>6. \A S \in SUBSET {1, 2} : g[S] = FoldStep(g, st, q, S)
    BY <2>1, <2>4 DEF IsFold
  <2>7. g[{}] = st
    BY <2>6 DEF FoldStep
  <2>8. g[{1}] = Added(g[{}], a)
    <3>1. {1} \ {Max({1})} = {}
      BY LastOf
    <3> QED BY <2>1, <2>6, <3>1, LastOf DEF FoldStep
  <2>9. g[{1, 2}] = Added(g[{1}], b)
    <3>1. {1, 2} \ {Max({1, 2})} = {1}
      BY LastOf
    <3>2. g[{1, 2}] = FoldStep(g, st, q, {1, 2})
      BY <2>6
    <3>3. FoldStep(g, st, q, {1, 2}) = Added(g[{1, 2} \ {Max({1, 2})}], q[Max({1, 2})])
      BY <2>2 DEF FoldStep
    <3>4. Max({1, 2}) = 2
      BY LastOf
    <3> QED BY ONLY <2>1, <3>1, <3>2, <3>3, <3>4
  <2> QED BY <2>5, <2>7, <2>8, <2>9 DEF q
<1> QED BY <1>1, <1>2, <1>3

-----------------------------------------------------------------------------
(* What an operation does to the stock.                                    *)

\* st2 is stock in which no lot is lacking, and so much more has moved and
\* is there.
Shelved(st, st2, moved, value) ==
    /\ st2 \in StockType /\ LotsHeld(st2)
    /\ InAll(st2, "moved") = InAll(st, "moved") + moved
    /\ InAll(st2, "value") = InAll(st, "value") + value

\* A row changes what is on one shelf.
LEMMA OnShelfAfter ==
    ASSUME NEW st \in StockType, NEW row \in StockRow,
           NEW w \in Warehouse, NEW l \in AnyLot
    PROVE  OnShelf(Added(st, row), w, l) =
              OnShelf(st, w, l) + (IF w = row.warehouse /\ l = row.lot
                                   THEN row.entered + row.moved ELSE 0)
<1>1. Added(st, row)[w][l] =
         IF w = row.warehouse /\ l = row.lot
         THEN [entered |-> st[w][l].entered + row.entered,
               moved |-> st[w][l].moved + row.moved,
               value |-> st[w][l].value + row.value, seen |-> TRUE]
         ELSE st[w][l]
  BY AddedAt
<1>2. /\ st[w][l].entered \in Int /\ st[w][l].moved \in Int
      /\ row.entered \in Int /\ row.moved \in Int
  BY HeldFields, StockRowFields
<1>3. CASE w = row.warehouse /\ l = row.lot
  <2>1. /\ Added(st, row)[w][l].entered = st[w][l].entered + row.entered
        /\ Added(st, row)[w][l].moved = st[w][l].moved + row.moved
    BY <1>1, <1>3
  <2> QED BY <1>2, <1>3, <2>1 DEF OnShelf
<1>4. CASE ~(w = row.warehouse /\ l = row.lot)
  <2>1. Added(st, row)[w][l] = st[w][l]
    BY <1>1, <1>4
  <2> QED BY <1>2, <1>4, <2>1 DEF OnShelf
<1> QED BY <1>3, <1>4

\* Nothing is added.
LEMMA ShelvedNone ==
    ASSUME NEW st \in StockType, LotsHeld(st)
    PROVE  Shelved(st, st, 0, 0)
<1>1. ASSUME NEW f \in {"moved", "value"} PROVE InAll(st, f) \in Int
  <2> DEFINE t == [w \in Warehouse |->
                      SumFunction([l \in AnyLot |-> st[w][l][f]])]
  <2>1. ASSUME NEW w \in Warehouse PROVE t[w] \in Int
    <3> DEFINE s == [l \in AnyLot |-> st[w][l][f]]
    <3>1. t[w] = SumFunctionOnSet(s, AnyLot)
      BY DEF SumFunction
    <3>2. \A l \in AnyLot : s[l] \in Int
      <4>1. f = "moved" \/ f = "value"
        OBVIOUS
      <4> QED BY <4>1, HeldFields
    <3> HIDE DEF s, t
    <3> QED BY <3>1, <3>2, FiniteSets_, SumInt
  <2>2. InAll(st, f) = SumFunctionOnSet(t, Warehouse)
    BY DEF InAll, SumFunction
  <2> HIDE DEF t
  <2> QED BY <2>1, <2>2, FiniteSets_, SumInt
<1>2. InAll(st, "moved") \in Int /\ InAll(st, "value") \in Int
  BY <1>1
<1> QED BY <1>2 DEF Shelved

\* One row is added.
LEMMA ShelvedOne ==
    ASSUME NEW st \in StockType, LotsHeld(st), NEW row \in StockRow,
           row.lot \in Lot =>
              OnShelf(st, row.warehouse, row.lot) + row.entered + row.moved >= 0
    PROVE  Shelved(st, Added(st, row), row.moved, row.value)
<1>1. row["moved"] = row.moved /\ row["value"] = row.value
  OBVIOUS
<1>2. /\ InAll(Added(st, row), "moved") = InAll(st, "moved") + row.moved
      /\ InAll(Added(st, row), "value") = InAll(st, "value") + row.value
      /\ Added(st, row) \in StockType
  BY <1>1, InAllAdded, AddedAt
<1>3. LotsHeld(Added(st, row))
  <2> SUFFICES ASSUME NEW w \in Warehouse, NEW l \in Lot
               PROVE  OnShelf(Added(st, row), w, l) >= 0
    BY DEF LotsHeld
  <2>1. l \in AnyLot
    BY DEF AnyLot
  <2>2. /\ OnShelf(Added(st, row), w, l) =
              OnShelf(st, w, l) + (IF w = row.warehouse /\ l = row.lot
                                   THEN row.entered + row.moved ELSE 0)
        /\ OnShelf(st, w, l) \in Int /\ row.entered \in Int /\ row.moved \in Int
    BY <2>1, OnShelfAfter, HeldFields, StockRowFields
  <2>3. OnShelf(st, w, l) >= 0
    BY DEF LotsHeld
  <2> QED BY <2>2, <2>3
<1> QED BY <1>2, <1>3 DEF Shelved

\* Two rows are added.
LEMMA ShelvedTwo ==
    ASSUME NEW st \in StockType, LotsHeld(st),
           NEW a \in StockRow, NEW b \in StockRow,
           a.lot \in Lot =>
              OnShelf(st, a.warehouse, a.lot) + a.entered + a.moved >= 0,
           b.lot \in Lot =>
              OnShelf(st, b.warehouse, b.lot)
                + (IF b.warehouse = a.warehouse /\ b.lot = a.lot
                   THEN a.entered + a.moved ELSE 0)
                + b.entered + b.moved >= 0
    PROVE  Shelved(st, Added(Added(st, a), b), a.moved + b.moved,
                   a.value + b.value)
<1>1. Shelved(st, Added(st, a), a.moved, a.value)
  BY ShelvedOne
<1>2. b.lot \in Lot =>
         OnShelf(Added(st, a), b.warehouse, b.lot) + b.entered + b.moved >= 0
  BY OnShelfAfter, StockRowFields
<1>3. Shelved(Added(st, a), Added(Added(st, a), b), b.moved, b.value)
  BY <1>1, <1>2, ShelvedOne DEF Shelved
<1>4. /\ a.moved \in Int /\ b.moved \in Int /\ a.value \in Int /\ b.value \in Int
      /\ InAll(st, "moved") \in Int /\ InAll(st, "value") \in Int
  BY StockRowFields, InAllAdded
<1> QED BY <1>1, <1>3, <1>4 DEF Shelved

-----------------------------------------------------------------------------
(* What an operation does to the journals and the bills.                   *)

AtMostOne(q, X) == q = <<>> \/ \E x \in X : q = <<x>>

\* the sum of the rows of table q that are in S
Of(q, S, f) == SumFunction([k \in S |-> q[k][f]])

Counting(js) == {k \in DOMAIN js : ~js[k].byHand}
BalanceIn(js, account) == Of(js, Counting(js), account)

\* bought for a project without stock, and for stock that did not come in
IsService(row) == ~row.goods /\ row.project # NoProject
IsUnstocked(row) == ~row.goods /\ row.project = NoProject
Services(bl) == {b \in DOMAIN bl : IsService(bl[b])}
Untracked(bl) == {b \in DOMAIN bl : IsUnstocked(bl[b])}
ChargedIn(bl) == Of(bl, Services(bl), "total")
UnstockedIn(bl) == Of(bl, Untracked(bl), "total")

\* Concatenation with a sequence of no, one or two rows.
LEMMA Concatenated ==
    ASSUME NEW X, NEW q \in Seq(X)
    PROVE  /\ q \o <<>> = q
           /\ \A x \in X : q \o <<x>> = Append(q, x)
           /\ \A x \in X, y \in X : q \o <<x, y>> = Append(Append(q, x), y)
<1>1. q \o <<>> = q
  OBVIOUS
<1>2. ASSUME NEW x \in X PROVE q \o <<x>> = Append(q, x)
  OBVIOUS
<1>3. ASSUME NEW x \in X, NEW y \in X
      PROVE  q \o <<x, y>> = Append(Append(q, x), y)
  OBVIOUS
<1> QED BY <1>1, <1>2, <1>3

\* S2 are the rows S, as they were, and perhaps row n
OneMore(S, S2, n, q, q2, f) ==
    /\ IsFiniteSet(S) /\ n \notin S
    /\ S2 = S \/ S2 = S \cup {n}
    /\ \A k \in S : q[k][f] \in Int /\ q2[k][f] = q[k][f]
    /\ n \in S2 => q2[n][f] \in Int

\* One more row of a table may be counted.
LEMMA OfGrows ==
    ASSUME NEW n, NEW q, NEW q2, NEW f, NEW S, NEW S2,
           OneMore(S, S2, n, q, q2, f)
    PROVE  /\ Of(q, S, f) \in Int
           /\ n \notin S2 => Of(q2, S2, f) = Of(q, S, f)
           /\ n \in S2 => Of(q2, S2, f) = Of(q, S, f) + q2[n][f]
<1> DEFINE t == [k \in S |-> q[k][f]]
           t2 == [k \in S2 |-> q2[k][f]]
<1>1. Of(q, S, f) = SumFunctionOnSet(t, S) /\ Of(q2, S2, f) = SumFunctionOnSet(t2, S2)
  BY DEF Of, SumFunction
<1>2. /\ \A k \in S : t[k] \in Int /\ (k \in S2 => t2[k] = t[k])
      /\ n \in S2 => t2[n] = q2[n][f] /\ t2[n] \in Int
  BY DEF OneMore
<1>3. /\ IsFiniteSet(S) /\ S \subseteq S2 /\ n \notin S
      /\ S2 = S \/ S2 = S \cup {n}
  BY DEF OneMore
<1> HIDE DEF t, t2
<1>4. SumFunctionOnSet(t, S) \in Int
  BY <1>2, <1>3, SumInt
<1>5. CASE S2 = S
  <2>1. SumFunctionOnSet(t2, S) = SumFunctionOnSet(t, S)
    BY <1>2, <1>3, <1>5, SumSame
  <2> QED BY <1>1, <1>3, <1>4, <1>5, <2>1
<1>6. CASE S2 = S \cup {n}
  <2>1. n \in S2 /\ S2 \ {n} = S /\ IsFiniteSet(S2)
    BY <1>3, <1>6, FS_AddElement
  <2>2. \A k \in S2 : t2[k] \in Int
    BY <1>2, <1>3, <1>6
  <2>3. SumFunctionOnSet(t2, S2) = t2[n] + SumFunctionOnSet(t2, S2 \ {n})
    BY <2>1, <2>2, SumRemove
  <2>4. SumFunctionOnSet(t2, S) = SumFunctionOnSet(t, S)
    BY <1>2, <1>3, SumSame
  <2>5. Of(q2, S2, f) = q2[n][f] + Of(q, S, f)
    BY <1>1, <1>2, <2>1, <2>3, <2>4
  <2>6. q2[n][f] \in Int /\ Of(q, S, f) \in Int
    BY <1>1, <1>2, <1>4, <2>1
  <2> QED BY <2>1, <2>5, <2>6
<1> QED BY <1>3, <1>5, <1>6

JournalsAfter(js, cancels, new) ==
    [k \in DOMAIN js |-> [js[k] EXCEPT !.posted = @ /\ k # cancels]] \o new

\* The fields of a journal.
LEMMA JournalFields ==
    ASSUME NEW j \in Journal
    PROVE  /\ j.source \in {"MOVE", "BILL", "NOTE", "SALE", "REVERSAL"} \X Nat
           /\ j.wip \in Int /\ j.inventory \in Int
           /\ j.posted \in BOOLEAN /\ j.byHand \in BOOLEAN
BY DEF Journal

\* A journal that is reversed loses no more than its status, and a balance
\* changes by what is posted.
LEMMA JournalsPosted ==
    ASSUME NEW js \in Seq(Journal), NEW c, NEW new, AtMostOne(new, Journal)
    PROVE  /\ JournalsAfter(js, c, new) \in Seq(Journal)
           /\ DOMAIN js \subseteq DOMAIN JournalsAfter(js, c, new)
           /\ \A k \in DOMAIN js :
                 LET j == JournalsAfter(js, c, new)[k]
                 IN  /\ j.source = js[k].source /\ j.byHand = js[k].byHand
                     /\ j.wip = js[k].wip /\ j.inventory = js[k].inventory
           /\ \A k \in DOMAIN JournalsAfter(js, c, new) \ DOMAIN js :
                 new # <<>> /\ JournalsAfter(js, c, new)[k] = new[1]
           /\ \A a \in {"wip", "inventory"} :
                 /\ BalanceIn(js, a) \in Int
                 /\ BalanceIn(JournalsAfter(js, c, new), a) = BalanceIn(js, a)
                      + (IF new # <<>> /\ ~new[1].byHand THEN new[1][a] ELSE 0)
<1> DEFINE old == [k \in DOMAIN js |-> [js[k] EXCEPT !.posted = @ /\ k # c]]
           js2 == JournalsAfter(js, c, new)
           n == Len(js) + 1
<1>1. \A k \in DOMAIN js :
         /\ js[k] \in Journal /\ old[k] \in Journal
         /\ old[k].source = js[k].source /\ old[k].byHand = js[k].byHand
         /\ old[k].wip = js[k].wip /\ old[k].inventory = js[k].inventory
  <2> SUFFICES ASSUME NEW k \in DOMAIN js
               PROVE  /\ js[k] \in Journal /\ old[k] \in Journal
                      /\ old[k].source = js[k].source
                      /\ old[k].byHand = js[k].byHand
                      /\ old[k].wip = js[k].wip
                      /\ old[k].inventory = js[k].inventory
    OBVIOUS
  <2>1. js[k] \in Journal
    BY TableRows
  <2>2. old[k] = [js[k] EXCEPT !.posted = js[k].posted /\ k # c]
    OBVIOUS
  <2> HIDE DEF old
  <2>3. [js[k] EXCEPT !.posted = js[k].posted /\ k # c] \in Journal
    BY <2>1 DEF Journal
  <2> QED BY <2>1, <2>2, <2>3 DEF Journal
<1>2. DOMAIN old = DOMAIN js /\ DOMAIN js = 1..Len(js) /\ Len(js) \in Nat
      /\ IsFiniteSet(DOMAIN js) /\ n \notin DOMAIN js
  BY TableRows
<1>3. old \in Seq(Journal) /\ Len(old) = Len(js)
  <2>1. old \in [1..Len(js) -> Journal]
    BY <1>1, <1>2
  <2>2. old \in Seq(Journal)
    BY <1>2, <2>1
  <2> QED BY <1>2, <2>2, SameLength
<1>4. js2 = old \o new
  BY DEF JournalsAfter
<1> HIDE DEF old, js2
<1>5. /\ js2 \in Seq(Journal)
      /\ DOMAIN js2 = DOMAIN js \cup (IF new = <<>> THEN {} ELSE {n})
      /\ \A k \in DOMAIN js : js2[k] = old[k]
      /\ new # <<>> => js2[n] = new[1] /\ new[1] \in Journal
  <2>1. CASE new = <<>>
    <3>1. js2 = old
      BY <1>3, <1>4, <2>1, Concatenated
    <3> QED BY <1>2, <1>3, <2>1, <3>1
  <2>2. ASSUME NEW x \in Journal, new = <<x>> PROVE <1>5!:
    <3>1. js2 = Append(old, x)
      BY <1>3, <1>4, <2>2, Concatenated
    <3>2. js2 \in Seq(Journal)
      BY <1>3, <3>1
    <3>3. new # <<>> /\ new[1] = x
      BY <2>2
    <3> QED BY <1>2, <1>3, <2>2, <3>1, <3>2, <3>3, RowAdded
  <2> QED BY <2>1, <2>2 DEF AtMostOne
<1>6. ASSUME NEW a \in {"wip", "inventory"}
      PROVE  /\ BalanceIn(js, a) \in Int
             /\ BalanceIn(js2, a) = BalanceIn(js, a)
                  + (IF new # <<>> /\ ~new[1].byHand THEN new[1][a] ELSE 0)
  <2>1. \A k \in Counting(js) : js[k][a] \in Int /\ js2[k][a] = js[k][a]
    <3> SUFFICES ASSUME NEW k \in Counting(js)
                 PROVE  js[k][a] \in Int /\ js2[k][a] = js[k][a]
      OBVIOUS
    <3>1. k \in DOMAIN js
      BY DEF Counting
    <3>2. /\ js2[k].wip = js[k].wip /\ js2[k].inventory = js[k].inventory
          /\ js[k].wip \in Int /\ js[k].inventory \in Int
      BY <1>1, <1>5, <3>1, JournalFields
    <3>3. CASE a = "wip"
      BY <3>2, <3>3
    <3>4. CASE a = "inventory"
      BY <3>2, <3>4
    <3> QED BY <3>3, <3>4
  <2>2. Counting(js2) = IF new # <<>> /\ ~new[1].byHand
                        THEN Counting(js) \cup {n} ELSE Counting(js)
    <3>1. \A k \in DOMAIN js : k \in Counting(js2) <=> k \in Counting(js)
      BY <1>1, <1>5 DEF Counting
    <3>2. n \in Counting(js2) <=> new # <<>> /\ ~new[1].byHand
      BY <1>2, <1>5 DEF Counting
    <3>3. Counting(js) \subseteq DOMAIN js /\ Counting(js2) \subseteq DOMAIN js \cup {n}
      BY <1>5 DEF Counting
    <3>4. CASE n \in Counting(js2)
      <4>1. Counting(js2) \subseteq Counting(js) \cup {n}
        BY <3>1, <3>3
      <4>2. Counting(js) \cup {n} \subseteq Counting(js2)
        BY <3>1, <3>3, <3>4
      <4> QED BY <3>2, <3>4, <4>1, <4>2
    <3>5. CASE n \notin Counting(js2)
      <4>1. Counting(js2) \subseteq Counting(js)
        BY <3>1, <3>3, <3>5
      <4>2. Counting(js) \subseteq Counting(js2)
        BY <3>1, <3>3
      <4> QED BY <3>2, <3>5, <4>1, <4>2
    <3> QED BY <3>4, <3>5
  <2>3. n \in Counting(js2) => /\ js2[n][a] = new[1][a]
                               /\ js2[n][a] \in Int
    <3> SUFFICES ASSUME new # <<>>
                 PROVE  js2[n][a] = new[1][a] /\ js2[n][a] \in Int
      BY <1>2, <2>2 DEF Counting
    <3>1. js2[n] = new[1] /\ new[1].wip \in Int /\ new[1].inventory \in Int
      BY <1>5, JournalFields
    <3>2. CASE a = "wip"
      BY <3>1, <3>2
    <3>3. CASE a = "inventory"
      BY <3>1, <3>3
    <3> QED BY <3>2, <3>3
  <2>4. Counting(js) \subseteq DOMAIN js
    BY DEF Counting
  <2>5. /\ Of(js, Counting(js), a) \in Int
        /\ n \notin Counting(js2) =>
              Of(js2, Counting(js2), a) = Of(js, Counting(js), a)
        /\ n \in Counting(js2) =>
              Of(js2, Counting(js2), a) = Of(js, Counting(js), a) + js2[n][a]
    <3>1. Counting(js2) = Counting(js) \/ Counting(js2) = Counting(js) \cup {n}
      BY <2>2
    <3>2. IsFiniteSet(DOMAIN js) /\ n \notin DOMAIN js
      BY <1>2
    <3>3. n \in Counting(js2) => js2[n][a] \in Int
      BY <2>3
    <3>4. Counting(js) \in SUBSET (DOMAIN js)
      BY <2>4
    <3>5. IsFiniteSet(Counting(js)) /\ n \notin Counting(js)
      BY <3>2, <3>4, FS_Subset
    <3> HIDE DEF n
    <3>6. OneMore(Counting(js), Counting(js2), n, js, js2, a)
      BY <2>1, <3>1, <3>3, <3>5 DEF OneMore
    <3> QED BY ONLY <3>6, OfGrows
  <2>6. n \in Counting(js2) <=> new # <<>> /\ ~new[1].byHand
    BY <1>2, <2>2, <2>4
  <2> QED BY <2>3, <2>5, <2>6 DEF BalanceIn
<1> QED BY <1>1, <1>5, <1>6 DEF js2
\* What is left of journals js in js2: all but their status, with the rows
\* of new after them; and what the balances are changed by.
JournalsKept(js, js2, new) ==
    /\ js2 \in Seq(Journal)
    /\ DOMAIN js \subseteq DOMAIN js2
    /\ \A k \in DOMAIN js :
          /\ js2[k].source = js[k].source
          /\ js2[k].wip = js[k].wip /\ js2[k].inventory = js[k].inventory
    /\ \A k \in DOMAIN js2 \ DOMAIN js : new # <<>> /\ js2[k] = new[1]

JournalsOnward(js, js2, wip, inventory) ==
    /\ js2 \in Seq(Journal)
    /\ BalanceIn(js, "wip") \in Int /\ BalanceIn(js, "inventory") \in Int
    /\ BalanceIn(js2, "wip") = BalanceIn(js, "wip") + wip
    /\ BalanceIn(js2, "inventory") = BalanceIn(js, "inventory") + inventory

\* What a journal that is not made by hand, or none, does.
LEMMA JournalsGoOn ==
    ASSUME NEW js \in Seq(Journal), NEW c, NEW new, AtMostOne(new, Journal),
           NEW wip, NEW inventory,
           wip = IF new # <<>> /\ ~new[1].byHand THEN new[1].wip ELSE 0,
           inventory = IF new # <<>> /\ ~new[1].byHand
                       THEN new[1].inventory ELSE 0
    PROVE  /\ JournalsKept(js, JournalsAfter(js, c, new), new)
           /\ JournalsOnward(js, JournalsAfter(js, c, new), wip, inventory)
<1> DEFINE js2 == JournalsAfter(js, c, new)
<1> HIDE DEF js2
<1>1. /\ js2 \in Seq(Journal)
      /\ DOMAIN js \subseteq DOMAIN js2
      /\ \A k \in DOMAIN js :
            LET j == js2[k]
            IN  /\ j.source = js[k].source /\ j.byHand = js[k].byHand
                /\ j.wip = js[k].wip /\ j.inventory = js[k].inventory
      /\ \A k \in DOMAIN js2 \ DOMAIN js : new # <<>> /\ js2[k] = new[1]
      /\ \A a \in {"wip", "inventory"} :
            /\ BalanceIn(js, a) \in Int
            /\ BalanceIn(js2, a) = BalanceIn(js, a)
                 + (IF new # <<>> /\ ~new[1].byHand THEN new[1][a] ELSE 0)
  BY JournalsPosted DEF js2
<1>2. JournalsKept(js, js2, new)
  BY <1>1 DEF JournalsKept
<1>3. ASSUME NEW a \in {"wip", "inventory"}
      PROVE  /\ BalanceIn(js, a) \in Int
             /\ BalanceIn(js2, a) = BalanceIn(js, a)
                  + (IF new # <<>> /\ ~new[1].byHand THEN new[1][a] ELSE 0)
  BY <1>1
<1>4. /\ BalanceIn(js, "wip") \in Int
      /\ BalanceIn(js2, "wip") = BalanceIn(js, "wip") + wip
  BY <1>3
<1>5. /\ BalanceIn(js, "inventory") \in Int
      /\ BalanceIn(js2, "inventory") = BalanceIn(js, "inventory") + inventory
  BY <1>3
<1>6. JournalsOnward(js, js2, wip, inventory)
  BY <1>1, <1>4, <1>5 DEF JournalsOnward
<1> QED BY <1>2, <1>6 DEF js2

\* what journals are posted for
Source == {"MOVE", "BILL", "NOTE", "SALE", "REVERSAL"} \X Nat

\* A journal is posted, or none for an amount of nothing.
LEMMA PostingIs ==
    ASSUME NEW source \in Source,
           NEW amount \in Int, NEW wip \in Int, NEW inventory \in Int,
           amount = 0 => wip = 0 /\ inventory = 0,
           NEW new, new = Posting(source, amount, wip, inventory)
    PROVE  /\ AtMostOne(new, Journal)
           /\ new # <<>> => /\ new[1].source = source
                            /\ new[1].wip = wip
                            /\ new[1].inventory = inventory
           /\ wip = IF new # <<>> /\ ~new[1].byHand THEN new[1].wip ELSE 0
           /\ inventory = IF new # <<>> /\ ~new[1].byHand
                          THEN new[1].inventory ELSE 0
<1> DEFINE j == [source |-> source, wip |-> wip, inventory |-> inventory,
                 posted |-> TRUE, byHand |-> FALSE]
<1>1. j \in Journal /\ ~j.byHand /\ j.source = source /\ j.wip = wip
      /\ j.inventory = inventory
  BY DEF Journal, Source
<1>2. new = IF amount = 0 THEN <<>> ELSE <<j>>
  BY DEF Posting
<1> HIDE DEF j
<1>3. CASE amount = 0
  BY <1>2, <1>3 DEF AtMostOne
<1>4. CASE amount # 0
  <2>1. new = <<j>> /\ new # <<>> /\ new[1] = j
    BY <1>2, <1>4
  <2>2. AtMostOne(new, Journal)
    BY <1>1, <2>1 DEF AtMostOne
  <2> QED BY <1>1, <2>1, <2>2
<1> QED BY <1>3, <1>4

BillsAfter(bl, returns, new) ==
    [b \in DOMAIN bl |-> IF b \in DOMAIN returns
        THEN [bl[b] EXCEPT !.returned = @ + returns[b]] ELSE bl[b]] \o new
NoneOver(bl) == \A b \in DOMAIN bl : bl[b].returned <= bl[b].quantity
\* what may be given back of bl
MayReturn(bl, returns) ==
    \A b \in DOMAIN returns :
       /\ b \in DOMAIN bl /\ returns[b] \in Nat
       /\ bl[b].returned + returns[b] <= bl[b].quantity
BillsKept(bl, bl2, new) ==
    /\ DOMAIN bl \subseteq DOMAIN bl2
    /\ \A b \in DOMAIN bl : /\ bl2[b].goods = bl[b].goods
                            /\ bl2[b].project = bl[b].project
    /\ \A b \in DOMAIN bl2 \ DOMAIN bl :
          new # <<>> /\ bl2[b] = new[1] /\ b = Len(bl) + 1
BillsOnward(bl, bl2, charged, unstocked) ==
    /\ bl2 \in Seq(Bill) /\ NoneOver(bl2)
    /\ ChargedIn(bl) \in Int /\ UnstockedIn(bl) \in Int
    /\ ChargedIn(bl2) = ChargedIn(bl) + charged
    /\ UnstockedIn(bl2) = UnstockedIn(bl) + unstocked

\* Nothing is given back.
LEMMA NoReturns == \A bl : MayReturn(bl, <<>>)
BY DEF MayReturn

\* The fields of a bill.
LEMMA BillFields ==
    ASSUME NEW b \in Bill
    PROVE  /\ b.lot \in AnyLot /\ b.project \in Project \cup {NoProject}
           /\ b.quantity \in Nat /\ b.total \in Nat /\ b.goods \in BOOLEAN
           /\ b.returned \in Nat
BY DEF Bill

\* One more bill may be counted.
CountedOn(bl, bl2, n, S, S2) ==
    /\ IsFiniteSet(DOMAIN bl) /\ n \notin DOMAIN bl
    /\ DOMAIN bl2 \subseteq DOMAIN bl \cup {n}
    /\ \A b \in DOMAIN bl : bl[b].total \in Int /\ bl2[b].total = bl[b].total
    /\ n \in DOMAIN bl2 => bl2[n].total \in Int
    /\ S \subseteq DOMAIN bl /\ S2 \subseteq DOMAIN bl2
    /\ \A b \in DOMAIN bl : b \in S2 <=> b \in S
LEMMA TotalGrows ==
    ASSUME NEW bl, NEW bl2, NEW n, NEW S, NEW S2, CountedOn(bl, bl2, n, S, S2)
    PROVE  /\ Of(bl, S, "total") \in Int
           /\ n \notin S2 => Of(bl2, S2, "total") = Of(bl, S, "total")
           /\ n \in S2 =>
                Of(bl2, S2, "total") = Of(bl, S, "total") + bl2[n].total
<1> USE DEF CountedOn
<1>1. S2 = S \/ S2 = S \cup {n}
  <2>1. CASE n \in S2
    <3>1. S2 \subseteq S \cup {n} /\ S \cup {n} \subseteq S2
      BY <2>1
    <3> QED BY <3>1
  <2>2. CASE n \notin S2
    <3>1. S2 \subseteq S /\ S \subseteq S2
      BY <2>2
    <3> QED BY <3>1
  <2> QED BY <2>1, <2>2
<1>2. \A b \in S : bl[b]["total"] \in Int /\ bl2[b]["total"] = bl[b]["total"]
  OBVIOUS
<1>3. n \in S2 => bl2[n]["total"] \in Int
  OBVIOUS
<1>4. IsFiniteSet(S) /\ n \notin S
  BY FS_Subset
<1>5. OneMore(S, S2, n, bl, bl2, "total")
  BY <1>1, <1>2, <1>3, <1>4 DEF OneMore
<1>6. /\ Of(bl, S, "total") \in Int
      /\ n \notin S2 => Of(bl2, S2, "total") = Of(bl, S, "total")
      /\ n \in S2 => Of(bl2, S2, "total") = Of(bl, S, "total") + bl2[n]["total"]
  BY ONLY <1>5, OfGrows
<1> QED BY <1>6

\* What a bill that is posted, and goods that are given back, do.
LEMMA BillsGoOn ==
    ASSUME NEW bl \in Seq(Bill), NoneOver(bl),
           NEW returns, MayReturn(bl, returns),
           NEW new, AtMostOne(new, Bill),
           new # <<>> => new[1].returned <= new[1].quantity,
           NEW charged,
           charged = IF new # <<>> /\ IsService(new[1])
                     THEN new[1].total ELSE 0,
           NEW unstocked,
           unstocked = IF new # <<>> /\ IsUnstocked(new[1])
                       THEN new[1].total ELSE 0
    PROVE  /\ BillsKept(bl, BillsAfter(bl, returns, new), new)
           /\ BillsOnward(bl, BillsAfter(bl, returns, new), charged, unstocked)
<1> DEFINE old == [b \in DOMAIN bl |-> IF b \in DOMAIN returns
                      THEN [bl[b] EXCEPT !.returned = @ + returns[b]]
                      ELSE bl[b]]
           bl2 == BillsAfter(bl, returns, new)
           n == Len(bl) + 1
<1>1. \A b \in DOMAIN bl :
         /\ bl[b] \in Bill /\ old[b] \in Bill
         /\ old[b].goods = bl[b].goods /\ old[b].project = bl[b].project
         /\ old[b].total = bl[b].total
         /\ old[b].returned <= old[b].quantity
  <2> SUFFICES ASSUME NEW b \in DOMAIN bl
               PROVE  /\ bl[b] \in Bill /\ old[b] \in Bill
                      /\ old[b].goods = bl[b].goods
                      /\ old[b].project = bl[b].project
                      /\ old[b].total = bl[b].total
                      /\ old[b].returned <= old[b].quantity
    OBVIOUS
  <2>1. bl[b] \in Bill
    BY TableRows
  <2>2. CASE b \in DOMAIN returns
    <3>1. /\ returns[b] \in Nat
          /\ bl[b].returned + returns[b] <= bl[b].quantity
      BY <2>2 DEF MayReturn
    <3>2. old[b] = [bl[b] EXCEPT !.returned = bl[b].returned + returns[b]]
      BY <2>2
    <3> DEFINE x == bl[b].returned + returns[b]
    <3>3. x \in Nat
      BY <2>1, <3>1, BillFields
    <3> HIDE DEF old, x
    <3>4. /\ [bl[b] EXCEPT !.returned = x] \in Bill
          /\ [bl[b] EXCEPT !.returned = x].goods = bl[b].goods
          /\ [bl[b] EXCEPT !.returned = x].project = bl[b].project
          /\ [bl[b] EXCEPT !.returned = x].total = bl[b].total
          /\ [bl[b] EXCEPT !.returned = x].quantity = bl[b].quantity
          /\ [bl[b] EXCEPT !.returned = x].returned = x
      BY <2>1, <3>3 DEF Bill
    <3> QED BY <2>1, <3>1, <3>2, <3>4 DEF x
  <2>3. CASE b \notin DOMAIN returns
    <3>1. old[b] = bl[b]
      BY <2>3
    <3> QED BY <2>1, <3>1 DEF NoneOver
  <2> QED BY <2>2, <2>3
<1>2. DOMAIN old = DOMAIN bl /\ DOMAIN bl = 1..Len(bl) /\ Len(bl) \in Nat
      /\ IsFiniteSet(DOMAIN bl) /\ n \notin DOMAIN bl
  BY TableRows
<1>3. old \in Seq(Bill) /\ Len(old) = Len(bl)
  <2>1. old \in [1..Len(bl) -> Bill]
    BY <1>1, <1>2
  <2>2. old \in Seq(Bill)
    BY <1>2, <2>1
  <2> QED BY <1>2, <2>2, SameLength
<1>4. bl2 = old \o new
  BY DEF BillsAfter
<1> HIDE DEF old, bl2
<1>5. /\ bl2 \in Seq(Bill)
      /\ DOMAIN bl2 = DOMAIN bl \cup (IF new = <<>> THEN {} ELSE {n})
      /\ \A b \in DOMAIN bl : bl2[b] = old[b]
      /\ new # <<>> => bl2[n] = new[1] /\ new[1] \in Bill
  <2>1. CASE new = <<>>
    <3>1. bl2 = old
      BY <1>3, <1>4, <2>1, Concatenated
    <3> QED BY <1>2, <1>3, <2>1, <3>1
  <2>2. ASSUME NEW x \in Bill, new = <<x>> PROVE <1>5!:
    <3>1. bl2 = Append(old, x)
      BY <1>3, <1>4, <2>2, Concatenated
    <3>2. bl2 \in Seq(Bill)
      BY <1>3, <3>1
    <3>3. new # <<>> /\ new[1] = x
      BY <2>2
    <3> QED BY <1>2, <1>3, <2>2, <3>1, <3>2, <3>3, RowAdded
  <2> QED BY <2>1, <2>2 DEF AtMostOne
<1>6. BillsKept(bl, bl2, new)
  <2>1. \A b \in DOMAIN bl2 \ DOMAIN bl : new # <<>> /\ b = n
    BY <1>5
  <2> QED BY <1>1, <1>5, <2>1 DEF BillsKept
<1>7. NoneOver(bl2)
  <2> SUFFICES ASSUME NEW b \in DOMAIN bl2
               PROVE  bl2[b].returned <= bl2[b].quantity
    BY DEF NoneOver
  <2>1. CASE b \in DOMAIN bl
    BY <1>1, <1>5, <2>1
  <2>2. CASE b \notin DOMAIN bl
    BY <1>5, <2>2
  <2> QED BY <2>1, <2>2
<1>8. /\ \A b \in DOMAIN bl : /\ bl[b].total \in Int /\ bl2[b].total = bl[b].total
                            /\ bl2[b].goods = bl[b].goods
                            /\ bl2[b].project = bl[b].project
      /\ n \in DOMAIN bl2 <=> new # <<>>
      /\ n \in DOMAIN bl2 => bl2[n] = new[1] /\ bl2[n].total \in Int
      /\ DOMAIN bl2 \subseteq DOMAIN bl \cup {n}
      /\ IsFiniteSet(DOMAIN bl) /\ n \notin DOMAIN bl
  BY <1>1, <1>2, <1>5, BillFields
<1> HIDE DEF n
<1>9. /\ ChargedIn(bl) \in Int
      /\ ChargedIn(bl2) = ChargedIn(bl) + charged
  <2>1. n \in Services(bl2) <=> new # <<>> /\ IsService(new[1])
    BY <1>8 DEF Services
  <2>2. \A b \in DOMAIN bl : b \in Services(bl2) <=> b \in Services(bl)
    BY <1>5, <1>8 DEF Services, IsService
  <2>3. Services(bl) \subseteq DOMAIN bl /\ Services(bl2) \subseteq DOMAIN bl2
    BY DEF Services
  <2> DEFINE S == Services(bl)
             S2 == Services(bl2)
  <2> HIDE DEF S, S2
  <2>4. /\ S \subseteq DOMAIN bl /\ S2 \subseteq DOMAIN bl2
        /\ \A b \in DOMAIN bl : b \in S2 <=> b \in S
    BY <2>2, <2>3 DEF S, S2
  <2>5. /\ IsFiniteSet(DOMAIN bl) /\ n \notin DOMAIN bl
        /\ DOMAIN bl2 \subseteq DOMAIN bl \cup {n}
    BY <1>8
  <2>6. /\ \A b \in DOMAIN bl :
              bl[b].total \in Int /\ bl2[b].total = bl[b].total
        /\ n \in DOMAIN bl2 => bl2[n].total \in Int
    BY <1>8
  <2>7. /\ Of(bl, S, "total") \in Int
        /\ n \notin S2 => Of(bl2, S2, "total") = Of(bl, S, "total")
        /\ n \in S2 =>
             Of(bl2, S2, "total") = Of(bl, S, "total") + bl2[n].total
    <3>1. CountedOn(bl, bl2, n, S, S2)
      BY ONLY <2>4, <2>5, <2>6 DEF CountedOn
    <3> QED BY ONLY <3>1, TotalGrows
  <2>8. n \in S2 => bl2[n].total = new[1].total
    BY <1>8, <2>4
  <2>9. n \in S2 <=> new # <<>> /\ IsService(new[1])
    BY <2>1 DEF S2
  <2>10. ChargedIn(bl) = Of(bl, S, "total")
         /\ ChargedIn(bl2) = Of(bl2, S2, "total")
    BY DEF ChargedIn, S, S2
  <2> QED BY <2>7, <2>8, <2>9, <2>10
<1>10. /\ UnstockedIn(bl) \in Int
       /\ UnstockedIn(bl2) = UnstockedIn(bl) + unstocked
  <2>1. n \in Untracked(bl2) <=> new # <<>> /\ IsUnstocked(new[1])
    BY <1>8 DEF Untracked
  <2>2. \A b \in DOMAIN bl : b \in Untracked(bl2) <=> b \in Untracked(bl)
    BY <1>5, <1>8 DEF Untracked, IsUnstocked
  <2>3. Untracked(bl) \subseteq DOMAIN bl /\ Untracked(bl2) \subseteq DOMAIN bl2
    BY DEF Untracked
  <2> DEFINE S == Untracked(bl)
             S2 == Untracked(bl2)
  <2> HIDE DEF S, S2
  <2>4. /\ S \subseteq DOMAIN bl /\ S2 \subseteq DOMAIN bl2
        /\ \A b \in DOMAIN bl : b \in S2 <=> b \in S
    BY <2>2, <2>3 DEF S, S2
  <2>5. /\ IsFiniteSet(DOMAIN bl) /\ n \notin DOMAIN bl
        /\ DOMAIN bl2 \subseteq DOMAIN bl \cup {n}
    BY <1>8
  <2>6. /\ \A b \in DOMAIN bl :
              bl[b].total \in Int /\ bl2[b].total = bl[b].total
        /\ n \in DOMAIN bl2 => bl2[n].total \in Int
    BY <1>8
  <2>7. /\ Of(bl, S, "total") \in Int
        /\ n \notin S2 => Of(bl2, S2, "total") = Of(bl, S, "total")
        /\ n \in S2 =>
             Of(bl2, S2, "total") = Of(bl, S, "total") + bl2[n].total
    <3>1. CountedOn(bl, bl2, n, S, S2)
      BY ONLY <2>4, <2>5, <2>6 DEF CountedOn
    <3> QED BY ONLY <3>1, TotalGrows
  <2>8. n \in S2 => bl2[n].total = new[1].total
    BY <1>8, <2>4
  <2>9. n \in S2 <=> new # <<>> /\ IsUnstocked(new[1])
    BY <2>1 DEF S2
  <2>10. UnstockedIn(bl) = Of(bl, S, "total")
         /\ UnstockedIn(bl2) = Of(bl2, S2, "total")
    BY DEF UnstockedIn, S, S2
  <2> QED BY <2>7, <2>8, <2>9, <2>10
<1> QED BY <1>5, <1>6, <1>7, <1>9, <1>10 DEF BillsOnward, bl2
-----------------------------------------------------------------------------
(* Good tables.                                                            *)

\* The second movement of a transfer follows the first.
Paired(mv) ==
    \A i \in DOMAIN mv : mv[i].kind = "TRANSFER_OUT" =>
        /\ i + 1 \in DOMAIN mv /\ mv[i + 1].kind = "TRANSFER_IN"
        /\ mv[i + 1].quantity = mv[i].quantity
        /\ mv[i + 1].total = mv[i].total
        /\ mv[i + 1].source = mv[i].source

\* what the journal of movement m posts to the two accounts
Worth(m, wip, inventory) ==
    /\ m.kind = "INVENTORY_ISSUE_TO_PROJECT" =>
          wip = m.total /\ inventory = -m.total
    /\ m.kind = "CONSUMPTION" => wip = -m.total /\ inventory = 0
    /\ m.kind = "RETURN_TO_INVENTORY" => wip = -m.total /\ inventory = m.total
    /\ m.kind = "TRANSFER_OUT" => wip = 0 /\ inventory = 0

\* A journal of a movement is for what it moved.
Told(mv, js) ==
    \A k \in DOMAIN js : \A i \in Nat : js[k].source = <<"MOVE", i>> =>
        i \in DOMAIN mv /\ Worth(mv[i], js[k].wip, js[k].inventory)

\* row i is the issue of bill b
IssueOf(mv, i, b) ==
    mv[i].bill = b /\ mv[i].kind = "INVENTORY_ISSUE_TO_PROJECT"

\* Goods bought for a project were issued to it.
Issued(mv, bl) ==
    \A b \in DOMAIN bl : bl[b].goods /\ bl[b].project # NoProject =>
        \E i \in DOMAIN mv : IssueOf(mv, i, b)

\* a and b are no further apart than n
Near(a, b, n) == a <= b + n /\ b <= a + n

Good(st, mv, bl, js, un, ro) ==
    /\ st \in StockType /\ LotsHeld(st)
    /\ mv \in Seq(Move) /\ Sourced(mv) /\ Covered(mv) /\ Paired(mv)
    /\ bl \in Seq(Bill) /\ NoneOver(bl) /\ Issued(mv, bl)
    /\ js \in Seq(Journal) /\ Told(mv, js)
    /\ un \in Int /\ ro \in Nat
    /\ BalanceIn(js, "wip") = ChargedIn(bl) + LeftAtAll(mv, "total")
    /\ Near(BalanceIn(js, "inventory") + un,
            InAll(st, "value") + UnstockedIn(bl), ro)
    /\ InAll(st, "moved") + LeftAtAll(mv, "quantity") + SpentAtAll(mv) = 0

NowGood == Good(stock, moves, bills, journals, unposted, roundings)

\* the tables with effect e inserted
ThenGood(e) ==
    Good(FoldLeft(Added, stock, e.stock), moves \o e.moves,
         BillsAfter(bills, e.returns, e.bills),
         JournalsAfter(journals, e.cancels, e.journals), unposted + e.unposted,
         roundings + e.roundings)

-----------------------------------------------------------------------------
(* What an effect does to each table.                                      *)

\* mv2 is mv with more rows.
Extends(mv, mv2) ==
    /\ mv2 \in Seq(Move)
    /\ DOMAIN mv \subseteq DOMAIN mv2
    /\ \A i \in DOMAIN mv : mv2[i] = mv[i]

StockDoes(e, moved, value) ==
    /\ moved \in Int /\ value \in Int
    /\ Shelved(stock, FoldLeft(Added, stock, e.stock), moved, value)

MovesDo(e, quantity, total, spent) ==
    /\ quantity \in Int /\ total \in Int /\ spent \in Int
    /\ Onward(moves, moves \o e.moves, quantity, total, spent)
    /\ Paired(moves \o e.moves)
    /\ Extends(moves, moves \o e.moves)

BillsDoAll(e, charged, unstocked) ==
    /\ charged \in Int /\ unstocked \in Int
    /\ BillsOnward(bills, BillsAfter(bills, e.returns, e.bills), charged,
                   unstocked)
    /\ Issued(moves \o e.moves, BillsAfter(bills, e.returns, e.bills))

BillsDo(e, charged) == BillsDoAll(e, charged, 0)

JournalsDo(e, wip, inventory) ==
    /\ wip \in Int /\ inventory \in Int
    /\ JournalsOnward(journals, JournalsAfter(journals, e.cancels, e.journals),
                      wip, inventory)
    /\ Told(moves \o e.moves, JournalsAfter(journals, e.cancels, e.journals))

\* what the tables gain agrees, but for what is rounded twice
BalancesNearly(e, moved, value, quantity, total, spent, charged, unstocked,
               wip, inventory) ==
    /\ e.unposted \in Int /\ e.roundings \in Nat
    /\ wip = charged + total
    /\ Near(inventory + e.unposted, value + unstocked, e.roundings)
    /\ moved + quantity + spent = 0

\* what the tables gain agrees
Balances(e, moved, value, quantity, total, spent, charged, wip, inventory) ==
    /\ e.unposted \in Int /\ e.roundings = 0
    /\ wip = charged + total
    /\ inventory + e.unposted = value
    /\ moved + quantity + spent = 0

\* An effect that takes from one account or table what it gives to another
\* leaves the tables good.
LEMMA EffectNearlyGood ==
    ASSUME NowGood, NEW e, NEW moved, NEW value, NEW quantity, NEW total,
           NEW spent, NEW charged, NEW unstocked, NEW wip, NEW inventory,
           StockDoes(e, moved, value), MovesDo(e, quantity, total, spent),
           BillsDoAll(e, charged, unstocked), JournalsDo(e, wip, inventory),
           BalancesNearly(e, moved, value, quantity, total, spent, charged,
                          unstocked, wip, inventory)
    PROVE  ThenGood(e)
<1>0. /\ e.unposted \in Int /\ e.roundings \in Nat
      /\ wip = charged + total
      /\ Near(inventory + e.unposted, value + unstocked, e.roundings)
      /\ moved + quantity + spent = 0
  BY DEF BalancesNearly
<1> DEFINE st2 == FoldLeft(Added, stock, e.stock)
           mv2 == moves \o e.moves
           bl2 == BillsAfter(bills, e.returns, e.bills)
           js2 == JournalsAfter(journals, e.cancels, e.journals)
           un2 == unposted + e.unposted
           ro2 == roundings + e.roundings
<1>1. /\ moved \in Int /\ value \in Int /\ Shelved(stock, st2, moved, value)
  BY DEF StockDoes
<1>2. /\ quantity \in Int /\ total \in Int /\ spent \in Int
      /\ Onward(moves, mv2, quantity, total, spent) /\ Paired(mv2)
  BY DEF MovesDo
<1>3. /\ charged \in Int /\ unstocked \in Int
      /\ BillsOnward(bills, bl2, charged, unstocked) /\ Issued(mv2, bl2)
  BY DEF BillsDoAll
<1>4. /\ wip \in Int /\ inventory \in Int
      /\ JournalsOnward(journals, js2, wip, inventory) /\ Told(mv2, js2)
  BY DEF JournalsDo
<1>5. /\ un2 = unposted + e.unposted /\ un2 \in Int /\ unposted \in Int
      /\ ro2 = roundings + e.roundings /\ ro2 \in Nat /\ roundings \in Nat
  BY <1>0 DEF NowGood, Good
<1> HIDE DEF st2, mv2, bl2, js2, un2, ro2
<1>6. /\ stock \in StockType /\ moves \in Seq(Move) /\ bills \in Seq(Bill)
      /\ BalanceIn(journals, "wip")
           = ChargedIn(bills) + LeftAtAll(moves, "total")
      /\ Near(BalanceIn(journals, "inventory") + unposted,
              InAll(stock, "value") + UnstockedIn(bills), roundings)
      /\ InAll(stock, "moved") + LeftAtAll(moves, "quantity")
           + SpentAtAll(moves) = 0
  BY DEF NowGood, Good
<1>7. /\ LeftAtAll(moves, "total") \in Int
      /\ LeftAtAll(moves, "quantity") \in Int
      /\ SpentAtAll(moves) \in Int
  BY <1>6, AtAllInteger, Parts
<1>8. InAll(stock, "moved") \in Int /\ InAll(stock, "value") \in Int
  BY <1>6, InAllInteger
<1>9. /\ ChargedIn(bills) \in Int
      /\ ChargedIn(bl2) = ChargedIn(bills) + charged
      /\ UnstockedIn(bills) \in Int
      /\ UnstockedIn(bl2) = UnstockedIn(bills) + unstocked
      /\ bl2 \in Seq(Bill) /\ NoneOver(bl2)
  BY <1>3 DEF BillsOnward
<1>10. /\ BalanceIn(journals, "wip") \in Int
       /\ BalanceIn(journals, "inventory") \in Int
       /\ BalanceIn(js2, "wip") = BalanceIn(journals, "wip") + wip
       /\ BalanceIn(js2, "inventory")
            = BalanceIn(journals, "inventory") + inventory
       /\ js2 \in Seq(Journal)
  BY <1>4 DEF JournalsOnward
<1>11. /\ mv2 \in Seq(Move) /\ Sourced(mv2) /\ Covered(mv2)
       /\ LeftAtAll(mv2, "quantity") = LeftAtAll(moves, "quantity") + quantity
       /\ LeftAtAll(mv2, "total") = LeftAtAll(moves, "total") + total
       /\ SpentAtAll(mv2) = SpentAtAll(moves) + spent
  BY <1>2 DEF Onward
<1>12. /\ st2 \in StockType /\ LotsHeld(st2)
       /\ InAll(st2, "moved") = InAll(stock, "moved") + moved
       /\ InAll(st2, "value") = InAll(stock, "value") + value
  BY <1>1 DEF Shelved
<1>13. BalanceIn(js2, "wip") = ChargedIn(bl2) + LeftAtAll(mv2, "total")
  BY <1>0, <1>2, <1>3, <1>4, <1>6, <1>7, <1>9, <1>10, <1>11
<1>14. Near(BalanceIn(js2, "inventory") + un2,
            InAll(st2, "value") + UnstockedIn(bl2), ro2)
  <2> DEFINE u == e.unposted
             k == e.roundings
             b == BalanceIn(journals, "inventory")
             a == InAll(stock, "value")
             d == UnstockedIn(bills)
  <2>1. /\ u \in Int /\ k \in Nat /\ un2 = unposted + u
        /\ ro2 = roundings + k
        /\ unposted \in Int /\ roundings \in Nat
        /\ b \in Int /\ a \in Int /\ d \in Int
        /\ inventory \in Int /\ value \in Int /\ unstocked \in Int
    BY <1>0, <1>1, <1>3, <1>4, <1>5, <1>8, <1>9, <1>10
  <2>2. /\ inventory + u <= (value + unstocked) + k
        /\ value + unstocked <= (inventory + u) + k
    BY <1>0 DEF Near
  <2>3. /\ b + unposted <= (a + d) + roundings
        /\ a + d <= (b + unposted) + roundings
    BY <1>6 DEF Near
  <2>4. /\ BalanceIn(js2, "inventory") = b + inventory
        /\ InAll(st2, "value") = a + value
        /\ UnstockedIn(bl2) = d + unstocked
    BY <1>9, <1>10, <1>12
  <2> HIDE DEF u, k, b, a, d
  <2>5. /\ (b + inventory) + (unposted + u)
             <= ((a + value) + (d + unstocked)) + (roundings + k)
        /\ (a + value) + (d + unstocked)
             <= ((b + inventory) + (unposted + u)) + (roundings + k)
    BY ONLY <2>1, <2>2, <2>3
  <2> QED BY ONLY <2>1, <2>4, <2>5 DEF Near
<1>15. InAll(st2, "moved") + LeftAtAll(mv2, "quantity") + SpentAtAll(mv2) = 0
  <2> DEFINE a == InAll(stock, "moved")
             b == LeftAtAll(moves, "quantity")
             c == SpentAtAll(moves)
  <2>1. /\ a \in Int /\ b \in Int /\ c \in Int
        /\ moved \in Int /\ quantity \in Int /\ spent \in Int
        /\ a + b + c = 0 /\ moved + quantity + spent = 0
        /\ InAll(st2, "moved") = a + moved
        /\ LeftAtAll(mv2, "quantity") = b + quantity
        /\ SpentAtAll(mv2) = c + spent
    BY <1>0, <1>1, <1>2, <1>6, <1>7, <1>8, <1>11, <1>12
  <2> HIDE DEF a, b, c
  <2>2. (a + moved) + (b + quantity) + (c + spent) = 0
    BY ONLY <2>1
  <2> QED BY ONLY <2>1, <2>2
<1>16. Good(st2, mv2, bl2, js2, un2, ro2)
  BY <1>2, <1>3, <1>4, <1>5, <1>9, <1>10, <1>11, <1>12, <1>13, <1>14, <1>15
     DEF Good
<1> QED BY <1>16 DEF ThenGood, st2, mv2, bl2, js2, un2, ro2

\* The same, where nothing is rounded twice.
LEMMA EffectGood ==
    ASSUME NowGood, NEW e, NEW moved, NEW value, NEW quantity, NEW total,
           NEW spent, NEW charged, NEW wip, NEW inventory,
           StockDoes(e, moved, value), MovesDo(e, quantity, total, spent),
           BillsDo(e, charged), JournalsDo(e, wip, inventory),
           Balances(e, moved, value, quantity, total, spent, charged, wip,
                    inventory)
    PROVE  ThenGood(e)
<1> DEFINE unstocked == 0
<1>1. BillsDoAll(e, charged, unstocked)
  BY DEF BillsDo
<1>2. /\ e.unposted \in Int /\ e.roundings \in Nat
      /\ wip = charged + total /\ moved + quantity + spent = 0
  BY DEF Balances
<1>3. Near(inventory + e.unposted, value + unstocked, e.roundings)
  <2>1. value \in Int
    BY DEF StockDoes
  <2> QED BY <2>1 DEF Balances, Near
<1> HIDE DEF unstocked
<1>4. BalancesNearly(e, moved, value, quantity, total, spent, charged,
                     unstocked, wip, inventory)
  BY <1>2, <1>3 DEF BalancesNearly
<1> QED BY <1>1, <1>4, EffectNearlyGood
-----------------------------------------------------------------------------
(* The stock after an effect.                                              *)

\* No row.
LEMMA StockNone ==
    ASSUME NowGood, NEW e, e.stock = <<>>
    PROVE  StockDoes(e, 0, 0)
<1>1. stock \in StockType /\ LotsHeld(stock)
  BY DEF NowGood, Good
<1>2. FoldLeft(Added, stock, e.stock) = stock
  BY FoldOfTwo
<1>3. Shelved(stock, stock, 0, 0)
  BY <1>1, ShelvedNone
<1> QED BY <1>2, <1>3 DEF StockDoes

\* One row, which takes no more of a named lot than is there.
LEMMA StockOne ==
    ASSUME NowGood, NEW e, NEW row \in StockRow, e.stock = <<row>>,
           row.lot \in Lot =>
              OnShelf(stock, row.warehouse, row.lot)
                + row.entered + row.moved >= 0
    PROVE  StockDoes(e, row.moved, row.value)
<1>1. stock \in StockType /\ LotsHeld(stock)
  BY DEF NowGood, Good
<1>2. FoldLeft(Added, stock, e.stock) = Added(stock, row)
  BY FoldOfTwo
<1>3. Shelved(stock, Added(stock, row), row.moved, row.value)
  BY <1>1, ShelvedOne
<1>4. row.moved \in Int /\ row.value \in Int
  BY StockRowFields
<1> QED BY <1>2, <1>3, <1>4 DEF StockDoes

\* Two rows.
LEMMA StockTwo ==
    ASSUME NowGood, NEW e, NEW a \in StockRow, NEW b \in StockRow,
           e.stock = <<a, b>>,
           a.lot \in Lot =>
              OnShelf(stock, a.warehouse, a.lot) + a.entered + a.moved >= 0,
           b.lot \in Lot =>
              OnShelf(stock, b.warehouse, b.lot)
                + (IF b.warehouse = a.warehouse /\ b.lot = a.lot
                   THEN a.entered + a.moved ELSE 0)
                + b.entered + b.moved >= 0
    PROVE  StockDoes(e, a.moved + b.moved, a.value + b.value)
<1>1. stock \in StockType /\ LotsHeld(stock)
  BY DEF NowGood, Good
<1>2. FoldLeft(Added, stock, e.stock) = Added(Added(stock, a), b)
  <2>1. \A x, y : FoldLeft(Added, stock, <<x, y>>)
                    = Added(Added(stock, x), y)
    BY FoldOfTwo
  <2> QED BY <2>1
<1>3. Shelved(stock, Added(Added(stock, a), b), a.moved + b.moved,
              a.value + b.value)
  BY <1>1, ShelvedTwo
<1>4. /\ a.moved \in Int /\ a.value \in Int
      /\ b.moved \in Int /\ b.value \in Int
  BY StockRowFields
<1>5. a.moved + b.moved \in Int /\ a.value + b.value \in Int
  BY <1>4
<1> QED BY <1>2, <1>3, <1>5 DEF StockDoes

-----------------------------------------------------------------------------
(* The rows of project material after an effect.                           *)

\* A row that is not the first of two leaves the transfers paired.
LEMMA PairedAfter ==
    ASSUME NEW mv \in Seq(Move), Paired(mv), NEW row \in Move,
           row.kind # "TRANSFER_OUT"
    PROVE  /\ Paired(Append(mv, row))
           /\ Extends(mv, Append(mv, row))
<1> DEFINE mv2 == Append(mv, row)
           n == Len(mv) + 1
<1>1. Grown(mv, row, mv2, n)
  BY GrownBy
<1> HIDE DEF mv2, n
<1>2. /\ mv2 \in Seq(Move) /\ DOMAIN mv2 = DOMAIN mv \cup {n}
      /\ mv2[n] = row /\ \A i \in DOMAIN mv : mv2[i] = mv[i]
  BY <1>1 DEF Grown
<1>3. Extends(mv, mv2)
  BY <1>2 DEF Extends
<1>4. ASSUME NEW i \in DOMAIN mv2, mv2[i].kind = "TRANSFER_OUT"
      PROVE  /\ i + 1 \in DOMAIN mv2 /\ mv2[i + 1].kind = "TRANSFER_IN"
             /\ mv2[i + 1].quantity = mv2[i].quantity
             /\ mv2[i + 1].total = mv2[i].total
             /\ mv2[i + 1].source = mv2[i].source
  <2>1. i \in DOMAIN mv /\ mv2[i] = mv[i]
    BY <1>2, <1>4
  <2>2. /\ i + 1 \in DOMAIN mv /\ mv[i + 1].kind = "TRANSFER_IN"
        /\ mv[i + 1].quantity = mv[i].quantity
        /\ mv[i + 1].total = mv[i].total
        /\ mv[i + 1].source = mv[i].source
    BY <1>4, <2>1 DEF Paired
  <2>3. i + 1 \in DOMAIN mv2 /\ mv2[i + 1] = mv[i + 1]
    BY <1>2, <2>2
  <2> QED BY <2>1, <2>2, <2>3
<1>5. Paired(mv2)
  BY <1>4 DEF Paired
<1> QED BY <1>3, <1>5 DEF mv2

\* Nor do two that are a pair.
LEMMA PairedTwo ==
    ASSUME NEW mv \in Seq(Move), Paired(mv), NEW a \in Move, NEW b \in Move,
           b.kind = "TRANSFER_IN", b.quantity = a.quantity,
           b.total = a.total, b.source = a.source
    PROVE  /\ Paired(Append(Append(mv, a), b))
           /\ Extends(mv, Append(Append(mv, a), b))
<1> DEFINE mv2 == Append(mv, a)
           mv3 == Append(mv2, b)
           n == Len(mv) + 1
<1>1. Grown(mv, a, mv2, n) /\ mv2 \in Seq(Move)
  BY GrownBy
<1>2. Len(mv2) = n
  OBVIOUS
<1>3. Grown(mv2, b, mv3, n + 1)
  BY <1>1, <1>2, GrownBy
<1> HIDE DEF mv2, mv3, n
<1>4. /\ n \in Nat
      /\ DOMAIN mv2 = DOMAIN mv \cup {n}
      /\ mv2[n] = a /\ \A i \in DOMAIN mv : mv2[i] = mv[i]
  BY <1>1 DEF Grown
<1>5. /\ mv3 \in Seq(Move)
      /\ DOMAIN mv3 = DOMAIN mv2 \cup {n + 1}
      /\ mv3[n + 1] = b /\ \A i \in DOMAIN mv2 : mv3[i] = mv2[i]
  BY <1>3 DEF Grown
<1>6. Extends(mv, mv3)
  BY <1>4, <1>5 DEF Extends
<1>7. ASSUME NEW i \in DOMAIN mv3, mv3[i].kind = "TRANSFER_OUT"
      PROVE  /\ i + 1 \in DOMAIN mv3 /\ mv3[i + 1].kind = "TRANSFER_IN"
             /\ mv3[i + 1].quantity = mv3[i].quantity
             /\ mv3[i + 1].total = mv3[i].total
             /\ mv3[i + 1].source = mv3[i].source
  <2>1. CASE i \in DOMAIN mv
    <3>1. mv3[i] = mv[i]
      BY <1>4, <1>5, <2>1
    <3>2. /\ i + 1 \in DOMAIN mv /\ mv[i + 1].kind = "TRANSFER_IN"
          /\ mv[i + 1].quantity = mv[i].quantity
          /\ mv[i + 1].total = mv[i].total
          /\ mv[i + 1].source = mv[i].source
      BY <1>7, <2>1, <3>1 DEF Paired
    <3>3. i + 1 \in DOMAIN mv3 /\ mv3[i + 1] = mv[i + 1]
      BY <1>4, <1>5, <3>2
    <3> QED BY <3>1, <3>2, <3>3
  <2>2. CASE i = n
    <3>1. mv3[i] = a
      BY <1>4, <1>5, <2>2
    <3> QED BY <1>5, <2>2, <3>1
  <2>3. i # n + 1
    BY <1>5, <1>7
  <2> QED BY <1>4, <1>5, <2>1, <2>2, <2>3
<1>8. Paired(mv3)
  BY <1>7 DEF Paired
<1> QED BY <1>6, <1>8 DEF mv2, mv3

\* No row.
LEMMA MovesNone ==
    ASSUME NowGood, NEW e, e.moves = <<>>
    PROVE  MovesDo(e, 0, 0, 0)
<1>1. /\ moves \in Seq(Move) /\ Sourced(moves) /\ Covered(moves)
      /\ Paired(moves)
  BY DEF NowGood, Good
<1>2. moves \o e.moves = moves
  BY <1>1, Concatenated
<1>3. /\ LeftAtAll(moves, "quantity") \in Int /\ LeftAtAll(moves, "total") \in Int
      /\ SpentAtAll(moves) \in Int
  BY <1>1, AtAllInteger, Parts
<1>4. Onward(moves, moves, 0, 0, 0)
  BY <1>1, <1>3 DEF Onward
<1>5. Extends(moves, moves)
  BY <1>1 DEF Extends
<1> QED BY <1>1, <1>2, <1>4, <1>5 DEF MovesDo

\* One row.
LEMMA MovesOne ==
    ASSUME NowGood, NEW e, NEW row \in Move, e.moves = <<row>>,
           row.kind # "TRANSFER_OUT",
           NEW quantity \in Int, NEW total \in Int, NEW spent \in Int,
           Onward(moves, Append(moves, row), quantity, total, spent)
    PROVE  MovesDo(e, quantity, total, spent)
<1>1. moves \in Seq(Move) /\ Paired(moves)
  BY DEF NowGood, Good
<1>2. moves \o e.moves = Append(moves, row)
  BY <1>1, Concatenated
<1>3. Paired(Append(moves, row)) /\ Extends(moves, Append(moves, row))
  BY <1>1, PairedAfter
<1> QED BY <1>2, <1>3 DEF MovesDo

-----------------------------------------------------------------------------
(* The bills after an effect.                                              *)

\* Bills that were issued are issued still.
LEMMA StillIssued ==
    ASSUME NEW mv, NEW mv2, NEW bl, NEW bl2, NEW new,
           Issued(mv, bl), Extends(mv, mv2), BillsKept(bl, bl2, new),
           new # <<>> /\ new[1].goods /\ new[1].project # NoProject =>
              \E i \in DOMAIN mv2 : IssueOf(mv2, i, Len(bl) + 1)
    PROVE  Issued(mv2, bl2)
<1> SUFFICES ASSUME NEW b \in DOMAIN bl2, bl2[b].goods,
                    bl2[b].project # NoProject
             PROVE  \E i \in DOMAIN mv2 : IssueOf(mv2, i, b)
  BY DEF Issued
<1>1. CASE b \in DOMAIN bl
  <2>1. bl[b].goods /\ bl[b].project # NoProject
    BY <1>1 DEF BillsKept
  <2>2. PICK i \in DOMAIN mv : IssueOf(mv, i, b)
    BY <1>1, <2>1 DEF Issued
  <2>3. i \in DOMAIN mv2 /\ mv2[i] = mv[i]
    BY DEF Extends
  <2>4. IssueOf(mv2, i, b)
    BY <2>2, <2>3 DEF IssueOf
  <2> QED BY <2>3, <2>4
<1>2. CASE b \notin DOMAIN bl
  BY <1>2 DEF BillsKept
<1> QED BY <1>1, <1>2

\* No bill, perhaps something given back of one.
LEMMA BillsReturned ==
    ASSUME NowGood, NEW e, e.bills = <<>>, MayReturn(bills, e.returns),
           Extends(moves, moves \o e.moves)
    PROVE  BillsDo(e, 0)
<1>1. bills \in Seq(Bill) /\ NoneOver(bills) /\ Issued(moves, bills)
  BY DEF NowGood, Good
<1> DEFINE new == e.bills
           bl2 == BillsAfter(bills, e.returns, new)
<1>2. new = <<>> /\ AtMostOne(new, Bill)
  BY DEF AtMostOne
<1> HIDE DEF new
<1>3. BillsKept(bills, bl2, new) /\ BillsOnward(bills, bl2, 0, 0)
  <2>1. \A x : 0 = IF new # <<>> /\ x THEN new[1].total ELSE 0
    BY <1>2
  <2> QED BY <1>1, <1>2, <2>1, BillsGoOn
<1> HIDE DEF bl2
<1>4. Issued(moves \o e.moves, bl2)
  BY <1>1, <1>2, <1>3, StillIssued
<1> QED BY <1>3, <1>4 DEF BillsDo, BillsDoAll, bl2, new

\* A new bill.
LEMMA BillsNew ==
    ASSUME NowGood, NEW e, e.returns = <<>>, NEW b \in Bill, e.bills = <<b>>,
           b.returned <= b.quantity,
           Extends(moves, moves \o e.moves),
           b.goods /\ b.project # NoProject =>
              \E i \in DOMAIN (moves \o e.moves) :
                 IssueOf(moves \o e.moves, i, Len(bills) + 1)
    PROVE  BillsDoAll(e, IF IsService(b) THEN b.total ELSE 0,
                      IF IsUnstocked(b) THEN b.total ELSE 0)
<1>1. bills \in Seq(Bill) /\ NoneOver(bills) /\ Issued(moves, bills)
  BY DEF NowGood, Good
<1> DEFINE new == e.bills
           charged == IF IsService(b) THEN b.total ELSE 0
           unstocked == IF IsUnstocked(b) THEN b.total ELSE 0
           mv2 == moves \o e.moves
           bl2 == BillsAfter(bills, e.returns, new)
<1>2. /\ new # <<>> /\ new[1] = b /\ AtMostOne(new, Bill)
      /\ MayReturn(bills, e.returns)
  BY NoReturns DEF AtMostOne
<1>3. charged \in Int /\ unstocked \in Int
  BY BillFields
<1>4. /\ charged = IF new # <<>> /\ IsService(new[1]) THEN new[1].total ELSE 0
      /\ unstocked = IF new # <<>> /\ IsUnstocked(new[1])
                     THEN new[1].total ELSE 0
  BY <1>2
<1> HIDE DEF new, charged, unstocked, mv2
<1>5. BillsKept(bills, bl2, new) /\ BillsOnward(bills, bl2, charged, unstocked)
  BY <1>1, <1>2, <1>4, BillsGoOn
<1> HIDE DEF bl2
<1>6. Extends(moves, mv2)
  BY DEF mv2
<1>7. new[1].goods /\ new[1].project # NoProject =>
         \E i \in DOMAIN mv2 : IssueOf(mv2, i, Len(bills) + 1)
  BY <1>2 DEF mv2
<1>8. Issued(mv2, bl2)
  BY <1>1, <1>5, <1>6, <1>7, StillIssued
<1> QED BY <1>3, <1>5, <1>8 DEF BillsDoAll, bl2, new, charged, unstocked, mv2

-----------------------------------------------------------------------------
(* The journals after an effect.                                           *)

\* What journals tell of the rows they tell still.
LEMMA StillTold ==
    ASSUME NEW mv, NEW mv2, NEW js, NEW js2, NEW new,
           Told(mv, js), Extends(mv, mv2), JournalsKept(js, js2, new),
           \A i \in Nat : new # <<>> /\ new[1].source = <<"MOVE", i>> =>
              i \in DOMAIN mv2 /\ Worth(mv2[i], new[1].wip, new[1].inventory)
    PROVE  Told(mv2, js2)
<1> SUFFICES ASSUME NEW k \in DOMAIN js2, NEW i \in Nat,
                    js2[k].source = <<"MOVE", i>>
             PROVE  /\ i \in DOMAIN mv2
                    /\ Worth(mv2[i], js2[k].wip, js2[k].inventory)
  BY DEF Told
<1>1. CASE k \in DOMAIN js
  <2>1. /\ js[k].source = <<"MOVE", i>>
        /\ js2[k].wip = js[k].wip /\ js2[k].inventory = js[k].inventory
    BY <1>1 DEF JournalsKept
  <2>2. i \in DOMAIN mv /\ Worth(mv[i], js[k].wip, js[k].inventory)
    BY <1>1, <2>1 DEF Told
  <2>3. i \in DOMAIN mv2 /\ mv2[i] = mv[i]
    BY <2>2 DEF Extends
  <2> QED BY <2>1, <2>2, <2>3
<1>2. CASE k \notin DOMAIN js
  BY <1>2 DEF JournalsKept
<1> QED BY <1>1, <1>2

\* What is posted.
LEMMA JournalsPost ==
    ASSUME NowGood, NEW e, Extends(moves, moves \o e.moves),
           NEW source \in Source,
           NEW amount \in Int, NEW wip \in Int, NEW inventory \in Int,
           amount = 0 => wip = 0 /\ inventory = 0,
           e.journals = Posting(source, amount, wip, inventory),
           \A i \in Nat : source = <<"MOVE", i>> =>
              /\ i \in DOMAIN (moves \o e.moves)
              /\ Worth((moves \o e.moves)[i], wip, inventory)
    PROVE  JournalsDo(e, wip, inventory)
<1>1. journals \in Seq(Journal) /\ Told(moves, journals)
  BY DEF NowGood, Good
<1> DEFINE new == e.journals
           mv2 == moves \o e.moves
           js2 == JournalsAfter(journals, e.cancels, new)
<1> HIDE DEF new, mv2
<1>2. /\ AtMostOne(new, Journal)
      /\ new # <<>> => /\ new[1].source = source
                       /\ new[1].wip = wip
                       /\ new[1].inventory = inventory
      /\ wip = IF new # <<>> /\ ~new[1].byHand THEN new[1].wip ELSE 0
      /\ inventory = IF new # <<>> /\ ~new[1].byHand
                     THEN new[1].inventory ELSE 0
  <2>1. new = Posting(source, amount, wip, inventory)
    BY DEF new
  <2>2. /\ source \in Source /\ amount \in Int /\ wip \in Int
        /\ inventory \in Int /\ (amount = 0 => wip = 0 /\ inventory = 0)
    OBVIOUS
  <2> QED BY ONLY <2>1, <2>2, PostingIs
<1>3. /\ JournalsKept(journals, js2, new)
      /\ JournalsOnward(journals, js2, wip, inventory)
  BY <1>1, <1>2, JournalsGoOn
<1> HIDE DEF js2
<1>4. Extends(moves, mv2)
  BY DEF mv2
<1>5. \A i \in Nat : new # <<>> /\ new[1].source = <<"MOVE", i>> =>
         i \in DOMAIN mv2 /\ Worth(mv2[i], new[1].wip, new[1].inventory)
  BY <1>2 DEF mv2
<1>6. Told(mv2, js2)
  BY <1>1, <1>3, <1>4, <1>5, StillTold
<1> QED BY <1>3, <1>6 DEF JournalsDo, js2, mv2, new

\* No journal.
LEMMA JournalsNone ==
    ASSUME NowGood, NEW e, Extends(moves, moves \o e.moves),
           e.journals = <<>>
    PROVE  JournalsDo(e, 0, 0)
<1>1. Posting(<<"SALE", 0>>, 0, 0, 0) = <<>>
  BY DEF Posting
<1>2. <<"SALE", 0>> \in Source
  BY DEF Source
<1>3. \A i \in Nat : <<"SALE", 0>> # <<"MOVE", i>>
  OBVIOUS
<1> QED BY <1>1, <1>2, <1>3, JournalsPost

\* The opposite of a journal.
LEMMA JournalsOpposite ==
    ASSUME NowGood, NEW e, Extends(moves, moves \o e.moves),
           NEW k \in DOMAIN journals, NEW hand \in BOOLEAN,
           e.journals = <<Opposite(k, hand)>>
    PROVE  JournalsDo(e, IF hand THEN 0 ELSE -journals[k].wip,
                      IF hand THEN 0 ELSE -journals[k].inventory)
<1>1. journals \in Seq(Journal) /\ Told(moves, journals)
  BY DEF NowGood, Good
<1> DEFINE j == Opposite(k, hand)
           new == e.journals
           mv2 == moves \o e.moves
           js2 == JournalsAfter(journals, e.cancels, new)
           wip == IF hand THEN 0 ELSE -journals[k].wip
           inventory == IF hand THEN 0 ELSE -journals[k].inventory
<1>2. journals[k] \in Journal /\ k \in Nat
  BY <1>1, TableRows
<1>3. journals[k].wip \in Int /\ journals[k].inventory \in Int
  BY <1>2, JournalFields
<1>4. j = [journals[k] EXCEPT !.source = <<"REVERSAL", k>>,
              !.wip = -journals[k].wip, !.inventory = -journals[k].inventory,
              !.posted = TRUE, !.byHand = hand]
  BY <1>2 DEF Opposite, Journal
<1>5. /\ j \in Journal /\ j.source = <<"REVERSAL", k>>
      /\ j.wip = -journals[k].wip /\ j.inventory = -journals[k].inventory
      /\ j.byHand = hand
  <2> HIDE DEF j
  <2> DEFINE x == -journals[k].wip
             y == -journals[k].inventory
  <2>1. x \in Int /\ y \in Int
    BY <1>3
  <2> HIDE DEF x, y
  <2>2. j = [journals[k] EXCEPT !.source = <<"REVERSAL", k>>,
                !.wip = x, !.inventory = y, !.posted = TRUE, !.byHand = hand]
    BY <1>4 DEF x, y
  <2>3. j \in Journal /\ j.source = <<"REVERSAL", k>> /\ j.wip = x
        /\ j.inventory = y /\ j.byHand = hand
    BY <1>2, <2>1, <2>2 DEF Journal
  <2> QED BY <2>3 DEF x, y
<1>6. new = <<j>>
  OBVIOUS
<1> HIDE DEF j, new
<1>7. new # <<>> /\ new[1] = j /\ AtMostOne(new, Journal)
  BY <1>5, <1>6 DEF AtMostOne
<1>8. /\ wip = IF new # <<>> /\ ~new[1].byHand THEN new[1].wip ELSE 0
      /\ inventory = IF new # <<>> /\ ~new[1].byHand
                     THEN new[1].inventory ELSE 0
      /\ wip \in Int /\ inventory \in Int
  BY <1>3, <1>5, <1>7
<1> HIDE DEF mv2, wip, inventory
<1>9. /\ JournalsKept(journals, js2, new)
      /\ JournalsOnward(journals, js2, wip, inventory)
  BY <1>1, <1>7, <1>8, JournalsGoOn
<1> HIDE DEF js2
<1>10. Extends(moves, mv2)
  BY DEF mv2
<1>11. \A i \in Nat : new # <<>> /\ new[1].source = <<"MOVE", i>> =>
          i \in DOMAIN mv2 /\ Worth(mv2[i], new[1].wip, new[1].inventory)
  BY <1>5, <1>7
<1>12. Told(mv2, js2)
  BY <1>1, <1>9, <1>10, <1>11, StillTold
<1> QED BY <1>8, <1>9, <1>12 DEF JournalsDo, js2, mv2, new, wip, inventory
-----------------------------------------------------------------------------
(* What an operation reads.                                                *)

\* A request names positive quantities, and no negative costs.
LEMMA Named_ ==
    /\ \A q \in Quantity : q \in Nat \ {0} /\ q \in Int /\ q > 0
    /\ \A c \in Cost : c \in Nat /\ c \in Int
    /\ NoLot \notin Lot /\ NoLot \in AnyLot /\ Lot \subseteq AnyLot
    /\ NoProject \notin Project
BY MaterialsConstants DEF AnyLot

\* Quantities, values and average costs are integers, and what is counted of
\* a named lot is what is on the shelf.
LEMMA ShelfNow ==
    ASSUME NowGood, NEW w \in Warehouse, NEW l \in AnyLot
    PROVE  /\ OnShelf(stock, w, l) \in Int
           /\ QuantityOf(w, l) \in Int /\ ValueOf(w, l) \in Int
           /\ \A q \in Nat : StockCost(w, l, q) \in Int
           /\ l \in Lot => /\ OnShelf(stock, w, l) >= 0
                           /\ QuantityOf(w, l) = OnShelf(stock, w, l)
<1> DEFINE s == [k \in Counted(l) |-> stock[w][k].entered + stock[w][k].moved]
           t == [k \in Counted(l) |-> stock[w][k].value]
<1>1. stock \in StockType /\ LotsHeld(stock)
  BY DEF NowGood, Good
<1>2. Counted(l) \subseteq AnyLot /\ IsFiniteSet(Counted(l))
  <2>1. Counted(l) \subseteq AnyLot
    BY DEF Counted
  <2> QED BY <2>1, FiniteSets_, FS_Subset
<1>3. \A k \in Counted(l) : s[k] = OnShelf(stock, w, k) /\ s[k] \in Int
                            /\ t[k] \in Int
  BY <1>1, <1>2, HeldFields DEF OnShelf
<1>4. /\ QuantityOf(w, l) = SumFunctionOnSet(s, Counted(l))
      /\ ValueOf(w, l) = SumFunctionOnSet(t, Counted(l))
  BY DEF QuantityOf, ValueOf, SumFunction
<1> HIDE DEF s, t
<1>5. QuantityOf(w, l) \in Int /\ ValueOf(w, l) \in Int
  BY <1>2, <1>3, <1>4, SumInt
<1>6. ASSUME NEW q \in Nat PROVE StockCost(w, l, q) \in Int
  <2> DEFINE a == QuantityOf(w, l)
             n == q * ValueOf(w, l)
  <2>1. a \in Int /\ n \in Int
    BY <1>5
  <2>2. StockCost(w, l, q) = IF a > 0 THEN Rounded(n, a) ELSE Rounded(0, 1)
    BY DEF StockCost, AverageCost, Cents
  <2> HIDE DEF a, n
  <2>3. CASE a > 0
    BY <2>1, <2>2, <2>3, RoundedInteger
  <2>4. CASE ~(a > 0)
    BY <2>2, <2>4, RoundedInteger
  <2> QED BY <2>3, <2>4
<1>7. OnShelf(stock, w, l) \in Int
  BY <1>1, HeldFields
<1>8. ASSUME l \in Lot
      PROVE  /\ OnShelf(stock, w, l) >= 0
             /\ QuantityOf(w, l) = OnShelf(stock, w, l)
  <2>1. l # NoLot /\ Counted(l) = {l}
    BY <1>8, Named_ DEF Counted
  <2>2. SumFunctionOnSet(s, {l}) = s[l]
    BY <1>3, <2>1, SumSingle
  <2> QED BY <1>1, <1>3, <1>4, <1>8, <2>1, <2>2 DEF LotsHeld
<1> QED BY <1>5, <1>6, <1>7, <1>8

\* The fields of a row of stock.
LEMMA RowIs ==
    ASSUME NEW w \in Warehouse, NEW l \in AnyLot, NEW q \in Int, NEW t \in Int
    PROVE  /\ Row(w, l, q, t) \in StockRow
           /\ Row(w, l, q, t).warehouse = w /\ Row(w, l, q, t).lot = l
           /\ Row(w, l, q, t).entered = q /\ Row(w, l, q, t).moved = 0
           /\ Row(w, l, q, t).value = t
           /\ Transfer(w, l, q, t) \in StockRow
           /\ Transfer(w, l, q, t).warehouse = w
           /\ Transfer(w, l, q, t).lot = l
           /\ Transfer(w, l, q, t).entered = 0
           /\ Transfer(w, l, q, t).moved = q /\ Transfer(w, l, q, t).value = t
BY DEF Row, Transfer, StockRow

\* What is available of a receipt is what is left of it.
LEMMA AvailableIs ==
    ASSUME NEW r
    PROVE  /\ Available(r) = Left(moves, r, "quantity")
           /\ AvailableValue(r) = Left(moves, r, "total")
<1>1. Lineage(r) = Lines(moves, r)
  BY DEF Lineage, Lines, Reversed, ReversedIn
<1> QED BY <1>1 DEF Available, AvailableValue, Left

\* What is taken of a receipt has a part of its value, and all of it when
\* nothing stays.
LEMMA Issuing ==
    ASSUME NowGood, NEW r \in ReceiptsIn(moves), NEW q \in Nat \ {0},
           Enough(r, q)
    PROVE  /\ q <= Left(moves, r, "quantity")
           /\ IssueValue(r, q) \in Nat
           /\ IssueValue(r, q) <= Left(moves, r, "total")
           /\ q = Left(moves, r, "quantity") =>
                 IssueValue(r, q) = Left(moves, r, "total")
<1> DEFINE a == Left(moves, r, "quantity")
           v == Left(moves, r, "total")
           t == IssueValue(r, q)
<1>1. a \in 0..moves[r].quantity /\ v \in 0..moves[r].total
      /\ moves \in Seq(Move) /\ r \in DOMAIN moves
  BY DEF NowGood, Good, Covered, ReceiptsIn
<1>2. moves[r].quantity \in Nat /\ moves[r].total \in Nat
  BY <1>1, TableRows, MoveFields
<1>3. a \in Nat /\ v \in Nat
  BY <1>1, <1>2
<1>4. q <= a /\ t = IF q = a THEN v ELSE Rounded(q * v, a)
  BY AvailableIs DEF Enough, IssueValue
<1> SUFFICES q <= a /\ t \in Nat /\ t <= v /\ (q = a => t = v)
  OBVIOUS
<1> HIDE DEF a, v, t
<1>5. CASE q = a
  <2>1. t = v
    BY <1>4, <1>5
  <2> QED BY <1>3, <1>4, <2>1
<1>6. CASE q # a
  <2>1. q < a
    BY <1>3, <1>4, <1>6
  <2>2. t \in 0..v
    BY <1>3, <1>4, <1>6, <2>1, RoundedPart
  <2> QED BY <1>3, <1>4, <1>6, <2>2
<1> QED BY <1>5, <1>6

\* The fields of a row made from another.
LEMMA UsedIs ==
    ASSUME NEW m \in Move, NEW kind \in Kind, NEW q \in Nat \ {0},
           NEW t \in Nat, NEW r \in Nat, NEW row, row = Used(m, kind, q, t, r)
    PROVE  /\ row \in Move
           /\ row.kind = kind /\ row.quantity = q /\ row.total = t
           /\ row.source = r /\ row.project = m.project
           /\ row.warehouse = m.warehouse /\ row.lot = m.lot
           /\ row.of = m.of /\ row.bill = m.bill
<1>1. row = [m EXCEPT !.kind = kind, !.quantity = q, !.total = t,
                      !.source = r]
  BY DEF Used
<1> QED BY <1>1 DEF Move

\* A receipt is a row that reverses nothing.
LEMMA ReceiptIs ==
    ASSUME NowGood, NEW r \in ReceiptsIn(moves)
    PROVE  /\ r \in DOMAIN moves /\ r \in Nat /\ moves[r] \in Move
           /\ moves[r].of = 0 /\ moves[r].kind \in Receipt
<1>1. /\ moves \in Seq(Move) /\ Sourced(moves)
      /\ r \in DOMAIN moves /\ moves[r].kind \in Receipt
  BY DEF NowGood, Good, ReceiptsIn
<1>2. moves[r].of = 0
  BY <1>1 DEF Sourced, RowSourced, Receipt
<1> QED BY <1>1, <1>2, TableRows

\* An effect that takes a part of a receipt.
LEMMA MovesTaken ==
    ASSUME NowGood, NEW e, NEW r \in ReceiptsIn(moves), NEW q \in Nat \ {0},
           Enough(r, q), NEW row \in Move, e.moves = <<row>>,
           row.kind \in Deduction \ {"TRANSFER_OUT"},
           row.quantity = q, row.total = IssueValue(r, q), row.source = r,
           row.of = 0, row.project = moves[r].project
    PROVE  MovesDo(e, -q, -IssueValue(r, q),
                   IF row.kind = "RETURN_TO_INVENTORY" THEN 0 ELSE q)
<1> DEFINE t == IssueValue(r, q)
           spent == IF row.kind = "RETURN_TO_INVENTORY" THEN 0 ELSE q
<1>1. /\ moves \in Seq(Move) /\ Sourced(moves) /\ Covered(moves)
  BY DEF NowGood, Good
<1>2. /\ q <= Left(moves, r, "quantity") /\ t \in Nat
      /\ t <= Left(moves, r, "total")
      /\ q = Left(moves, r, "quantity") => t = Left(moves, r, "total")
  BY Issuing
<1>3. row.kind \in Deduction /\ row.kind # "TRANSFER_OUT"
      /\ row.kind \notin Receipt /\ row.kind # "REVERSAL"
  BY DEF Deduction, Receipt
<1>4. RowSourced(moves, row)
  BY <1>3 DEF RowSourced, Receipt
<1>5. row.total = t
  OBVIOUS
<1> HIDE DEF t
<1>6. Onward(moves, Append(moves, row), -row.quantity, -row.total,
             IF row.kind \in {"CONSUMPTION", "RETURN_TO_VENDOR"}
             THEN row.quantity ELSE 0)
  BY <1>1, <1>2, <1>3, <1>4, <1>5, Deducted
<1>7. spent = IF row.kind \in {"CONSUMPTION", "RETURN_TO_VENDOR"}
              THEN row.quantity ELSE 0
  BY <1>3 DEF Deduction
<1>8. spent \in Int /\ -q \in Int /\ -t \in Int
  BY <1>2
<1> HIDE DEF spent
<1>9. Onward(moves, Append(moves, row), -q, -t, spent)
  BY <1>5, <1>6, <1>7
<1>10. MovesDo(e, -q, -t, spent)
  BY <1>3, <1>8, <1>9, MovesOne
<1> QED BY <1>10 DEF t, spent
-----------------------------------------------------------------------------
(* Warehouses.                                                             *)

\* an effect that leaves the tables good, inserted or held back
GoodStep == \E e : Apply(e) /\ ThenGood(e)

\* An effect on the stock alone, with a journal of inventory or none.
LEMMA StockGood ==
    ASSUME NowGood, NEW e, e.moves = <<>>, e.bills = <<>>,
           MayReturn(bills, e.returns),
           NEW value, StockDoes(e, 0, value),
           NEW source \in Source, \A i \in Nat : source # <<"MOVE", i>>,
           NEW posted \in Int,
           e.journals = Posting(source, posted, 0, -posted),
           e.unposted = posted + value, e.roundings = 0
    PROVE  ThenGood(e)
<1>1. MovesDo(e, 0, 0, 0) /\ Extends(moves, moves \o e.moves)
  BY MovesNone DEF MovesDo
<1>2. BillsDo(e, 0)
  BY <1>1, BillsReturned
<1>3. -posted \in Int /\ (posted = 0 => -posted = 0) /\ value \in Int
  BY DEF StockDoes
<1> DEFINE inventory == -posted
<1>4. /\ inventory \in Int /\ e.unposted \in Int
      /\ inventory + e.unposted = value
  BY <1>3
<1> DEFINE wip == 0
<1>5. (posted = 0 => wip = 0 /\ inventory = 0) /\ wip \in Int
  BY <1>3
<1> HIDE DEF inventory, wip
<1>6. e.journals = Posting(source, posted, wip, inventory)
  BY DEF inventory, wip
<1>7. \A i \in Nat : source = <<"MOVE", i>> =>
         /\ i \in DOMAIN (moves \o e.moves)
         /\ Worth((moves \o e.moves)[i], wip, inventory)
  OBVIOUS
<1>8. JournalsDo(e, wip, inventory)
  BY <1>1, <1>4, <1>5, <1>6, <1>7, JournalsPost
<1>9. Balances(e, 0, value, 0, 0, 0, 0, wip, inventory)
  BY <1>4 DEF Balances, wip
<1> QED BY <1>1, <1>2, <1>8, <1>9, EffectGood

\* An effect on the stock alone, without a journal.
LEMMA StockGoodUnposted ==
    ASSUME NowGood, NEW e, e.moves = <<>>, e.bills = <<>>, e.returns = <<>>,
           e.journals = <<>>, NEW value, StockDoes(e, 0, value),
           e.unposted = value, e.roundings = 0
    PROVE  ThenGood(e)
<1>1. /\ Posting(<<"SALE", 0>>, 0, 0, -0) = <<>>
      /\ <<"SALE", 0>> \in Source
      /\ \A i \in Nat : <<"SALE", 0>> # <<"MOVE", i>>
  BY DEF Posting, Source
<1>2. MayReturn(bills, e.returns)
  BY NoReturns
<1>3. value \in Int /\ e.unposted = 0 + value
  BY DEF StockDoes
<1> DEFINE source == <<"SALE", 0>>
           posted == 0
<1>4. /\ e.journals = Posting(source, posted, 0, -posted)
      /\ source \in Source /\ posted \in Int /\ e.unposted = posted + value
      /\ \A i \in Nat : source # <<"MOVE", i>>
  BY <1>1, <1>3
<1> HIDE DEF source, posted
<1> QED BY <1>2, <1>4, StockGood

\* Goods are adjusted in.
LEMMA AdjustInGood ==
    ASSUME NowGood, NEW w \in Warehouse, NEW l \in AnyLot, NEW q \in Quantity,
           NEW c \in Cost, AdjustIn(w, l, q, c)
    PROVE  GoodStep
<1> DEFINE row == Row(w, l, q, c)
           e == [Nothing EXCEPT !.stock = <<row>>, !.unposted = c]
<1>1. /\ e.stock = <<row>> /\ e.moves = <<>> /\ e.bills = <<>>
      /\ e.returns = <<>> /\ e.journals = <<>> /\ e.unposted = c /\ e.roundings = 0
  BY DEF Nothing
<1>2. Apply(e)
  BY DEF AdjustIn
<1>3. q \in Int /\ q > 0 /\ c \in Int
  BY Named_
<1>4. /\ row \in StockRow /\ row.warehouse = w /\ row.lot = l
      /\ row.entered = q /\ row.moved = 0 /\ row.value = c
  BY <1>3, RowIs
<1> HIDE DEF row, e
<1>5. /\ OnShelf(stock, w, l) \in Int
      /\ l \in Lot => OnShelf(stock, w, l) >= 0
  BY ShelfNow
<1>6. row.lot \in Lot => OnShelf(stock, row.warehouse, row.lot)
                            + row.entered + row.moved >= 0
  BY <1>3, <1>4, <1>5
<1>7. StockDoes(e, 0, c)
  BY <1>1, <1>4, <1>6, StockOne
<1>8. ThenGood(e)
  BY <1>1, <1>7, StockGoodUnposted
<1> QED BY <1>2, <1>8 DEF GoodStep

\* Goods are adjusted out.
LEMMA AdjustOutGood ==
    ASSUME NowGood, NEW w \in Warehouse, NEW l \in AnyLot, NEW q \in Quantity,
           NEW c \in Cost, AdjustOut(w, l, q, c)
    PROVE  GoodStep
<1> DEFINE row == Row(w, l, -q, -c)
           e == [Nothing EXCEPT !.stock = <<row>>, !.unposted = -c]
<1>1. /\ e.stock = <<row>> /\ e.moves = <<>> /\ e.bills = <<>>
      /\ e.returns = <<>> /\ e.journals = <<>> /\ e.unposted = -c /\ e.roundings = 0
  BY DEF Nothing
<1>2. Apply(e) /\ q <= QuantityOf(w, l)
  BY DEF AdjustOut, InStock
<1>3. q \in Int /\ -q \in Int /\ -c \in Int
  BY Named_
<1>4. /\ row \in StockRow /\ row.warehouse = w /\ row.lot = l
      /\ row.entered = -q /\ row.moved = 0 /\ row.value = -c
  BY <1>3, RowIs
<1> HIDE DEF row, e
<1>5. /\ OnShelf(stock, w, l) \in Int
      /\ l \in Lot => QuantityOf(w, l) = OnShelf(stock, w, l)
  BY ShelfNow
<1>6. row.lot \in Lot => OnShelf(stock, row.warehouse, row.lot)
                            + row.entered + row.moved >= 0
  BY <1>2, <1>3, <1>4, <1>5
<1>7. StockDoes(e, 0, -c)
  BY <1>1, <1>4, <1>6, StockOne
<1>8. ThenGood(e)
  BY <1>1, <1>7, StockGoodUnposted
<1> QED BY <1>2, <1>8 DEF GoodStep

\* Goods are moved to another warehouse.
LEMMA TransferStockGood ==
    ASSUME NowGood, NEW w \in Warehouse, NEW v \in Warehouse,
           NEW l \in AnyLot, NEW q \in Quantity, TransferStock(w, v, l, q)
    PROVE  GoodStep
<1> DEFINE c == StockCost(w, l, q)
           a == Transfer(w, l, -q, -c)
           b == Transfer(v, l, q, c)
           e == [Nothing EXCEPT !.stock = <<a, b>>]
<1>1. /\ e.stock = <<a, b>> /\ e.moves = <<>> /\ e.bills = <<>>
      /\ e.returns = <<>> /\ e.journals = <<>> /\ e.unposted = 0 /\ e.roundings = 0
  BY DEF Nothing
<1>2. Apply(e) /\ q <= QuantityOf(w, l) /\ w # v
  BY DEF TransferStock, InStock
<1>3. q \in Int /\ -q \in Int /\ q > 0 /\ c \in Int /\ -c \in Int
  BY Named_, ShelfNow
<1> HIDE DEF c
<1>4. /\ a \in StockRow /\ a.warehouse = w /\ a.lot = l
      /\ a.entered = 0 /\ a.moved = -q /\ a.value = -c
      /\ b \in StockRow /\ b.warehouse = v /\ b.lot = l
      /\ b.entered = 0 /\ b.moved = q /\ b.value = c
  BY <1>3, RowIs
<1> HIDE DEF a, b, e
<1>5. /\ OnShelf(stock, w, l) \in Int /\ OnShelf(stock, v, l) \in Int
      /\ l \in Lot => QuantityOf(w, l) = OnShelf(stock, w, l)
      /\ l \in Lot => OnShelf(stock, v, l) >= 0
  BY ShelfNow
<1>6. a.lot \in Lot => OnShelf(stock, a.warehouse, a.lot)
                          + a.entered + a.moved >= 0
  BY <1>2, <1>3, <1>4, <1>5
<1>7. b.lot \in Lot =>
         OnShelf(stock, b.warehouse, b.lot)
           + (IF b.warehouse = a.warehouse /\ b.lot = a.lot
              THEN a.entered + a.moved ELSE 0)
           + b.entered + b.moved >= 0
  <2>1. ~(b.warehouse = a.warehouse /\ b.lot = a.lot)
    BY <1>2, <1>4
  <2> QED BY <1>3, <1>4, <1>5, <2>1
<1>8. StockDoes(e, a.moved + b.moved, a.value + b.value)
  BY <1>1, <1>4, <1>6, <1>7, StockTwo
<1>9. a.moved + b.moved = 0 /\ a.value + b.value = 0
  BY <1>3, <1>4
<1>10. StockDoes(e, 0, 0)
  BY <1>8, <1>9
<1>11. ThenGood(e)
  BY <1>1, <1>10, StockGoodUnposted
<1> QED BY <1>2, <1>11 DEF GoodStep

-----------------------------------------------------------------------------
(* Documents.                                                              *)

\* Goods leave at average cost, if no named lot lacks them.
LEMMA OutgoingGood ==
    ASSUME NowGood, NEW w \in Warehouse, NEW l \in AnyLot, NEW q \in Quantity,
           l \in Lot => q <= QuantityOf(w, l),
           NEW source \in Source, \A i \in Nat : source # <<"MOVE", i>>,
           NEW e, MayReturn(bills, e.returns),
           LET o == Outgoing(source, w, l, q)
           IN  /\ e.stock = o.stock /\ e.moves = o.moves /\ e.bills = o.bills
               /\ e.journals = o.journals /\ e.unposted = o.unposted
               /\ e.roundings = o.roundings
    PROVE  ThenGood(e)
<1> DEFINE c == StockCost(w, l, q)
           posted == IF c > 0 THEN c ELSE 0
           row == Row(w, l, -q, -c)
<1>1. /\ e.stock = <<row>> /\ e.moves = <<>> /\ e.bills = <<>>
      /\ e.unposted = posted - c /\ e.roundings = 0
      /\ e.journals = Posting(source, posted, 0, -posted)
  BY DEF Outgoing, Nothing
<1>2. q \in Int /\ -q \in Int /\ c \in Int /\ -c \in Int
  BY Named_, ShelfNow
<1>3. posted \in Int /\ posted - c = posted + (-c)
  BY <1>2
<1> HIDE DEF c, posted
<1>4. /\ row \in StockRow /\ row.warehouse = w /\ row.lot = l
      /\ row.entered = -q /\ row.moved = 0 /\ row.value = -c
  BY <1>2, RowIs
<1> HIDE DEF row
<1>5. /\ OnShelf(stock, w, l) \in Int
      /\ l \in Lot => QuantityOf(w, l) = OnShelf(stock, w, l)
  BY ShelfNow
<1>6. row.lot \in Lot => OnShelf(stock, row.warehouse, row.lot)
                            + row.entered + row.moved >= 0
  BY <1>2, <1>4, <1>5
<1>7. StockDoes(e, 0, -c)
  BY <1>1, <1>4, <1>6, StockOne
<1>8. e.unposted = posted + (-c)
  BY <1>1, <1>3
<1> QED BY <1>1, <1>3, <1>7, <1>8, StockGood

\* An average cost is a fraction.
LEMMA AverageIs ==
    ASSUME NEW q \in Int, NEW n \in Int, NEW v \in Int,
           NEW f, f = AverageCost(q, n, v)
    PROVE  f[1] \in Int /\ f[2] \in Nat \ {0}
<1>1. CASE n > 0
  <2>1. f = <<q * v, n>> /\ q * v \in Int
    BY <1>1 DEF AverageCost
  <2> DEFINE p == q * v
  <2> HIDE DEF p
  <2> QED BY <1>1, <2>1
<1>2. CASE ~(n > 0)
  BY <1>2 DEF AverageCost
<1> QED BY <1>1, <1>2

\* The fields of a line.
LEMMA LineFields ==
    ASSUME NEW x \in Line
    PROVE  /\ x.warehouse \in Warehouse /\ x.lot \in AnyLot
           /\ x.quantity \in Quantity /\ x.quantity \in Int
BY Named_ DEF Line

\* Two lines leave at the cost they have one after the other: what is posted
\* is within a cent of what the rows say.
LEMMA OutgoingTwoGood ==
    ASSUME NowGood, NEW x \in Line, NEW y \in Line,
           x.lot \in Lot => x.quantity <= QuantityOf(x.warehouse, x.lot),
           y.lot \in Lot => y.quantity <= QuantityAfter(x, y),
           NEW source \in Source, \A i \in Nat : source # <<"MOVE", i>>,
           NEW e, MayReturn(bills, e.returns),
           LET o == OutgoingTwo(source, x, y)
           IN  /\ e.stock = o.stock /\ e.moves = o.moves /\ e.bills = o.bills
               /\ e.journals = o.journals /\ e.unposted = o.unposted
               /\ e.roundings = o.roundings
    PROVE  ThenGood(e)
<1> DEFINE f == AverageCost(x.quantity, QuantityOf(x.warehouse, x.lot),
                            ValueOf(x.warehouse, x.lot))
           g == AverageCost(y.quantity, QuantityAfter(x, y), ValueAfter(x, y))
           t == Cents(PlusFraction(f, g))
           posted == IF t > 0 THEN t ELSE 0
           cf == Cents(f)
           cg == Cents(g)
           a == Row(x.warehouse, x.lot, -x.quantity, -cf)
           b == Row(y.warehouse, y.lot, -y.quantity, -cg)
<1>1. /\ e.stock = <<a, b>> /\ e.moves = <<>> /\ e.bills = <<>>
      /\ e.unposted = posted - t /\ e.roundings = 1
      /\ e.journals = Posting(source, posted, 0, -posted)
  BY DEF OutgoingTwo, Nothing
<1>2. /\ x.warehouse \in Warehouse /\ x.lot \in AnyLot
      /\ x.quantity \in Quantity /\ x.quantity \in Int
      /\ y.warehouse \in Warehouse /\ y.lot \in AnyLot
      /\ y.quantity \in Quantity /\ y.quantity \in Int
  BY LineFields
<1>3. /\ QuantityOf(x.warehouse, x.lot) \in Int
      /\ ValueOf(x.warehouse, x.lot) \in Int
      /\ QuantityOf(y.warehouse, y.lot) \in Int
      /\ ValueOf(y.warehouse, y.lot) \in Int
      /\ CostOf(x) \in Int
  BY <1>2, ShelfNow, Named_ DEF CostOf
<1>4. QuantityAfter(x, y) \in Int /\ ValueAfter(x, y) \in Int
  BY <1>2, <1>3 DEF QuantityAfter, ValueAfter
<1>5. f[1] \in Int /\ f[2] \in Nat \ {0}
  BY <1>2, <1>3, AverageIs
<1>6. g[1] \in Int /\ g[2] \in Nat \ {0}
  BY <1>2, <1>4, AverageIs
<1>7. /\ t = Rounded(f[1] * g[2] + g[1] * f[2], f[2] * g[2])
      /\ cf = Rounded(f[1], f[2]) /\ cg = Rounded(g[1], g[2])
  BY DEF Cents, PlusFraction
<1> HIDE DEF f, g, t, cf, cg
<1>8. /\ t \in Int /\ cf \in Int /\ cg \in Int
      /\ t <= cf + cg + 1 /\ cf + cg <= t + 1
  BY ONLY <1>5, <1>6, <1>7, RoundedSum
<1>9. /\ posted \in Int /\ -posted \in Int /\ (posted = 0 => -posted = 0)
      /\ -cf \in Int /\ -cg \in Int
      /\ -x.quantity \in Int /\ -y.quantity \in Int
  <2>1. posted \in Int
    BY ONLY <1>8
  <2> HIDE DEF posted
  <2>2. -posted \in Int /\ (posted = 0 => -posted = 0)
    BY ONLY <2>1
  <2>3. -cf \in Int /\ -cg \in Int
    BY ONLY <1>8
  <2>4. -x.quantity \in Int /\ -y.quantity \in Int
    BY ONLY <1>2
  <2> QED BY <2>1, <2>2, <2>3, <2>4
<1> HIDE DEF posted
<1>10. /\ a \in StockRow /\ a.warehouse = x.warehouse /\ a.lot = x.lot
       /\ a.entered = -x.quantity /\ a.moved = 0 /\ a.value = -cf
  BY <1>2, <1>9, RowIs
<1>11. /\ b \in StockRow /\ b.warehouse = y.warehouse /\ b.lot = y.lot
       /\ b.entered = -y.quantity /\ b.moved = 0 /\ b.value = -cg
  BY <1>2, <1>9, RowIs
<1> HIDE DEF a, b
<1>12. a.lot \in Lot => OnShelf(stock, a.warehouse, a.lot)
                           + a.entered + a.moved >= 0
  <2>1. /\ OnShelf(stock, x.warehouse, x.lot) \in Int
        /\ x.lot \in Lot => QuantityOf(x.warehouse, x.lot)
                              = OnShelf(stock, x.warehouse, x.lot)
    BY <1>2, ShelfNow
  <2> QED BY <1>2, <1>10, <2>1
<1>13. b.lot \in Lot =>
         OnShelf(stock, b.warehouse, b.lot)
           + (IF b.warehouse = a.warehouse /\ b.lot = a.lot
              THEN a.entered + a.moved ELSE 0)
           + b.entered + b.moved >= 0
  <2> SUFFICES ASSUME y.lot \in Lot
               PROVE  OnShelf(stock, y.warehouse, y.lot)
                        + (IF y.warehouse = x.warehouse /\ y.lot = x.lot
                           THEN -x.quantity + 0 ELSE 0)
                        + -y.quantity + 0 >= 0
    BY <1>10, <1>11
  <2>1. /\ OnShelf(stock, y.warehouse, y.lot) \in Int
        /\ QuantityOf(y.warehouse, y.lot)
             = OnShelf(stock, y.warehouse, y.lot)
    BY <1>2, ShelfNow
  <2>2. SameGoods(x, y) <=> y.warehouse = x.warehouse /\ y.lot = x.lot
    <3>1. y.lot # NoLot
      BY Named_
    <3> QED BY <3>1 DEF SameGoods, Counted
  <2>3. y.quantity <= QuantityAfter(x, y)
    OBVIOUS
  <2>4. CASE y.warehouse = x.warehouse /\ y.lot = x.lot
    <3>1. QuantityAfter(x, y)
            = OnShelf(stock, y.warehouse, y.lot) - x.quantity
      BY <2>1, <2>2, <2>4 DEF QuantityAfter
    <3> QED BY <1>2, <2>1, <2>3, <2>4, <3>1
  <2>5. CASE ~(y.warehouse = x.warehouse /\ y.lot = x.lot)
    <3>1. QuantityAfter(x, y) = OnShelf(stock, y.warehouse, y.lot) - 0
      BY <2>1, <2>2, <2>5 DEF QuantityAfter
    <3> QED BY <1>2, <2>1, <2>3, <2>5, <3>1
  <2> QED BY <2>4, <2>5
<1>14. StockDoes(e, a.moved + b.moved, a.value + b.value)
  BY <1>1, <1>10, <1>11, <1>12, <1>13, StockTwo
<1> DEFINE value == -cf + -cg
<1>15. StockDoes(e, 0, value) /\ value \in Int
  <2>1. a.moved + b.moved = 0 /\ a.value + b.value = value /\ value \in Int
    BY <1>9, <1>10, <1>11
  <2> QED BY <1>14, <2>1
<1>16. MovesDo(e, 0, 0, 0) /\ Extends(moves, moves \o e.moves)
  BY <1>1, MovesNone DEF MovesDo
<1>17. BillsDo(e, 0)
  BY <1>1, <1>16, BillsReturned
<1> DEFINE inventory == -posted
           wip == 0
<1>18. /\ inventory \in Int /\ wip \in Int
       /\ posted = 0 => wip = 0 /\ inventory = 0
       /\ e.journals = Posting(source, posted, wip, inventory)
       /\ wip = 0 + 0
  BY <1>1, <1>9
<1>19. /\ e.unposted \in Int /\ e.roundings \in Nat
       /\ Near(inventory + e.unposted, value + 0, e.roundings)
  <2>1. e.unposted \in Int /\ inventory + e.unposted = -t
    BY <1>1, <1>8, <1>9
  <2>2. value + 0 = -cf - cg
    BY <1>8
  <2> QED BY <1>1, <1>8, <2>1, <2>2 DEF Near
<1> HIDE DEF value, inventory, wip
<1>20. \A i \in Nat : source = <<"MOVE", i>> =>
          /\ i \in DOMAIN (moves \o e.moves)
          /\ Worth((moves \o e.moves)[i], wip, inventory)
  OBVIOUS
<1>21. JournalsDo(e, wip, inventory)
  BY <1>9, <1>16, <1>18, <1>20, JournalsPost
<1>22. BalancesNearly(e, 0, value, 0, 0, 0, 0, 0, wip, inventory)
  BY <1>18, <1>19 DEF BalancesNearly
<1>23. BillsDoAll(e, 0, 0)
  BY <1>17 DEF BillsDo
<1> QED BY <1>15, <1>16, <1>21, <1>22, <1>23, EffectNearlyGood

\* Two lines are sold.
LEMMA SellTwoGood ==
    ASSUME NowGood, NEW x \in Line, NEW y \in Line, SellTwo(x, y)
    PROVE  GoodStep
<1> DEFINE source == <<"SALE", 0>>
           e == OutgoingTwo(source, x, y)
<1>1. Apply(e)
  BY DEF SellTwo
<1>2. /\ x.lot \in Lot => x.quantity <= QuantityOf(x.warehouse, x.lot)
      /\ y.lot \in Lot => y.quantity <= QuantityAfter(x, y)
  BY Named_ DEF SellTwo, Sellable
<1>3. source \in Source /\ \A i \in Nat : source # <<"MOVE", i>>
  BY DEF Source
<1>4. e.returns = <<>>
  BY DEF OutgoingTwo, Nothing
<1>5. MayReturn(bills, e.returns)
  BY <1>4, NoReturns
<1> HIDE DEF source
<1>6. ThenGood(e)
  BY <1>2, <1>3, <1>5, OutgoingTwoGood
<1> QED BY <1>1, <1>6 DEF GoodStep

\* Goods are sold.
LEMMA SellGood ==
    ASSUME NowGood, NEW w \in Warehouse, NEW l \in AnyLot, NEW q \in Quantity,
           Sell(w, l, q)
    PROVE  GoodStep
<1> DEFINE source == <<"SALE", 0>>
           e == Outgoing(source, w, l, q)
<1>1. Apply(e)
  BY DEF Sell
<1>2. l \in Lot => q <= QuantityOf(w, l)
  BY Named_ DEF Sell, Sellable, LineOf
<1>3. source \in Source /\ \A i \in Nat : source # <<"MOVE", i>>
  BY DEF Source
<1>4. e.returns = <<>>
  BY DEF Outgoing, Nothing
<1>5. MayReturn(bills, e.returns)
  BY <1>4, NoReturns
<1> HIDE DEF source
<1>6. ThenGood(e)
  BY <1>2, <1>3, <1>5, OutgoingGood
<1> QED BY <1>1, <1>6 DEF GoodStep

\* What may be given back of a bill.
LEMMA ReturnableIs ==
    ASSUME NowGood, NEW b \in DOMAIN bills, NEW q \in Nat, Returnable(b, q)
    PROVE  /\ bills[b].returned + q <= bills[b].quantity
           /\ MayReturn(bills, GiveBack(b, q))
<1>1. bills[b].quantity \in Nat /\ bills[b].returned \in Nat
  BY TableRows, BillFields DEF NowGood, Good
<1>2. bills[b].returned + q <= bills[b].quantity
  BY <1>1 DEF Returnable
<1>3. DOMAIN GiveBack(b, q) = {b} /\ GiveBack(b, q)[b] = q
  BY DEF GiveBack
<1> QED BY <1>2, <1>3 DEF MayReturn

\* Goods in stock are given back to the vendor.
LEMMA ReturnPurchaseGood ==
    ASSUME NowGood, NEW b \in DOMAIN bills, NEW w \in Warehouse,
           NEW q \in Quantity, ReturnPurchase(b, w, q)
    PROVE  GoodStep
<1> DEFINE source == <<"NOTE", b>>
           l == bills[b].lot
           e == [Outgoing(source, w, l, q) EXCEPT !.returns = GiveBack(b, q)]
<1>1. Apply(e) /\ q <= QuantityOf(w, l) /\ Returnable(b, q)
  BY DEF ReturnPurchase, InStock
<1>2. l \in AnyLot /\ b \in Nat
  BY TableRows, BillFields DEF NowGood, Good
<1>3. source \in Source /\ \A i \in Nat : source # <<"MOVE", i>>
  BY <1>2 DEF Source
<1> DEFINE o == Outgoing(source, w, l, q)
<1>4. /\ e.returns = GiveBack(b, q)
      /\ e.stock = o.stock /\ e.moves = o.moves /\ e.bills = o.bills
      /\ e.journals = o.journals /\ e.unposted = o.unposted
      /\ e.roundings = o.roundings
  BY DEF Outgoing, Nothing
<1>5. MayReturn(bills, e.returns)
  BY <1>1, <1>4, Named_, ReturnableIs
<1> HIDE DEF source, l, e
<1>6. ThenGood(e)
  BY <1>1, <1>2, <1>3, <1>4, <1>5, OutgoingGood
<1> QED BY <1>1, <1>6 DEF GoodStep

\* Two lines are given back to the vendor.
LEMMA ReturnTwoGood ==
    ASSUME NowGood, NEW b \in DOMAIN bills, NEW d \in DOMAIN bills,
           NEW x \in Line, NEW y \in Line, ReturnTwo(b, d, x, y)
    PROVE  GoodStep
<1> DEFINE source == <<"NOTE", b>>
           both == [k \in {b, d} |-> (IF k = b THEN x.quantity ELSE 0)
                                     + (IF k = d THEN y.quantity ELSE 0)]
           o == OutgoingTwo(source, x, y)
           e == [o EXCEPT !.returns = both]
<1>1. /\ Apply(e) /\ \A k \in {b, d} : Returnable(k, both[k])
      /\ x.quantity <= QuantityOf(x.warehouse, x.lot)
      /\ y.quantity <= QuantityAfter(x, y)
  BY DEF ReturnTwo
<1>2. b \in Nat
  BY TableRows DEF NowGood, Good
<1>3. source \in Source /\ \A i \in Nat : source # <<"MOVE", i>>
  BY <1>2 DEF Source
<1>4. /\ e.returns = both
      /\ e.stock = o.stock /\ e.moves = o.moves /\ e.bills = o.bills
      /\ e.journals = o.journals /\ e.unposted = o.unposted
      /\ e.roundings = o.roundings
  BY DEF OutgoingTwo, Nothing
<1>5. DOMAIN both = {b, d} /\ \A k \in {b, d} : both[k] \in Nat
  <2>1. x.quantity \in Nat /\ y.quantity \in Nat
    BY LineFields, Named_
  <2> QED BY <2>1
<1> HIDE DEF both, o, e
<1>6. MayReturn(bills, e.returns)
  <2>1. \A k \in {b, d} : bills[k].returned + both[k] <= bills[k].quantity
    BY <1>1, <1>5, ReturnableIs
  <2> QED BY <1>4, <1>5, <2>1 DEF MayReturn
<1> HIDE DEF source
<1>7. ThenGood(e)
  BY <1>1, <1>3, <1>4, <1>6, OutgoingTwoGood DEF o
<1> QED BY <1>1, <1>7 DEF GoodStep

\* Goods that are no longer tracked are given back.
LEMMA ReturnWithoutStockGood ==
    ASSUME NowGood, NEW b \in DOMAIN bills, NEW q \in Quantity,
           ReturnWithoutStock(b, q)
    PROVE  GoodStep
<1> DEFINE e == [Nothing EXCEPT !.returns = GiveBack(b, q)]
<1>1. /\ e.stock = <<>> /\ e.moves = <<>> /\ e.bills = <<>>
      /\ e.returns = GiveBack(b, q) /\ e.unposted = 0 /\ e.roundings = 0
      /\ e.journals = <<>>
  BY DEF Nothing
<1>2. Apply(e) /\ Returnable(b, q)
  BY DEF ReturnWithoutStock
<1> HIDE DEF e
<1>3. StockDoes(e, 0, 0)
  BY <1>1, StockNone
<1>4. MovesDo(e, 0, 0, 0) /\ Extends(moves, moves \o e.moves)
  BY <1>1, MovesNone DEF MovesDo
<1>5. MayReturn(bills, e.returns)
  BY <1>1, <1>2, Named_, ReturnableIs
<1>6. BillsDo(e, 0)
  BY <1>1, <1>4, <1>5, BillsReturned
<1>7. JournalsDo(e, 0, 0)
  BY <1>1, <1>4, JournalsNone
<1>8. Balances(e, 0, 0, 0, 0, 0, 0, 0, 0)
  BY <1>1 DEF Balances
<1>9. ThenGood(e)
  BY <1>3, <1>4, <1>6, <1>7, <1>8, EffectGood
<1> QED BY <1>2, <1>9 DEF GoodStep

\* A document is none of a movement, and is posted for what it says.
LEMMA DocumentPosted ==
    ASSUME NowGood, NEW e, Extends(moves, moves \o e.moves),
           NEW kind \in {"BILL", "NOTE", "SALE", "REVERSAL"}, NEW n \in Nat,
           NEW amount \in Int, NEW wip \in Int, NEW inventory \in Int,
           amount = 0 => wip = 0 /\ inventory = 0,
           e.journals = Posting(<<kind, n>>, amount, wip, inventory)
    PROVE  JournalsDo(e, wip, inventory)
<1> DEFINE source == <<kind, n>>
<1>1. source \in Source /\ \A i \in Nat : source # <<"MOVE", i>>
  BY DEF Source
<1>2. e.journals = Posting(source, amount, wip, inventory)
  OBVIOUS
<1> HIDE DEF source
<1>3. \A i \in Nat : source = <<"MOVE", i>> =>
         /\ i \in DOMAIN (moves \o e.moves)
         /\ Worth((moves \o e.moves)[i], wip, inventory)
  BY <1>1
<1> QED BY <1>1, <1>2, <1>3, JournalsPost

\* The next row is the first that an effect adds.
LEMMA NextRow ==
    ASSUME NowGood, NEW mv2, NEW row \in Move,
           mv2 = Append(moves, row) \/
              \E b \in Move : mv2 = Append(Append(moves, row), b)
    PROVE  /\ Len(moves) + 1 \in Nat
           /\ Len(moves) + 1 \in DOMAIN mv2 /\ mv2[Len(moves) + 1] = row
           /\ NextMove \in Source
           /\ \A i \in Nat : NextMove = <<"MOVE", i>> => i = Len(moves) + 1
<1> DEFINE n == Len(moves) + 1
<1>1. moves \in Seq(Move) /\ n \in Nat
  BY TableRows DEF NowGood, Good
<1>2. NextMove = <<"MOVE", n>>
  BY DEF NextMove
<1>3. NextMove \in Source /\ \A i \in Nat : NextMove = <<"MOVE", i>> => i = n
  BY <1>1, <1>2 DEF Source
<1>4. /\ Append(moves, row) \in Seq(Move)
      /\ n \in DOMAIN Append(moves, row) /\ Append(moves, row)[n] = row
  BY <1>1, RowAdded
<1>5. CASE mv2 = Append(moves, row)
  BY <1>1, <1>3, <1>4, <1>5
<1>6. ASSUME NEW b \in Move, mv2 = Append(Append(moves, row), b)
      PROVE  n \in DOMAIN mv2 /\ mv2[n] = row
  <2> DEFINE mv1 == Append(moves, row)
  <2>1. mv1 \in Seq(Move) /\ n \in DOMAIN mv1 /\ mv1[n] = row
        /\ mv2 = Append(mv1, b)
    BY <1>4, <1>6
  <2> HIDE DEF mv1, n
  <2> QED BY <2>1, RowAdded
<1> QED BY <1>1, <1>3, <1>5, <1>6

\* What a movement is worth is posted for it.
LEMMA MovePosted ==
    ASSUME NowGood, NEW e, NEW row \in Move,
           moves \o e.moves = Append(moves, row) \/
              \E b \in Move : moves \o e.moves = Append(Append(moves, row), b),
           Extends(moves, moves \o e.moves),
           NEW amount \in Int, NEW wip \in Int, NEW inventory \in Int,
           amount = 0 => wip = 0 /\ inventory = 0,
           Worth(row, wip, inventory),
           e.journals = Posting(NextMove, amount, wip, inventory)
    PROVE  JournalsDo(e, wip, inventory)
<1> DEFINE mv2 == moves \o e.moves
<1>1. /\ Len(moves) + 1 \in DOMAIN mv2 /\ mv2[Len(moves) + 1] = row
      /\ NextMove \in Source
      /\ \A i \in Nat : NextMove = <<"MOVE", i>> => i = Len(moves) + 1
  <2>1. mv2 = Append(moves, row) \/
              \E b \in Move : mv2 = Append(Append(moves, row), b)
    OBVIOUS
  <2> HIDE DEF mv2
  <2> QED BY <2>1, NextRow
<1>2. \A i \in Nat : NextMove = <<"MOVE", i>> =>
         i \in DOMAIN mv2 /\ Worth(mv2[i], wip, inventory)
  BY <1>1
<1> QED BY <1>1, <1>2, JournalsPost

\* Goods are bought for stock.
LEMMA PurchaseForStockGood ==
    ASSUME NowGood, NEW w \in Warehouse, NEW l \in AnyLot, NEW q \in Quantity,
           NEW c \in Cost, PurchaseForStock(w, l, q, c)
    PROVE  GoodStep
<1> DEFINE row == Row(w, l, q, c)
           b == [lot |-> l, project |-> NoProject, quantity |-> q,
                 total |-> c, goods |-> TRUE, returned |-> 0]
           n == Len(bills) + 1
           e == [Nothing EXCEPT !.stock = <<row>>, !.bills = <<b>>,
                                !.journals = Posting(NextBill, c, 0, c)]
<1>1. /\ e.stock = <<row>> /\ e.moves = <<>> /\ e.bills = <<b>>
      /\ e.returns = <<>> /\ e.unposted = 0 /\ e.roundings = 0
      /\ e.journals = Posting(<<"BILL", n>>, c, 0, c)
  BY DEF Nothing, NextBill
<1>2. Apply(e)
  BY DEF PurchaseForStock
<1>3. q \in Nat /\ q \in Int /\ q > 0 /\ c \in Int /\ c \in Nat
  BY Named_
<1>4. /\ row \in StockRow /\ row.warehouse = w /\ row.lot = l
      /\ row.entered = q /\ row.moved = 0 /\ row.value = c
  BY <1>3, RowIs
<1>5. b \in Bill /\ b.goods /\ b.project = NoProject /\ b.returned <= b.quantity
  BY <1>3 DEF Bill
<1>6. n \in Nat
  BY TableRows DEF NowGood, Good
<1> HIDE DEF row, b, n, e
<1>7. /\ OnShelf(stock, w, l) \in Int
      /\ l \in Lot => OnShelf(stock, w, l) >= 0
  BY ShelfNow
<1>8. row.lot \in Lot => OnShelf(stock, row.warehouse, row.lot)
                            + row.entered + row.moved >= 0
  BY <1>3, <1>4, <1>7
<1>9. StockDoes(e, 0, c)
  BY <1>1, <1>4, <1>8, StockOne
<1>10. MovesDo(e, 0, 0, 0) /\ Extends(moves, moves \o e.moves)
  BY <1>1, MovesNone DEF MovesDo
<1>11. BillsDo(e, 0)
  <2>1. BillsDoAll(e, IF IsService(b) THEN b.total ELSE 0,
                   IF IsUnstocked(b) THEN b.total ELSE 0)
    BY <1>1, <1>5, <1>10, BillsNew
  <2> QED BY <1>5, <2>1 DEF BillsDo, IsService, IsUnstocked
<1>12. JournalsDo(e, 0, c)
  <2> DEFINE wip == 0
             inventory == c
  <2>1. /\ e.journals = Posting(<<"BILL", n>>, c, wip, inventory)
        /\ c = 0 => wip = 0 /\ inventory = 0
        /\ wip \in Int /\ inventory \in Int /\ c \in Int
    BY <1>1, <1>3
  <2> HIDE DEF wip, inventory
  <2>2. JournalsDo(e, wip, inventory)
    BY <1>6, <1>10, <2>1, DocumentPosted
  <2> QED BY <2>2 DEF wip, inventory
<1>13. Balances(e, 0, c, 0, 0, 0, 0, 0, c)
  BY <1>1, <1>3 DEF Balances
<1>14. ThenGood(e)
  BY <1>9, <1>10, <1>11, <1>12, <1>13, EffectGood
<1> QED BY <1>2, <1>14 DEF GoodStep

\* What is bought without goods is charged to a project.
LEMMA PurchaseServiceGood ==
    ASSUME NowGood, NEW p \in Project, NEW c \in Cost, PurchaseService(p, c)
    PROVE  GoodStep
<1> DEFINE b == [lot |-> NoLot, project |-> p, quantity |-> 0,
                 total |-> c, goods |-> FALSE, returned |-> 0]
           n == Len(bills) + 1
           e == [Nothing EXCEPT !.bills = <<b>>,
                                !.journals = Posting(NextBill, c, c, 0)]
<1>1. /\ e.stock = <<>> /\ e.moves = <<>> /\ e.bills = <<b>>
      /\ e.returns = <<>> /\ e.unposted = 0 /\ e.roundings = 0
      /\ e.journals = Posting(<<"BILL", n>>, c, c, 0)
  BY DEF Nothing, NextBill
<1>2. Apply(e)
  BY DEF PurchaseService
<1>3. c \in Int /\ c \in Nat
  BY Named_
<1>5. /\ b \in Bill /\ ~b.goods /\ b.total = c /\ b.returned <= b.quantity
      /\ b.project # NoProject
  BY <1>3, Named_ DEF Bill
<1>6. n \in Nat
  BY TableRows DEF NowGood, Good
<1> HIDE DEF b, n, e
<1>9. StockDoes(e, 0, 0)
  BY <1>1, StockNone
<1>10. MovesDo(e, 0, 0, 0) /\ Extends(moves, moves \o e.moves)
  BY <1>1, MovesNone DEF MovesDo
<1>11. BillsDo(e, c)
  <2>1. BillsDoAll(e, IF IsService(b) THEN b.total ELSE 0,
                   IF IsUnstocked(b) THEN b.total ELSE 0)
    BY <1>1, <1>5, <1>10, BillsNew
  <2> QED BY <1>5, <2>1 DEF BillsDo, IsService, IsUnstocked
<1>12. JournalsDo(e, c, 0)
  <2> DEFINE wip == c
             inventory == 0
  <2>1. /\ e.journals = Posting(<<"BILL", n>>, c, wip, inventory)
        /\ c = 0 => wip = 0 /\ inventory = 0
        /\ wip \in Int /\ inventory \in Int /\ c \in Int
    BY <1>1, <1>3
  <2> HIDE DEF wip, inventory
  <2>2. JournalsDo(e, wip, inventory)
    BY <1>6, <1>10, <2>1, DocumentPosted
  <2> QED BY <2>2 DEF wip, inventory
<1>13. Balances(e, 0, 0, 0, 0, 0, c, c, 0)
  BY <1>1, <1>3 DEF Balances
<1>14. ThenGood(e)
  BY <1>9, <1>10, <1>11, <1>12, <1>13, EffectGood
<1> QED BY <1>2, <1>14 DEF GoodStep

\* What is bought while the product is not tracked brings no stock.
LEMMA PurchaseWithoutStockGood ==
    ASSUME NowGood, NEW l \in AnyLot, NEW q \in Quantity \cup {0},
           NEW c \in Cost, PurchaseWithoutStock(l, q, c)
    PROVE  GoodStep
<1> DEFINE b == [lot |-> l, project |-> NoProject, quantity |-> q,
                 total |-> c, goods |-> FALSE, returned |-> 0]
           n == Len(bills) + 1
           e == [Nothing EXCEPT !.bills = <<b>>,
                                !.journals = Posting(NextBill, c, 0, c)]
<1>1. /\ e.stock = <<>> /\ e.moves = <<>> /\ e.bills = <<b>>
      /\ e.returns = <<>> /\ e.unposted = 0 /\ e.roundings = 0
      /\ e.journals = Posting(<<"BILL", n>>, c, 0, c)
  BY DEF Nothing, NextBill
<1>2. Apply(e)
  BY DEF PurchaseWithoutStock
<1>3. c \in Int /\ c \in Nat /\ q \in Nat
  BY Named_
<1>5. /\ b \in Bill /\ ~b.goods /\ b.total = c /\ b.returned <= b.quantity
      /\ b.project = NoProject
  BY <1>3, Named_ DEF Bill
<1>6. n \in Nat
  BY TableRows DEF NowGood, Good
<1> HIDE DEF b, n, e
<1>9. StockDoes(e, 0, 0)
  BY <1>1, StockNone
<1>10. MovesDo(e, 0, 0, 0) /\ Extends(moves, moves \o e.moves)
  BY <1>1, MovesNone DEF MovesDo
<1>11. BillsDoAll(e, 0, c)
  <2>1. BillsDoAll(e, IF IsService(b) THEN b.total ELSE 0,
                   IF IsUnstocked(b) THEN b.total ELSE 0)
    BY <1>1, <1>5, <1>10, BillsNew
  <2> QED BY <1>5, <2>1 DEF IsService, IsUnstocked
<1>12. JournalsDo(e, 0, c)
  <2> DEFINE wip == 0
             inventory == c
  <2>1. /\ e.journals = Posting(<<"BILL", n>>, c, wip, inventory)
        /\ c = 0 => wip = 0 /\ inventory = 0
        /\ wip \in Int /\ inventory \in Int /\ c \in Int
    BY <1>1, <1>3
  <2> HIDE DEF wip, inventory
  <2>2. JournalsDo(e, wip, inventory)
    BY <1>6, <1>10, <2>1, DocumentPosted
  <2> QED BY <2>2 DEF wip, inventory
<1>13. BalancesNearly(e, 0, 0, 0, 0, 0, 0, c, 0, c)
  BY <1>1, <1>3 DEF BalancesNearly, Near
<1>14. ThenGood(e)
  BY <1>9, <1>10, <1>11, <1>12, <1>13, EffectNearlyGood
<1> QED BY <1>2, <1>14 DEF GoodStep

\* A receipt that comes from the stock is added.
LEMMA MovesIssued ==
    ASSUME NowGood, NEW e, NEW row \in Move, e.moves = <<row>>,
           row.kind = "INVENTORY_ISSUE_TO_PROJECT", row.of = 0, row.source = 0
    PROVE  MovesDo(e, row.quantity, row.total, 0)
<1>1. /\ moves \in Seq(Move) /\ Sourced(moves) /\ Covered(moves)
  BY DEF NowGood, Good
<1>2. RowSourced(moves, row)
  BY DEF RowSourced, Deduction
<1>3. row.kind \in Receipt /\ row.kind # "TRANSFER_OUT"
  BY DEF Receipt
<1>4. Onward(moves, Append(moves, row), row.quantity, row.total, 0)
  BY <1>1, <1>2, <1>3, Received
<1>5. row.quantity \in Int /\ row.total \in Int
  BY MoveFields
<1> QED BY <1>3, <1>4, <1>5, MovesOne

\* Goods are bought for a project.
LEMMA PurchaseForProjectGood ==
    ASSUME NowGood, NEW w \in Warehouse, NEW l \in AnyLot, NEW p \in Project,
           NEW q \in Quantity, NEW c \in Cost, PurchaseForProject(w, l, p, q, c)
    PROVE  GoodStep
<1> DEFINE a == Row(w, l, q, c)
           d == Transfer(w, l, -q, -c)
           n == Len(bills) + 1
           b == [lot |-> l, project |-> p, quantity |-> q,
                 total |-> c, goods |-> TRUE, returned |-> 0]
           row == [kind |-> "INVENTORY_ISSUE_TO_PROJECT", project |-> p,
                   warehouse |-> w, lot |-> l, quantity |-> q, total |-> c,
                   source |-> 0, of |-> 0, bill |-> n]
           e == [Nothing EXCEPT !.stock = <<a, d>>, !.moves = <<row>>,
                    !.bills = <<b>>, !.journals = Posting(NextBill, c, c, 0)]
<1>1. /\ e.stock = <<a, d>> /\ e.moves = <<row>> /\ e.bills = <<b>>
      /\ e.returns = <<>> /\ e.unposted = 0 /\ e.roundings = 0
      /\ e.journals = Posting(<<"BILL", n>>, c, c, 0)
  BY DEF Nothing, NextBill
<1>2. Apply(e)
  BY DEF PurchaseForProject
<1>3. q \in Nat \ {0} /\ q \in Int /\ q > 0 /\ c \in Int /\ c \in Nat
      /\ -q \in Int /\ -c \in Int
  BY Named_
<1>4. /\ a \in StockRow /\ a.warehouse = w /\ a.lot = l
      /\ a.entered = q /\ a.moved = 0 /\ a.value = c
      /\ d \in StockRow /\ d.warehouse = w /\ d.lot = l
      /\ d.entered = 0 /\ d.moved = -q /\ d.value = -c
  BY <1>3, RowIs
<1>5. b \in Bill /\ b.goods /\ b.returned <= b.quantity
  BY <1>3 DEF Bill
<1>6. n \in Nat /\ moves \in Seq(Move)
  BY TableRows DEF NowGood, Good
<1> HIDE DEF n
<1>7. /\ row \in Move /\ row.kind = "INVENTORY_ISSUE_TO_PROJECT"
      /\ row.of = 0 /\ row.source = 0 /\ row.quantity = q /\ row.total = c
      /\ row.bill = n
  BY <1>3, <1>6 DEF Move, Kind
<1> HIDE DEF row, b, a, d, e
<1>8. /\ OnShelf(stock, w, l) \in Int
      /\ l \in Lot => OnShelf(stock, w, l) >= 0
  BY ShelfNow
<1>9. a.lot \in Lot => OnShelf(stock, a.warehouse, a.lot)
                          + a.entered + a.moved >= 0
  BY <1>3, <1>4, <1>8
<1>10. d.lot \in Lot =>
         OnShelf(stock, d.warehouse, d.lot)
           + (IF d.warehouse = a.warehouse /\ d.lot = a.lot
              THEN a.entered + a.moved ELSE 0)
           + d.entered + d.moved >= 0
  BY <1>3, <1>4, <1>8
<1>11. StockDoes(e, -q, 0)
  <2>1. StockDoes(e, a.moved + d.moved, a.value + d.value)
    BY <1>1, <1>4, <1>9, <1>10, StockTwo
  <2>2. a.moved + d.moved = -q /\ a.value + d.value = 0
    BY <1>3, <1>4
  <2> QED BY <2>1, <2>2
<1>12. MovesDo(e, q, c, 0) /\ Extends(moves, moves \o e.moves)
  <2>1. MovesDo(e, row.quantity, row.total, 0)
    BY <1>1, <1>7, MovesIssued
  <2> QED BY <1>7, <2>1 DEF MovesDo
<1>13. /\ Len(moves) + 1 \in DOMAIN (moves \o e.moves)
       /\ IssueOf(moves \o e.moves, Len(moves) + 1, n)
  <2>1. moves \o e.moves = Append(moves, row)
    BY <1>1, <1>6, <1>7, Concatenated
  <2>2. /\ Len(moves) + 1 \in DOMAIN Append(moves, row)
        /\ Append(moves, row)[Len(moves) + 1] = row
    BY <1>6, RowAdded
  <2> QED BY <1>7, <2>1, <2>2 DEF IssueOf
<1>14. BillsDo(e, 0)
  <2>1. \E i \in DOMAIN (moves \o e.moves) :
           IssueOf(moves \o e.moves, i, Len(bills) + 1)
    BY <1>13 DEF n
  <2>2. BillsDoAll(e, IF IsService(b) THEN b.total ELSE 0,
                   IF IsUnstocked(b) THEN b.total ELSE 0)
    BY <1>1, <1>5, <1>12, <2>1, BillsNew
  <2> QED BY <1>5, <2>2 DEF BillsDo, IsService, IsUnstocked
<1>15. JournalsDo(e, c, 0)
  <2> DEFINE wip == c
             inventory == 0
  <2>1. /\ e.journals = Posting(<<"BILL", n>>, c, wip, inventory)
        /\ c = 0 => wip = 0 /\ inventory = 0
        /\ wip \in Int /\ inventory \in Int /\ c \in Int
    BY <1>1, <1>3
  <2> HIDE DEF wip, inventory
  <2>2. JournalsDo(e, wip, inventory)
    BY <1>6, <1>12, <2>1, DocumentPosted
  <2> QED BY <2>2 DEF wip, inventory
<1>16. Balances(e, -q, 0, q, c, 0, 0, c, 0)
  BY <1>1, <1>3 DEF Balances
<1>17. ThenGood(e)
  BY <1>11, <1>12, <1>14, <1>15, <1>16, EffectGood
<1> QED BY <1>2, <1>17 DEF GoodStep
\* Goods that went to a project are given back to the vendor.
LEMMA ReturnToVendorGood ==
    ASSUME NowGood, NEW b \in DOMAIN bills, NEW q \in Quantity,
           ReturnToVendor(b, q)
    PROVE  GoodStep
<1> DEFINE r == IssueOfBill(b)
           t == IssueValue(r, q)
           row == Used(moves[r], "RETURN_TO_VENDOR", q, t, r)
           e == [Nothing EXCEPT !.moves = <<row>>, !.returns = GiveBack(b, q),
                                !.journals = Posting(<<"NOTE", b>>, t, -t, 0)]
<1>1. /\ e.stock = <<>> /\ e.moves = <<row>> /\ e.bills = <<>>
      /\ e.returns = GiveBack(b, q) /\ e.unposted = 0 /\ e.roundings = 0
      /\ e.journals = Posting(<<"NOTE", b>>, t, -t, 0)
  BY DEF Nothing
<1>2. Apply(e) /\ Enough(r, q) /\ Returnable(b, q) /\ AtProject(b)
  BY DEF ReturnToVendor
<1>3. r \in ReceiptsIn(moves)
  <2>1. bills[b].goods /\ bills[b].project # NoProject
    BY <1>2 DEF Returnable, Physical, AtProject
  <2>2. \E i \in DOMAIN moves : IssueOf(moves, i, b)
    BY <2>1 DEF NowGood, Good, Issued
  <2>3. r \in DOMAIN moves /\ moves[r].kind = "INVENTORY_ISSUE_TO_PROJECT"
    BY <2>2 DEF IssueOfBill, IssueOf
  <2> QED BY <2>3 DEF ReceiptsIn, Receipt
<1>4. q \in Nat \ {0} /\ b \in Nat
  BY Named_, TableRows DEF NowGood, Good
<1> HIDE DEF r
<1>5. r \in Nat /\ moves[r] \in Move /\ moves[r].of = 0
  BY <1>3, ReceiptIs
<1>6. t \in Nat /\ -t \in Int
  BY <1>2, <1>3, <1>4, Issuing
<1>7. row.total = t
  BY DEF Used
<1> HIDE DEF t
<1>8. /\ row \in Move /\ row.kind = "RETURN_TO_VENDOR" /\ row.quantity = q
      /\ row.source = r /\ row.of = 0 /\ row.project = moves[r].project
  <2>1. "RETURN_TO_VENDOR" \in Kind
    BY DEF Kind
  <2>2. row = Used(moves[r], "RETURN_TO_VENDOR", q, t, r)
    OBVIOUS
  <2> HIDE DEF row, e
  <2>3. /\ row \in Move /\ row.kind = "RETURN_TO_VENDOR" /\ row.quantity = q
        /\ row.source = r /\ row.of = moves[r].of
        /\ row.project = moves[r].project
    BY ONLY <1>4, <1>5, <1>6, <2>1, <2>2, UsedIs
  <2> QED BY <1>5, <2>3
<1> HIDE DEF row, e
<1>9. MovesDo(e, -q, -t, q) /\ Extends(moves, moves \o e.moves)
  <2>1. row.kind \in Deduction \ {"TRANSFER_OUT"}
    BY <1>8 DEF Deduction
  <2>2. row.total = IssueValue(r, q)
    BY <1>7 DEF t
  <2>3. MovesDo(e, -q, -IssueValue(r, q),
                IF row.kind = "RETURN_TO_INVENTORY" THEN 0 ELSE q)
    BY <1>1, <1>2, <1>3, <1>4, <1>8, <2>1, <2>2, MovesTaken
  <2> QED BY <1>8, <2>3 DEF MovesDo, t
<1>10. StockDoes(e, 0, 0)
  BY <1>1, StockNone
<1>11. BillsDo(e, 0)
  <2>1. MayReturn(bills, e.returns)
    <3>1. MayReturn(bills, GiveBack(b, q))
      BY <1>2, <1>4, ReturnableIs
    <3> QED BY <1>1, <3>1
  <2> QED BY <1>1, <1>9, <2>1, BillsReturned
<1>12. JournalsDo(e, -t, 0)
  <2> DEFINE wip == -t
             inventory == 0
  <2>1. /\ e.journals = Posting(<<"NOTE", b>>, t, wip, inventory)
        /\ t = 0 => wip = 0 /\ inventory = 0
        /\ wip \in Int /\ inventory \in Int /\ t \in Int
    BY <1>1, <1>6
  <2> HIDE DEF wip, inventory
  <2>2. JournalsDo(e, wip, inventory)
    BY <1>4, <1>9, <2>1, DocumentPosted
  <2> QED BY <2>2 DEF wip, inventory
<1>13. Balances(e, 0, 0, -q, -t, q, 0, -t, 0)
  BY <1>1, <1>4, <1>6 DEF Balances
<1>14. ThenGood(e)
  BY <1>9, <1>10, <1>11, <1>12, <1>13, EffectGood
<1> QED BY <1>2, <1>14 DEF GoodStep

-----------------------------------------------------------------------------
(* Projects.                                                               *)

\* No bill, and nothing given back.
LEMMA BillsNone ==
    ASSUME NowGood, NEW e, e.bills = <<>>, e.returns = <<>>,
           Extends(moves, moves \o e.moves)
    PROVE  BillsDo(e, 0)
<1>1. MayReturn(bills, e.returns)
  BY NoReturns
<1> QED BY <1>1, BillsReturned

\* An effect of one row, with what it is worth posted for it.
LEMMA OneMovePosted ==
    ASSUME NowGood, NEW e, NEW row \in Move, e.moves = <<row>>,
           Extends(moves, moves \o e.moves),
           NEW amount \in Int, NEW wip \in Int, NEW inventory \in Int,
           amount = 0 => wip = 0 /\ inventory = 0,
           Worth(row, wip, inventory),
           e.journals = Posting(NextMove, amount, wip, inventory)
    PROVE  JournalsDo(e, wip, inventory)
<1>1. moves \o e.moves = Append(moves, row)
  BY Concatenated DEF NowGood, Good
<1> QED BY <1>1, MovePosted

\* Goods in stock are issued to a project.
LEMMA IssueGood ==
    ASSUME NowGood, NEW w \in Warehouse, NEW l \in AnyLot, NEW p \in Project,
           NEW q \in Quantity, IssueInventoryToProject(w, l, p, q)
    PROVE  GoodStep
<1> DEFINE t == StockCost(w, l, q)
           a == Transfer(w, l, -q, -t)
           row == [kind |-> "INVENTORY_ISSUE_TO_PROJECT", project |-> p,
                   warehouse |-> w, lot |-> l, quantity |-> q, total |-> t,
                   source |-> 0, of |-> 0, bill |-> 0]
           e == [Nothing EXCEPT !.stock = <<a>>, !.moves = <<row>>,
                    !.journals = Posting(NextMove, t, t, -t)]
<1>1. /\ e.stock = <<a>> /\ e.moves = <<row>> /\ e.bills = <<>>
      /\ e.returns = <<>> /\ e.unposted = 0 /\ e.roundings = 0
      /\ e.journals = Posting(NextMove, t, t, -t)
  BY DEF Nothing
<1>2. Apply(e) /\ t >= 0 /\ q <= QuantityOf(w, l)
  BY DEF IssueInventoryToProject, InStock
<1>3. q \in Nat \ {0} /\ q \in Int /\ -q \in Int
  BY Named_
<1>4. t \in Int /\ t \in Nat /\ -t \in Int
  BY <1>2, <1>3, ShelfNow
<1> HIDE DEF t
<1>5. /\ a \in StockRow /\ a.warehouse = w /\ a.lot = l
      /\ a.entered = 0 /\ a.moved = -q /\ a.value = -t
  BY <1>3, <1>4, RowIs
<1>6. /\ row \in Move /\ row.kind = "INVENTORY_ISSUE_TO_PROJECT"
      /\ row.of = 0 /\ row.source = 0 /\ row.quantity = q /\ row.total = t
  BY <1>3, <1>4 DEF Move, Kind
<1> HIDE DEF row, a, e
<1>7. /\ OnShelf(stock, w, l) \in Int
      /\ l \in Lot => QuantityOf(w, l) = OnShelf(stock, w, l)
  BY ShelfNow
<1>8. a.lot \in Lot => OnShelf(stock, a.warehouse, a.lot)
                          + a.entered + a.moved >= 0
  BY <1>2, <1>3, <1>5, <1>7
<1>9. StockDoes(e, -q, -t)
  BY <1>1, <1>5, <1>8, StockOne
<1>10. MovesDo(e, q, t, 0) /\ Extends(moves, moves \o e.moves)
  <2>1. MovesDo(e, row.quantity, row.total, 0)
    BY <1>1, <1>6, MovesIssued
  <2> QED BY <1>6, <2>1 DEF MovesDo
<1>11. BillsDo(e, 0)
  BY <1>1, <1>10, BillsNone
<1>12. JournalsDo(e, t, -t)
  <2> DEFINE inventory == -t
  <2>1. /\ e.journals = Posting(NextMove, t, t, inventory)
        /\ t = 0 => t = 0 /\ inventory = 0
        /\ inventory \in Int
    BY <1>1, <1>4
  <2>2. Worth(row, t, inventory)
    BY <1>6 DEF Worth
  <2> HIDE DEF inventory
  <2>3. JournalsDo(e, t, inventory)
    BY <1>1, <1>4, <1>6, <1>10, <2>1, <2>2, OneMovePosted
  <2> QED BY <2>3 DEF inventory
<1>13. Balances(e, -q, -t, q, t, 0, 0, t, -t)
  BY <1>1, <1>3, <1>4 DEF Balances
<1>14. ThenGood(e)
  BY <1>9, <1>10, <1>11, <1>12, <1>13, EffectGood
<1> QED BY <1>2, <1>14 DEF GoodStep

\* Material of a project is used there.
LEMMA ConsumeGood ==
    ASSUME NowGood, NEW r \in ReceiptsIn(moves), NEW q \in Quantity,
           ConsumeProjectMaterial(r, q)
    PROVE  GoodStep
<1> DEFINE t == IssueValue(r, q)
           row == Used(moves[r], "CONSUMPTION", q, t, r)
           e == [Nothing EXCEPT !.moves = <<row>>,
                                !.journals = Posting(NextMove, t, -t, 0)]
<1>1. /\ e.stock = <<>> /\ e.moves = <<row>> /\ e.bills = <<>>
      /\ e.returns = <<>> /\ e.unposted = 0 /\ e.roundings = 0
      /\ e.journals = Posting(NextMove, t, -t, 0)
  BY DEF Nothing
<1>2. Apply(e) /\ Enough(r, q)
  BY DEF ConsumeProjectMaterial
<1>3. q \in Nat \ {0}
  BY Named_
<1>4. r \in Nat /\ moves[r] \in Move /\ moves[r].of = 0
  BY ReceiptIs
<1>5. t \in Nat /\ -t \in Int
  BY <1>2, <1>3, Issuing
<1>6. row.total = t
  BY DEF Used
<1> HIDE DEF t
<1>7. /\ row \in Move /\ row.kind = "CONSUMPTION" /\ row.quantity = q
      /\ row.source = r /\ row.of = 0 /\ row.project = moves[r].project
  <2>1. "CONSUMPTION" \in Kind
    BY DEF Kind
  <2> QED BY <1>3, <1>4, <1>5, <2>1, UsedIs
<1> HIDE DEF row, e
<1>8. MovesDo(e, -q, -t, q) /\ Extends(moves, moves \o e.moves)
  <2>1. row.kind \in Deduction \ {"TRANSFER_OUT"}
    BY <1>7 DEF Deduction
  <2>2. row.total = IssueValue(r, q)
    BY <1>6 DEF t
  <2>3. MovesDo(e, -q, -IssueValue(r, q),
                IF row.kind = "RETURN_TO_INVENTORY" THEN 0 ELSE q)
    BY <1>1, <1>2, <1>3, <1>7, <2>1, <2>2, MovesTaken
  <2> QED BY <1>7, <2>3 DEF MovesDo, t
<1>9. StockDoes(e, 0, 0)
  BY <1>1, StockNone
<1>10. BillsDo(e, 0)
  BY <1>1, <1>8, BillsNone
<1>11. JournalsDo(e, -t, 0)
  <2> DEFINE wip == -t
             inventory == 0
  <2>1. /\ e.journals = Posting(NextMove, t, wip, inventory)
        /\ t = 0 => wip = 0 /\ inventory = 0
        /\ wip \in Int /\ inventory \in Int /\ t \in Int
    BY <1>1, <1>5
  <2>2. Worth(row, wip, inventory)
    BY <1>6, <1>7 DEF Worth
  <2> HIDE DEF wip, inventory
  <2>3. JournalsDo(e, wip, inventory)
    BY <1>1, <1>7, <1>8, <2>1, <2>2, OneMovePosted
  <2> QED BY <2>3 DEF wip, inventory
<1>12. Balances(e, 0, 0, -q, -t, q, 0, -t, 0)
  BY <1>1, <1>3, <1>5 DEF Balances
<1>13. ThenGood(e)
  BY <1>8, <1>9, <1>10, <1>11, <1>12, EffectGood
<1> QED BY <1>2, <1>13 DEF GoodStep

\* Material of a project goes back to stock.
LEMMA ReturnGood ==
    ASSUME NowGood, NEW r \in ReceiptsIn(moves), NEW w \in Warehouse,
           NEW q \in Quantity, ReturnProjectMaterial(r, w, q)
    PROVE  GoodStep
<1> DEFINE t == IssueValue(r, q)
           l == moves[r].lot
           a == Transfer(w, l, q, t)
           used == Used(moves[r], "RETURN_TO_INVENTORY", q, t, r)
           row == [used EXCEPT !.warehouse = w]
           e == [Nothing EXCEPT !.stock = <<a>>, !.moves = <<row>>,
                                !.journals = Posting(NextMove, t, -t, t)]
<1>1. /\ e.stock = <<a>> /\ e.moves = <<row>> /\ e.bills = <<>>
      /\ e.returns = <<>> /\ e.unposted = 0 /\ e.roundings = 0
      /\ e.journals = Posting(NextMove, t, -t, t)
  BY DEF Nothing
<1>2. Apply(e) /\ Enough(r, q)
  BY DEF ReturnProjectMaterial
<1>3. q \in Nat \ {0} /\ q \in Int /\ q > 0
  BY Named_
<1>4. r \in Nat /\ moves[r] \in Move /\ moves[r].of = 0
  BY ReceiptIs
<1>5. t \in Nat /\ t \in Int /\ -t \in Int
  BY <1>2, <1>3, Issuing
<1>6. used.total = t
  BY DEF Used
<1>7. l \in AnyLot
  BY <1>4, MoveFields
<1> HIDE DEF t
<1>8. /\ used \in Move /\ used.kind = "RETURN_TO_INVENTORY"
      /\ used.quantity = q
      /\ used.source = r /\ used.of = 0 /\ used.project = moves[r].project
  <2>1. "RETURN_TO_INVENTORY" \in Kind
    BY DEF Kind
  <2> QED BY <1>3, <1>4, <1>5, <2>1, UsedIs
<1> HIDE DEF used, l
<1>9. /\ row \in Move /\ row.kind = "RETURN_TO_INVENTORY"
      /\ row.quantity = q /\ row.total = t
      /\ row.source = r /\ row.of = 0 /\ row.project = moves[r].project
  BY <1>6, <1>8 DEF Move
<1>10. /\ a \in StockRow /\ a.warehouse = w /\ a.lot = l
       /\ a.entered = 0 /\ a.moved = q /\ a.value = t
  BY <1>3, <1>5, <1>7, RowIs
<1> HIDE DEF row, a, e
<1>11. MovesDo(e, -q, -t, 0) /\ Extends(moves, moves \o e.moves)
  <2>1. row.kind \in Deduction \ {"TRANSFER_OUT"}
    BY <1>9 DEF Deduction
  <2>2. row.total = IssueValue(r, q)
    BY <1>9 DEF t
  <2>3. MovesDo(e, -q, -IssueValue(r, q),
                IF row.kind = "RETURN_TO_INVENTORY" THEN 0 ELSE q)
    BY <1>1, <1>2, <1>3, <1>9, <2>1, <2>2, MovesTaken
  <2> QED BY <1>9, <2>3 DEF MovesDo, t
<1>12. /\ OnShelf(stock, w, l) \in Int
       /\ l \in Lot => OnShelf(stock, w, l) >= 0
  BY <1>7, ShelfNow
<1>13. a.lot \in Lot => OnShelf(stock, a.warehouse, a.lot)
                           + a.entered + a.moved >= 0
  BY <1>3, <1>10, <1>12
<1>14. StockDoes(e, q, t)
  BY <1>1, <1>10, <1>13, StockOne
<1>15. BillsDo(e, 0)
  BY <1>1, <1>11, BillsNone
<1>16. JournalsDo(e, -t, t)
  <2> DEFINE wip == -t
  <2>1. /\ e.journals = Posting(NextMove, t, wip, t)
        /\ t = 0 => wip = 0 /\ t = 0
        /\ wip \in Int
    BY <1>1, <1>5
  <2>2. Worth(row, wip, t)
    BY <1>9 DEF Worth
  <2> HIDE DEF wip
  <2>3. JournalsDo(e, wip, t)
    BY <1>1, <1>5, <1>9, <1>11, <2>1, <2>2, OneMovePosted
  <2> QED BY <2>3 DEF wip
<1>17. Balances(e, q, t, -q, -t, 0, 0, -t, t)
  BY <1>1, <1>3, <1>5 DEF Balances
<1>18. ThenGood(e)
  BY <1>11, <1>14, <1>15, <1>16, <1>17, EffectGood
<1> QED BY <1>2, <1>18 DEF GoodStep

\* A journal is reversed by hand.
LEMMA ByHandGood ==
    ASSUME NowGood, NEW k \in DOMAIN journals, ReverseByHand(k)
    PROVE  GoodStep
<1> DEFINE e == [Nothing EXCEPT !.cancels = k,
                                !.journals = <<Opposite(k, TRUE)>>]
<1>1. /\ e.stock = <<>> /\ e.moves = <<>> /\ e.bills = <<>>
      /\ e.returns = <<>> /\ e.unposted = 0 /\ e.roundings = 0
      /\ e.journals = <<Opposite(k, TRUE)>>
  BY DEF Nothing
<1>2. Apply(e)
  BY DEF ReverseByHand
<1> HIDE DEF e
<1>3. StockDoes(e, 0, 0)
  BY <1>1, StockNone
<1>4. MovesDo(e, 0, 0, 0) /\ Extends(moves, moves \o e.moves)
  BY <1>1, MovesNone DEF MovesDo
<1>5. BillsDo(e, 0)
  BY <1>1, <1>4, BillsNone
<1>6. JournalsDo(e, 0, 0)
  <2>1. JournalsDo(e, IF TRUE THEN 0 ELSE -journals[k].wip,
                      IF TRUE THEN 0 ELSE -journals[k].inventory)
    BY <1>1, <1>4, JournalsOpposite
  <2> QED BY <2>1
<1>7. Balances(e, 0, 0, 0, 0, 0, 0, 0, 0)
  BY <1>1 DEF Balances
<1>8. ThenGood(e)
  BY <1>3, <1>4, <1>5, <1>6, <1>7, EffectGood
<1> QED BY <1>2, <1>8 DEF GoodStep
\* One thing after another.
LEMMA OnwardTwice ==
    ASSUME NEW mv \in Seq(Move), NEW mv2, NEW mv3,
           NEW q1 \in Int, NEW t1 \in Int, NEW s1 \in Int,
           NEW q2 \in Int, NEW t2 \in Int, NEW s2 \in Int,
           Onward(mv, mv2, q1, t1, s1), Onward(mv2, mv3, q2, t2, s2),
           q1 + q2 = 0, t1 + t2 = 0, s1 + s2 = 0
    PROVE  Onward(mv, mv3, 0, 0, 0)
<1> DEFINE a == LeftAtAll(mv, "quantity")
           b == LeftAtAll(mv, "total")
           c == SpentAtAll(mv)
<1>1. a \in Int /\ b \in Int /\ c \in Int
  BY AtAllInteger, Parts
<1>2. /\ LeftAtAll(mv2, "quantity") = a + q1
      /\ LeftAtAll(mv2, "total") = b + t1 /\ SpentAtAll(mv2) = c + s1
  BY DEF Onward
<1>3. /\ mv3 \in Seq(Move) /\ Sourced(mv3) /\ Covered(mv3)
      /\ LeftAtAll(mv3, "quantity") = LeftAtAll(mv2, "quantity") + q2
      /\ LeftAtAll(mv3, "total") = LeftAtAll(mv2, "total") + t2
      /\ SpentAtAll(mv3) = SpentAtAll(mv2) + s2
  BY DEF Onward
<1> HIDE DEF a, b, c
<1>4. LeftAtAll(mv3, "quantity") = a + 0
  BY <1>1, <1>2, <1>3
<1>5. LeftAtAll(mv3, "total") = b + 0
  BY <1>1, <1>2, <1>3
<1>6. SpentAtAll(mv3) = c + 0
  BY <1>1, <1>2, <1>3
<1> QED BY <1>3, <1>4, <1>5, <1>6 DEF Onward, a, b, c

\* Material of a project goes to another project.
LEMMA TransferGood ==
    ASSUME NowGood, NEW r \in ReceiptsIn(moves), NEW p \in Project,
           NEW q \in Quantity, TransferProjectMaterial(r, p, q)
    PROVE  GoodStep
<1> DEFINE t == IssueValue(r, q)
           w == moves[r].warehouse
           l == moves[r].lot
           s1 == Transfer(w, l, q, t)
           s2 == Transfer(w, l, -q, -t)
           a == Used(moves[r], "TRANSFER_OUT", q, t, r)
           used == Used(moves[r], "TRANSFER_IN", q, t, r)
           b == [used EXCEPT !.project = p]
           e == [Nothing EXCEPT !.stock = <<s1, s2>>, !.moves = <<a, b>>,
                                !.journals = Posting(NextMove, t, 0, 0)]
<1>1. /\ e.stock = <<s1, s2>> /\ e.moves = <<a, b>> /\ e.bills = <<>>
      /\ e.returns = <<>> /\ e.unposted = 0 /\ e.roundings = 0
      /\ e.journals = Posting(NextMove, t, 0, 0)
  BY DEF Nothing
<1>2. Apply(e) /\ Enough(r, q) /\ p # moves[r].project
  BY DEF TransferProjectMaterial
<1>3. q \in Nat \ {0} /\ q \in Int /\ q > 0 /\ -q \in Int
  BY Named_
<1>4. r \in Nat /\ moves[r] \in Move /\ moves[r].of = 0 /\ r \in DOMAIN moves
  BY ReceiptIs
<1>5. /\ q <= Left(moves, r, "quantity") /\ t \in Nat
      /\ t <= Left(moves, r, "total")
      /\ q = Left(moves, r, "quantity") => t = Left(moves, r, "total")
  BY <1>2, <1>3, Issuing
<1>6. t \in Int /\ -t \in Int
  BY <1>5
<1>7. w \in Warehouse /\ l \in AnyLot
  BY <1>4, MoveFields
<1>t. a.total = t /\ used.total = t
  BY DEF Used
<1> HIDE DEF t, w, l
<1>8. "TRANSFER_OUT" \in Kind /\ "TRANSFER_IN" \in Kind
  BY DEF Kind
<1>9. /\ a \in Move /\ a.kind = "TRANSFER_OUT" /\ a.quantity = q /\ a.total = t
      /\ a.source = r /\ a.of = 0 /\ a.project = moves[r].project
  <2>1. /\ a \in Move /\ a.kind = "TRANSFER_OUT" /\ a.quantity = q
        /\ a.source = r /\ a.of = moves[r].of /\ a.project = moves[r].project
    BY <1>3, <1>4, <1>5, <1>8, UsedIs
  <2> QED BY <1>4, <1>t, <2>1
<1>10. /\ used \in Move /\ used.kind = "TRANSFER_IN" /\ used.quantity = q
       /\ used.total = t /\ used.source = r /\ used.of = 0
  <2>1. /\ used \in Move /\ used.kind = "TRANSFER_IN" /\ used.quantity = q
        /\ used.source = r /\ used.of = moves[r].of
    BY <1>3, <1>4, <1>5, <1>8, UsedIs
  <2> QED BY <1>4, <1>t, <2>1
<1> HIDE DEF a, used
<1>11. /\ b \in Move /\ b.kind = "TRANSFER_IN" /\ b.quantity = q
       /\ b.total = t /\ b.source = r /\ b.of = 0 /\ b.project = p
  BY <1>10 DEF Move
<1>12. /\ s1 \in StockRow /\ s1.warehouse = w /\ s1.lot = l
       /\ s1.entered = 0 /\ s1.moved = q /\ s1.value = t
       /\ s2 \in StockRow /\ s2.warehouse = w /\ s2.lot = l
       /\ s2.entered = 0 /\ s2.moved = -q /\ s2.value = -t
  BY <1>3, <1>6, <1>7, RowIs
<1> HIDE DEF b, s1, s2, e
<1> DEFINE mv2 == Append(moves, a)
           mv3 == Append(mv2, b)
<1>13. /\ moves \in Seq(Move) /\ Sourced(moves) /\ Covered(moves)
       /\ Paired(moves)
  BY DEF NowGood, Good
<1>14. moves \o e.moves = mv3
  BY <1>1, <1>9, <1>11, <1>13, Concatenated
<1>15. Onward(moves, mv2, -q, -t, 0)
  <2>1. a.kind \in Deduction /\ RowSourced(moves, a)
    BY <1>9 DEF Deduction, RowSourced
  <2>2. Onward(moves, Append(moves, a), -a.quantity, -a.total,
               IF a.kind \in {"CONSUMPTION", "RETURN_TO_VENDOR"}
               THEN a.quantity ELSE 0)
    BY <1>5, <1>9, <1>13, <2>1, Deducted
  <2> QED BY <1>9, <2>2
<1>16. Onward(mv2, mv3, q, t, 0)
  <2>1. /\ DOMAIN moves \subseteq DOMAIN mv2 /\ mv2[r] = moves[r]
    BY <1>4, <1>13, RowAdded
  <2>2. mv2 \in Seq(Move) /\ Sourced(mv2) /\ Covered(mv2)
    BY <1>15 DEF Onward
  <2> HIDE DEF mv2
  <2>3. b.kind \in Receipt /\ RowSourced(mv2, b)
    BY <1>2, <1>4, <1>11, <2>1 DEF Receipt, RowSourced, Deduction
  <2>4. Onward(mv2, Append(mv2, b), b.quantity, b.total, 0)
    BY <1>11, <2>2, <2>3, Received
  <2> QED BY <1>11, <2>4
<1>17. Onward(moves, mv3, 0, 0, 0)
  <2>1. -q + q = 0 /\ -t + t = 0 /\ 0 + 0 = 0
    BY <1>3, <1>6
  <2> HIDE DEF mv2, mv3
  <2> QED BY <1>3, <1>6, <1>13, <1>15, <1>16, <2>1, OnwardTwice
<1>18. Paired(mv3) /\ Extends(moves, mv3)
  BY <1>9, <1>11, <1>13, PairedTwo
<1>19. MovesDo(e, 0, 0, 0) /\ Extends(moves, moves \o e.moves)
  BY <1>14, <1>17, <1>18 DEF MovesDo
<1>20. /\ OnShelf(stock, w, l) \in Int
       /\ l \in Lot => OnShelf(stock, w, l) >= 0
  BY <1>7, ShelfNow
<1>21. s1.lot \in Lot => OnShelf(stock, s1.warehouse, s1.lot)
                            + s1.entered + s1.moved >= 0
  BY <1>3, <1>12, <1>20
<1>22. s2.lot \in Lot =>
         OnShelf(stock, s2.warehouse, s2.lot)
           + (IF s2.warehouse = s1.warehouse /\ s2.lot = s1.lot
              THEN s1.entered + s1.moved ELSE 0)
           + s2.entered + s2.moved >= 0
  BY <1>3, <1>12, <1>20
<1>23. StockDoes(e, 0, 0)
  <2>1. StockDoes(e, s1.moved + s2.moved, s1.value + s2.value)
    BY <1>1, <1>12, <1>21, <1>22, StockTwo
  <2>2. s1.moved + s2.moved = 0 /\ s1.value + s2.value = 0
    BY <1>3, <1>6, <1>12
  <2> QED BY <2>1, <2>2
<1>24. BillsDo(e, 0)
  BY <1>1, <1>19, BillsNone
<1>25. JournalsDo(e, 0, 0)
  <2> DEFINE wip == 0
             inventory == 0
  <2>1. /\ e.journals = Posting(NextMove, t, wip, inventory)
        /\ t = 0 => wip = 0 /\ inventory = 0
        /\ wip \in Int /\ inventory \in Int
    BY <1>1
  <2>2. Worth(a, wip, inventory)
    BY <1>9 DEF Worth
  <2>3. \E x \in Move : moves \o e.moves = Append(Append(moves, a), x)
    BY <1>11, <1>14
  <2> HIDE DEF wip, inventory, mv3
  <2>4. JournalsDo(e, wip, inventory)
    BY <1>6, <1>9, <1>19, <2>1, <2>2, <2>3, MovePosted
  <2> QED BY <2>4 DEF wip, inventory
<1>26. Balances(e, 0, 0, 0, 0, 0, 0, 0, 0)
  BY <1>1 DEF Balances
<1>27. ThenGood(e)
  BY <1>19, <1>23, <1>24, <1>25, <1>26, EffectGood
<1> QED BY <1>2, <1>27 DEF GoodStep
-----------------------------------------------------------------------------
(* Reversal.                                                               *)

\* A row that reverses another.
LEMMA UndoneIs ==
    ASSUME NowGood, NEW i \in DOMAIN moves
    PROVE  /\ Undone(i) \in Move /\ Undone(i).kind = "REVERSAL"
           /\ Undone(i).of = i
           /\ moves[i] \in Move /\ i \in Nat
<1>1. moves[i] \in Move /\ i \in Nat
  BY TableRows DEF NowGood, Good
<1>2. Undone(i) = [moves[i] EXCEPT !.kind = "REVERSAL", !.of = i]
  BY DEF Undone
<1>3. "REVERSAL" \in Kind
  BY DEF Kind
<1> QED BY <1>1, <1>2, <1>3 DEF Move

\* What was used, or given back, is at the project again.
LEMMA DeductionUndone ==
    ASSUME NowGood, NEW i \in DOMAIN moves, ~Reversed(i), NEW e,
           e.moves = <<Undone(i)>>,
           moves[i].kind \in {"CONSUMPTION", "RETURN_TO_INVENTORY"}
    PROVE  MovesDo(e, moves[i].quantity, moves[i].total,
                   IF moves[i].kind = "CONSUMPTION" THEN -moves[i].quantity
                                                    ELSE 0)
<1> DEFINE row == Undone(i)
           q == moves[i].quantity
           t == moves[i].total
           spent == IF moves[i].kind = "CONSUMPTION" THEN -q ELSE 0
<1>1. /\ moves \in Seq(Move) /\ Sourced(moves) /\ Covered(moves)
  BY DEF NowGood, Good
<1>2. /\ row \in Move /\ row.kind = "REVERSAL" /\ row.of = i
      /\ moves[i] \in Move
  BY UndoneIs
<1>3. q \in Int /\ t \in Int
  BY <1>2, MoveFields
<1>4. moves[i].kind \in Deduction
  BY DEF Deduction
<1>5. ~ReversedIn(moves, i)
  BY DEF Reversed, ReversedIn
<1> HIDE DEF row
<1>6. Onward(moves, Append(moves, row), moves[row.of].quantity,
             moves[row.of].total,
             -(IF moves[row.of].kind \in {"CONSUMPTION", "RETURN_TO_VENDOR"}
               THEN moves[row.of].quantity ELSE 0))
  BY <1>1, <1>2, <1>4, <1>5, TakenBack
<1>7. -(IF moves[row.of].kind \in {"CONSUMPTION", "RETURN_TO_VENDOR"}
        THEN moves[row.of].quantity ELSE 0) = spent
  BY <1>2
<1>8. spent \in Int
  BY <1>3
<1> HIDE DEF spent, q, t
<1>9. Onward(moves, Append(moves, row), q, t, spent)
  BY <1>2, <1>6, <1>7 DEF q, t
<1>10. e.moves = <<row>> /\ row.kind # "TRANSFER_OUT"
  BY <1>2 DEF row
<1>11. MovesDo(e, q, t, spent)
  BY <1>2, <1>3, <1>8, <1>9, <1>10, MovesOne
<1> QED BY <1>11 DEF q, t, spent

\* What was issued in full is no longer at the project.
LEMMA IssueUndone ==
    ASSUME NowGood, NEW i \in DOMAIN moves, NEW e, e.moves = <<Undone(i)>>,
           moves[i].kind = "INVENTORY_ISSUE_TO_PROJECT",
           moves[i].quantity <= Available(i)
    PROVE  MovesDo(e, -moves[i].quantity, -moves[i].total, 0)
<1> DEFINE row == Undone(i)
           q == -moves[i].quantity
           t == -moves[i].total
<1>1. /\ moves \in Seq(Move) /\ Sourced(moves) /\ Covered(moves)
  BY DEF NowGood, Good
<1>2. /\ row \in Move /\ row.kind = "REVERSAL" /\ row.of = i
      /\ moves[i] \in Move
  BY UndoneIs
<1>3. q \in Int /\ t \in Int
  BY <1>2, MoveFields
<1>4. moves[i].kind \in Receipt
  BY DEF Receipt
<1>5. moves[i].quantity <= Left(moves, i, "quantity")
  BY AvailableIs
<1> HIDE DEF row, q, t
<1>6. Onward(moves, Append(moves, row), -moves[row.of].quantity,
             -moves[row.of].total, 0)
  BY <1>1, <1>2, <1>4, <1>5, GivenBack
<1>7. Onward(moves, Append(moves, row), q, t, 0)
  BY <1>2, <1>6 DEF q, t
<1>8. e.moves = <<row>> /\ row.kind # "TRANSFER_OUT"
  BY <1>2 DEF row
<1>9. MovesDo(e, q, t, 0)
  BY <1>2, <1>3, <1>7, <1>8, MovesOne
<1> QED BY <1>9 DEF q, t

\* The negative of nothing.
LEMMA MinusNothing ==
    ASSUME NEW x \in Int, x <= 0, x >= 0
    PROVE  -x = 0
OBVIOUS

\* A transfer of which everything is still there goes back.
LEMMA TransferUndone ==
    ASSUME NowGood, NEW i \in DOMAIN moves, ~Reversed(i), NEW e,
           e.moves = <<Undone(i), Undone(i + 1)>>,
           moves[i].kind = "TRANSFER_OUT",
           moves[i].quantity <= Available(i + 1)
    PROVE  /\ MovesDo(e, 0, 0, 0)
           /\ \E b \in Move :
                 moves \o e.moves = Append(Append(moves, Undone(i)), b)
<1> DEFINE j == i + 1
           a == Undone(i)
           b == Undone(j)
           q == moves[i].quantity
           t == moves[i].total
           mv2 == Append(moves, a)
           mv3 == Append(mv2, b)
<1>1. /\ moves \in Seq(Move) /\ Sourced(moves) /\ Covered(moves)
      /\ Paired(moves)
  BY DEF NowGood, Good
<1>2. /\ j \in DOMAIN moves /\ moves[j].kind = "TRANSFER_IN"
      /\ moves[j].quantity = q /\ moves[j].total = t
      /\ moves[j].source = moves[i].source
  BY <1>1 DEF Paired
<1>3. /\ a \in Move /\ a.kind = "REVERSAL" /\ a.of = i
      /\ moves[i] \in Move
  BY UndoneIs
<1>4. moves[i].quantity <= Left(moves, j, "quantity")
  BY AvailableIs
<1> HIDE DEF j
<1>5. b \in Move /\ b.kind = "REVERSAL" /\ b.of = j /\ moves[j] \in Move
  BY <1>2, UndoneIs
<1>6. q \in Int /\ t \in Int /\ -q \in Int /\ -t \in Int
      /\ q + -q = 0 /\ t + -t = 0
  BY <1>3, MoveFields
<1> HIDE DEF a, b, q, t
<1>7. moves \o e.moves = mv3 /\ e.moves = <<a, b>>
  <2>1. e.moves = <<a, b>>
    BY DEF a, b, j
  <2> QED BY <1>1, <1>3, <1>5, <2>1, Concatenated
<1>8. j \in ReceiptsIn(moves) /\ moves[j].kind \in Receipt
  BY <1>2 DEF ReceiptsIn, Receipt
<1>9. j # moves[i].source
  <2>1. RowSourced(moves, moves[i]) /\ RowSourced(moves, moves[j])
    BY <1>1, <1>2 DEF Sourced
  <2>2. moves[moves[j].source].project # moves[j].project
    BY <1>2, <2>1 DEF RowSourced
  <2> QED BY <1>2, <2>2
<1>10. /\ Onward(moves, mv2, q, t, 0)
       /\ \A f \in Part, x \in ReceiptsIn(moves) : x # moves[i].source =>
             Left(mv2, x, f) = Left(moves, x, f)
       /\ \A x \in DOMAIN moves : mv2[x] = moves[x]
  <2>1. moves[i].kind \in Deduction /\ ~ReversedIn(moves, i)
    BY DEF Deduction, Reversed, ReversedIn
  <2>2. /\ Onward(moves, Append(moves, a), moves[a.of].quantity,
                  moves[a.of].total,
                  -(IF moves[a.of].kind \in {"CONSUMPTION", "RETURN_TO_VENDOR"}
                    THEN moves[a.of].quantity ELSE 0))
        /\ \A f \in Part, x \in ReceiptsIn(moves) : x # moves[a.of].source =>
              Left(Append(moves, a), x, f) = Left(moves, x, f)
        /\ \A x \in DOMAIN moves : Append(moves, a)[x] = moves[x]
    BY <1>1, <1>3, <2>1, TakenBack
  <2>3. -(IF moves[a.of].kind \in {"CONSUMPTION", "RETURN_TO_VENDOR"}
          THEN moves[a.of].quantity ELSE 0) = 0
    <3> DEFINE z == IF moves[a.of].kind \in {"CONSUMPTION", "RETURN_TO_VENDOR"}
                    THEN moves[a.of].quantity ELSE 0
    <3>1. z = 0
      BY <1>3
    <3> HIDE DEF z
    <3>2. z \in Int /\ z <= 0 /\ z >= 0
      BY <3>1
    <3>4. -z = 0
      BY ONLY <3>2, MinusNothing
    <3> QED BY <3>4 DEF z
  <2> QED BY <1>3, <2>2, <2>3 DEF q, t
<1>11. DOMAIN moves \subseteq DOMAIN mv2 /\ mv2 \in Seq(Move)
  BY <1>1, <1>3, RowAdded
<1>12. Onward(mv2, mv3, -q, -t, 0)
  <2>1. /\ mv2[j] = moves[j] /\ j \in DOMAIN mv2
        /\ Left(mv2, j, "quantity") = Left(moves, j, "quantity")
    BY <1>2, <1>8, <1>9, <1>10, <1>11, Parts
  <2>2. mv2 \in Seq(Move) /\ Sourced(mv2) /\ Covered(mv2)
    BY <1>10 DEF Onward
  <2>3. mv2[j].quantity <= Left(mv2, j, "quantity")
    BY <1>2, <1>4, <2>1 DEF q
  <2> HIDE DEF mv2
  <2>4. Onward(mv2, Append(mv2, b), -mv2[b.of].quantity, -mv2[b.of].total, 0)
    BY <1>5, <1>8, <2>1, <2>2, <2>3, GivenBack
  <2> QED BY <1>2, <1>5, <2>1, <2>4
<1>13. Onward(moves, mv3, 0, 0, 0)
  <2> HIDE DEF mv2, mv3
  <2>1. 0 + 0 = 0 /\ 0 \in Int
    OBVIOUS
  <2> QED BY <1>1, <1>6, <1>10, <1>12, <2>1, OnwardTwice
<1>14. Paired(mv3) /\ Extends(moves, mv3)
  <2>1. Paired(mv2) /\ Extends(moves, mv2)
    BY <1>1, <1>3, PairedAfter
  <2>2. mv2 \in Seq(Move)
    BY <1>11
  <2> HIDE DEF mv2
  <2>3. Paired(mv3) /\ Extends(mv2, mv3)
    BY <1>5, <2>1, <2>2, PairedAfter
  <2> HIDE DEF mv3
  <2>4. Extends(moves, mv3)
    BY <2>1, <2>3 DEF Extends
  <2> QED BY <2>3, <2>4
<1> HIDE DEF mv2, mv3
<1>15. MovesDo(e, 0, 0, 0)
  <2>1. moves \o e.moves = mv3 /\ 0 \in Int
    BY <1>7
  <2> QED BY ONLY <2>1, <1>13, <1>14 DEF MovesDo
<1> QED BY <1>5, <1>7, <1>15 DEF a, mv2, mv3

\* The journal of a reversal.
LEMMA JournalsUndone ==
    ASSUME NowGood, NEW i \in DOMAIN moves, NEW e,
           Extends(moves, moves \o e.moves),
           moves \o e.moves = Append(moves, Undone(i)) \/
              \E b \in Move :
                 moves \o e.moves = Append(Append(moves, Undone(i)), b),
           NEW wip \in Int, NEW inventory \in Int,
           \A x \in Int, y \in Int :
              Worth(moves[i], x, y) => wip = -x /\ inventory = -y,
           \/ \E k \in JournalOf(i) : e.journals = <<Opposite(k, FALSE)>>
           \/ /\ wip = -moves[i].total /\ inventory = moves[i].total
              /\ e.journals = Posting(NextMove, moves[i].total,
                                      -moves[i].total, moves[i].total)
    PROVE  JournalsDo(e, wip, inventory)
<1>1. /\ Undone(i) \in Move /\ Undone(i).kind = "REVERSAL"
      /\ moves[i] \in Move /\ i \in Nat
  BY UndoneIs
<1>2. ASSUME NEW k \in JournalOf(i), e.journals = <<Opposite(k, FALSE)>>
      PROVE  JournalsDo(e, wip, inventory)
  <2>1. k \in DOMAIN journals /\ journals[k].source = <<"MOVE", i>>
    BY DEF JournalOf
  <2>2. Worth(moves[i], journals[k].wip, journals[k].inventory)
    BY <1>1, <2>1 DEF NowGood, Good, Told
  <2>3. journals[k].wip \in Int /\ journals[k].inventory \in Int
    BY <2>1, TableRows, JournalFields DEF NowGood, Good
  <2>4. wip = -journals[k].wip /\ inventory = -journals[k].inventory
    BY <2>2, <2>3
  <2>5. JournalsDo(e, IF FALSE THEN 0 ELSE -journals[k].wip,
                      IF FALSE THEN 0 ELSE -journals[k].inventory)
    BY <1>2, <2>1, JournalsOpposite
  <2> QED BY <2>4, <2>5
<1>3. CASE /\ wip = -moves[i].total /\ inventory = moves[i].total
           /\ e.journals = Posting(NextMove, moves[i].total,
                                   -moves[i].total, moves[i].total)
  <2> DEFINE t == moves[i].total
             row == Undone(i)
  <2>1. t \in Int /\ (t = 0 => wip = 0 /\ inventory = 0)
    BY <1>1, <1>3, MoveFields
  <2>2. e.journals = Posting(NextMove, t, wip, inventory)
    BY <1>3
  <2>3. Worth(row, wip, inventory)
    BY <1>1 DEF Worth
  <2>4. moves \o e.moves = Append(moves, row) \/
           \E b \in Move : moves \o e.moves = Append(Append(moves, row), b)
    OBVIOUS
  <2> HIDE DEF t
  <2> QED BY <1>1, <2>1, <2>2, <2>3, <2>4, MovePosted
<1> QED BY <1>2, <1>3
\* What the tables gain by a reversal agrees.
LEMMA ReversalBalances ==
    ASSUME NEW e, e.unposted = 0, e.roundings = 0, NEW q \in Int, NEW t \in Int
    PROVE  /\ Balances(e, 0, 0, q, t, -q, 0, t, 0)
           /\ Balances(e, q, t, -q, -t, 0, 0, -t, t)
           /\ Balances(e, -q, -t, q, t, 0, 0, t, -t)
<1>1. 0 + q + -q = 0 /\ q + -q + 0 = 0 /\ -q + q + 0 = 0
  OBVIOUS
<1>2. t = 0 + t /\ -t = 0 + -t /\ t + 0 = t /\ -t + 0 = -t /\ 0 + 0 = 0
  OBVIOUS
<1> QED BY <1>1, <1>2 DEF Balances

\* A movement is reversed.
LEMMA ReverseGood ==
    ASSUME NowGood, NEW i \in DOMAIN moves, ReverseProjectMaterial(i)
    PROVE  GoodStep
<1> DEFINE m == moves[i]
           q == m.quantity
           t == m.total
           Cancelled(e) == \E k \in JournalOf(i) :
                              e.journals = <<Opposite(k, FALSE)>>
           PostedAnew(e) == /\ t = 0 \/ m.kind = "INVENTORY_ISSUE_TO_PROJECT"
                            /\ e.journals = Posting(NextMove, t, -t, t)
<1>1. Reversible(i)
  BY DEF ReverseProjectMaterial
<1>2. \E e : /\ Apply(e)
             /\ e.moves = UndoneMoves(i) /\ e.stock = Back(i)
             /\ e.bills = <<>> /\ e.returns = <<>> /\ e.unposted = 0 /\ e.roundings = 0
             /\ Cancelled(e) \/ PostedAnew(e)
  <2> DEFINE undone == [Nothing EXCEPT !.moves = UndoneMoves(i),
                                       !.stock = Back(i)]
  <2>1. CASE \E k \in JournalOf(i) :
                Apply([undone EXCEPT !.cancels = k,
                                     !.journals = <<Opposite(k, FALSE)>>])
    <3>1. PICK k \in JournalOf(i) :
                Apply([undone EXCEPT !.cancels = k,
                                     !.journals = <<Opposite(k, FALSE)>>])
      BY <2>1
    <3> DEFINE e == [undone EXCEPT !.cancels = k,
                                   !.journals = <<Opposite(k, FALSE)>>]
    <3>2. /\ e.moves = UndoneMoves(i) /\ e.stock = Back(i)
          /\ e.bills = <<>> /\ e.returns = <<>> /\ e.unposted = 0 /\ e.roundings = 0
          /\ e.journals = <<Opposite(k, FALSE)>>
      BY DEF Nothing
    <3>3. Apply(e)
      BY <3>1
    <3> HIDE DEF e
    <3> QED BY <3>2, <3>3
  <2>2. CASE /\ \/ m.total = 0
                \/ m.bill # 0 /\ m.kind = "INVENTORY_ISSUE_TO_PROJECT"
             /\ Apply([undone EXCEPT !.journals =
                          Posting(NextMove, m.total, -m.total, m.total)])
    <3> DEFINE e == [undone EXCEPT !.journals =
                        Posting(NextMove, m.total, -m.total, m.total)]
    <3>1. /\ e.moves = UndoneMoves(i) /\ e.stock = Back(i)
          /\ e.bills = <<>> /\ e.returns = <<>> /\ e.unposted = 0 /\ e.roundings = 0
          /\ e.journals = Posting(NextMove, t, -t, t)
      BY DEF Nothing
    <3>2. Apply(e) /\ (t = 0 \/ m.kind = "INVENTORY_ISSUE_TO_PROJECT")
      BY <2>2
    <3> HIDE DEF e
    <3> QED BY <3>1, <3>2
  <2> QED BY <2>1, <2>2 DEF ReverseProjectMaterial
<1>3. PICK e : /\ Apply(e)
               /\ e.moves = UndoneMoves(i) /\ e.stock = Back(i)
               /\ e.bills = <<>> /\ e.returns = <<>> /\ e.unposted = 0 /\ e.roundings = 0
               /\ Cancelled(e) \/ PostedAnew(e)
  BY <1>2
<1>4. /\ Undone(i) \in Move /\ m \in Move
      /\ moves \in Seq(Move)
  BY UndoneIs DEF NowGood, Good
<1>5. /\ q \in Int /\ q > 0 /\ t \in Int /\ -q \in Int /\ -t \in Int
      /\ t = 0 => -t = 0
      /\ \A x \in Int : x = 0 => -x = 0
  <2>1. q \in Int /\ q > 0 /\ t \in Int
    BY <1>4, MoveFields
  <2>2. \A x \in Int : x = 0 => x <= 0 /\ x >= 0
    OBVIOUS
  <2>3. \A x \in Int : x = 0 => -x = 0
    BY <2>2, MinusNothing
  <2> QED BY <2>1, <2>3
<1>6. m.warehouse \in Warehouse /\ m.lot \in AnyLot
  BY <1>4, MoveFields
<1>7. ~Reversed(i)
  BY <1>1 DEF Reversible
<1>8. SUFFICES ThenGood(e)
  BY <1>3 DEF GoodStep
\* the journals: what the movement was worth is taken back
<1>9. ASSUME NEW wip \in Int, NEW inventory \in Int,
             Extends(moves, moves \o e.moves),
             moves \o e.moves = Append(moves, Undone(i)) \/
                \E b \in Move :
                   moves \o e.moves = Append(Append(moves, Undone(i)), b),
             \A x \in Int, y \in Int :
                Worth(m, x, y) => wip = -x /\ inventory = -y,
             PostedAnew(e) => wip = -t /\ inventory = t
      PROVE  JournalsDo(e, wip, inventory)
  <2>1. \/ \E k \in JournalOf(i) : e.journals = <<Opposite(k, FALSE)>>
        \/ /\ wip = -moves[i].total /\ inventory = moves[i].total
           /\ e.journals = Posting(NextMove, moves[i].total,
                                   -moves[i].total, moves[i].total)
    BY <1>3, <1>9
  <2> QED BY <1>9, <2>1, JournalsUndone
\* one row, or two
<1>10. ASSUME m.kind # "TRANSFER_OUT"
       PROVE  /\ e.moves = <<Undone(i)>>
              /\ moves \o e.moves = Append(moves, Undone(i))
  <2>1. e.moves = <<Undone(i)>>
    BY <1>3, <1>10 DEF UndoneMoves
  <2> QED BY <1>4, <2>1, Concatenated
<1>11. CASE m.kind = "CONSUMPTION"
  <2>1. MovesDo(e, q, t, -q) /\ Extends(moves, moves \o e.moves)
    <3>1. MovesDo(e, q, t, IF m.kind = "CONSUMPTION" THEN -q ELSE 0)
      BY <1>7, <1>10, <1>11, DeductionUndone
    <3> QED BY <1>11, <3>1 DEF MovesDo
  <2>2. StockDoes(e, 0, 0)
    <3>1. e.stock = <<>>
      BY <1>3, <1>11 DEF Back
    <3> QED BY <3>1, StockNone
  <2>3. BillsDo(e, 0)
    BY <1>3, <2>1, BillsNone
  <2>4. JournalsDo(e, t, 0)
    <3>1. \A x \in Int, y \in Int : Worth(m, x, y) => t = -x /\ 0 = -y
      <4> SUFFICES ASSUME NEW x \in Int, NEW y \in Int, Worth(m, x, y)
                   PROVE  t = -x /\ 0 = -y
        OBVIOUS
      <4>1. x = -t /\ y = 0
        BY <1>11 DEF Worth
      <4>2. t = -x
        BY <1>5, <4>1
      <4> QED BY <1>5, <4>1, <4>2
    <3>2. PostedAnew(e) => t = -t /\ 0 = t
      BY <1>5, <1>11
    <3>3. 0 \in Int /\ t \in Int
      BY <1>5
    <3> QED BY <1>9, <1>10, <1>11, <2>1, <3>1, <3>2, <3>3
  <2>5. Balances(e, 0, 0, q, t, -q, 0, t, 0)
    BY <1>3, <1>5, ReversalBalances
  <2> QED BY <2>1, <2>2, <2>3, <2>4, <2>5, EffectGood
<1>12. CASE m.kind = "INVENTORY_ISSUE_TO_PROJECT"
  <2> DEFINE a == Transfer(m.warehouse, m.lot, q, t)
  <2>1. MovesDo(e, -q, -t, 0) /\ Extends(moves, moves \o e.moves)
    <3>1. m.quantity <= Available(i)
      BY <1>1, <1>12 DEF Reversible
    <3>2. MovesDo(e, -q, -t, 0)
      BY <1>10, <1>12, <3>1, IssueUndone
    <3> QED BY <3>2 DEF MovesDo
  <2>2. StockDoes(e, q, t)
    <3>1. e.stock = <<a>>
      BY <1>3, <1>12 DEF Back
    <3>2. /\ a \in StockRow /\ a.warehouse = m.warehouse /\ a.lot = m.lot
          /\ a.entered = 0 /\ a.moved = q /\ a.value = t
      BY <1>5, <1>6, RowIs
    <3>3. /\ OnShelf(stock, m.warehouse, m.lot) \in Int
          /\ m.lot \in Lot => OnShelf(stock, m.warehouse, m.lot) >= 0
      BY <1>6, ShelfNow
    <3> HIDE DEF a
    <3>4. a.lot \in Lot => OnShelf(stock, a.warehouse, a.lot)
                              + a.entered + a.moved >= 0
      BY <1>5, <3>2, <3>3
    <3>5. StockDoes(e, a.moved, a.value)
      BY <3>1, <3>2, <3>4, StockOne
    <3> QED BY <3>2, <3>5
  <2>3. BillsDo(e, 0)
    BY <1>3, <2>1, BillsNone
  <2>4. JournalsDo(e, -t, t)
    <3>1. \A x \in Int, y \in Int : Worth(m, x, y) => -t = -x /\ t = -y
      <4> SUFFICES ASSUME NEW x \in Int, NEW y \in Int, Worth(m, x, y)
                   PROVE  -t = -x /\ t = -y
        OBVIOUS
      <4>1. x = t /\ y = -t
        BY <1>12 DEF Worth
      <4> QED BY <1>5, <4>1
    <3>2. PostedAnew(e) => -t = -t /\ t = t
      OBVIOUS
    <3> QED BY <1>5, <1>9, <1>10, <1>12, <2>1, <3>1, <3>2
  <2>5. Balances(e, q, t, -q, -t, 0, 0, -t, t)
    BY <1>3, <1>5, ReversalBalances
  <2> QED BY <2>1, <2>2, <2>3, <2>4, <2>5, EffectGood
<1>13. CASE m.kind = "RETURN_TO_INVENTORY"
  <2> DEFINE a == Transfer(m.warehouse, m.lot, -q, -t)
  <2>1. MovesDo(e, q, t, 0) /\ Extends(moves, moves \o e.moves)
    <3>1. MovesDo(e, q, t, IF m.kind = "CONSUMPTION" THEN -q ELSE 0)
      BY <1>7, <1>10, <1>13, DeductionUndone
    <3> QED BY <1>13, <3>1 DEF MovesDo
  <2>2. StockDoes(e, -q, -t)
    <3>1. e.stock = <<a>>
      BY <1>3, <1>13 DEF Back
    <3>2. /\ a \in StockRow /\ a.warehouse = m.warehouse /\ a.lot = m.lot
          /\ a.entered = 0 /\ a.moved = -q /\ a.value = -t
      BY <1>5, <1>6, RowIs
    <3>3. /\ OnShelf(stock, m.warehouse, m.lot) \in Int
          /\ m.lot \in Lot => QuantityOf(m.warehouse, m.lot)
                                 = OnShelf(stock, m.warehouse, m.lot)
      BY <1>6, ShelfNow
    <3>4. q <= QuantityOf(m.warehouse, m.lot)
      BY <1>1, <1>13 DEF Reversible, InStock
    <3> HIDE DEF a
    <3>5. a.lot \in Lot => OnShelf(stock, a.warehouse, a.lot)
                              + a.entered + a.moved >= 0
      BY <1>5, <3>2, <3>3, <3>4
    <3>6. StockDoes(e, a.moved, a.value)
      BY <3>1, <3>2, <3>5, StockOne
    <3> QED BY <3>2, <3>6
  <2>3. BillsDo(e, 0)
    BY <1>3, <2>1, BillsNone
  <2>4. JournalsDo(e, t, -t)
    <3>1. \A x \in Int, y \in Int : Worth(m, x, y) => t = -x /\ -t = -y
      <4> SUFFICES ASSUME NEW x \in Int, NEW y \in Int, Worth(m, x, y)
                   PROVE  t = -x /\ -t = -y
        OBVIOUS
      <4>1. x = -t /\ y = t
        BY <1>13 DEF Worth
      <4> QED BY <1>5, <4>1
    <3>2. PostedAnew(e) => t = -t /\ -t = t
      BY <1>5, <1>13
    <3> QED BY <1>5, <1>9, <1>10, <1>13, <2>1, <3>1, <3>2
  <2>5. Balances(e, -q, -t, q, t, 0, 0, t, -t)
    BY <1>3, <1>5, ReversalBalances
  <2> QED BY <2>1, <2>2, <2>3, <2>4, <2>5, EffectGood
<1>14. CASE m.kind = "TRANSFER_OUT"
  <2>1. /\ MovesDo(e, 0, 0, 0) /\ Extends(moves, moves \o e.moves)
        /\ \E b \in Move :
              moves \o e.moves = Append(Append(moves, Undone(i)), b)
    <3>1. e.moves = <<Undone(i), Undone(i + 1)>>
      BY <1>3, <1>14 DEF UndoneMoves, Pair
    <3>2. m.quantity <= Available(i + 1)
      BY <1>1, <1>14 DEF Reversible, Pair
    <3>3. /\ MovesDo(e, 0, 0, 0)
          /\ \E b \in Move :
                moves \o e.moves = Append(Append(moves, Undone(i)), b)
      BY <1>7, <1>14, <3>1, <3>2, TransferUndone
    <3> QED BY <3>3 DEF MovesDo
  <2>2. StockDoes(e, 0, 0)
    <3>1. e.stock = <<>>
      BY <1>3, <1>14 DEF Back
    <3> QED BY <3>1, StockNone
  <2>3. BillsDo(e, 0)
    BY <1>3, <2>1, BillsNone
  <2>4. JournalsDo(e, 0, 0)
    <3>1. \A x \in Int, y \in Int : Worth(m, x, y) => 0 = -x /\ 0 = -y
      <4> SUFFICES ASSUME NEW x \in Int, NEW y \in Int, Worth(m, x, y)
                   PROVE  0 = -x /\ 0 = -y
        OBVIOUS
      <4>1. x = 0 /\ y = 0
        BY <1>14 DEF Worth
      <4> QED BY <1>5, <4>1
    <3>2. PostedAnew(e) => 0 = -t /\ 0 = t
      BY <1>5, <1>14
    <3>3. 0 \in Int
      OBVIOUS
    <3> QED BY <1>9, <2>1, <3>1, <3>2, <3>3
  <2>5. Balances(e, 0, 0, 0, 0, 0, 0, 0, 0)
    BY <1>3 DEF Balances
  <2> QED BY <2>1, <2>2, <2>3, <2>4, <2>5, EffectGood
<1> QED BY <1>1, <1>11, <1>12, <1>13, <1>14 DEF Reversible
-----------------------------------------------------------------------------
(* The invariant.                                                          *)

IInv ==
    /\ mode \in Mode
    /\ open \subseteq Project
    /\ writes \in 0..MaxWrites
    /\ NowGood
    /\ held # <<>> => ThenGood(held[1])

\* Empty tables are good.
LEMMA InitGood == Init => IInv
<1> SUFFICES ASSUME Init PROVE IInv
  OBVIOUS
<1>1. /\ moves = <<>> /\ bills = <<>> /\ journals = <<>> /\ unposted = 0
      /\ roundings = 0
      /\ held = <<>> /\ writes = 0 /\ open = Project
      /\ mode \in Mode
      /\ stock = [w \in Warehouse |-> [l \in AnyLot |-> Empty]]
  BY DEF Init
<1>2. /\ \A w \in Warehouse, l \in AnyLot : stock[w][l] = Empty
      /\ stock \in StockType
  <2>1. Empty \in Held
    BY DEF Empty, Held
  <2> QED BY <1>1, <2>1 DEF StockType
<1>3. LotsHeld(stock)
  <2>1. \A w \in Warehouse, l \in Lot : OnShelf(stock, w, l) = 0
    BY <1>2, Named_ DEF OnShelf, Empty
  <2> QED BY <2>1 DEF LotsHeld
<1>4. InAll(stock, "moved") = 0 /\ InAll(stock, "value") = 0
  <2>1. ASSUME NEW f \in {"moved", "value"} PROVE InAll(stock, f) = 0
    <3> DEFINE s == [w \in Warehouse |-> [l \in AnyLot |-> stock[w][l][f]]]
               t == [w \in Warehouse |-> SumFunctionOnSet(s[w], AnyLot)]
    <3>1. InAll(stock, f) = SumFunctionOnSet(t, Warehouse)
      BY DEF InAll, SumFunction
    <3>2. \A w \in Warehouse, l \in AnyLot : s[w][l] = 0
      <4> SUFFICES ASSUME NEW w \in Warehouse, NEW l \in AnyLot
                   PROVE  stock[w][l][f] = 0
        OBVIOUS
      <4>1. CASE f = "moved"
        BY <1>2, <4>1 DEF Empty
      <4>2. CASE f = "value"
        BY <1>2, <4>2 DEF Empty
      <4> QED BY <4>1, <4>2
    <3>3. \A w \in Warehouse : t[w] = SumFunctionOnSet(s[w], AnyLot)
      OBVIOUS
    <3> HIDE DEF s, t
    <3>4. \A w \in Warehouse : t[w] = 0
      BY <3>2, <3>3, FiniteSets_, SumOfZeros
    <3> QED BY <3>1, <3>4, FiniteSets_, SumOfZeros
  <2> QED BY <2>1
<1>5. /\ moves \in Seq(Move) /\ bills \in Seq(Bill) /\ journals \in Seq(Journal)
      /\ DOMAIN moves = {} /\ DOMAIN bills = {} /\ DOMAIN journals = {}
  BY <1>1
<1>6. /\ Sourced(moves) /\ Covered(moves) /\ Paired(moves)
      /\ NoneOver(bills) /\ Issued(moves, bills) /\ Told(moves, journals)
  BY <1>5 DEF Sourced, Covered, Paired, NoneOver, Issued, Told, ReceiptsIn
<1>7. /\ LeftAtAll(moves, "total") = 0 /\ LeftAtAll(moves, "quantity") = 0
      /\ SpentAtAll(moves) = 0
  <2>1. ReceiptsIn(moves) = {} /\ SpentIn(moves) = {}
    BY <1>5 DEF ReceiptsIn, SpentIn
  <2>2. \A g : DOMAIN g = {} => SumFunction(g) = 0
    BY SumEmpty DEF SumFunction
  <2> QED BY <2>1, <2>2 DEF LeftAtAll, SpentAtAll
<1>8. /\ BalanceIn(journals, "wip") = 0 /\ BalanceIn(journals, "inventory") = 0
      /\ ChargedIn(bills) = 0 /\ UnstockedIn(bills) = 0
  <2>1. /\ Counting(journals) = {}
        /\ Services(bills) = {} /\ Untracked(bills) = {}
    BY <1>5 DEF Counting, Services, Untracked
  <2>2. \A g : DOMAIN g = {} => SumFunction(g) = 0
    BY SumEmpty DEF SumFunction
  <2> QED BY <2>1, <2>2 DEF BalanceIn, ChargedIn, UnstockedIn, Of
<1>9. NowGood
  <2>1. 0 = 0 + 0 /\ 0 + 0 + 0 = 0 /\ 0 \in Int /\ 0 \in Nat
    OBVIOUS
  <2>2. Near(0 + 0, 0 + 0, 0)
    BY DEF Near
  <2> QED BY <1>1, <1>2, <1>3, <1>4, <1>5, <1>6, <1>7, <1>8, <2>1, <2>2
          DEF NowGood, Good
<1>10. writes \in 0..MaxWrites
  BY <1>1, MaterialsConstants
<1> QED BY <1>1, <1>9, <1>10 DEF IInv

\* An effect is inserted into the tables it was computed on.
LEMMA Inserted ==
    ASSUME NEW e, ThenGood(e), Insert(e), held' = <<>>, IInv,
           writes < MaxWrites
    PROVE  IInv'
<1>1. /\ stock' = FoldLeft(Added, stock, e.stock)
      /\ moves' = moves \o e.moves
      /\ bills' = BillsAfter(bills, e.returns, e.bills)
      /\ journals' = JournalsAfter(journals, e.cancels, e.journals)
      /\ unposted' = unposted + e.unposted
      /\ roundings' = roundings + e.roundings
      /\ writes' = writes + 1 /\ mode' = mode /\ open' = open
  BY DEF Insert, BillsAfter, JournalsAfter
<1>2. NowGood'
  BY <1>1 DEF ThenGood, NowGood
<1>3. writes' \in 0..MaxWrites
  BY <1>1, MaterialsConstants DEF IInv
<1> QED BY <1>1, <1>2, <1>3 DEF IInv

\* A good effect is inserted or held back.
LEMMA StepGood ==
    ASSUME IInv, writes < MaxWrites, GoodStep
    PROVE  IInv'
<1>1. PICK e : Apply(e) /\ ThenGood(e)
  BY DEF GoodStep
<1>2. CASE Insert(e) /\ held' = Overtaken
  BY <1>1, <1>2, Inserted DEF Overtaken
<1>3. CASE held' = <<e>> /\ UNCHANGED <<mode, tables, writes>>
  <2>1. /\ UNCHANGED <<mode, open, stock, moves, bills, journals, unposted,
                       roundings>>
        /\ writes' = writes
    BY <1>3 DEF tables
  <2>2. NowGood'
    BY <2>1 DEF NowGood, IInv
  <2>3. held'[1] = e
    BY <1>3
  <2>4. ThenGood(held[1])'
    BY <1>1, <2>1, <2>3 DEF ThenGood
  <2> QED BY <2>1, <2>2, <2>4 DEF IInv
<1> QED BY <1>1, <1>2, <1>3 DEF Apply

\* Every step keeps the invariant.
LEMMA NextGood == IInv /\ [Next]_vars => IInv'
<1> SUFFICES ASSUME IInv, [Next]_vars PROVE IInv'
  OBVIOUS
<1>1. NowGood /\ open \subseteq Project
  BY DEF IInv
<1>2. CASE writes < MaxWrites /\ StockNext
  <2>1. PICK w \in Warehouse, l \in AnyLot, q \in Quantity :
           \/ \E c \in Cost : AdjustIn(w, l, q, c) \/ AdjustOut(w, l, q, c)
           \/ \E v \in Warehouse : TransferStock(w, v, l, q)
           \/ Sell(w, l, q)
           \/ \E c \in Cost : PurchaseForStock(w, l, q, c)
           \/ \E p \in Project :
                 \/ \E c \in Cost : PurchaseForProject(w, l, p, q, c)
                 \/ IssueInventoryToProject(w, l, p, q)
           \/ \E y \in Line : SellTwo(LineOf(w, l, q), y)
    BY <1>2 DEF StockNext
  <2>2. ASSUME NEW c \in Cost, AdjustIn(w, l, q, c) PROVE GoodStep
    BY <1>1, <2>2, AdjustInGood
  <2>3. ASSUME NEW c \in Cost, AdjustOut(w, l, q, c) PROVE GoodStep
    BY <1>1, <2>3, AdjustOutGood
  <2>4. ASSUME NEW v \in Warehouse, TransferStock(w, v, l, q) PROVE GoodStep
    BY <1>1, <2>4, TransferStockGood
  <2>5. ASSUME Sell(w, l, q) PROVE GoodStep
    BY <1>1, <2>5, SellGood
  <2>6. ASSUME NEW c \in Cost, PurchaseForStock(w, l, q, c) PROVE GoodStep
    BY <1>1, <2>6, PurchaseForStockGood
  <2>7. ASSUME NEW p \in Project, NEW c \in Cost,
               PurchaseForProject(w, l, p, q, c)
        PROVE  GoodStep
    BY <1>1, <2>7, PurchaseForProjectGood
  <2>8. ASSUME NEW p \in Project, IssueInventoryToProject(w, l, p, q)
        PROVE  GoodStep
    BY <1>1, <2>8, IssueGood
  <2>10. ASSUME NEW y \in Line, SellTwo(LineOf(w, l, q), y) PROVE GoodStep
    <3>1. LineOf(w, l, q) \in Line
      BY DEF LineOf, Line
    <3> QED BY <1>1, <2>10, <3>1, SellTwoGood
  <2>9. GoodStep
    BY <2>1, <2>2, <2>3, <2>4, <2>5, <2>6, <2>7, <2>8, <2>10
  <2> QED BY <1>2, <2>9, StepGood
<1>3. CASE writes < MaxWrites /\ ProjectNext
  <2>1. OpenReceipts \subseteq ReceiptsIn(moves)
    BY DEF OpenReceipts, Receipts, ReceiptsIn
  <2>2. ASSUME NEW r \in OpenReceipts, NEW q \in Quantity,
               ConsumeProjectMaterial(r, q)
        PROVE  GoodStep
    BY <1>1, <2>1, <2>2, ConsumeGood
  <2>3. ASSUME NEW r \in OpenReceipts, NEW q \in Quantity,
               NEW w \in Warehouse, ReturnProjectMaterial(r, w, q)
        PROVE  GoodStep
    BY <1>1, <2>1, <2>3, ReturnGood
  <2>4. ASSUME NEW r \in OpenReceipts, NEW q \in Quantity,
               NEW p \in Project, TransferProjectMaterial(r, p, q)
        PROVE  GoodStep
    BY <1>1, <2>1, <2>4, TransferGood
  <2>5. ASSUME NEW i \in DOMAIN moves, ReverseProjectMaterial(i)
        PROVE  GoodStep
    BY <1>1, <2>5, ReverseGood
  <2>6. ASSUME NEW b \in DOMAIN bills, NEW q \in Quantity, ReturnToVendor(b, q)
        PROVE  GoodStep
    BY <1>1, <2>6, ReturnToVendorGood
  <2>7. ASSUME NEW b \in DOMAIN bills, NEW q \in Quantity,
               NEW w \in Warehouse, ReturnPurchase(b, w, q)
        PROVE  GoodStep
    BY <1>1, <2>7, ReturnPurchaseGood
  <2>8. ASSUME NEW p \in Project, NEW c \in Cost, PurchaseService(p, c)
        PROVE  GoodStep
    BY <1>1, <2>8, PurchaseServiceGood
  <2>11. ASSUME NEW b \in DOMAIN bills, NEW q \in Quantity,
                ReturnWithoutStock(b, q)
         PROVE  GoodStep
    BY <1>1, <2>11, ReturnWithoutStockGood
  <2>12. ASSUME NEW b \in DOMAIN bills, NEW d \in DOMAIN bills,
                NEW x \in Line, NEW y \in Line, ReturnTwo(b, d, x, y)
         PROVE  GoodStep
    BY <1>1, <2>12, ReturnTwoGood
  <2>13. ASSUME NEW l \in AnyLot, NEW q \in Quantity \cup {0},
                NEW c \in Cost, PurchaseWithoutStock(l, q, c)
         PROVE  GoodStep
    BY <1>1, <2>13, PurchaseWithoutStockGood
  <2>9. ASSUME NEW p \in Project, CloseProject(p) \/ ReopenProject(p)
        PROVE  IInv'
    <3>1. /\ open' \subseteq Project /\ held' = <<>> /\ writes' = writes + 1
          /\ UNCHANGED <<mode, stock, moves, bills, journals, unposted,
                         roundings>>
      BY <1>1, <2>9 DEF CloseProject, ReopenProject, Overtaken
    <3>2. NowGood'
      BY <1>1, <3>1 DEF NowGood
    <3>3. writes' \in 0..MaxWrites
      BY <1>3, <3>1, MaterialsConstants DEF IInv
    <3> QED BY <3>1, <3>2, <3>3 DEF IInv
  <2>10. GoodStep \/ \E p \in Project : CloseProject(p) \/ ReopenProject(p)
    BY <1>3, <2>2, <2>3, <2>4, <2>5, <2>6, <2>7, <2>8, <2>11, <2>12, <2>13
       DEF ProjectNext
  <2> QED BY <1>3, <2>9, <2>10, StepGood
<1>4. ASSUME writes < MaxWrites, NEW k \in DOMAIN journals, ReverseByHand(k)
      PROVE  IInv'
  BY <1>1, <1>4, ByHandGood, StepGood
<1>8. ASSUME writes < MaxWrites, NEW m \in Mode, UpdateInventoryProduct(m)
      PROVE  IInv'
  <2>1. /\ mode' = m /\ held' = held /\ writes' = writes + 1
        /\ UNCHANGED <<open, stock, moves, bills, journals, unposted,
                       roundings>>
    BY <1>8 DEF UpdateInventoryProduct, tables
  <2>2. NowGood'
    BY <1>1, <2>1 DEF NowGood
  <2>3. (held # <<>> => ThenGood(held[1]))'
    BY <2>1 DEF IInv, ThenGood
  <2>4. writes' \in 0..MaxWrites
    BY <1>8, <2>1, MaterialsConstants DEF IInv
  <2> QED BY <2>1, <2>2, <2>3, <2>4 DEF IInv
<1>5. CASE writes < MaxWrites /\ Commit
  <2>1. Insert(held[1]) /\ held' = <<>> /\ ThenGood(held[1])
    BY <1>5 DEF Commit, IInv
  <2> QED BY <1>5, <2>1, Inserted
<1>6. CASE Abort
  <2>1. /\ held' = <<>> /\ writes' = writes
        /\ UNCHANGED <<mode, open, stock, moves, bills, journals, unposted,
                       roundings>>
    BY <1>6 DEF Abort, tables
  <2>2. NowGood'
    BY <1>1, <2>1 DEF NowGood
  <2> QED BY <2>1, <2>2 DEF IInv
<1>7. CASE UNCHANGED vars
  <2>1. /\ held' = held /\ writes' = writes
        /\ UNCHANGED <<mode, open, stock, moves, bills, journals, unposted,
                       roundings>>
    BY <1>7 DEF vars, tables
  <2>2. NowGood'
    BY <1>1, <2>1 DEF NowGood
  <2>3. (held # <<>> => ThenGood(held[1]))'
    BY <2>1 DEF IInv, ThenGood
  <2> QED BY <2>1, <2>2, <2>3 DEF IInv
<1> QED BY <1>2, <1>3, <1>4, <1>5, <1>6, <1>7, <1>8 DEF Next

\* The invariant.
LEMMA Invariant == Spec => []IInv
BY InitGood, NextGood, PTL DEF Spec

-----------------------------------------------------------------------------
(* What it says of the tables.                                             *)

\* What the model computes of its variables is what is computed here of the
\* tables.
LEMMA SameSums ==
    /\ Balance("wip") = BalanceIn(journals, "wip")
    /\ Balance("inventory") = BalanceIn(journals, "inventory")
    /\ ServicesCharged = ChargedIn(bills)
    /\ Unstocked = UnstockedIn(bills)
    /\ Receipts = ReceiptsIn(moves)
    /\ SumFunction([r \in Receipts |-> AvailableValue(r)])
         = LeftAtAll(moves, "total")
    /\ SumFunction([r \in Receipts |-> Available(r)])
         = LeftAtAll(moves, "quantity")
    /\ SumFunction([i \in Spent |-> moves[i].quantity]) = SpentAtAll(moves)
    /\ SumFunction([w \in Warehouse |-> ValueOf(w, NoLot)])
         = InAll(stock, "value")
    /\ SumFunction([w \in Warehouse |->
                       SumFunction([l \in AnyLot |-> stock[w][l].moved])])
         = InAll(stock, "moved")
<1>1. /\ Balance("wip") = BalanceIn(journals, "wip")
      /\ Balance("inventory") = BalanceIn(journals, "inventory")
  BY DEF Balance, BalanceIn, Of, Counting
<1>2. ServicesCharged = ChargedIn(bills) /\ Unstocked = UnstockedIn(bills)
  <2>1. {b \in DOMAIN bills : ~Physical(b)} = Services(bills)
    BY DEF Physical, Services, IsService
  <2>2. {b \in DOMAIN bills : Physical(b) /\ ~bills[b].goods}
           = Untracked(bills)
    BY DEF Physical, Untracked, IsUnstocked
  <2> QED BY <2>1, <2>2
          DEF ServicesCharged, Unstocked, ChargedIn, UnstockedIn, Of
<1>3. Receipts = ReceiptsIn(moves)
  BY DEF Receipts, ReceiptsIn
<1>4. [r \in Receipts |-> AvailableValue(r)]
         = [r \in ReceiptsIn(moves) |-> Left(moves, r, "total")]
  BY <1>3, AvailableIs
<1>5. [r \in Receipts |-> Available(r)]
         = [r \in ReceiptsIn(moves) |-> Left(moves, r, "quantity")]
  BY <1>3, AvailableIs
<1>6. SumFunction([i \in Spent |-> moves[i].quantity]) = SpentAtAll(moves)
  <2>1. Spent = SpentIn(moves)
    BY DEF Spent, SpentIn, Reversed, ReversedIn
  <2> QED BY <2>1 DEF SpentAtAll
<1>7. SumFunction([w \in Warehouse |-> ValueOf(w, NoLot)])
         = InAll(stock, "value")
  <2>1. Counted(NoLot) = AnyLot
    BY DEF Counted
  <2>2. \A w \in Warehouse : ValueOf(w, NoLot)
           = SumFunction([l \in AnyLot |-> stock[w][l]["value"]])
    BY <2>1 DEF ValueOf
  <2>3. [w \in Warehouse |-> ValueOf(w, NoLot)]
           = [w \in Warehouse |->
                 SumFunction([l \in AnyLot |-> stock[w][l]["value"]])]
    BY <2>2
  <2> QED BY <2>3 DEF InAll
<1>8. SumFunction([w \in Warehouse |->
                     SumFunction([l \in AnyLot |-> stock[w][l].moved])])
         = InAll(stock, "moved")
  BY DEF InAll
<1> QED BY <1>1, <1>2, <1>3, <1>4, <1>5, <1>6, <1>7, <1>8 DEF LeftAtAll

(* The rows keep the form of their tables, whatever is bought, moved, used, *)
(* given back and reversed, and a purchase never gives back more than it    *)
(* brought.                                                                 *)
THEOREM RowsInForm == Spec => []TypeOK
<1>1. IInv => TypeOK
  BY DEF IInv, NowGood, Good, TypeOK, StockType, NoneOver
<1> QED BY <1>1, Invariant, PTL

(* What the account of project material says the goods are worth is what   *)
(* the rows say, and so is what the account of inventory says, but for the *)
(* adjustments, for what was allocated to it without stock and for a cent  *)
(* at most for each document of two lines.                                 *)
THEOREM AccountsAgreeAlways == Spec => []AccountsAgree
<1>1. IInv => AccountsAgree
  <2> SUFFICES ASSUME IInv PROVE AccountsAgree
    OBVIOUS
  <2>1. /\ NowGood
        /\ BalanceIn(journals, "wip")
             = ChargedIn(bills) + LeftAtAll(moves, "total")
        /\ Near(BalanceIn(journals, "inventory") + unposted,
                InAll(stock, "value") + UnstockedIn(bills), roundings)
        /\ unposted \in Int /\ roundings \in Nat /\ stock \in StockType
    BY DEF IInv, NowGood, Good
  <2>2. /\ Nothing.moves = <<>> /\ Nothing.journals = <<>>
        /\ Nothing.bills = <<>> /\ Nothing.returns = <<>>
    BY DEF Nothing
  <2>3. Extends(moves, moves \o Nothing.moves)
    BY <2>1, <2>2, MovesNone DEF MovesDo
  <2>4. BalanceIn(journals, "inventory") \in Int
    BY <2>1, <2>2, <2>3, JournalsNone DEF JournalsDo, JournalsOnward
  <2>5. UnstockedIn(bills) \in Int
    <3>1. BillsDo(Nothing, 0)
      BY <2>1, <2>2, <2>3, BillsNone
    <3> QED BY <3>1 DEF BillsDo, BillsDoAll, BillsOnward
  <2>6. InAll(stock, "value") \in Int
    BY <2>1, InAllInteger
  <2>7. BalanceIn(journals, "inventory") + unposted
          - InAll(stock, "value") - UnstockedIn(bills)
          \in (-roundings)..roundings
    BY ONLY <2>1, <2>4, <2>5, <2>6 DEF Near
  <2> QED BY <2>1, <2>7, SameSums DEF AccountsAgree
<1> QED BY <1>1, Invariant, PTL

(* No goods are made or lost on the way between stock and projects, no     *)
(* receipt gives more than came in, and no warehouse gives a named lot it  *)
(* does not have.                                                          *)
THEOREM GoodsAccountedAlways == Spec => []GoodsAccounted
<1>1. IInv => GoodsAccounted
  <2> SUFFICES ASSUME IInv PROVE GoodsAccounted
    OBVIOUS
  <2>1. NowGood /\ Covered(moves)
        /\ InAll(stock, "moved") + LeftAtAll(moves, "quantity")
             + SpentAtAll(moves) = 0
    BY DEF IInv, NowGood, Good
  <2>2. SumFunction([w \in Warehouse |->
                       SumFunction([l \in AnyLot |-> stock[w][l].moved])])
          + SumFunction([r \in Receipts |-> Available(r)])
          + SumFunction([i \in Spent |-> moves[i].quantity]) = 0
    BY <2>1, SameSums
  <2>3. \A r \in Receipts :
          /\ Available(r) \in 0..moves[r].quantity
          /\ AvailableValue(r) \in 0..moves[r].total
          /\ Available(r) = 0 => AvailableValue(r) = 0
    BY <2>1, SameSums, AvailableIs DEF Covered
  <2>4. \A w \in Warehouse, l \in Lot : QuantityOf(w, l) >= 0
    BY <2>1, ShelfNow, Named_
  <2> QED BY <2>2, <2>3, <2>4 DEF GoodsAccounted
<1> QED BY <1>1, Invariant, PTL
===============================================================================
