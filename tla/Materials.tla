------------------------------ MODULE Materials -------------------------------
(***************************************************************************)
(* The goods of one product: bought, sold and adjusted in the warehouses   *)
(* of a branch, moved between them, issued to projects, used there, given  *)
(* back to stock or to the vendor, moved between projects, and the         *)
(* reversal of each of these, with the two accounts the value moves        *)
(* between (src/lib/account: inventory.ts, inventory-policy.ts,            *)
(* project-material.ts, project-material-service.ts,                       *)
(* project-purchase-returns.ts, commercial.ts).                            *)
(*                                                                         *)
(* Every operation is one SERIALIZABLE transaction, but the advisory locks *)
(* of two operations on the same goods have different keys, so one can     *)
(* read and compute before another commits.  An operation is therefore an  *)
(* effect, the rows it will insert, computed from what it has read: it is  *)
(* written at once, or held back and written later.  Of two overlapping    *)
(* transactions that conflict the database aborts one; its caller starts   *)
(* again, which is another operation.  (Two that do not conflict commute.) *)
(* A repeated request finds the row of its key and changes nothing.        *)
(*                                                                         *)
(* stock_movements are kept as their sums for each warehouse and lot (a    *)
(* batch or a serial number), for nothing else of them is ever read.       *)
(* A document has one line of the product, or two where more than one line *)
(* makes a difference: in the sales and purchase returns whose cost is the *)
(* average at that moment.  Negative stock is not allowed by the settings. *)
(* Credit notes, sales revised at the cost they had, dates, years,         *)
(* periods, taxes, roles and budget lines are left out.                    *)
(***************************************************************************)
EXTENDS Integers, Sequences, FiniteSets, Functions, SequencesExt

CONSTANTS
    Warehouse, Project,
    Lot,            \* the batches and serial numbers of the product
    Serial,         \* those of them that are serial numbers
    NoLot,          \* a movement that names none
    NoProject,      \* an allocation to normal inventory
    Quantity, Cost, \* the quantities and totals a request may name
    MaxWrites,      \* bound on the transactions that commit
    MaxBefore,      \* bound on those before one that is held back
    MaxByHand       \* bound on the journals an accountant reverses

ASSUME MaterialsConstants ==
    /\ IsFiniteSet(Warehouse) /\ IsFiniteSet(Lot)
    /\ Serial \subseteq Lot
    /\ NoLot \notin Lot
    /\ NoProject \notin Project
    /\ Quantity \subseteq Nat \ {0}
    /\ Cost \subseteq Nat
    /\ {MaxWrites, MaxBefore, MaxByHand} \subseteq Nat

VARIABLES
    mode,           \* AccountProduct.trackingMode; OFF when not tracked
    open,           \* the projects that are not closed
    stock,          \* the sums of stock_movements by warehouse and lot
    moves,          \* project_material_movements in the order of their ids
    bills,          \* allocations of posted purchase lines
    journals,       \* the journals that touch one of the two accounts
    unposted,       \* value of the stock rows no journal accounts for
    roundings,      \* the documents that rounded two costs and their sum
    held,           \* what the transaction that is not committed will write
    writes          \* the transactions committed

tables == <<open, stock, moves, bills, journals, unposted, roundings>>
vars == <<mode, tables, held, writes>>

Kind == {"INVENTORY_ISSUE_TO_PROJECT", "TRANSFER_IN", "CONSUMPTION",
         "RETURN_TO_INVENTORY", "RETURN_TO_VENDOR", "TRANSFER_OUT", "REVERSAL"}
Receipt == {"INVENTORY_ISSUE_TO_PROJECT", "TRANSFER_IN"}
Mode == {"OFF", "NONE", "BATCH", "SERIAL"}
AnyLot == Lot \cup {NoLot}

\* source, of and bill are positions in moves and bills, 0 for none
Move == [kind: Kind, project: Project, warehouse: Warehouse, lot: AnyLot,
         quantity: Nat \ {0}, total: Nat, source: Nat, of: Nat, bill: Nat]
Bill == [lot: AnyLot, project: Project \cup {NoProject}, quantity: Nat,
         total: Nat, goods: BOOLEAN, returned: Nat]
Journal == [source: {"MOVE", "BILL", "NOTE", "SALE", "REVERSAL"} \X Nat,
            wip: Int, inventory: Int, posted: BOOLEAN, byHand: BOOLEAN]
Held == [entered: Int, moved: Int, value: Int, seen: BOOLEAN]

-----------------------------------------------------------------------------
(* What the rows say.                                                      *)

Signed(m, n) == IF m.kind \in Receipt THEN n ELSE -n

\* n/d in cents, halves away from zero
Rounded(n, d) ==
    IF n >= 0 THEN (2 * n + d) \div (2 * d) ELSE -((d - 2 * n) \div (2 * d))

Cents(f) == Rounded(f[1], f[2])
JustTheLast(f, g) == g

PlusFraction(f, g) == <<f[1] * g[2] + g[1] * f[2], f[2] * g[2]>>

\* Without a lot in the request every row of the warehouse counts.
Counted(l) == IF l = NoLot THEN AnyLot ELSE {l}
QuantityOf(w, l) ==
    SumFunction([k \in Counted(l) |-> stock[w][k].entered + stock[w][k].moved])
ValueOf(w, l) == SumFunction([k \in Counted(l) |-> stock[w][k].value])

\* the average cost of q of n worth v, as a fraction: nothing when there
\* is no stock to average over
AverageCost(q, n, v) == IF n > 0 THEN <<q * v, n>> ELSE <<0, 1>>
StockCost(w, l, q) == Cents(AverageCost(q, QuantityOf(w, l), ValueOf(w, l)))

Reversed(i) == \E k \in DOMAIN moves : moves[k].of = i
\* the rows a balance counts for the receipt r
Lineage(r) == {i \in DOMAIN moves :
    /\ i = r \/ moves[i].source = r
    /\ moves[i].project = moves[r].project
    /\ moves[i].kind # "REVERSAL"
    /\ ~Reversed(i)}
Available(r) ==
    SumFunction([i \in Lineage(r) |-> Signed(moves[i], moves[i].quantity)])
AvailableValue(r) ==
    SumFunction([i \in Lineage(r) |-> Signed(moves[i], moves[i].total)])

\* the last of it carries what rounding has left
IssueValue(r, q) ==
    IF q = Available(r) THEN AvailableValue(r)
    ELSE Rounded(q * AvailableValue(r), Available(r))

Receipts == {i \in DOMAIN moves : moves[i].kind \in Receipt}
OpenReceipts == {r \in Receipts : moves[r].project \in open}
Enough(r, q) == q <= Available(r) /\ AvailableValue(r) >= 0

-----------------------------------------------------------------------------
(* Effects.                                                                *)

Row(w, l, q, total) == [warehouse |-> w, lot |-> l, entered |-> q,
                        moved |-> 0, value |-> total]
\* a TRANSFER_OUT or TRANSFER_IN row
Transfer(w, l, q, total) == [warehouse |-> w, lot |-> l, entered |-> 0,
                             moved |-> q, value |-> total]

Nothing == [stock |-> <<>>, moves |-> <<>>, bills |-> <<>>,
            returns |-> <<>>, journals |-> <<>>, cancels |-> 0,
            unposted |-> 0, roundings |-> 0]

\* what the debit note gives back of each purchase
GiveBack(b, q) == [k \in {b} |-> q]

\* no journal is posted for an amount of nothing
Posting(source, amount, wip, inventory) ==
    IF amount = 0 THEN <<>>
    ELSE <<[source |-> source, wip |-> wip, inventory |-> inventory,
            posted |-> TRUE, byHand |-> FALSE]>>

Used(m, kind, q, total, r) ==
    [m EXCEPT !.kind = kind, !.quantity = q, !.total = total, !.source = r]

Added(table, row) ==
    [table EXCEPT ![row.warehouse][row.lot] =
        [entered |-> @.entered + row.entered, moved |-> @.moved + row.moved,
         value |-> @.value + row.value, seen |-> TRUE]]

Insert(e) ==
    /\ stock' = FoldLeft(Added, stock, e.stock)
    /\ moves' = moves \o e.moves
    /\ bills' = [b \in DOMAIN bills |->
          IF b \in DOMAIN e.returns
          THEN [bills[b] EXCEPT !.returned = @ + e.returns[b]] ELSE bills[b]]
          \o e.bills
    /\ journals' = [k \in DOMAIN journals |->
          [journals[k] EXCEPT !.posted = @ /\ k # e.cancels]] \o e.journals
    /\ unposted' = unposted + e.unposted
    /\ roundings' = roundings + e.roundings
    /\ writes' = writes + 1
    /\ UNCHANGED <<mode, open>>

StillHeld == held

\* what is held back can no longer commit when another has: it is aborted
Overtaken == <<>>

\* written at once, or held back
Apply(e) ==
    \/ Insert(e) /\ held' = Overtaken
    \/ /\ held = <<>> /\ writes < MaxBefore
       /\ held' = <<e>>
       /\ UNCHANGED <<mode, tables, writes>>

-----------------------------------------------------------------------------
(* Warehouses.                                                             *)

Tracked == mode # "OFF"
\* what a request must name of goods in this tracking mode: it may name more
Named(l, q) == /\ Tracked
               /\ mode = "BATCH" => l \in Lot \ Serial
               /\ mode = "SERIAL" => l \in Serial /\ q = 1
OneOnly(l, q, n) == l \in Serial => q = 1 /\ n = 1
InStock(w, l, q) == q <= QuantityOf(w, l)

\* OPENING and ADJUSTMENT_IN: no look at what is there, no journal
AdjustIn(w, l, q, c) ==
    /\ Named(l, q)
    /\ Apply([Nothing EXCEPT !.stock = <<Row(w, l, q, c)>>, !.unposted = c])

AdjustOut(w, l, q, c) ==
    /\ Named(l, q) /\ InStock(w, l, q)
    /\ Apply([Nothing EXCEPT !.stock = <<Row(w, l, -q, -c)>>,
                             !.unposted = -c])

\* A lot may be named or left out, whatever the tracking mode.
TransferStock(w, v, l, q) ==
    /\ w # v
    /\ Tracked
    /\ InStock(w, l, q) /\ OneOnly(l, q, QuantityOf(w, l))
    /\ LET c == StockCost(w, l, q)
       IN  Apply([Nothing EXCEPT !.stock = <<Transfer(w, l, -q, -c),
                                             Transfer(v, l, q, c)>>])

\* The settings of a product may be changed at any time, without a look at
\* its stock, its drafts or what is under way.
UpdateInventoryProduct(m) ==
    /\ m # mode
    /\ mode' = m
    /\ writes' = writes + 1
    /\ UNCHANGED <<tables, held>>

-----------------------------------------------------------------------------
(* Documents.  They are posted as they were drafted, whatever the tracking *)
(* mode has become, and write stock only if the product is tracked now.    *)

NewHere(w, l, q) == /\ Tracked
                    /\ l \in Serial => q = 1 /\ ~stock[w][l].seen

NextBill == <<"BILL", Len(bills) + 1>>

PurchaseForStock(w, l, q, c) ==
    /\ NewHere(w, l, q) /\ c > 0
    /\ Apply([Nothing EXCEPT
          !.stock = <<Row(w, l, q, c)>>,
          !.bills = <<[lot |-> l, project |-> NoProject,
                       quantity |-> q, total |-> c, goods |-> TRUE,
                       returned |-> 0]>>,
          !.journals = Posting(NextBill, c, 0, c)])

\* into the warehouse and out to the project in the same transaction
PurchaseForProject(w, l, p, q, c) ==
    /\ p \in open
    /\ NewHere(w, l, q) /\ c > 0
    /\ Apply([Nothing EXCEPT
          !.stock = <<Row(w, l, q, c), Transfer(w, l, -q, -c)>>,
          !.moves = <<[kind |-> "INVENTORY_ISSUE_TO_PROJECT", project |-> p,
                       warehouse |-> w, lot |-> l, quantity |-> q,
                       total |-> c, source |-> 0, of |-> 0,
                       bill |-> Len(bills) + 1]>>,
          !.bills = <<[lot |-> l, project |-> p,
                       quantity |-> q, total |-> c, goods |-> TRUE,
                       returned |-> 0]>>,
          !.journals = Posting(NextBill, c, c, 0)])

\* Allocated to inventory, the product while it is not tracked, or a service
\* (nothing of the product): the account is debited, and no stock comes in.
PurchaseWithoutStock(l, q, c) ==
    /\ Tracked => l = NoLot /\ q = 0
    /\ c > 0
    /\ Apply([Nothing EXCEPT
          !.bills = <<[lot |-> l, project |-> NoProject,
                       quantity |-> q, total |-> c, goods |-> FALSE,
                       returned |-> 0]>>,
          !.journals = Posting(NextBill, c, 0, c)])

\* A line without stock of a project is charged to the project's account.
PurchaseService(p, c) ==
    /\ p \in open /\ c > 0
    /\ Apply([Nothing EXCEPT
          !.bills = <<[lot |-> NoLot, project |-> p, quantity |-> 0,
                       total |-> c, goods |-> FALSE, returned |-> 0]>>,
          !.journals = Posting(NextBill, c, c, 0)])

\* goods that leave at average cost; only a positive cost is posted
Outgoing(source, w, l, q) ==
    LET c == StockCost(w, l, q)
        posted == IF c > 0 THEN c ELSE 0
    IN  [Nothing EXCEPT !.stock = <<Row(w, l, -q, -c)>>,
                        !.journals = Posting(source, posted, 0, -posted),
                        !.unposted = posted - c]

\* A line of two: [warehouse, lot, quantity].  Its row is written before the
\* next line is looked at.
Line == [warehouse: Warehouse, lot: AnyLot, quantity: Quantity]
LineOf(w, l, q) == [warehouse |-> w, lot |-> l, quantity |-> q]
SameGoods(x, y) == x.warehouse = y.warehouse /\ x.lot \in Counted(y.lot)
CostOf(x) == StockCost(x.warehouse, x.lot, x.quantity)
QuantityBefore(x, y) == QuantityOf(y.warehouse, y.lot)

QuantityAfter(x, y) == QuantityOf(y.warehouse, y.lot)
                         - (IF SameGoods(x, y) THEN x.quantity ELSE 0)

ValueAfter(x, y) == ValueOf(y.warehouse, y.lot)
                      - (IF SameGoods(x, y) THEN CostOf(x) ELSE 0)

\* Each row is rounded, and the sum that is posted is rounded once.
OutgoingTwo(source, x, y) ==
    LET f == AverageCost(x.quantity, QuantityOf(x.warehouse, x.lot),
                                     ValueOf(x.warehouse, x.lot))
        g == AverageCost(y.quantity, QuantityAfter(x, y), ValueAfter(x, y))
        t == Cents(PlusFraction(f, g))
        posted == IF t > 0 THEN t ELSE 0
    IN  [Nothing EXCEPT
           !.stock = <<Row(x.warehouse, x.lot, -x.quantity, -Cents(f)),
                       Row(y.warehouse, y.lot, -y.quantity, -Cents(g))>>,
           !.journals = Posting(source, posted, 0, -posted),
           !.unposted = posted - t, !.roundings = 1]

\* Goods that name no lot are sold without a look at the stock while their
\* mode is NONE.
Sellable(x, n) == /\ Tracked
                  /\ OneOnly(x.lot, x.quantity, n)
                  /\ \/ mode = "NONE" /\ x.lot = NoLot
                     \/ x.quantity <= n

Sell(w, l, q) ==
    /\ Sellable(LineOf(w, l, q), QuantityOf(w, l))
    /\ Apply(Outgoing(<<"SALE", 0>>, w, l, q))

SellTwo(x, y) ==
    /\ Sellable(x, QuantityOf(x.warehouse, x.lot))
    /\ Sellable(y, QuantityAfter(x, y))
    /\ Apply(OutgoingTwo(<<"SALE", 0>>, x, y))

IssueOfBill(b) == CHOOSE i \in DOMAIN moves :
    moves[i].bill = b /\ moves[i].kind = "INVENTORY_ISSUE_TO_PROJECT"

\* bought for stock, or for a project with stock
Physical(b) == bills[b].goods \/ bills[b].project = NoProject

ReturnableAgain(b, q) ==
    /\ Physical(b)
    /\ q <= bills[b].quantity
    /\ bills[b].project \in open \cup {NoProject}

\* no more than was bought, over all debit notes
Returnable(b, q) ==
    /\ Physical(b)
    /\ q <= bills[b].quantity - bills[b].returned
    /\ bills[b].project \in open \cup {NoProject}

AtProject(b) == bills[b].project # NoProject /\ ~Reversed(IssueOfBill(b))

\* a debit note for goods that went to a project
ReturnToVendor(b, q) ==
    /\ Returnable(b, q) /\ AtProject(b)
    /\ LET r == IssueOfBill(b)
           t == IssueValue(r, q)
       IN  /\ Enough(r, q)
           /\ Apply([Nothing EXCEPT
                  !.moves = <<Used(moves[r], "RETURN_TO_VENDOR", q, t, r)>>,
                  !.returns = GiveBack(b, q),
                  !.journals = Posting(<<"NOTE", b>>, t, -t, 0)])

\* a debit note for goods in stock, also when they came back from a project
ReturnPurchase(b, w, q) ==
    LET l == bills[b].lot IN
    /\ Returnable(b, q) /\ ~AtProject(b)
    /\ Tracked /\ OneOnly(l, q, QuantityOf(w, l)) /\ InStock(w, l, q)
    /\ Apply([Outgoing(<<"NOTE", b>>, w, l, q) EXCEPT
                 !.returns = GiveBack(b, q)])

\* two lines of one debit note, also of the same purchase
ReturnTwo(b, d, x, y) ==
    LET both == [k \in {b, d} |-> (IF k = b THEN x.quantity ELSE 0)
                                   + (IF k = d THEN y.quantity ELSE 0)] IN
    /\ x.lot = bills[b].lot /\ y.lot = bills[d].lot
    /\ \A k \in {b, d} : Returnable(k, both[k]) /\ ~AtProject(k)
    /\ Tracked
    /\ OneOnly(x.lot, x.quantity, QuantityOf(x.warehouse, x.lot))
    /\ OneOnly(y.lot, y.quantity, QuantityAfter(x, y))
    /\ x.quantity <= QuantityOf(x.warehouse, x.lot)
    /\ y.quantity <= QuantityAfter(x, y)
    /\ Apply([OutgoingTwo(<<"NOTE", b>>, x, y) EXCEPT !.returns = both])

\* A debit note drafted while no stock was kept, of the product or at all,
\* names no warehouse: no stock goes out, whatever is tracked by now.
ReturnWithoutStock(b, q) ==
    /\ Returnable(b, q) /\ ~AtProject(b)
    /\ Apply([Nothing EXCEPT !.returns = GiveBack(b, q)])

-----------------------------------------------------------------------------
(* Projects.                                                               *)

NextMove == <<"MOVE", Len(moves) + 1>>

IssueInventoryToProject(w, l, p, q) ==
    /\ p \in open
    /\ Named(l, q) /\ (mode = "NONE" => l = NoLot)
    /\ InStock(w, l, q) /\ OneOnly(l, q, QuantityOf(w, l))
    /\ LET t == StockCost(w, l, q)
       IN  /\ t >= 0
           /\ Apply([Nothing EXCEPT
                  !.stock = <<Transfer(w, l, -q, -t)>>,
                  !.moves = <<[kind |-> "INVENTORY_ISSUE_TO_PROJECT",
                               project |-> p, warehouse |-> w, lot |-> l,
                               quantity |-> q, total |-> t, source |-> 0,
                               of |-> 0, bill |-> 0]>>,
                  !.journals = Posting(NextMove, t, t, -t)])

ConsumeProjectMaterial(r, q) ==
    /\ Enough(r, q)
    /\ LET t == IssueValue(r, q)
       IN  Apply([Nothing EXCEPT
              !.moves = <<Used(moves[r], "CONSUMPTION", q, t, r)>>,
              !.journals = Posting(NextMove, t, -t, 0)])

\* to any warehouse of the branch
ReturnProjectMaterial(r, w, q) ==
    /\ Enough(r, q)
    /\ LET t == IssueValue(r, q)
       IN  Apply([Nothing EXCEPT
              !.stock = <<Transfer(w, moves[r].lot, q, t)>>,
              !.moves = <<[Used(moves[r], "RETURN_TO_INVENTORY", q, t, r)
                             EXCEPT !.warehouse = w]>>,
              !.journals = Posting(NextMove, t, -t, t)])

\* The two movements are written together: the second is found again by
\* the key of the first.
TransferProjectMaterial(r, p, q) ==
    /\ p \in open /\ p # moves[r].project
    /\ Enough(r, q)
    /\ LET t == IssueValue(r, q)
           w == moves[r].warehouse
           l == moves[r].lot
       IN  Apply([Nothing EXCEPT
              !.stock = <<Transfer(w, l, q, t), Transfer(w, l, -q, -t)>>,
              !.moves = <<Used(moves[r], "TRANSFER_OUT", q, t, r),
                          [Used(moves[r], "TRANSFER_IN", q, t, r)
                             EXCEPT !.project = p]>>,
              !.journals = Posting(NextMove, t, 0, 0)])

Pair(i) == i + 1

Reversible(i) ==
    LET m == moves[i] IN
    /\ ~Reversed(i)
    /\ m.project \in open
    /\ \/ m.kind = "CONSUMPTION"
       \/ /\ m.kind = "INVENTORY_ISSUE_TO_PROJECT"
          /\ m.quantity <= Available(i)
       \/ /\ m.kind = "TRANSFER_OUT"
          /\ moves[Pair(i)].project \in open
          /\ m.quantity <= Available(Pair(i))
       \/ /\ m.kind = "RETURN_TO_INVENTORY"
          /\ InStock(m.warehouse, m.lot, m.quantity)

Undone(i) == [moves[i] EXCEPT !.kind = "REVERSAL", !.of = i]
UndoneMoves(i) == IF moves[i].kind = "TRANSFER_OUT"
                  THEN <<Undone(i), Undone(Pair(i))>> ELSE <<Undone(i)>>

Back(i) ==
    LET m == moves[i] IN
    CASE m.kind = "INVENTORY_ISSUE_TO_PROJECT" ->
           <<Transfer(m.warehouse, m.lot, m.quantity, m.total)>>
      [] m.kind = "RETURN_TO_INVENTORY" ->
           <<Transfer(m.warehouse, m.lot, -m.quantity, -m.total)>>
      [] OTHER -> <<>>

Opposite(k, hand) == [journals[k] EXCEPT
    !.source = <<"REVERSAL", k>>, !.wip = -@, !.inventory = -@,
    !.posted = TRUE, !.byHand = hand]

JournalOrBill(i) == {k \in DOMAIN journals :
    /\ journals[k].source \in {<<"MOVE", i>>, <<"BILL", moves[i].bill>>}
    /\ journals[k].posted}

JournalOf(i) == {k \in DOMAIN journals :
    journals[k].source = <<"MOVE", i>> /\ journals[k].posted}

\* An issue made by a purchase has no journal of its own, so its value is
\* taken back by a new one and the bill's is left alone.
ReverseProjectMaterial(i) ==
    LET m == moves[i]
        undone == [Nothing EXCEPT !.moves = UndoneMoves(i), !.stock = Back(i)]
    IN
    /\ Reversible(i)
    /\ \/ \E k \in JournalOf(i) :
             Apply([undone EXCEPT !.cancels = k,
                                  !.journals = <<Opposite(k, FALSE)>>])
       \/ /\ JournalOf(i) = {}
          /\ \/ m.total = 0
             \/ m.bill # 0 /\ m.kind = "INVENTORY_ISSUE_TO_PROJECT"
          /\ Apply([undone EXCEPT
                 !.journals = Posting(NextMove, m.total, -m.total, m.total)])

CloseProject(p) ==
    /\ p \in open
    /\ open' = open \ {p}
    /\ held' = Overtaken /\ writes' = writes + 1
    /\ UNCHANGED <<mode, stock, moves, bills, journals, unposted, roundings>>

ReopenProject(p) ==
    /\ p \notin open
    /\ open' = open \cup {p}
    /\ held' = Overtaken /\ writes' = writes + 1
    /\ UNCHANGED <<mode, stock, moves, bills, journals, unposted, roundings>>

\* reverseJournal of the ledger: these journals are not among those it
\* refuses to reverse by itself.
ReverseByHand(k) ==
    /\ journals[k].posted
    /\ Cardinality({j \in DOMAIN journals : journals[j].byHand}) < MaxByHand
    /\ Apply([Nothing EXCEPT !.cancels = k,
                             !.journals = <<Opposite(k, TRUE)>>])

-----------------------------------------------------------------------------
(* The transaction held back.                                              *)

Commit == /\ held # <<>>
          /\ Insert(held[1])
          /\ held' = <<>>

Abort == /\ held # <<>>
         /\ held' = <<>>
         /\ UNCHANGED <<mode, tables, writes>>

Empty == [entered |-> 0, moved |-> 0, value |-> 0, seen |-> FALSE]

Init ==
    /\ mode \in Mode
    /\ open = Project
    /\ stock = [w \in Warehouse |-> [l \in AnyLot |-> Empty]]
    /\ moves = <<>> /\ bills = <<>> /\ journals = <<>>
    /\ unposted = 0 /\ roundings = 0
    /\ held = <<>>
    /\ writes = 0

StockNext == \E w \in Warehouse, l \in AnyLot, q \in Quantity :
    \/ \E c \in Cost : AdjustIn(w, l, q, c) \/ AdjustOut(w, l, q, c)
    \/ \E v \in Warehouse : TransferStock(w, v, l, q)
    \/ Sell(w, l, q)
    \/ \E c \in Cost : PurchaseForStock(w, l, q, c)
    \/ \E p \in Project :
          \/ \E c \in Cost : PurchaseForProject(w, l, p, q, c)
          \/ IssueInventoryToProject(w, l, p, q)
    \/ \E y \in Line : SellTwo(LineOf(w, l, q), y)

ProjectNext ==
    \/ \E r \in OpenReceipts, q \in Quantity :
          \/ ConsumeProjectMaterial(r, q)
          \/ \E w \in Warehouse : ReturnProjectMaterial(r, w, q)
          \/ \E p \in Project : TransferProjectMaterial(r, p, q)
    \/ \E i \in DOMAIN moves : ReverseProjectMaterial(i)
    \/ \E b \in DOMAIN bills, q \in Quantity :
          \/ ReturnToVendor(b, q)
          \/ ReturnWithoutStock(b, q)
          \/ \E w \in Warehouse : ReturnPurchase(b, w, q)
    \/ \E b, d \in DOMAIN bills, x, y \in Line : ReturnTwo(b, d, x, y)
    \/ \E l \in AnyLot, q \in Quantity \cup {0}, c \in Cost :
          PurchaseWithoutStock(l, q, c)
    \/ \E p \in Project :
          \/ CloseProject(p) \/ ReopenProject(p)
          \/ \E c \in Cost : PurchaseService(p, c)

Next ==
    \/ /\ writes < MaxWrites
       /\ \/ StockNext \/ ProjectNext
          \/ \E k \in DOMAIN journals : ReverseByHand(k)
          \/ \E m \in Mode : UpdateInventoryProduct(m)
          \/ Commit
    \/ Abort

Spec == Init /\ [][Next]_vars

-----------------------------------------------------------------------------
(* Every row has the form of its table: no receipt, deduction or reversal  *)
(* has a negative quantity or value, and the debit notes of a purchase     *)
(* never give back more than it brought.                                   *)
TypeOK ==
    /\ mode \in Mode
    /\ open \subseteq Project
    /\ stock \in [Warehouse -> [AnyLot -> Held]]
    /\ moves \in Seq(Move) /\ bills \in Seq(Bill) /\ journals \in Seq(Journal)
    /\ \A b \in DOMAIN bills : bills[b].returned <= bills[b].quantity
    /\ unposted \in Int /\ roundings \in Nat
    /\ writes \in 0..MaxWrites

Balance(account) ==
    SumFunction([k \in {k \in DOMAIN journals : ~journals[k].byHand} |->
                    journals[k][account]])
ServicesCharged ==
    SumFunction([b \in {b \in DOMAIN bills : ~Physical(b)} |-> bills[b].total])
Unstocked ==
    SumFunction([b \in {b \in DOMAIN bills : Physical(b) /\ ~bills[b].goods}
                   |-> bills[b].total])

(* The accounts say what the goods are worth: PROJECT_MATERIAL_WIP is      *)
(* exactly the value of what the projects still hold, with the lines       *)
(* without stock charged to them.  INVENTORY_ASSET is the value of the     *)
(* stock, but for what was adjusted without a journal, what was allocated  *)
(* to it without stock, and at most a cent for each document of two lines, *)
(* whose cost is rounded once in the journal and row by row in the stock.  *)
(* It holds through rounded parts, returns, transfers back and forth and   *)
(* reversals in any order, whatever another transaction commits meanwhile  *)
(* and whenever the tracking mode changes.  What an accountant reverses by *)
(* hand in the ledger is out of both accounts by exactly that journal.     *)
AccountsAgree ==
    /\ Balance("wip") = ServicesCharged
          + SumFunction([r \in Receipts |-> AvailableValue(r)])
    /\ Balance("inventory") + unposted
          - SumFunction([w \in Warehouse |-> ValueOf(w, NoLot)]) - Unstocked
          \in (-roundings)..roundings

Spent == {i \in DOMAIN moves :
    moves[i].kind \in {"CONSUMPTION", "RETURN_TO_VENDOR"} /\ ~Reversed(i)}

(* No goods are made or lost on the way between stock and projects: what   *)
(* left the warehouses is at a project, used up or back at the vendor; a   *)
(* receipt never gives more than came in, and when it has given all it has *)
(* no value left; and a named lot is never taken out of a warehouse that   *)
(* does not have it.                                                       *)
GoodsAccounted ==
    /\ SumFunction([w \in Warehouse |->
                       SumFunction([l \in AnyLot |-> stock[w][l].moved])])
         + SumFunction([r \in Receipts |-> Available(r)])
         + SumFunction([i \in Spent |-> moves[i].quantity]) = 0
    /\ \A r \in Receipts :
          /\ Available(r) \in 0..moves[r].quantity
          /\ AvailableValue(r) \in 0..moves[r].total
          /\ Available(r) = 0 => AvailableValue(r) = 0
    /\ \A w \in Warehouse, l \in Lot : QuantityOf(w, l) >= 0
=============================================================================
