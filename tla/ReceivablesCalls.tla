-------------------------- MODULE ReceivablesCalls ----------------------------
(***************************************************************************)
(* The transactions of Receivables as relations between books, the single  *)
(* calls they are composed of, and what calls and transactions keep.  The  *)
(* theorems about these are in ReceivablesProofs: every step of the        *)
(* specification is a Step, every Step is a sequence of Moves, and what no *)
(* Move leaves, no Step leaves.                                            *)
(***************************************************************************)
EXTENDS Receivables

-----------------------------------------------------------------------------
(* Single calls.                                                           *)

\* one advance applied to invoice d, by AppliedAll
ApplyStep(c, s, d) ==
    LET amount == Lesser(c.settlements[s].remaining, Outstanding(c, d))
    IN  IF amount > 0 THEN Applied(c, s, d, amount) ELSE c

\* one receipt of invoice d released, by PaymentsReleased
ReceiptStep(c, s, b, d) ==
    Credit(c, <<"RECEIPT", s, d>>, b.settlements[s].allocations[d].amount,
           b.settlements[s].allocations[d].discount)

\* one application released, by PaymentsReleased
ApplicationStep(c, a, b) ==
    Credit(c, <<"APPLICATION", a>>, b.applications[a].amount, 0)

\* one return carried to the replacement, by ReturnsCarried
CarryStep(acc, n, replacement) ==
    LET available == Available(acc.books, n)
        applied == Lesser(acc.left, available)
        carried == [acc.books EXCEPT !.carries = Append(@,
                       [note |-> n, invoice |-> replacement,
                        available |-> available, applied |-> applied])]
    IN  [books |-> ExcessCredited(carried, Len(carried.carries)),
         left |-> acc.left - applied]

\* the books when invoice number Len + 1 has been posted, the payments not
\* linked yet
InvoiceEntered(b, total, previous) ==
    Journal([b EXCEPT !.invoices = Append(@,
                [total |-> total, reversals |-> 0, state |-> "LIVE",
                 correction |-> 0, previous |-> previous])],
            total, 0, 0, -total)

\* the books when row d of the invoices has been exchanged, and an amount
\* entered
InvoiceSet(b, d, row, amount) ==
    Journal([b EXCEPT !.invoices = [b.invoices EXCEPT ![d] = row]],
            amount, 0, 0, -amount)

NoteSet(b, n, row, amount) ==
    Journal([b EXCEPT !.notes = [b.notes EXCEPT ![n] = row]],
            amount, 0, 0, -amount)

\* the books when cheque q has got another status
ChequeSet(b, q, status) ==
    [b EXCEPT !.cheques = [b.cheques EXCEPT ![q].status = status]]

\* the settlements when an amount of advance s has been applied
AdvanceDrawn(b, s, amount) ==
    [b.settlements EXCEPT ![s].remaining = @ - amount]

PostedRow(row) ==
    [row EXCEPT !.status = "POSTED",
                !.remaining = IF row.type = "CUSTOMER_ADVANCE" THEN row.amount
                                                               ELSE 0]

ReversedRow(row) == [row EXCEPT !.status = "REVERSED", !.remaining = 0]

\* the applications an advance's reversal takes back
UndoneWith(b, s) ==
    {a \in DOMAIN b.applications :
        /\ b.applications[a].advance = s
        /\ b.applications[a].journal = "POSTED"}

WithoutApplications(b, s) ==
    [a \in DOMAIN b.applications |->
        IF a \in UndoneWith(b, s)
        THEN [b.applications[a] EXCEPT !.journal = "REVERSED"]
        ELSE b.applications[a]]

CarryRow(b, n, replacement, applied) ==
    [note |-> n, invoice |-> replacement, available |-> Available(b, n),
     applied |-> applied]

-----------------------------------------------------------------------------
(* What books are, and what no step undoes.                                *)

BooksType ==
    [invoices : Seq(Invoice), notes : Seq(Note), settlements : Seq(Settlement),
     applications : Seq(Application), carries : Seq(Carry),
     cheques : Seq(Cheque), accounts : [Account -> Int]]

\* the tables of r are those of b, but for the accounts and the tables in K
SameBut(r, b, K) ==
    /\ "invoices" \notin K => r.invoices = b.invoices
    /\ "notes" \notin K => r.notes = b.notes
    /\ "settlements" \notin K => r.settlements = b.settlements
    /\ "applications" \notin K => r.applications = b.applications
    /\ "carries" \notin K => r.carries = b.carries
    /\ "cheques" \notin K => r.cheques = b.cheques

\* the debit balance of what the customer owes
Due(b) == b.accounts["ACCOUNTS_RECEIVABLE"] + b.accounts["CUSTOMER_ADVANCES"]

\* the rows x and y of settlements are of one payment
SameRow(x, y) ==
    /\ x.type = y.type /\ x.amount = y.amount
    /\ x.allocations = y.allocations
    /\ x.origin = y.origin /\ x.cheque = y.cheque

\* r has all rows of b, and what never changes in them
Kept(b, r) ==
    /\ \A s \in DOMAIN b.settlements :
            /\ s \in DOMAIN r.settlements
            /\ SameRow(b.settlements[s], r.settlements[s])
    /\ \A a \in DOMAIN b.applications :
            /\ a \in DOMAIN r.applications
            /\ r.applications[a].advance = b.applications[a].advance
            /\ r.applications[a].document = b.applications[a].document
            /\ r.applications[a].amount = b.applications[a].amount
    /\ \A c \in DOMAIN b.carries :
            c \in DOMAIN r.carries /\ r.carries[c] = b.carries[c]
    /\ \A n \in DOMAIN b.notes :
            /\ n \in DOMAIN r.notes
            /\ r.notes[n].source = b.notes[n].source
            /\ r.notes[n].total = b.notes[n].total
    /\ \A d \in DOMAIN b.invoices :
            /\ d \in DOMAIN r.invoices
            /\ r.invoices[d].total = b.invoices[d].total
    /\ Len(b.cheques) <= Len(r.cheques)

\* the rows the origin of a credit names
OriginLinked(b, from) ==
    /\ from[1] = "RECEIPT" => /\ from[2] \in DOMAIN b.settlements
                              /\ from[3] \in DOMAIN b.settlements[from[2]].allocations
    /\ from[1] = "APPLICATION" => from[2] \in DOMAIN b.applications
    /\ from[1] = "RETURN" => from[2] \in DOMAIN b.carries

RowLinked(b, row) ==
    /\ row.cheque \in 0..Len(b.cheques)
    /\ DOMAIN row.allocations \subseteq DOMAIN b.invoices
    /\ \A d \in DOMAIN row.allocations :
            row.allocations[d].discount < row.allocations[d].amount
    /\ row.type = "CUSTOMER_ADVANCE" => DOMAIN row.allocations = {}
    /\ row.type = "CUSTOMER_RECEIPT" => row.amount = Sum(row.allocations)
    /\ row.origin # <<>> => /\ row.cheque = 0
                            /\ row.type = "CUSTOMER_ADVANCE"
                            /\ OriginLinked(b, row.origin)

RowStatus(row) ==
    /\ row.origin # <<>> => row.status = "POSTED"
    /\ row.status # "POSTED" => row.remaining = 0
    /\ row.type = "CUSTOMER_RECEIPT" => row.remaining = 0

ApplicationLinked(b, row) ==
    /\ row.advance \in DOMAIN b.settlements
    /\ b.settlements[row.advance].type = "CUSTOMER_ADVANCE"
    /\ row.document \in DOMAIN b.invoices

ChequeLinked(b, q) ==
    /\ b.cheques[q].settlement \in DOMAIN b.settlements
    /\ b.settlements[b.cheques[q].settlement].cheque = q

Linked(b) ==
    /\ \A s \in DOMAIN b.settlements :
            RowLinked(b, b.settlements[s]) /\ RowStatus(b.settlements[s])
    /\ \A a \in DOMAIN b.applications : ApplicationLinked(b, b.applications[a])
    /\ \A n \in DOMAIN b.notes : b.notes[n].source \in DOMAIN b.invoices
    /\ \A c \in DOMAIN b.carries : b.carries[c].note \in DOMAIN b.notes
    /\ \A q \in DOMAIN b.cheques : ChequeLinked(b, q)

CarriesOf(b, n) == {c \in DOMAIN b.carries : b.carries[c].note = n}

\* the last carry of a note and what became advances make up the note
HonouredNote(b, n) ==
    CarriesOf(b, n) # {} =>
        \E last \in CarriesOf(b, n) :
            /\ \A c \in CarriesOf(b, n) : c <= last
            /\ b.carries[last].applied + ExcessOf(b, n) = b.notes[n].total

Honoured(b) == \A n \in DOMAIN b.notes : HonouredNote(b, n)

Sound(b) == b \in BooksType /\ Linked(b) /\ Honoured(b)

\* r has the cheques of b, and payments change their status in neither way
Steady(b, r) ==
    /\ r.cheques = b.cheques
    /\ \A s \in DOMAIN b.settlements :
            r.settlements[s].status = b.settlements[s].status
    /\ \A s \in DOMAIN r.settlements \ DOMAIN b.settlements :
            r.settlements[s].cheque = 0

Onto(b, r) == Sound(r) /\ Kept(b, r) /\ Steady(b, r)

-----------------------------------------------------------------------------
(* Tables of what counts on a document.                                    *)

Amounts(b) == [s \in DOMAIN b.settlements |-> b.settlements[s].amount]

Total(f) == SumFunctionOnSet(f, DOMAIN f)

\* what settlement s pays of document d, and gives in discount on it
PaidBy(b, d) ==
    [s \in DOMAIN b.settlements |->
        IF s \in EffectiveAllocations(b, d)
        THEN b.settlements[s].allocations[d].amount ELSE 0]

GivenBy(b, d) ==
    [s \in DOMAIN b.settlements |->
        IF s \in EffectiveAllocations(b, d)
        THEN b.settlements[s].allocations[d].discount ELSE 0]

UsedBy(b, d) ==
    [a \in DOMAIN b.applications |->
        IF a \in EffectiveApplications(b, d) THEN b.applications[a].amount ELSE 0]

NotedBy(b, d) ==
    [n \in DOMAIN b.notes |->
        IF n \in NotesOf(b, d) \cap PostedNotes(b) THEN b.notes[n].total ELSE 0]

CarriedBy(b, d) ==
    [c \in DOMAIN b.carries |->
        IF c \in CarriesTo(b, d) THEN b.carries[c].applied ELSE 0]

\* all payments of an invoice have been released
NothingPaid(b, d) ==
    EffectiveAllocations(b, d) = {} /\ EffectiveApplications(b, d) = {}

PaidOff(b, d) ==
    [s \in EffectiveAllocations(b, d) |-> b.settlements[s].allocations[d].amount]

UsedUp(b, d) ==
    [a \in EffectiveApplications(b, d) |-> b.applications[a].amount]

NotesThatCount(b, d) == NotesOf(b, d) \cap PostedNotes(b)

-----------------------------------------------------------------------------
(* The calls transactions are made of.                                     *)

\* the row of a payment that may be recorded, of cheque q or of none
Offered(b, row, q) ==
    \E type \in {"CUSTOMER_RECEIPT", "CUSTOMER_ADVANCE"}, amount \in Nat \ {0},
       allocations \in AllocationTable :
        /\ row = Pending(type, amount, allocations, q)
        /\ DOMAIN allocations \subseteq DOMAIN b.invoices
        /\ \A d \in DOMAIN allocations :
                allocations[d].discount < allocations[d].amount
        /\ type = "CUSTOMER_ADVANCE" => DOMAIN allocations = {}
        /\ type = "CUSTOMER_RECEIPT" => amount = Sum(allocations)

\* r are books b with one more settlement that is pending
Recorded(b, r, row) ==
    /\ r \in BooksType
    /\ SameBut(r, b, {"settlements", "cheques"})
    /\ Due(r) = Due(b)
    /\ r.settlements = Append(b.settlements, row)
    /\ Len(b.cheques) <= Len(r.cheques)
    /\ \A q \in DOMAIN r.cheques : ChequeLinked(r, q)
    /\ row.cheque \in 0..Len(r.cheques)
    /\ Offered(b, row, row.cheque)

\* the lines that a reversal of a document's journal enters, its sign apart
Flip(doc) == IF InForce(doc) THEN -doc.total ELSE doc.total

Turn(doc) == [doc EXCEPT !.reversals = @ + 1]

\* sale d may be retired: nothing is paid for it, and either its journal has
\* been reversed, its returns being carried, or a note credits all of it
Retirable(b, d, correction) ==
    /\ NothingPaid(b, d)
    /\ \/ correction = 0 /\ b.invoices[d].reversals = 1
       \/ /\ correction \in DOMAIN b.notes
          /\ Posted(b.invoices[d]) /\ Posted(b.notes[correction])
          /\ b.notes[correction].source = d
          /\ b.notes[correction].total = b.invoices[d].total

InvoiceMove(b, r) ==
    \E d \in DOMAIN b.invoices :
        /\ b.invoices[d].state = "LIVE"
        /\ \/ \E state \in {"CANCELLED", "REVISED"}, correction \in Nat :
                 /\ Retirable(b, d, correction)
                 /\ r = InvoiceSet(b, d,
                           [b.invoices[d] EXCEPT !.state = state,
                                                 !.correction = correction], 0)
           \/ /\ b.invoices[d].reversals <= MaxReversals
              /\ r = InvoiceSet(b, d, Turn(b.invoices[d]), Flip(b.invoices[d]))

NoteMove(b, r) ==
    \/ \E d \in DOMAIN b.invoices, amount \in Amount :
          NoteAccepted(b, d, amount) /\ r = NotePosted(b, d, amount)
    \/ \E n \in DOMAIN b.notes :
          /\ b.notes[n].reversals <= MaxReversals
          /\ \A d \in DOMAIN b.invoices : b.invoices[d].correction # n
          /\ \A c \in DOMAIN b.carries : b.carries[c].note # n
          /\ r = NoteSet(b, n, Turn(b.notes[n]), -Flip(b.notes[n]))

\* what has been carried to a new invoice is no more than its total
EntryMove(b, r) ==
    \E total \in Amount, previous \in Nat :
        /\ Carried(b, Len(b.invoices) + 1) <= total
        /\ r = InvoiceEntered(b, total, previous)

\* payments come from the customer, and go back to him
PaymentMove(b, r) ==
    \/ \E row : Recorded(b, r, row)
    \/ \E s \in DOMAIN b.settlements :
          /\ b.settlements[s].status = "PENDING_CHEQUE"
          /\ AllocationsAccepted(b, b.settlements[s].allocations)
          /\ r = SettlementPosted(b, s)
    \/ \E s \in DOMAIN b.settlements :
          /\ b.settlements[s].status = "POSTED"
          /\ b.settlements[s].origin = <<>>
          /\ ~Reclassified(b, s)
          /\ r = SettlementReversed(b, s)
    \/ \E q \in DOMAIN b.cheques,
          status \in {"RECEIVED", "CLEARED", "BOUNCED", "CANCELLED"} :
          r = ChequeSet(b, q, status)

\* payments are released from documents and applied to others
ReleaseMove(b, r) ==
    \/ \E d : \E s \in EffectiveAllocations(b, d) : r = ReceiptStep(b, s, b, d)
    \/ \E d : \E a \in EffectiveApplications(b, d) : r = ApplicationStep(b, a, b)

ApplyMove(b, r) ==
    \E s \in DOMAIN b.settlements, d \in DOMAIN b.invoices, amount \in Nat \ {0} :
        /\ b.settlements[s].type = "CUSTOMER_ADVANCE"
        /\ b.settlements[s].status = "POSTED"
        /\ amount <= b.settlements[s].remaining
        /\ amount <= Outstanding(b, d)
        /\ r = Applied(b, s, d, amount)

\* returns are carried to the invoice that is to be entered next
CarryMove(b, r) ==
    \E left \in Nat, n \in DOMAIN b.notes :
        r = CarryStep([books |-> b, left |-> left], n, Len(b.invoices) + 1).books

\* the calls that leave the carries as they are
PlainMove(b, r) ==
    \/ ReleaseMove(b, r)
    \/ ApplyMove(b, r)
    \/ NoteMove(b, r)
    \/ EntryMove(b, r)
    \/ InvoiceMove(b, r)
    \/ PaymentMove(b, r)

Move(b, r) == PlainMove(b, r) \/ CarryMove(b, r)

\* no call leads out of X
Within(X) == \A b \in X : \A r : Sound(b) /\ Move(b, r) => r \in X

\* only the carrying of returns leads out of X
PlainWithin(X) == \A b \in X : \A r : Sound(b) /\ PlainMove(b, r) => r \in X

\* No call but the posting of a payment and the application of an advance
\* makes a payment count.
OtherMove(b, r) ==
    \/ ReleaseMove(b, r) \/ NoteMove(b, r) \/ EntryMove(b, r)
    \/ InvoiceMove(b, r) \/ CarryMove(b, r)
    \/ \E row : Recorded(b, r, row)
    \/ \E s \in DOMAIN b.settlements :
          /\ b.settlements[s].status = "POSTED"
          /\ b.settlements[s].origin = <<>>
          /\ ~Reclassified(b, s)
          /\ r = SettlementReversed(b, s)
    \/ \E q \in DOMAIN b.cheques,
          status \in {"RECEIVED", "CLEARED", "BOUNCED", "CANCELLED"} :
          r = ChequeSet(b, q, status)

PostMove(b, r) ==
    \E s \in DOMAIN b.settlements :
        /\ b.settlements[s].status = "PENDING_CHEQUE"
        /\ AllocationsAccepted(b, b.settlements[s].allocations)
        /\ r = SettlementPosted(b, s)

-----------------------------------------------------------------------------
(* The transactions.                                                       *)

\* the invoices that Allocations offers are the posted ones
RowOffered(b, type, amount, allocations) ==
    \/ /\ type = "CUSTOMER_RECEIPT"
       /\ allocations \in UNION {[D -> [amount: Amount, discount: Discount]] :
                                    D \in (SUBSET (DOMAIN b.invoices)) \ {{}}}
       /\ amount = Sum(allocations)
    \/ type = "CUSTOMER_ADVANCE" /\ allocations = <<>> /\ amount \in Amount

WithPayment(b, row) == [b EXCEPT !.settlements = Append(@, row)]

WithCheque(b, row) ==
    [b EXCEPT !.settlements = Append(@, row),
              !.cheques = Append(@, [status |-> "RECEIVED",
                                     settlement |-> Len(b.settlements) + 1])]

PaymentStep(b, r) ==
    \E type \in {"CUSTOMER_RECEIPT", "CUSTOMER_ADVANCE"} : \E amount, allocations :
        /\ RowOffered(b, type, amount, allocations)
        /\ AllocationsAccepted(b, allocations)
        /\ \/ r = SettlementPosted(WithPayment(b, Pending(type, amount, allocations, 0)),
                                   Len(b.settlements) + 1)
           \/ r = WithCheque(b, Pending(type, amount, allocations,
                                        Len(b.cheques) + 1))

ClearStep(b, r) ==
    \E q \in DOMAIN b.cheques :
        LET c == Presented(b, q)
            s == c.cheques[q].settlement
        IN  /\ b.cheques[q].status = "RECEIVED"
            /\ c.settlements[s].status = "PENDING_CHEQUE"
            /\ AllocationsAccepted(c, c.settlements[s].allocations)
            /\ r = [SettlementPosted(c, s) EXCEPT !.cheques[q].status = "CLEARED"]

ReturnStep(b, r) ==
    \E q \in DOMAIN b.cheques, status \in {"RECEIVED", "BOUNCED", "CANCELLED"} :
        /\ b.settlements[b.cheques[q].settlement].status = "POSTED" =>
                ~Reclassified(b, b.cheques[q].settlement)
        /\ r = [Returned(b, q) EXCEPT !.cheques[q].status = status]

CancelStep(b, r) ==
    \E d \in DOMAIN b.invoices :
        /\ Editable(b, d, FALSE)
        /\ CreditAccepted(b, d)
        /\ LET c == WhollyCredited(b, d)
           IN  r = [c EXCEPT !.invoices[d].state = "CANCELLED",
                             !.invoices[d].correction = Len(c.notes)]

ReplaceStep(b, r) ==
    \E d \in DOMAIN b.invoices, total \in Amount, link \in BOOLEAN :
        /\ Editable(b, d, TRUE)
        /\ RetainedReturns(b, d) = {} => CreditAccepted(b, d)
        /\ LET replacement == Len(b.invoices) + 1
               posted == InvoicePosted(Undone(b, d, replacement, total),
                                       total, d, link)
               family == Family(b, d) \cup {replacement}
           IN  r = AppliedAll(posted, FamilyCredits(posted, family), replacement)

\* a reversal by hand, of a document that nothing pins
ReverseStep(b, r) ==
    \/ \E d \in DOMAIN b.invoices :
          /\ b.invoices[d].reversals < MaxReversals
          /\ b.invoices[d].state = "LIVE"
          /\ \A c \in DOMAIN b.carries : b.carries[c].invoice # d
          /\ r = InvoiceSet(b, d, Turn(b.invoices[d]), Flip(b.invoices[d]))
    \/ \E n \in DOMAIN b.notes :
          /\ b.notes[n].reversals < MaxReversals
          /\ \A d \in DOMAIN b.invoices : b.invoices[d].correction # n
          /\ \A c \in DOMAIN b.carries : b.carries[c].note # n
          /\ r = NoteSet(b, n, Turn(b.notes[n]), -Flip(b.notes[n]))

Step(b, r) ==
    \/ \E total \in Amount, link \in BOOLEAN : r = InvoicePosted(b, total, 0, link)
    \/ \E d \in DOMAIN b.invoices, amount \in Amount :
          NoteAccepted(b, d, amount) /\ r = NotePosted(b, d, amount)
    \/ PaymentStep(b, r)
    \/ \E s \in DOMAIN b.settlements, d \in DOMAIN b.invoices, amount \in Amount :
          ApplicationAccepted(b, s, d, amount) /\ r = Applied(b, s, d, amount)
    \/ CancelStep(b, r)
    \/ ReplaceStep(b, r)
    \/ ReverseStep(b, r)
    \/ ClearStep(b, r)
    \/ ReturnStep(b, r)

-----------------------------------------------------------------------------
(* What the calls and the transactions keep.                               *)

\* a sale is not corrected while it is live
Uncorrected(b) ==
    \A d \in DOMAIN b.invoices :
        b.invoices[d].state = "LIVE" => b.invoices[d].correction = 0

\* nor does a carry name an invoice before it is entered
Tidy(b) ==
    /\ \A c \in DOMAIN b.carries : b.carries[c].invoice \in DOMAIN b.invoices
    /\ Uncorrected(b)

\* The number of invoices is bounded, so that the documents a payment names
\* are among those of the allocation tables.
IInv == Sound(Books) /\ Tidy(Books) /\ Len(invoices) <= MaxInvoices

\* the payment of cheque q counts just while q is cleared, and it is the one
\* that q was last presented for
ChequeCounts(b, q) ==
    \A s \in DOMAIN b.settlements : b.settlements[s].cheque = q =>
        (Effective(b, s) <=> /\ b.cheques[q].status = "CLEARED"
                             /\ s = b.cheques[q].settlement)

ChequesCount(b) == \A q \in DOMAIN b.cheques : ChequeCounts(b, q)

\* the totals of the documents in the ledger
InForceTotals(docs) ==
    [i \in DOMAIN docs |-> IF InForce(docs[i]) THEN docs[i].total ELSE 0]

\* the value of one payment in these totals
Received1(row) ==
    IF row.status = "POSTED" /\ row.origin = <<>>
    THEN row.amount + DiscountOf(row) ELSE 0

\* the payments that the customer made, with the discounts given on them
ReceivedBy(t) ==
    [s \in DOMAIN t |-> IF t[s].status = "POSTED" /\ t[s].origin = <<>>
                        THEN t[s].amount + DiscountOf(t[s]) ELSE 0]

\* the row a receipt's credit is made of, and the discount on it
TakenLinked(t, row) ==
    row.origin # <<>> /\ row.origin[1] = "RECEIPT" =>
        /\ row.origin[2] \in DOMAIN t
        /\ row.origin[3] \in DOMAIN t[row.origin[2]].allocations

Taken1(t, row) ==
    IF row.origin # <<>> /\ row.origin[1] = "RECEIPT"
    THEN t[row.origin[2]].allocations[row.origin[3]].discount ELSE 0

\* the discounts taken back with the payments they were given on
TakenBy(t) ==
    [s \in DOMAIN t |->
        IF t[s].origin # <<>> /\ t[s].origin[1] = "RECEIPT"
        THEN t[t[s].origin[2]].allocations[t[s].origin[3]].discount ELSE 0]

Balanced(b) ==
    Due(b) = Total(InForceTotals(b.invoices)) - Total(InForceTotals(b.notes))
             - Total(ReceivedBy(b.settlements)) + Total(TakenBy(b.settlements))

\* the advance of an application that stands is posted: its reversal would
\* have reversed the application
Running(b) ==
    \A a \in DOMAIN b.applications :
        b.applications[a].journal = "POSTED" =>
            Effective(b, b.applications[a].advance)

\* what has been retired could be retired again
NetsZero(b) ==
    \A d \in DOMAIN b.invoices :
        b.invoices[d].state # "LIVE" => Retirable(b, d, b.invoices[d].correction)

\* no document is below zero
NoneOverpaid(b) == \A d \in DOMAIN b.invoices : BatchOutstanding(b, d) >= 0

HeldRow(b, t) ==
    [d \in DOMAIN b.settlements[t].allocations |->
        IF Effective(b, t) /\ ~Released(b, <<"RECEIPT", t, d>>)
        THEN b.settlements[t].allocations[d].amount
               - b.settlements[t].allocations[d].discount
        ELSE 0]

DrawnRow(b, t) ==
    [a \in DOMAIN b.applications |->
        IF /\ b.applications[a].advance = t
           /\ b.applications[a].journal = "POSTED"
           /\ ~Released(b, <<"APPLICATION", a>>)
        THEN b.applications[a].amount ELSE 0]

\* the payment a credit took its money from, 0 for none
SourceOf(b, from) ==
    CASE from # <<>> /\ from[1] = "RECEIPT" -> from[2]
      [] from # <<>> /\ from[1] = "APPLICATION" -> b.applications[from[2]].advance
      [] OTHER -> 0

MovedRow(b, t) ==
    [u \in DOMAIN b.settlements |->
        IF SourceOf(b, b.settlements[u].origin) = t
        THEN b.settlements[u].amount ELSE 0]

Held(b, t) == Total(HeldRow(b, t))

Drawn(b, t) == Total(DrawnRow(b, t))

Moved(b, t) == Total(MovedRow(b, t))

PlacedRow(b, t) ==
    (IF Effective(b, t) THEN b.settlements[t].amount ELSE 0)
    = b.settlements[t].remaining + Held(b, t) + Drawn(b, t) + Moved(b, t)

Placed(b) == \A t \in DOMAIN b.settlements : PlacedRow(b, t)

\* no payment is released from a document twice
ReleasedOnce(b) ==
    \A u \in DOMAIN b.settlements, v \in DOMAIN b.settlements :
        /\ b.settlements[u].origin # <<>>
        /\ b.settlements[u].origin[1] = "RECEIPT"
        /\ b.settlements[v].origin = b.settlements[u].origin
        => u = v

\* an invoice replaces an earlier one, or none
ReplacesEarlier(b) ==
    \A d \in DOMAIN b.invoices : b.invoices[d].previous \in 0..(d - 1)

\* A carry is of a posted return, of a sale whose journal its revision has
\* reversed.  The last carry of the return is on a posted sale, unless it has
\* applied nothing and that sale was revised too; an earlier carry is on a
\* sale that is no longer live.
CarryStands(b, c) ==
    LET row == b.carries[c]
        later == {e \in CarriesOf(b, row.note) : e > c}
    IN  /\ Posted(b.notes[row.note])
        /\ b.invoices[b.notes[row.note].source].state # "LIVE"
        /\ ~Posted(b.invoices[b.notes[row.note].source])
        /\ IF b.invoices[row.invoice].state = "LIVE"
           THEN Posted(b.invoices[row.invoice]) /\ later = {}
           ELSE row.applied = 0 \/ later # {}

\* and every return of a sale whose journal its revision has reversed has been
\* carried
ReturnsStand(b) ==
    /\ \A c \in DOMAIN b.carries : CarryStands(b, c)
    /\ \A n \in PostedNotes(b) :
        LET source == b.invoices[b.notes[n].source]
        IN  source.state # "LIVE" /\ ~Posted(source) => CarriesOf(b, n) # {}

\* what has been paid and noted on the live sales whose journal was reversed
StrandedOn(b) ==
    SumFunction([d \in Live(b) \ PostedInvoices(b) |-> Paid(b, d) + Noted(b, d)])
===============================================================================
