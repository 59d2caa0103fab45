----------------------------- MODULE Receivables ------------------------------
(***************************************************************************)
(* What one customer of one branch owes: the posting of sales invoices and *)
(* credit notes, receipts, advances, cheques, and the correction of posted *)
(* sales, from src/lib/account (commercial.ts, settlement-policy.ts,       *)
(* cheque-finance.ts, receipt-advance-credit.ts, sale-amendments.ts,       *)
(* sale-return-revisions.ts) with the database triggers that guard them.   *)
(*                                                                         *)
(* Every operation is one SERIALIZABLE transaction that is retried when it *)
(* conflicts, so it is one step here.  A transaction made of several calls *)
(* is the composition of operators from books to books (a record of all    *)
(* tables); a guard of a later call is evaluated on the books the earlier  *)
(* calls left, and its failure rolls the whole step back.                  *)
(*                                                                         *)
(* Dates, years, taxes and stock are left out: all amounts are payable     *)
(* amounts, and every request is one that the period and stock rules admit.*)
(* A draft has no effect on any balance, so a posting action stands for a  *)
(* draft of any amount being posted.                                       *)
(***************************************************************************)
EXTENDS Integers, Sequences, FiniteSets, FiniteSetsExt, Folds, Functions

CONSTANTS
    Amount,         \* the amounts a document or a payment may have
    Discount,       \* the discounts a receipt may give on an allocation
    MaxSales,       \* bound on the sales entered, their replacements aside
    MaxInvoices, MaxNotes, MaxSettlements, MaxApplications, MaxCheques,
    MaxReversals,   \* bound on the reversals of one document's journal
    MaxRecords      \* bound on all rows and reversals together

ASSUME ReceivablesConstants ==
    /\ Amount \subseteq Nat \ {0}
    /\ Discount \subseteq Nat
    /\ {MaxSales, MaxInvoices, MaxNotes, MaxSettlements, MaxApplications,
        MaxCheques, MaxReversals, MaxRecords} \subseteq Nat

VARIABLES
    invoices,       \* posted SALES_INVOICE documents
    notes,          \* posted CREDIT_NOTE documents
    settlements,    \* account_settlements with their allocations
    applications,   \* advance_applications
    carries,        \* sale_revision_credits of the return revisions
    cheques,        \* cheques received from the customer
    accounts        \* debit balance of each ledger account

vars == <<invoices, notes, settlements, applications, carries, cheques,
          accounts>>

Books == [invoices |-> invoices, notes |-> notes, settlements |-> settlements,
          applications |-> applications, carries |-> carries,
          cheques |-> cheques, accounts |-> accounts]

(* A document's journal and the reversals of it: 0 is the journal POSTED,  *)
(* 1 the journal REVERSED, 2 the reversal reversed in its turn, and so on. *)
(* The journal's own status stays REVERSED from 1 on.                      *)
Posted(doc) == doc.reversals = 0
InForce(doc) == doc.reversals % 2 = 0

Invoice == [total: Amount, reversals: 0..MaxReversals + 1,
            state: {"LIVE", "CANCELLED", "REVISED"},
            correction: Nat,    \* correction credit note, 0 for none
            previous: Nat]      \* the invoice it replaces, 0 for none
Note == [source: Nat, total: Amount, reversals: 0..MaxReversals + 1]
\* the allocations of a settlement, by document
AllocationTable ==
    UNION {[D -> [amount: Amount, discount: Discount]] :
              D \in SUBSET (1..MaxInvoices)}
\* where an ACCOUNT_CREDIT advance comes from; <<>> for money received
Origin == {<<>>} \cup ({"RECEIPT"} \X Nat \X Nat)
            \cup ({"APPLICATION"} \X Nat) \cup ({"RETURN"} \X Nat)
Settlement == [type: {"CUSTOMER_RECEIPT", "CUSTOMER_ADVANCE"},
               status: {"PENDING_CHEQUE", "POSTED", "REVERSED"},
               amount: Nat \ {0}, remaining: Nat,
               allocations: AllocationTable, origin: Origin, cheque: Nat]
Application == [advance: Nat, document: Nat, amount: Nat \ {0},
                journal: {"POSTED", "REVERSED"}]
Carry == [note: Nat, invoice: Nat, available: Nat, applied: Nat]
Cheque == [status: {"RECEIVED", "CLEARED", "BOUNCED", "CANCELLED"},
           settlement: Nat]
Account == {"ACCOUNTS_RECEIVABLE", "CUSTOMER_ADVANCES", "CASH",
            "SALES_INCOME"}

TypeOK ==
    /\ invoices \in Seq(Invoice)
    /\ notes \in Seq(Note)
    /\ settlements \in Seq(Settlement)
    /\ applications \in Seq(Application)
    /\ carries \in Seq(Carry)
    /\ cheques \in Seq(Cheque)
    /\ accounts \in [Account -> Int]

Init ==
    /\ invoices = <<>>
    /\ notes = <<>>
    /\ settlements = <<>>
    /\ applications = <<>>
    /\ carries = <<>>
    /\ cheques = <<>>
    /\ accounts = [a \in Account |-> 0]

Live(b) == {d \in DOMAIN b.invoices : b.invoices[d].state = "LIVE"}

\* the rows of all tables and the reversals by hand; a correction reverses
\* only the journal of an invoice it retires
Records(b) ==
    Len(b.invoices) + Len(b.notes) + Len(b.settlements)
    + Len(b.applications) + Len(b.cheques)
    + SumFunction([n \in DOMAIN b.notes |-> b.notes[n].reversals])
    + SumFunction([d \in Live(b) |-> b.invoices[d].reversals])

Room == Records(Books) < MaxRecords

Commit(b) ==
    /\ Len(b.invoices) <= MaxInvoices
    /\ Len(b.notes) <= MaxNotes
    /\ Len(b.settlements) <= MaxSettlements
    /\ Len(b.applications) <= MaxApplications
    /\ Len(b.cheques) <= MaxCheques
    /\ Records(b) <= MaxRecords
    /\ invoices' = b.invoices
    /\ notes' = b.notes
    /\ settlements' = b.settlements
    /\ applications' = b.applications
    /\ carries' = b.carries
    /\ cheques' = b.cheques
    /\ accounts' = b.accounts

-----------------------------------------------------------------------------
(* settlement-policy.ts: which payments count. *)

Lesser(m, n) == IF m <= n THEN m ELSE n

\* fold op over the numbers in S, the lowest (the oldest row) first
FoldOldestFirst(op(_, _), base, S) ==
    MapThenFoldSet(LAMBDA i, acc : op(acc, i), base, LAMBDA i : i,
                   LAMBDA T : Max(T), S)

\* EFFECTIVE_SETTLEMENT; the journal of a settlement follows its status,
\* because nothing but reverseSettlementInTx reverses it
Effective(b, s) == b.settlements[s].status = "POSTED"

\* a correction credit took the payment's money out of the document
Released(b, origin) ==
    \E s \in DOMAIN b.settlements : b.settlements[s].origin = origin

AllocationsDespiteRelease(b, d) ==
    {s \in DOMAIN b.settlements :
        d \in DOMAIN b.settlements[s].allocations /\ Effective(b, s)}

\* EFFECTIVE_DOCUMENT_ALLOCATION, the settlements allocated to document d
EffectiveAllocations(b, d) ==
    {s \in DOMAIN b.settlements :
        /\ d \in DOMAIN b.settlements[s].allocations
        /\ Effective(b, s)
        /\ ~Released(b, <<"RECEIPT", s, d>>)}

\* EFFECTIVE_ADVANCE_APPLICATION
EffectiveApplications(b, d) ==
    {a \in DOMAIN b.applications :
        /\ b.applications[a].document = d
        /\ Effective(b, b.applications[a].advance)
        /\ b.applications[a].journal = "POSTED"
        /\ ~Released(b, <<"APPLICATION", a>>)}

Paid(b, d) ==
    SumFunction([s \in EffectiveAllocations(b, d) |->
                    b.settlements[s].allocations[d].amount])
    + SumFunction([a \in EffectiveApplications(b, d) |->
                    b.applications[a].amount])

\* the discounts given on document d with the payments that count
DiscountsOn(b, d) ==
    SumFunction([s \in EffectiveAllocations(b, d) |->
                    b.settlements[s].allocations[d].discount])

NotesOf(b, d) == {n \in DOMAIN b.notes : b.notes[n].source = d}

PostedNotes(b) == {n \in DOMAIN b.notes : Posted(b.notes[n])}

Noted(b, d) ==
    SumFunction([n \in NotesOf(b, d) \cap PostedNotes(b) |-> b.notes[n].total])

CarriesTo(b, d) ==
    {c \in DOMAIN b.carries :
        b.carries[c].invoice = d /\ b.carries[c].note \in PostedNotes(b)}

Carried(b, d) == SumFunction([c \in CarriesTo(b, d) |-> b.carries[c].applied])

\* documentOutstandingsBatch, for a document
BatchOutstanding(b, d) ==
    b.invoices[d].total - Noted(b, d) - Carried(b, d) - Paid(b, d)

Retired(b, d) == ~Posted(b.invoices[d]) \/ b.invoices[d].state # "LIVE"

\* documentOutstandingInTx
Outstanding(b, d) == IF Retired(b, d) THEN 0 ELSE BatchOutstanding(b, d)

\* partyOutstanding, less the advances not yet applied
Owed(b) ==
    SumFunction([d \in DOMAIN b.invoices |-> Outstanding(b, d)])
    - SumFunction([s \in {s \in DOMAIN b.settlements : Effective(b, s)} |->
                      b.settlements[s].remaining])

\* money the customer handed over, credits made by corrections left out
Received(b) ==
    {s \in DOMAIN b.settlements :
        Effective(b, s) /\ b.settlements[s].origin = <<>>}

DiscountOf(settlement) ==
    SumFunction([d \in DOMAIN settlement.allocations |->
                    settlement.allocations[d].discount])

PostedInvoices(b) == {d \in DOMAIN b.invoices : Posted(b.invoices[d])}

PartyBalanceKeepingDiscounts(b) ==
    SumFunction([d \in PostedInvoices(b) |-> b.invoices[d].total])
    - SumFunction([n \in PostedNotes(b) |-> b.notes[n].total])
    - SumFunction([s \in Received(b) |-> b.settlements[s].amount
                                          + DiscountOf(b.settlements[s])])

\* the credits made of receipts: the discounts given on these no longer count
ReceiptCredits(b) ==
    {s \in DOMAIN b.settlements :
        /\ b.settlements[s].origin # <<>>
        /\ b.settlements[s].origin[1] = "RECEIPT"}

DiscountTakenBack(b, s) ==
    LET from == b.settlements[s].origin
    IN  b.settlements[from[2]].allocations[from[3]].discount

\* scopedPartyBalance, computed from documents and payments alone
PartyBalance(b) ==
    PartyBalanceKeepingDiscounts(b)
    + SumFunction([s \in ReceiptCredits(b) |-> DiscountTakenBack(b, s)])

-----------------------------------------------------------------------------
(* Single calls, as operators on the books. *)

\* postJournalInTx with a line of the given debit (or credit, if negative)
\* on each account; the four always add up to zero
Entered(balance, receivable, advances, cash, sales) ==
    [balance EXCEPT !["ACCOUNTS_RECEIVABLE"] = @ + receivable,
                    !["CUSTOMER_ADVANCES"] = @ + advances,
                    !["CASH"] = @ + cash,
                    !["SALES_INCOME"] = @ + sales]
Journal(b, receivable, advances, cash, sales) ==
    [b EXCEPT !.accounts = Entered(@, receivable, advances, cash, sales)]

Advance(amount, origin, cheque) ==
    [type |-> "CUSTOMER_ADVANCE", status |-> "POSTED", amount |-> amount,
     remaining |-> amount, allocations |-> <<>>, origin |-> origin,
     cheque |-> cheque]

ApplicationUncounted(b, s, d, amount) ==
    /\ b.settlements[s].type = "CUSTOMER_ADVANCE"
    /\ Effective(b, s)
    /\ amount <= Outstanding(b, d)

\* applyAdvanceForActor
ApplicationAccepted(b, s, d, amount) ==
    /\ b.settlements[s].type = "CUSTOMER_ADVANCE"
    /\ Effective(b, s)
    /\ amount > 0
    /\ amount <= b.settlements[s].remaining
    /\ amount <= Outstanding(b, d)

Applied(b, s, d, amount) ==
    Journal([b EXCEPT
               !.applications = Append(@, [advance |-> s, document |-> d,
                                  amount |-> amount, journal |-> "POSTED"]),
               !.settlements[s].remaining = @ - amount],
            -amount, amount, 0, 0)

\* apply the advances in S to invoice d, the oldest first, as far as they
\* and the outstanding amount reach
AppliedAll(b, S, d) ==
    FoldOldestFirst(
        LAMBDA c, s : LET amount == Lesser(c.settlements[s].remaining,
                                           Outstanding(c, d))
                      IN  IF amount > 0 THEN Applied(c, s, d, amount) ELSE c,
        b, S)

UnusedAdvances(b) ==
    {s \in DOMAIN b.settlements :
        /\ b.settlements[s].type = "CUSTOMER_ADVANCE"
        /\ Effective(b, s)
        /\ b.settlements[s].remaining > 0}

\* postCommercialDocumentForActor on an invoice; link is the preference
\* linkPayments, which applies the customer's unused advances
InvoicePosted(b, total, previous, link) ==
    LET entered == Journal(
            [b EXCEPT !.invoices = Append(@,
                [total |-> total, reversals |-> 0, state |-> "LIVE",
                 correction |-> 0, previous |-> previous])],
            total, 0, 0, -total)
    IN  IF link THEN AppliedAll(entered, UnusedAdvances(entered),
                                Len(entered.invoices))
                ELSE entered

NoteWithinTotal(b, d, amount) ==
    /\ Posted(b.invoices[d])
    /\ SumFunction([n \in NotesOf(b, d) |-> b.notes[n].total]) + amount
         <= b.invoices[d].total

\* assertAdjustmentWithinSource: the earlier notes count with their journal
\* reversed too
NoteAccepted(b, d, amount) ==
    /\ Posted(b.invoices[d])
    /\ SumFunction([n \in NotesOf(b, d) |-> b.notes[n].total]) + amount
         <= b.invoices[d].total
    /\ amount <= Outstanding(b, d)

NotePosted(b, d, amount) ==
    Journal([b EXCEPT !.notes = Append(@, [source |-> d, total |-> amount,
                                           reversals |-> 0])],
            -amount, 0, 0, amount)

AllocationsAccepted(b, allocations) ==
    \A d \in DOMAIN allocations :
        /\ allocations[d].discount < allocations[d].amount
        /\ allocations[d].amount <= Outstanding(b, d)

\* what createSettlementForActor stores before anything is posted
Pending(type, amount, allocations, cheque) ==
    [type |-> type, status |-> "PENDING_CHEQUE", amount |-> amount,
     remaining |-> 0, allocations |-> allocations, origin |-> <<>>,
     cheque |-> cheque]

\* createSettlementForActor, the journal of settlement s and its posting
SettlementPosted(b, s) ==
    LET row == b.settlements[s]
        advance == row.type = "CUSTOMER_ADVANCE"
        given == DiscountOf(row)
    IN  Journal([b EXCEPT
                   !.settlements[s] =
                      [row EXCEPT !.status = "POSTED",
                                  !.remaining = IF advance THEN row.amount
                                                           ELSE 0]],
                IF advance THEN 0 ELSE -(row.amount + given),
                IF advance THEN -row.amount ELSE 0,
                row.amount, given)

\* reverseJournalInTx refuses a payment some of whose money a correction
\* has reclassified (RECEIPT_HAS_ADVANCE_CREDIT)
Reclassified(b, s) ==
    \E origin \in {b.settlements[t].origin : t \in DOMAIN b.settlements} \
                      {<<>>} :
        \/ origin[1] = "RECEIPT" /\ origin[2] = s
        \/ origin[1] = "APPLICATION" /\ b.applications[origin[2]].advance = s

\* reverseSettlementInTx: the applications of an advance, then the payment
SettlementReversed(b, s) ==
    LET row == b.settlements[s]
        given == DiscountOf(row)
        undone == {a \in DOMAIN b.applications :
                     /\ b.applications[a].advance = s
                     /\ b.applications[a].journal = "POSTED"}
        applied == SumFunction([a \in undone |-> b.applications[a].amount])
    IN  Journal([b EXCEPT
                   !.applications = [a \in DOMAIN @ |->
                       IF a \in undone THEN [@[a] EXCEPT !.journal =
                                               "REVERSED"] ELSE @[a]],
                   !.settlements[s] = [row EXCEPT !.status = "REVERSED",
                                                  !.remaining = 0]],
                IF row.type = "CUSTOMER_RECEIPT" THEN row.amount + given
                                                 ELSE applied,
                IF row.type = "CUSTOMER_RECEIPT" THEN 0
                                                 ELSE row.amount - applied,
                -row.amount, -given)

CreditKeepingDiscount(b, origin, gross, given) ==
    Journal([b EXCEPT !.settlements = Append(@, Advance(gross, origin, 0))],
            gross, -gross, 0, 0)

\* correctionCreditInTx: the money of an allocation or an application becomes
\* an advance of its own; a discount given with it is taken back
Credit(b, origin, gross, given) ==
    Journal([b EXCEPT !.settlements =
                        Append(@, Advance(gross - given, origin, 0))],
            gross, given - gross, 0, -given)

\* creditInTx and replacePostedSaleForActor: release all payments of invoice d
PaymentsReleased(b, d) ==
    LET receipts == FoldOldestFirst(
            LAMBDA c, s : LET row == b.settlements[s].allocations[d]
                          IN  Credit(c, <<"RECEIPT", s, d>>, row.amount,
                                     row.discount),
            b, EffectiveAllocations(b, d))
    IN  FoldOldestFirst(
            LAMBDA c, a : Credit(c, <<"APPLICATION", a>>,
                                 b.applications[a].amount, 0),
            receipts, EffectiveApplications(b, d))

\* retainedSaleReturnsInTx
RetainedReturns(b, d) ==
    {n \in DOMAIN b.notes :
        \/ b.notes[n].source = d /\ Posted(b.notes[n])
        \/ \E c \in DOMAIN b.carries :
             b.carries[c].note = n /\ b.carries[c].invoice = d}

\* the advances that the carries of note n were turned into
ReturnCredits(b, n) ==
    {s \in DOMAIN b.settlements :
        LET from == b.settlements[s].origin
        IN  /\ from # <<>>
            /\ from[1] = "RETURN"
            /\ b.carries[from[2]].note = n}

ExcessOf(b, n) ==
    SumFunction([s \in ReturnCredits(b, n) |-> b.settlements[s].amount])

\* what of a note has not been turned into an advance by earlier revisions
Available(b, n) == b.notes[n].total - ExcessOf(b, n)

ExcessForgotten(b, c) == b

\* excessReturnAdvanceInTx
ExcessCredited(b, c) ==
    LET excess == b.carries[c].available - b.carries[c].applied
    IN  IF excess = 0 THEN b
        ELSE Journal([b EXCEPT !.settlements =
                        Append(@, Advance(excess, <<"RETURN", c>>, 0))],
                     excess, -excess, 0, 0)

\* carrySaleReturnsInTx: the notes of invoice d go to its replacement, whose
\* number and total are given, as far as that total reaches
ReturnsCarried(b, d, replacement, total) ==
    LET Carry1(acc, n) ==
            LET available == Available(acc.books, n)
                applied == Lesser(acc.left, available)
                carried == [acc.books EXCEPT !.carries = Append(@,
                    [note |-> n, invoice |-> replacement,
                     available |-> available, applied |-> applied])]
            IN  [books |-> ExcessCredited(carried, Len(carried.carries)),
                 left |-> acc.left - applied]
        reversed == Journal([b EXCEPT !.invoices[d].reversals = 1],
                            -b.invoices[d].total, 0, 0, b.invoices[d].total)
    IN  FoldOldestFirst(Carry1, [books |-> reversed, left |-> total],
                        RetainedReturns(b, d)).books

\* editableSaleInTx
Editable(b, d, returns) ==
    /\ Posted(b.invoices[d])
    /\ b.invoices[d].state = "LIVE"
    /\ \A s \in DOMAIN b.settlements :
          d \in DOMAIN b.settlements[s].allocations =>
              b.settlements[s].status # "PENDING_CHEQUE"
    /\ returns \/ Noted(b, d) = 0
    /\ Outstanding(b, d) + Paid(b, d)
         + SumFunction([n \in IF returns THEN RetainedReturns(b, d) ELSE {} |->
                            Available(b, n)])
         = b.invoices[d].total

\* creditInTx: the payments are released and a note credits the whole sale
WhollyCredited(b, d) ==
    NotePosted(PaymentsReleased(b, d), d, b.invoices[d].total)

CreditAccepted(b, d) ==
    /\ NoteAccepted(PaymentsReleased(b, d), d, b.invoices[d].total)
    /\ Outstanding(WhollyCredited(b, d), d) = 0

ImmediateFamily(b, d) == {d}

\* saleCorrectionFamilyInTx: the invoice and all it replaced
Family(b, d) ==
    LET upTo[k \in 0..Len(b.invoices)] ==
            IF k = 0 THEN {} ELSE {k} \cup upTo[b.invoices[k].previous]
    IN  upTo[d]

\* the unused credits that corrections of the invoices in D made
FamilyCredits(b, D) ==
    {s \in UnusedAdvances(b) :
        LET from == b.settlements[s].origin
        IN  /\ from # <<>>
            /\ \/ from[1] = "RECEIPT" /\ from[3] \in D
               \/ /\ from[1] = "APPLICATION"
                  /\ b.applications[from[2]].document \in D
               \/ /\ from[1] = "RETURN"
                  /\ b.carries[from[2]].invoice \in D}

-----------------------------------------------------------------------------
(* The transactions. *)

PostInvoice(total, link) ==
    /\ Len(invoices) < MaxInvoices
    /\ Cardinality({d \in DOMAIN invoices : invoices[d].previous = 0})
            < MaxSales
    /\ Commit(InvoicePosted(Books, total, 0, link))

PostCreditNote(d, amount) ==
    /\ Len(notes) < MaxNotes
    /\ NoteAccepted(Books, d, amount)
    /\ Commit(NotePosted(Books, d, amount))

Sum(allocations) ==
    SumFunction([d \in DOMAIN allocations |->
                    allocations[d].amount - allocations[d].discount])

\* createSettlementForActor in cash or by bank
ReceivePayment(allocations) ==
    /\ Len(settlements) < MaxSettlements
    /\ AllocationsAccepted(Books, allocations)
    /\ Commit(SettlementPosted(
                [Books EXCEPT !.settlements = Append(@,
                    Pending("CUSTOMER_RECEIPT", Sum(allocations),
                            allocations, 0))],
                Len(settlements) + 1))

ReceiveAdvance(amount) ==
    /\ Len(settlements) < MaxSettlements
    /\ Commit(SettlementPosted(
                [Books EXCEPT !.settlements = Append(@,
                    Pending("CUSTOMER_ADVANCE", amount, <<>>, 0))],
                Len(settlements) + 1))

\* createSettlementForActor by cheque: nothing is posted
RecordCheque(type, amount, allocations) ==
    /\ Len(cheques) < MaxCheques
    /\ AllocationsAccepted(Books, allocations)
    /\ Commit([Books EXCEPT
                !.settlements = Append(@, Pending(type, amount, allocations,
                                                  Len(cheques) + 1)),
                !.cheques = Append(@, [status |-> "RECEIVED",
                                       settlement |-> Len(settlements) + 1])])

ApplyAdvance(s, d, amount) ==
    /\ Len(applications) < MaxApplications
    /\ ApplicationAccepted(Books, s, d, amount)
    /\ Commit(Applied(Books, s, d, amount))

\* CLOSE of chequeFinancialActionForActor: a cheque presented again after a
\* reversal gets a new settlement
Presented(b, c) ==
    LET row == b.settlements[b.cheques[c].settlement]
    IN  IF row.status = "REVERSED"
        THEN [b EXCEPT !.settlements = Append(@, Pending(row.type, row.amount,
                                                     row.allocations, c)),
                       !.cheques[c].settlement = Len(b.settlements) + 1]
        ELSE b

ClearCheque(c) ==
    LET b == Presented(Books, c)
        s == b.cheques[c].settlement
    IN  /\ cheques[c].status = "RECEIVED"
        /\ b.settlements[s].status = "PENDING_CHEQUE"
        /\ AllocationsAccepted(b, b.settlements[s].allocations)
        /\ Commit([SettlementPosted(b, s) EXCEPT
                     !.cheques[c].status = "CLEARED"])

ReturnedKeepingPayment(b, c) == b

\* the other actions of chequeFinancialActionForActor take a posted payment
\* back and leave a pending or a reversed one alone
Returned(b, c) ==
    LET s == b.cheques[c].settlement
    IN  IF b.settlements[s].status = "POSTED" THEN SettlementReversed(b, s)
                                              ELSE b

ReturnCheque(c, status) ==
    /\ status = "RECEIVED" => cheques[c].status \in {"CLEARED", "BOUNCED"}
    /\ status # "RECEIVED" =>
            cheques[c].status \notin {"BOUNCED", "CANCELLED"}
    /\ settlements[cheques[c].settlement].status = "POSTED" =>
            ~Reclassified(Books, cheques[c].settlement)
    /\ Commit([Returned(Books, c) EXCEPT !.cheques[c].status = status])

\* reversePostedSaleForActor
CancelSale(d) ==
    /\ Len(notes) < MaxNotes
    /\ Editable(Books, d, FALSE)
    /\ CreditAccepted(Books, d)
    /\ LET b == WhollyCredited(Books, d)
       IN  Commit([b EXCEPT !.invoices[d].state = "CANCELLED",
                            !.invoices[d].correction = Len(b.notes)])

\* the books after sale d has been undone, before its replacement is posted
Undone(b, d, replacement, total) ==
    IF RetainedReturns(b, d) # {}
    THEN [ReturnsCarried(PaymentsReleased(b, d), d, replacement, total)
            EXCEPT !.invoices[d].state = "REVISED"]
    ELSE LET credited == WhollyCredited(b, d)
         IN  [credited EXCEPT !.invoices[d].state = "REVISED",
                              !.invoices[d].correction = Len(credited.notes)]

\* replacePostedSaleForActor: what the customer paid for the sale, or for one
\* it replaced, is applied to the replacement
ReplaceSale(d) ==
    /\ Len(invoices) < MaxInvoices
    /\ Editable(Books, d, TRUE)
    /\ RetainedReturns(Books, d) = {} => CreditAccepted(Books, d)
    /\ \E total \in Amount, link \in BOOLEAN :
        LET replacement == Len(invoices) + 1
            posted == InvoicePosted(Undone(Books, d, replacement, total),
                                    total, d, link)
            family == Family(Books, d) \cup {replacement}
        IN  Commit(AppliedAll(posted, FamilyCredits(posted, family),
                             replacement))

InvoiceUnpinned(d) == FALSE

\* guard_sale_lifecycle_journal: the journals of a corrected sale stay;
\* guard_retained_return_journal_reversal: so do those of a return revision
InvoicePinned(d) ==
    \/ invoices[d].state # "LIVE"
    \/ \E c \in DOMAIN carries : carries[c].invoice = d

NotePinned(n) ==
    \/ \E d \in DOMAIN invoices : invoices[d].correction = n
    \/ \E c \in DOMAIN carries : carries[c].note = n

\* reverseJournalForActor on a document's journal, or on a reversal of it;
\* a document has no lifecycle that would claim its journal
ReverseInvoiceJournal(d) ==
    LET sign == IF InForce(invoices[d]) THEN -1 ELSE 1
        amount == sign * invoices[d].total
    IN  /\ invoices[d].reversals < MaxReversals
        /\ ~InvoicePinned(d)
        /\ Commit(Journal([Books EXCEPT !.invoices[d].reversals = @ + 1],
                          amount, 0, 0, -amount))

ReverseNoteJournal(n) ==
    LET sign == IF InForce(notes[n]) THEN 1 ELSE -1
        amount == sign * notes[n].total
    IN  /\ notes[n].reversals < MaxReversals
        /\ ~NotePinned(n)
        /\ Commit(Journal([Books EXCEPT !.notes[n].reversals = @ + 1],
                          amount, 0, 0, -amount))

\* the allocations a receipt may name; on other documents all are refused
Allocations ==
    LET payable == {d \in DOMAIN invoices : Outstanding(Books, d) > 0}
    IN  UNION {[D -> [amount: Amount, discount: Discount]] :
                  D \in (SUBSET payable) \ {{}}}

\* the transactions that add to the records
Adding ==
    \/ \E total \in Amount, link \in BOOLEAN : PostInvoice(total, link)
    \/ \E d \in DOMAIN invoices, amount \in Amount : PostCreditNote(d, amount)
    \/ \E allocations \in Allocations : ReceivePayment(allocations)
    \/ \E amount \in Amount : ReceiveAdvance(amount)
    \/ \E allocations \in Allocations :
          RecordCheque("CUSTOMER_RECEIPT", Sum(allocations), allocations)
    \/ \E amount \in Amount : RecordCheque("CUSTOMER_ADVANCE", amount, <<>>)
    \/ \E s \in DOMAIN settlements, d \in DOMAIN invoices, amount \in Amount :
          ApplyAdvance(s, d, amount)
    \/ \E d \in DOMAIN invoices : CancelSale(d)
    \/ \E d \in DOMAIN invoices : ReplaceSale(d)
    \/ \E d \in DOMAIN invoices : ReverseInvoiceJournal(d)
    \/ \E n \in DOMAIN notes : ReverseNoteJournal(n)

Next ==
    \/ Room /\ Adding
    \/ \E c \in DOMAIN cheques : ClearCheque(c)
    \/ \E c \in DOMAIN cheques,
          status \in {"RECEIVED", "BOUNCED", "CANCELLED"} :
          ReturnCheque(c, status)

Spec == Init /\ [][Next]_vars

-----------------------------------------------------------------------------
(* Properties. *)

\* Nothing takes a document below zero: documentOutstandingInTx and the batch
\* would both throw NEGATIVE_OUTSTANDING, and every list that shows the
\* document would fail with them.
NoOverpaidDocument ==
    \A d \in DOMAIN invoices : BatchOutstanding(Books, d) >= 0

\* Every amount the customer handed over, and every return value turned into
\* an advance, is in exactly one place: allocated to a document, applied to
\* one, or left on an advance.  Releasing and re-applying payments in a
\* correction neither loses nor doubles money.
MoneyInOnePlace ==
    SumFunction([s \in Received(Books) |-> settlements[s].amount])
    + SumFunction([n \in DOMAIN notes |-> ExcessOf(Books, n)])
    = SumFunction([d \in DOMAIN invoices |->
                      Paid(Books, d) - DiscountsOn(Books, d)])
      + SumFunction([s \in DOMAIN settlements |-> settlements[s].remaining])

\* documents a reversed reversal brought back into the ledger, whose journal
\* still says REVERSED
Reinstated(docs) ==
    SumFunction([i \in {i \in DOMAIN docs :
                            InForce(docs[i]) /\ ~Posted(docs[i])} |->
                    docs[i].total])

\* The balance that party-balance.ts computes from documents and payments is
\* the one the ledger shows on receivables and customer advances, through
\* bounced cheques, discounts taken back, corrections and carried returns;
\* only a reinstated document makes a difference.
PartyBalanceAgrees ==
    accounts["ACCOUNTS_RECEIVABLE"] + accounts["CUSTOMER_ADVANCES"]
    = PartyBalance(Books) + Reinstated(invoices) - Reinstated(notes)

\* what a document whose journal was reversed by hand had been paid and noted
Stranded ==
    SumFunction([d \in Live(Books) \ PostedInvoices(Books) |->
                    Paid(Books, d) + Noted(Books, d)])

\* The outstanding amounts of the single documents, less the unused advances,
\* add up to the party balance; what is attached to a document whose journal
\* was reversed by hand is all that the documents do not show.
OwedAgrees == Owed(Books) = PartyBalance(Books) + Stranded

\* A posted return keeps its value through any number of revisions of its
\* sale: what the latest revision applies and what all of them turned into
\* advances make up the note, neither more nor less.
ReturnsHonoured ==
    \A n \in DOMAIN notes :
        LET mine == {c \in DOMAIN carries : carries[c].note = n}
        IN  mine # {} =>
                \E last \in mine :
                    /\ \A c \in mine : c <= last
                    /\ carries[last].applied + ExcessOf(Books, n)
                         = notes[n].total

\* A cheque counts as money exactly while it is CLEARED, and once: not while
\* it is pending, not after it bounced, and not twice after it is presented
\* again.
ChequePaysOnce ==
    \A c \in DOMAIN cheques :
        {s \in DOMAIN settlements :
            settlements[s].cheque = c /\ Effective(Books, s)}
        = IF cheques[c].status = "CLEARED" THEN {cheques[c].settlement}
                                           ELSE {}

\* A cancelled or revised sale has no effect left: its journal and the
\* correcting journal cancel out, no payment is attached to it, and nothing
\* that comes later, a reversal least of all, changes that.
RetiredSaleNetsZero ==
    \A d \in DOMAIN invoices : invoices[d].state # "LIVE" =>
        /\ Paid(Books, d) = 0
        /\ IF invoices[d].correction = 0
           THEN ~InForce(invoices[d])
           ELSE LET note == notes[invoices[d].correction]
                IN  /\ InForce(invoices[d]) /\ InForce(note)
                    /\ note.source = d /\ note.total = invoices[d].total

\* invoice d and those it replaces, directly or not
Lineage(b, d) ==
    {e \in DOMAIN b.invoices :
        \A D \in SUBSET DOMAIN b.invoices :
            /\ d \in D
            /\ \A i \in D : b.invoices[i].previous \in D \cup {0}
            => e \in D}

\* A customer is not asked to pay twice for a corrected sale: while the
\* replacement has something outstanding when it is posted, no credit from
\* the sales it replaces is left unused.
NothingAskedTwice ==
    [][\A d \in DOMAIN invoices :
          invoices[d].state = "LIVE" /\ invoices'[d].state = "REVISED" =>
            LET b == Books'
                replacement == Len(invoices')
            IN  Outstanding(b, replacement) = 0
                \/ FamilyCredits(b, Lineage(b, replacement)) = {}]_vars

\* Replacing a sale changes what the customer owes by the difference of the
\* two totals and by the discounts that the correction takes back, whatever
\* was paid, returned or applied before.
ReplacementOwesTheDifference ==
    [][\A d \in DOMAIN invoices :
          invoices[d].state = "LIVE" /\ invoices'[d].state = "REVISED" =>
            Owed(Books') - Owed(Books) =
                invoices'[Len(invoices')].total - invoices[d].total
                + DiscountsOn(Books, d)]_vars

\* The list computation agrees with the computation for one document.
\* docs/WEB_API_FREEZE.md:126 has the outstanding amount authoritative and
\* batching preserve it.
BatchAgreesWithDocument ==
    \A d \in DOMAIN invoices :
        BatchOutstanding(Books, d) = Outstanding(Books, d)

=============================================================================
