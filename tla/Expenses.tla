------------------------------- MODULE Expenses -------------------------------
(***************************************************************************)
(* Expenses and other income of a company, and the bills of recurring      *)
(* schedules: drafts, approval, payment, review after payment and reversal *)
(* (src/lib/account/expenses.ts).                                          *)
(*                                                                         *)
(* An operation is one SERIALIZABLE transaction and so one step.  Editing  *)
(* a draft is two: the draft and its category are read and validated       *)
(* before the transaction that stores the new values.  A category and the  *)
(* approval limit are written by transactions of a lower isolation level;  *)
(* what a transaction reads of them is one of the values they have had     *)
(* while it ran, which puts the whole step at that moment.                 *)
(*                                                                         *)
(* One category, one branch; taxes, periods, numbers, projects, roles and  *)
(* attachments are left out, and so is a request repeated with its key,    *)
(* which changes nothing.  The journals of expenses can be reversed by the *)
(* operation here alone (MANAGED_EXPENSE_REVERSAL_REQUIRED).               *)
(***************************************************************************)
EXTENDS Integers, Sequences, FiniteSets

CONSTANTS
    Amount,
    Limit,          \* approval limits
    NoLimit,        \* stands for expenseApprovalRequired off
    MoneyAccount,   \* cash and bank accounts
    Payable,        \* where a reimbursement is posted: to accounts payable
    Ledger, NoLedger,   \* ledger accounts a category may be mapped to
    Template,       \* recurring schedules
    Every,          \* days from one due date to the next
    Key,            \* request keys of payments
    MaxDay, MaxRows,    \* bounds of the model
    MaxWrites       \* expenses and changes together

ASSUME ExpensesConstants ==
    /\ Amount \subseteq Nat \ {0} /\ Amount # {}
    /\ Limit \subseteq Nat /\ NoLimit \in Limit
    /\ \A amount \in Amount : amount <= NoLimit
    /\ Payable \notin MoneyAccount
    /\ NoLedger \notin Ledger /\ Ledger # {}
    /\ Template \subseteq Nat \ {0}
    /\ Every \subseteq Nat \ {0} /\ Every # {}
    /\ {MaxDay, MaxRows, MaxWrites} \subseteq Nat /\ MaxDay # 0

VARIABLES
    today,
    limit,          \* expenseApprovalThreshold, or NoLimit
    category,       \* the expense category
    rows,           \* expense_transactions, bills included
    edits,          \* drafts validated and not yet stored
    templates,      \* recurring_expense_templates
    payments,       \* RECURRING_EXPENSE_PAID audits with their request keys
    journals,       \* journals of expenses and their reversals
    changes         \* counts edits and changes of limit, category, schedules

vars == <<today, limit, category, rows, edits, templates, payments, journals,
          changes>>

Day == 1..MaxDay
Account == MoneyAccount \cup {Payable}
Status == {"DRAFT", "PENDING_APPROVAL", "APPROVED", "POSTED", "REJECTED",
           "CANCELLED", "REVERSED"}
Review == {"NONE", "NOT_REQUIRED", "PENDING", "APPROVED", "REJECTED",
           "CANCELLED"}

\* template is 0 for an expense that is no bill; a bill's date is its due
\* date.  paid is 0 without a paidDate, journal and reversal without one.
\* ceiling is no column: the most that the expense was let through with, by
\* the limit or by an approval.
Expense == [template: Template \cup {0}, date: Day, amount: Amount,
            account: Account, ledger: Ledger \cup {NoLedger},
            status: Status, review: Review, paid: Day \cup {0},
            journal: Nat, reversal: Nat, ceiling: Nat]
Edit == [row: Nat, date: Day, amount: Amount, account: Account,
         ledger: Ledger]
\* state ABSENT: not created yet.  every stands for frequency and anchor,
\* which give the next due date.
Schedule == [state: {"ABSENT", "ACTIVE", "PAUSED"}, due: Nat \ {0},
             every: Every, amount: Amount]
Absent == [state |-> "ABSENT", due |-> 1, every |-> CHOOSE n \in Every : TRUE,
           amount |-> CHOOSE a \in Amount : TRUE]
Payment == [key: Key, row: Nat, account: MoneyAccount, date: Day]
\* of is the journal that a reversal reverses, 0 for a posting
Journal == [row: Nat, amount: Amount, account: Account, ledger: Ledger,
            date: Day, of: Nat]

TypeOK ==
    /\ today \in Day
    /\ limit \in Limit
    /\ category \in [ledger: Ledger, isActive: BOOLEAN]
    /\ rows \in Seq(Expense)
    /\ edits \subseteq Edit
    /\ templates \in [Template -> Schedule]
    /\ payments \subseteq Payment
    /\ journals \in Seq(Journal)
    /\ changes \in 0..MaxWrites
    /\ \A r \in DOMAIN rows : rows[r].template # 0 => rows[r].date <= today

Init ==
    /\ today = 1
    /\ limit = NoLimit
    /\ category \in [ledger: Ledger, isActive: {TRUE}]
    /\ rows = <<>>
    /\ edits = {}
    /\ templates = [t \in Template |-> Absent]
    /\ payments = {}
    /\ journals = <<>>
    /\ changes = 0

-----------------------------------------------------------------------------
(* Pieces of the transactions. *)

\* approvalRequired
ApprovalRequired(amount) == amount > limit

\* what an expense paid before anybody approved it waits for
ReviewOf(amount) == IF ApprovalRequired(amount) THEN "PENDING"
                                                ELSE "NOT_REQUIRED"

\* the bound of the model
Room == Len(rows) + changes < MaxWrites

Change == Room /\ changes' = changes + 1

\* an expense as createExpenseForActor or the schedule stores it
Fresh(template, date, amount, account, ledger) ==
    [template |-> template, date |-> date, amount |-> amount,
     account |-> account, ledger |-> ledger, status |-> "DRAFT",
     review |-> "NONE", paid |-> 0, journal |-> 0, reversal |-> 0,
     ceiling |-> 0]

EntryDate(row) == IF row.paid # 0 THEN row.paid ELSE row.date

MappingIgnored(row) == TRUE

\* the mapping that the draft was stored with is still the category's
MappingKept(row) == row.ledger \in {NoLedger, category.ledger}

\* the guards of postExpenseInTx
Postable(row) ==
    /\ category.isActive
    /\ MappingKept(row)
    /\ row.status = "APPROVED"
    /\ row.journal = 0

\* postExpenseInTx: the row and the journal it gets
PostedRow(row) ==
    [row EXCEPT !.status = "POSTED", !.journal = Len(journals) + 1]
Posting(r, row) ==
    [row |-> r, amount |-> row.amount, account |-> row.account,
     ledger |-> category.ledger, date |-> EntryDate(row), of |-> 0]

-----------------------------------------------------------------------------
(* Expenses. *)

CreateDraft(date, amount, account) ==
    /\ Len(rows) < MaxRows /\ Room
    /\ category.isActive
    /\ rows' = Append(rows, Fresh(0, date, amount, account, category.ledger))
    /\ UNCHANGED <<today, limit, category, edits, templates, payments,
                   journals, changes>>

\* createExpenseForActor with recordAsPaid; not for reimbursements
RecordPaid(date, amount, account) ==
    LET row == [Fresh(0, date, amount, account, category.ledger) EXCEPT
                  !.status = "APPROVED", !.paid = date,
                  !.review = ReviewOf(amount), !.ceiling = limit]
    IN  /\ Len(rows) < MaxRows /\ Room
        /\ Postable(row)
        /\ rows' = Append(rows, PostedRow(row))
        /\ journals' = Append(journals, Posting(Len(rows) + 1, row))
        /\ UNCHANGED <<today, limit, category, edits, templates, payments,
                       changes>>

EditableUntilPosted(row) ==
    row.status \in {"DRAFT", "PENDING_APPROVAL", "APPROVED"}

\* the condition of the updateMany that stores an edit
Editable(row) == row.status = "DRAFT"

\* updateExpenseForActor up to its transaction
ReadDraft(r, date, amount, account) ==
    /\ rows[r].status = "DRAFT"
    /\ rows[r].template # 0 => date = rows[r].date
    /\ category.isActive
    /\ edits' = edits \cup {[row |-> r, date |-> date, amount |-> amount,
                             account |-> account, ledger |-> category.ledger]}
    /\ Change
    /\ UNCHANGED <<today, limit, category, rows, templates, payments,
                   journals>>

\* its transaction; one that finds no draft fails
StoreDraft(e) ==
    /\ edits' = edits \ {e}
    /\ rows' = IF Editable(rows[e.row])
               THEN [rows EXCEPT ![e.row] =
                       [@ EXCEPT !.date = e.date, !.amount = e.amount,
                                 !.account = e.account, !.ledger = e.ledger]]
               ELSE rows
    /\ UNCHANGED <<today, limit, category, templates, payments, journals,
                   changes>>

\* transitionExpenseForActor
Submit(r) ==
    /\ rows[r].status = "DRAFT"
    /\ rows' = [rows EXCEPT ![r].status =
                    IF ApprovalRequired(rows[r].amount)
                    THEN "PENDING_APPROVAL" ELSE "APPROVED",
                            ![r].ceiling = limit]
    /\ UNCHANGED <<today, limit, category, edits, templates, payments,
                   journals, changes>>

Cancel(r) ==
    /\ rows[r].status \in {"DRAFT", "PENDING_APPROVAL"}
    /\ rows' = [rows EXCEPT ![r].status = "CANCELLED"]
    /\ UNCHANGED <<today, limit, category, edits, templates, payments,
                   journals, changes>>

Approve(r) ==
    /\ rows[r].status = "PENDING_APPROVAL"
    /\ rows' = [rows EXCEPT ![r].status = "APPROVED",
                            ![r].ceiling = rows[r].amount]
    /\ UNCHANGED <<today, limit, category, edits, templates, payments,
                   journals, changes>>

Reject(r) ==
    /\ rows[r].status = "PENDING_APPROVAL"
    /\ rows' = [rows EXCEPT ![r].status = "REJECTED"]
    /\ UNCHANGED <<today, limit, category, edits, templates, payments,
                   journals, changes>>

\* an expense that is paid already is reviewed, and stays posted
ReviewPaid(r, verdict) ==
    /\ rows[r].status = "POSTED"
    /\ rows[r].review = "PENDING"
    /\ rows' = [rows EXCEPT ![r].review = verdict]
    /\ UNCHANGED <<today, limit, category, edits, templates, payments,
                   journals, changes>>

OrdinaryOrBill(row) == TRUE

\* a bill is posted by its payment alone (RECURRING_PAYMENT_DATE_REQUIRED)
Ordinary(row) == row.template = 0

PostExpense(r) ==
    /\ Ordinary(rows[r])
    /\ Postable(rows[r])
    /\ rows' = [rows EXCEPT ![r] = PostedRow(@)]
    /\ journals' = Append(journals, Posting(r, rows[r]))
    /\ UNCHANGED <<today, limit, category, edits, templates, payments,
                   changes>>

\* reverseExpenseForActor; a review still open ends with it
ReverseExpense(r) ==
    LET row == rows[r]
    IN  /\ row.status = "POSTED"
        /\ row.reversal = 0
        /\ rows' = [rows EXCEPT ![r] =
                [row EXCEPT !.status = "REVERSED",
                            !.reversal = Len(journals) + 1,
                            !.review = IF @ = "PENDING" THEN "CANCELLED"
                                                        ELSE @]]
        /\ journals' = Append(journals,
                [journals[row.journal] EXCEPT !.of = row.journal])
        /\ UNCHANGED <<today, limit, category, edits, templates, payments,
                       changes>>

-----------------------------------------------------------------------------
(* Recurring schedules and their bills. *)

\* createRecurringTemplateForActor; the category, read before the
\* transaction, is not touched by it
CreateTemplate(t, due, every, amount) ==
    /\ templates[t].state = "ABSENT"
    /\ category.isActive
    /\ templates' = [templates EXCEPT ![t] =
                        [state |-> "ACTIVE", due |-> due, every |-> every,
                         amount |-> amount]]
    /\ UNCHANGED <<today, limit, category, rows, edits, payments, journals,
                   changes>>

\* recurringOccurrenceKey: the bill of a schedule for a date exists
Billed(t, date) ==
    \E i \in DOMAIN rows : rows[i].template = t /\ rows[i].date = date

\* RECURRING_NOT_DUE
Due(schedule) == schedule.due <= today

\* generateRecurringExpenseForActor; for a date that is billed it answers
\* with that bill and changes nothing
GenerateBill(t, account) ==
    LET schedule == templates[t]
        bill == [Fresh(t, schedule.due, schedule.amount, account, NoLedger)
                   EXCEPT !.status = IF ApprovalRequired(schedule.amount)
                                     THEN "PENDING_APPROVAL" ELSE "DRAFT"]
    IN  /\ Len(rows) < MaxRows /\ Room
        /\ schedule.state = "ACTIVE"
        /\ Due(schedule)
        /\ category.isActive
        /\ ~Billed(t, schedule.due)
        /\ rows' = Append(rows, bill)
        /\ templates' = [templates EXCEPT ![t].due = @ + schedule.every]
        /\ UNCHANGED <<today, limit, category, edits, payments, journals,
                   changes>>

\* setRecurringTemplateActiveForActor
SetTemplateActive(t, state) ==
    /\ templates[t].state \in {"ACTIVE", "PAUSED"} \ {state}
    /\ templates' = [templates EXCEPT ![t].state = state]
    /\ Change
    /\ UNCHANGED <<today, limit, category, rows, edits, payments, journals>>

\* updateRecurringTemplateForActor; an edit made on an older view is refused
\* (expectedUpdatedAt), so this is one made on the schedule as it is
EditTemplate(t, due, every, amount) ==
    /\ templates[t].state # "ABSENT"
    /\ ~Billed(t, due)
    /\ templates' = [templates EXCEPT ![t] =
                        [@ EXCEPT !.due = due, !.every = every,
                                  !.amount = amount]]
    /\ Change
    /\ UNCHANGED <<today, limit, category, rows, edits, payments, journals>>

\* payRecurringExpenseForActor; a bill may be paid before anybody approves
\* it, and is reviewed then
PayBill(r, key, account, date) ==
    LET ready == [rows[r] EXCEPT !.status = "APPROVED", !.paid = date,
                                 !.account = account,
                                 !.review = ReviewOf(rows[r].amount),
                                 !.ceiling = limit]
    IN  /\ \A p \in payments : p.key # key
        /\ rows[r].template # 0
        /\ rows[r].journal = 0
        /\ rows[r].status \in {"DRAFT", "PENDING_APPROVAL", "APPROVED"}
        /\ Postable(ready)
        /\ rows' = [rows EXCEPT ![r] = PostedRow(ready)]
        /\ journals' = Append(journals, Posting(r, ready))
        /\ payments' = payments \cup {[key |-> key, row |-> r,
                                       account |-> account, date |-> date]}
        /\ UNCHANGED <<today, limit, category, edits, templates, changes>>

-----------------------------------------------------------------------------
(* The category, the limit and the calendar. *)

\* saveExpenseCategoryForActor on the category that exists
MapCategory(ledger) ==
    /\ category' = [category EXCEPT !.ledger = ledger]
    /\ Change
    /\ UNCHANGED <<today, limit, rows, edits, templates, payments, journals>>

\* deactivateExpenseCategoryForActor; nothing makes it active again
DeactivateCategory ==
    /\ category' = [category EXCEPT !.isActive = FALSE]
    /\ Change
    /\ UNCHANGED <<today, limit, rows, edits, templates, payments, journals>>

\* updateAccountSettingsForActor
SetLimit(l) ==
    /\ limit' = l
    /\ Change
    /\ UNCHANGED <<today, category, rows, edits, templates, payments,
                   journals>>

Tick ==
    /\ today < MaxDay
    /\ today' = today + 1
    /\ UNCHANGED <<limit, category, rows, edits, templates, payments,
                   journals, changes>>

Next ==
    \/ \E date \in Day, amount \in Amount, account \in Account :
          CreateDraft(date, amount, account)
    \/ \E date \in Day, amount \in Amount, account \in MoneyAccount :
          RecordPaid(date, amount, account)
    \/ \E r \in DOMAIN rows, date \in Day, amount \in Amount,
          account \in Account : ReadDraft(r, date, amount, account)
    \/ \E e \in edits : StoreDraft(e)
    \/ \E r \in DOMAIN rows :
          \/ Submit(r) \/ Cancel(r) \/ Approve(r) \/ Reject(r)
          \/ PostExpense(r) \/ ReverseExpense(r)
    \/ \E r \in DOMAIN rows, verdict \in {"APPROVED", "REJECTED"} :
          ReviewPaid(r, verdict)
    \/ \E t \in Template, due \in Day, every \in Every, amount \in Amount :
          CreateTemplate(t, due, every, amount)
          \/ EditTemplate(t, due, every, amount)
    \/ \E t \in Template, account \in MoneyAccount : GenerateBill(t, account)
    \/ \E t \in Template, state \in {"ACTIVE", "PAUSED"} :
          SetTemplateActive(t, state)
    \/ \E r \in DOMAIN rows, key \in Key, account \in MoneyAccount,
          date \in Day : PayBill(r, key, account, date)
    \/ \E ledger \in Ledger : MapCategory(ledger)
    \/ DeactivateCategory
    \/ \E l \in Limit : SetLimit(l)
    \/ Tick

Spec == Init /\ [][Next]_vars

-----------------------------------------------------------------------------
(* Properties. *)

\* the journal says what the list of expenses says
Matches(journal, r) ==
    /\ journal.row = r
    /\ journal.amount = rows[r].amount
    /\ journal.account = rows[r].account
    /\ rows[r].ledger \in {NoLedger, journal.ledger}

Booked(r) ==
    /\ rows[r].status \in {"POSTED", "REVERSED"} <=> rows[r].journal # 0
    /\ rows[r].status = "REVERSED" <=> rows[r].reversal # 0
    /\ rows[r].journal # 0 =>
          /\ rows[r].journal \in DOMAIN journals
          /\ Matches(journals[rows[r].journal], r)
          /\ journals[rows[r].journal].date = EntryDate(rows[r])
          /\ journals[rows[r].journal].of = 0
    /\ rows[r].reversal # 0 =>
          /\ rows[r].reversal \in DOMAIN journals
          /\ Matches(journals[rows[r].reversal], r)
          /\ journals[rows[r].reversal].of = rows[r].journal

Owned(j) ==
    /\ journals[j].row \in DOMAIN rows
    /\ j = IF journals[j].of = 0 THEN rows[journals[j].row].journal
                                 ELSE rows[journals[j].row].reversal

\* The books say of every expense what the list of expenses says: posted or
\* reversed ones have a journal of their amount, account, category ledger
\* and date of payment, reversed ones its mirror image too, others none; and
\* no journal belongs to anything else, whatever is edited, decided, paid
\* and remapped at the same time.
BooksFollowExpenses ==
    /\ \A r \in DOMAIN rows : Booked(r)
    /\ \A j \in DOMAIN journals : Owned(j)

Seen(row) ==
    /\ row.status \in {"APPROVED", "POSTED", "REVERSED"} =>
          \/ row.amount <= row.ceiling
          \/ row.review \in Review \ {"NONE", "NOT_REQUIRED"}
    /\ row.review = "PENDING" => row.status = "POSTED"

\* No expense above the approval limit passes unseen: what is approved or
\* posted with more than the limit then in force has been approved with that
\* amount or is reviewed, and a review is open only on an expense that
\* stands.  Bills paid before approval and edits of drafts are no way round.
NothingUnreviewed == \A r \in DOMAIN rows : Seen(rows[r])

OneBillPerDate ==
    \A r, s \in DOMAIN rows :
        /\ rows[r].template # 0
        /\ rows[r].template = rows[s].template
        /\ rows[r].date = rows[s].date
        => r = s

PaidAsAsked(p) ==
    /\ p.row \in DOMAIN rows
    /\ rows[p.row].journal # 0
    /\ rows[p.row].paid = p.date
    /\ rows[p.row].account = p.account

\* A due date of a schedule has one bill, and a bill is paid by one request,
\* on the day and from the account that this request gave; a request key
\* pays one bill.  docs/a052-a103/implementation-register.md:793 asks for
\* payment exactly once.
BillsPaidOnce ==
    /\ OneBillPerDate
    /\ \A p, q \in payments : p.key = q.key \/ p.row = q.row => p = q
    /\ \A p \in payments : PaidAsAsked(p)
    /\ \A r \in DOMAIN rows :
          rows[r].template # 0 /\ rows[r].journal # 0 =>
            \E p \in payments : p.row = r

=============================================================================
