------------------------------ MODULE Payables ------------------------------
(***************************************************************************)
(* Supplier invoices ("bills"), supplier payments and one payment batch,   *)
(* with the journals they leave in the general ledger.                     *)
(*                                                                         *)
(* The web routes call the services, which check the status, post through  *)
(* the adapter of ap/posting and then write the status; the API routes     *)
(* "…/post" call the adapter alone, and commit whatever it has done.  A    *)
(* service loads a bill, or a payment and then the bill it pays, without a *)
(* lock, tests the status it loaded and writes it at the commit.           *)
(***************************************************************************)
EXTENDS Sessions, Integers, FiniteSetsExt

CONSTANTS Bills,       \* supplier invoices
          Payments,    \* supplier payments, each allocated to one bill
          Total,       \* total_amount of a bill
          Refusable,   \* what a closed period or a bad account may refuse:
                       \* "post", "vat" and "reverse"
          CashVat,     \* whether a payment releases deferred input VAT
          Scenarios,   \* the circumstances considered
          NULL

VARIABLES scenario,  \* sessions: those at work; bills, payments: those in use
          bills,     \* bills[i]: status, amount_paid, journal
          payments,  \* payments[p]: a row, or NULL
          gl,        \* gl[p]: the journals made for payment p
          batch,     \* status of the payment batch
          overlapped,  \* history: sessions ran at the same time
          apiUsed      \* history: a posting endpoint of the API was used

vars == <<txn, scenario, bills, payments, gl, batch, overlapped, apiUsed>>

ASSUME PayablesAssumption ==
  /\ Total \in Nat \ {0}
  /\ Refusable \subseteq {"post", "vat", "reverse"}
  /\ CashVat \in BOOLEAN
  /\ \A s \in Scenarios : /\ s.sessions \subseteq Workers
                           /\ s.bills \subseteq Bills
                           /\ s.payments \subseteq Payments

Init ==
  /\ SessionsInit
  /\ scenario \in Scenarios
  /\ bills = [i \in Bills |-> [status |-> "SUBMITTED", paid |-> 0, journal |-> "NONE"]]
  /\ payments = [p \in Payments |-> NULL]
  /\ gl = [p \in Payments |-> [entry |-> "NONE", vat |-> "NONE", stray |-> FALSE]]
  /\ batch = "NONE"
  /\ overlapped = FALSE
  /\ apiUsed = FALSE

\* Session w does something, perhaps while another is open.
At(w) ==
  /\ overlapped' = (overlapped \/ \E v \in Workers \ {w} : txn[v] # Idle)
  /\ UNCHANGED <<scenario, apiUsed>>

AtApi(w) ==
  /\ overlapped' = (overlapped \/ \E v \in Workers \ {w} : txn[v] # Idle)
  /\ apiUsed' = TRUE
  /\ UNCHANGED scenario

Is(p, statuses) ==
  /\ payments[p] # NULL
  /\ payments[p].status \in statuses

\* The outcome r, when "what" may be refused
IfRefused(what, r) == IF what \in Refusable THEN {r} ELSE {}

-----------------------------------------------------------------------------
(* Supplier invoices *)

\* A service loads the bill and checks its status.
OpenBill(w, i, op, statuses) ==
  /\ bills[i].status \in statuses
  /\ Begin(w, [op |-> op, inv |-> i, found |-> bills[i]])
  /\ At(w)
  /\ UNCHANGED <<bills, payments, gl, batch>>

\* The status is written over whatever it is by now.
WriteBillStatus(w, new) ==
  [bills EXCEPT ![txn[w].inv].status = Written(txn[w].found.status, new, @)]

ApproveBill(w) ==
  /\ Running(w, "approveBill")
  /\ End(w)
  /\ bills' = WriteBillStatus(w, "APPROVED")
  /\ At(w)
  /\ UNCHANGED <<payments, gl, batch>>

VoidBill(w) ==
  /\ Running(w, "voidBill")
  /\ End(w)
  /\ bills' = WriteBillStatus(w, "VOID")
  /\ At(w)
  /\ UNCHANGED <<payments, gl, batch>>

\* Mutant of BillPosted: the refusal of the ledger is not looked at.
MutantBillPosted(found, now, journal, ok) ==
  \/ now # "NONE" /\ journal = now /\ ok
  \/ found = "NONE" /\ journal = "POSTED" /\ ok
  \/ found = "NONE" /\ now # "POSTED" /\ "post" \in Refusable /\ journal = "DRAFT" /\ ok

\* ap/posting/invoice.py, for a bill whose journal was found and now is as given:
\* what the journal will be, and whether the posting is ok.
BillPosted(found, now, journal, ok) ==
  \/ \* A journal that it sees is adopted, whatever its status.
     now # "NONE" /\ journal = now /\ ok
  \/ \* It makes a journal.  That of a session it did not see has used the key
     \* already: the posting is a replay, and the second journal stays APPROVED.
     found = "NONE" /\ journal = "POSTED" /\ ok
  \/ \* Refused, the journal it made goes back to DRAFT.
     found = "NONE" /\ now # "POSTED" /\ "post" \in Refusable /\ journal = "DRAFT" /\ ~ok

\* SupplierInvoiceService.post_invoice; refused, the web route rolls back.
PostBill(w) ==
  /\ Running(w, "postBill")
  /\ End(w)
  /\ LET i == txn[w].inv
     IN \E journal \in {"DRAFT", "POSTED"} :
          /\ BillPosted(txn[w].found.journal, bills[i].journal, journal, TRUE)
          /\ bills' = [WriteBillStatus(w, "POSTED") EXCEPT ![i].journal = journal]
  /\ At(w)
  /\ UNCHANGED <<payments, gl, batch>>

\* post_ap_invoice
ApiPostBill(w) ==
  /\ Running(w, "apiPostBill")
  /\ End(w)
  /\ LET i == txn[w].inv
     IN \E journal \in {"DRAFT", "POSTED"}, ok \in BOOLEAN :
          /\ BillPosted(txn[w].found.journal, bills[i].journal, journal, ok)
          /\ bills' = [bills EXCEPT ![i].journal = journal]
  /\ AtApi(w)
  /\ UNCHANGED <<payments, gl, batch>>

-----------------------------------------------------------------------------
(* Payments *)

Payment(i, amount, batched) ==
  [status |-> "DRAFT", bill |-> i, amount |-> amount, link |-> "NONE",
   batched |-> batched]

Payable(i) == bills[i].status \in {"POSTED", "PARTIALLY_PAID"}

\* create_payment; the balance counts the payments that were posted.
CreatePayment(w, p, i, amount) ==
  /\ txn[w] = Idle
  /\ payments[p] = NULL
  /\ Payable(i)
  /\ amount <= Total - bills[i].paid
  /\ payments' = [payments EXCEPT ![p] = Payment(i, amount, FALSE)]
  /\ At(w)
  /\ UNCHANGED <<txn, bills, gl, batch>>

\* delete_payment
DeletePayment(w, p) ==
  /\ txn[w] = Idle
  /\ Is(p, {"DRAFT"})
  /\ payments' = [payments EXCEPT ![p].status = "DELETED"]
  /\ At(w)
  /\ UNCHANGED <<txn, bills, gl, batch>>

\* Mutant of MainPosted: the refusal of the ledger is not looked at.
MutantMainPosted(g) ==
  IF g.entry # "NONE"
  THEN {[gl |-> [g EXCEPT !.stray = TRUE], ok |-> TRUE, link |-> "stray"]}
  ELSE {[gl |-> [g EXCEPT !.entry = "LIVE"], ok |-> TRUE, link |-> "entry"]}
       \cup IfRefused("post", [gl |-> g, ok |-> TRUE, link |-> "NONE"])

\* The adapter of ap/posting/payment.py on the journals g of a payment:
\* [gl, ok, link].  Replayed, it leaves the new journal APPROVED and links it.
MainPosted(g) ==
  IF g.entry # "NONE"
  THEN {[gl |-> [g EXCEPT !.stray = TRUE], ok |-> TRUE, link |-> "stray"]}
  ELSE {[gl |-> [g EXCEPT !.entry = "LIVE"], ok |-> TRUE, link |-> "entry"]}
       \cup IfRefused("post", [gl |-> g, ok |-> FALSE, link |-> "NONE"])

\* post_vat_reclass_for_payment, after the payment itself was posted
VatPosted(r) ==
  IF ~CashVat \/ ~r.ok \/ r.gl.vat # "NONE"
  THEN {r}
  ELSE {[r EXCEPT !.gl.vat = "LIVE"]}
       \cup IfRefused("vat", [r EXCEPT !.gl.vat = "DRAFT", !.ok = FALSE])

AdapterPosted(g) == UNION {VatPosted(r) : r \in MainPosted(g)}

\* A service loads the payment and checks its status ...
Load(w, p, op, statuses) ==
  /\ Is(p, statuses)
  /\ Begin(w, [op |-> op, pay |-> p, was |-> payments[p], found |-> NULL])
  /\ At(w)
  /\ UNCHANGED <<bills, payments, gl, batch>>

\* ... and then the bill of its allocation.
LoadBill(w) ==
  /\ txn[w] # Idle
  /\ txn[w].op \in {"post", "void"}
  /\ txn[w].found = NULL
  /\ Continue(w, [txn[w] EXCEPT !.found = bills[txn[w].was.bill]])
  /\ At(w)
  /\ UNCHANGED <<bills, payments, gl, batch>>

\* Leaves the session without a commit.
Rollback(w) ==
  /\ txn[w] # Idle
  /\ End(w)
  /\ At(w)
  /\ UNCHANGED <<bills, payments, gl, batch>>

WriteStatus(w, new) ==
  [payments[txn[w].pay] EXCEPT !.status = Written(txn[w].was.status, new, @)]

\* Mutant of WriteBill: the amount is not written.
MutantWriteBill(found, paid, status, now) ==
  [now EXCEPT !.status = Written(found.status, status, @)]

\* The bill after a session that loaded it as found wrote the amount and status.
WriteBill(found, paid, status, now) ==
  [now EXCEPT !.paid = Written(found.paid, paid, @),
              !.status = Written(found.status, status, @)]

PaidStatus(paid) == IF paid >= Total THEN "PAID" ELSE "PARTIALLY_PAID"

UnpaidStatus(paid) == IF paid <= 0 THEN "POSTED" ELSE "PARTIALLY_PAID"

ApprovePayment(w) ==
  /\ Running(w, "approve")
  /\ ~Is(txn[w].pay, {"DELETED"})
  /\ End(w)
  /\ payments' = [payments EXCEPT ![txn[w].pay] = WriteStatus(w, "APPROVED")]
  /\ At(w)
  /\ UNCHANGED <<bills, gl, batch>>

\* post_payment
PostPayment(w) ==
  /\ Running(w, "post")
  /\ txn[w].found # NULL
  /\ End(w)
  /\ LET p == txn[w].pay
         i == txn[w].was.bill
         paid == txn[w].found.paid + txn[w].was.amount
     IN \E r \in AdapterPosted(gl[p]) :
          /\ r.ok
          /\ gl' = [gl EXCEPT ![p] = r.gl]
          /\ payments' = [payments EXCEPT ![p] =
                            [WriteStatus(w, "SENT") EXCEPT !.link = r.link]]
          /\ bills' = [bills EXCEPT ![i] =
                         WriteBill(txn[w].found, paid, PaidStatus(paid), @)]
  /\ At(w)
  /\ UNCHANGED batch

\* post_ap_payment: the adapter alone, committed also when it was refused.
ApiPostPayment(w) ==
  /\ Running(w, "apiPost")
  /\ End(w)
  /\ \E r \in AdapterPosted(gl[txn[w].pay]) :
       gl' = [gl EXCEPT ![txn[w].pay] = r.gl]
  /\ AtApi(w)
  /\ UNCHANGED <<bills, payments, batch>>

\* create_reversal of a journal
Reversed(journal, refused) ==
  IF journal = "LIVE" /\ ~refused THEN "REVERSED" ELSE journal

\* void_payment.  A refusal for the linked journal is logged and forgotten; the
\* reversal of the VAT journal may raise, and then all of it is rolled back.
VoidPayment(w) ==
  /\ Running(w, "void")
  /\ txn[w].found # NULL
  /\ ~Is(txn[w].pay, {"DELETED"})
  /\ End(w)
  /\ LET p == txn[w].pay
         was == txn[w].was
         sent == was.status = "SENT"
         paid == txn[w].found.paid - was.amount
     IN \E refused \in {FALSE} \cup IfRefused("reverse", TRUE) :
          /\ sent /\ gl[p].vat = "LIVE" => ~refused
          /\ gl' = IF sent
                   THEN [gl EXCEPT
                           ![p].entry = IF was.link = "entry" THEN Reversed(@, refused) ELSE @,
                           ![p].vat = Reversed(@, refused)]
                   ELSE gl
          /\ bills' = IF sent
                      THEN [bills EXCEPT ![was.bill] =
                              WriteBill(txn[w].found, paid, UnpaidStatus(paid), @)]
                      ELSE bills
          /\ payments' = [payments EXCEPT ![p] = WriteStatus(w, "VOID")]
  /\ At(w)
  /\ UNCHANGED batch

\* Remita confirms a payment.
ClearPayment(w, p) ==
  /\ txn[w] = Idle
  /\ Is(p, {"SENT"})
  /\ payments' = [payments EXCEPT ![p].status = "CLEARED"]
  /\ At(w)
  /\ UNCHANGED <<txn, bills, gl, batch>>

-----------------------------------------------------------------------------
(* The payment batch *)

Batched == {p \in Payments : Is(p, {"DRAFT", "APPROVED", "SENT", "CLEARED",
                                    "VOID", "REJECTED"})
                             /\ payments[p].batched}

\* terminal()
InFlight(i) ==
  \E p \in Payments :
    /\ Is(p, {"DRAFT", "APPROVED", "SENT"})
    /\ payments[p].bill = i

\* create_batch_from_invoice_ids, for one bill
CreateBatch(w, p, i, amount) ==
  /\ txn[w] = Idle
  /\ batch = "NONE"
  /\ payments[p] = NULL
  /\ ~InFlight(i)
  /\ Payable(i)
  /\ amount <= Total - bills[i].paid
  /\ payments' = [payments EXCEPT ![p] = Payment(i, amount, TRUE)]
  /\ batch' = "DRAFT"
  /\ At(w)
  /\ UNCHANGED <<txn, bills, gl>>

AddToBatch(w, p) ==
  /\ txn[w] = Idle
  /\ batch = "DRAFT"
  /\ Is(p, {"DRAFT"})
  /\ ~payments[p].batched
  /\ payments' = [payments EXCEPT ![p].batched = TRUE]
  /\ At(w)
  /\ UNCHANGED <<txn, bills, gl, batch>>

\* Mutant of ApproveBatch: the payments are left as they are.
MutantApproveBatch(w) ==
  /\ txn[w] = Idle
  /\ batch = "DRAFT"
  /\ Batched # {}
  /\ batch' = "APPROVED"
  /\ At(w)
  /\ UNCHANGED <<txn, bills, payments, gl>>

\* approve_batch approves the drafts in it as well.
ApproveBatch(w) ==
  /\ txn[w] = Idle
  /\ batch = "DRAFT"
  /\ Batched # {}
  /\ batch' = "APPROVED"
  /\ payments' = [p \in Payments |->
                    IF p \in Batched /\ payments[p].status = "DRAFT"
                    THEN [payments[p] EXCEPT !.status = "APPROVED"]
                    ELSE payments[p]]
  /\ At(w)
  /\ UNCHANGED <<txn, bills, gl>>

Amount(ps) == MapThenSumSet(LAMBDA p : payments[p].amount, ps)

\* process_batch posts what is APPROVED.  A payment that is refused is REJECTED,
\* and what its posting had flushed is committed with the rest.
ProcessBatch(w) ==
  /\ txn[w] = Idle
  /\ batch = "APPROVED"
  /\ LET todo == {p \in Batched : payments[p].status = "APPROVED"}
         outcomes == UNION {AdapterPosted(gl[p]) : p \in todo}
     IN \E o \in {f \in [todo -> outcomes] :
                    \A p \in todo : f[p] \in AdapterPosted(gl[p])} :
          LET ok == {p \in todo : o[p].ok}
              On(i) == {p \in ok : payments[p].bill = i}
              Paid(i) == bills[i].paid + Amount(On(i))
          IN /\ gl' = [p \in Payments |-> IF p \in todo THEN o[p].gl ELSE gl[p]]
             /\ payments' = [p \in Payments |->
                  IF p \in ok
                  THEN [payments[p] EXCEPT !.status = "SENT", !.link = o[p].link]
                  ELSE IF p \in todo
                       THEN [payments[p] EXCEPT !.status = "REJECTED"]
                       ELSE payments[p]]
             /\ bills' = [i \in Bills |->
                  IF On(i) = {}
                  THEN bills[i]
                  ELSE [bills[i] EXCEPT !.paid = Paid(i),
                                        !.status = PaidStatus(Paid(i))]]
             /\ batch' = IF ok = todo THEN "COMPLETED" ELSE "FAILED"
  /\ At(w)
  /\ UNCHANGED txn

-----------------------------------------------------------------------------

OpenABill(w) ==
  \E i \in scenario.bills :
    \/ OpenBill(w, i, "approveBill", {"SUBMITTED"})
    \/ OpenBill(w, i, "postBill", {"APPROVED"})
    \/ OpenBill(w, i, "apiPostBill", {"APPROVED", "POSTED", "PARTIALLY_PAID", "PAID"})
    \/ OpenBill(w, i, "voidBill", {"SUBMITTED", "APPROVED"})

BillOperation(w) ==
  OpenABill(w) \/ ApproveBill(w) \/ PostBill(w) \/ ApiPostBill(w) \/ VoidBill(w)

LoadPayment(w) ==
  \E p \in Payments :
    \/ Load(w, p, "approve", {"DRAFT"})
    \/ Load(w, p, "post", {"APPROVED"})
    \/ Load(w, p, "apiPost", {"APPROVED", "SENT", "CLEARED"})
    \/ Load(w, p, "void", {"DRAFT", "APPROVED", "SENT", "REJECTED"})

PaymentOperation(w) ==
  \/ LoadPayment(w) \/ LoadBill(w) \/ Rollback(w)
  \/ ApprovePayment(w) \/ PostPayment(w) \/ ApiPostPayment(w) \/ VoidPayment(w)
  \/ \E p \in Payments : DeletePayment(w, p) \/ ClearPayment(w, p)
  \/ \E p \in scenario.payments, i \in scenario.bills, amount \in 1 .. Total :
       CreatePayment(w, p, i, amount)

BatchOperation(w) ==
  \/ \E p \in scenario.payments, i \in scenario.bills, amount \in 1 .. Total :
       CreateBatch(w, p, i, amount)
  \/ \E p \in Payments : AddToBatch(w, p)
  \/ ApproveBatch(w)
  \/ ProcessBatch(w)

Next ==
  \E w \in scenario.sessions : BillOperation(w) \/ PaymentOperation(w) \/ BatchOperation(w)

Spec == Init /\ [][Next]_vars

-----------------------------------------------------------------------------

PaymentStatuses ==
  {"DRAFT", "APPROVED", "SENT", "CLEARED", "VOID", "REJECTED", "DELETED"}

BillRow ==
  [status : {"SUBMITTED", "APPROVED", "POSTED", "PARTIALLY_PAID", "PAID", "VOID"},
   paid : Int,
   journal : {"NONE", "DRAFT", "POSTED"}]

PaymentRow ==
  [status : PaymentStatuses, bill : Bills, amount : 1 .. Total,
   link : {"NONE", "entry", "stray"}, batched : BOOLEAN]

BillSession ==
  [op : {"approveBill", "postBill", "apiPostBill", "voidBill"}, inv : Bills, found : BillRow]

PaymentSession ==
  [op : {"approve", "post", "apiPost", "void"}, pay : Payments,
   was : PaymentRow, found : {NULL} \cup BillRow]

\* NULL is no row.
ASSUME NullAssumption == NULL \notin PaymentRow /\ NULL \notin BillRow

\* The rows, the journals and the sessions have the values of the code.
TypeOK ==
  /\ txn \in [Workers -> {Idle} \cup BillSession \cup PaymentSession]
  /\ bills \in [Bills -> BillRow]
  /\ payments \in [Payments -> {NULL} \cup PaymentRow]
  /\ gl \in [Payments -> [entry : {"NONE", "LIVE", "REVERSED"},
                          vat : {"NONE", "DRAFT", "LIVE", "REVERSED"},
                          stray : BOOLEAN]]
  /\ batch \in {"NONE", "DRAFT", "APPROVED", "COMPLETED", "FAILED"}

\* effective(): "Statuses where the payment reduces the supplier's balance"
Effective(i) == {p \in Payments : Is(p, {"SENT", "CLEARED"}) /\ payments[p].bill = i}

\* The amount paid of a bill is what its effective payments add up to, through
\* posting, voiding, batches and refusals, and its status says whether it is paid
\* in full, in part or not at all, unless sessions overlap.
PaidMatchesPayments ==
  ~overlapped => \A i \in Bills :
    /\ bills[i].paid = Amount(Effective(i))
    /\ bills[i].status = "PAID" => bills[i].paid >= Total
    /\ bills[i].status \in {"PARTIALLY_PAID", "PAID"} <=> bills[i].paid > 0

\* gl_impacting(): "Statuses where the invoice has been posted to the General
\* Ledger": a bill in one of them has a journal that is in the ledger, however
\* sessions overlap, and while they do not, no other bill has, unless a bill is
\* posted through the API.
BillLedger ==
  ~apiUsed => \A i \in Bills :
    LET impacting == bills[i].status \in {"POSTED", "PARTIALLY_PAID", "PAID"}
        posted == bills[i].journal = "POSTED"
    IN  /\ impacting => posted
        /\ posted /\ ~overlapped => impacting

\* A payment that reduces the supplier's balance was posted; the journal it refers
\* to, which void_payment will reverse, is the one in the ledger, and no second
\* journal of it is left approved, unless it is posted through the API or sessions
\* overlap.
EffectiveIsInLedger ==
  \A p \in Payments :
    ~overlapped /\ ~apiUsed /\ Is(p, {"SENT", "CLEARED"}) =>
      gl[p].entry = "LIVE" /\ payments[p].link = "entry" /\ ~gl[p].stray

\* A batch that is COMPLETED has no payment that is still to be sent, unless
\* sessions overlap.
CompletedIsSent ==
  batch = "COMPLETED" /\ ~overlapped =>
    \A p \in Batched : payments[p].status \in {"SENT", "CLEARED", "VOID"}
=============================================================================
