# Verification of the finance core

TLA+ models of the parts of this ERP where money, stock and documents have to
agree with each other: the double-entry ledger with its periods and reversals,
the balance cache that an outbox keeps in step, document numbers, posting sagas,
idempotency keys, the nightly repairs, supplier payments, expense claims and
their transfers, and sales orders with their stock. TLC checks the models on
small instances; TLAPS proves their safety for instances of any size.

    tlc -workers 2 -config GeneralLedgerRacing.cfg MCGeneralLedger   # one run
    tlapm GeneralLedgerProofs.tla                                    # its proofs

## Inventory

Paths are below `src/app/services/` unless they start with `tasks/` or `api/`.

| Component | State | Operations | Interacts with | Hard part | Correct when |
|---|---|---|---|---|---|
| Journals (`finance/gl/journal.py`) | `gl.journal_entry`, `journal_entry_line` | create, update, delete, submit, approve, post, void, reverse | posting, reversal, periods, numbering | every operation tests the row it loaded and writes by primary key | what is posted is what was approved |
| Ledger posting (`finance/gl/ledger_posting.py`) | `gl.posting_batch`, `posted_ledger_line` | post_journal_entry | journals, period guard, outbox | the key is looked up long before the insert; the period is read once | balanced, append-only, once per journal, in a covering open period |
| Reversal (`finance/gl/reversal.py`) | links between journals | create_reversal | posting, periods | linked and marked REVERSED before it is posted | nets to zero, at most once |
| Fiscal periods (`finance/gl/period_guard.py`, `fiscal_period.py`) | `gl.fiscal_period` | open, soft/hard close, reopen, close session; the gate | posting | overlapping periods; status read and written without a lock | hard close is final |
| Sessions (`db/`, `api/deps.py`) | a transaction per request or task | begin, flush, commit, roll back | everything | READ COMMITTED, no version check | – |
| Event outbox (`finance/platform/outbox_publisher.py`, `tasks/outbox_relay.py`) | `platform.event_outbox` | publish, poll, deliver, retry, dead-letter | posting, balances | polled without locks | every event is settled |
| Account balances (`finance/gl/account_balance.py`, `balance_*.py`) | `gl.account_balance`, `balance_refresh_queue` | invalidate, add a batch, refresh, rebuild | outbox, ledger | two mechanisms maintain one row | equal to the ledger's sums |
| Data-health tasks (`tasks/data_health.py`) | the rows of the others | stuck events, rebuild, auto-post, fix unbalanced | outbox, balances, AR, reversal | rewrite what others work on; one session for many documents | repairs leave no half state |
| Numbering (`finance/common/numbering.py`) | `core_config.numbering_sequence` | next number | every document | resets by a date fixed before the lock | no number twice, none skipped |
| Sagas (`finance/platform/saga_*.py`, `ap/ap_posting_saga.py`, `ar/ar_posting_saga.py`) | `platform.saga_execution`, `saga_step` | execute, resume, compensate, recover | AP, AR, posting | commits between steps; crash, retry, two executors | done or compensated, never half |
| API idempotency (`finance/platform/idempotency.py`, `api/idempotency.py`) | `platform.idempotency_record` | check, reserve, update, expire | API routes | a gap between check and reservation; expiry | one effect per key |
| Accounts payable (`finance/ap/`) | invoices, payments, batches | approve, post, void, pay, batch | journals, posting, sagas | document and ledger change apart when one is refused | document agrees with its journal |
| Accounts receivable (`finance/ar/`) | invoices, receipts | post (daily task, saga) | data-health tasks, sagas | as payables | as payables |
| Sales orders (`finance/ar/sales_order.py`, `inventory/stock_reservation.py`) | orders, lines, shipments, reservations | submit, approve, confirm, ship, hold, cancel, expire | inventory, numbering | nothing locks but the shipment's number | nothing shipped beyond the order; what is promised is allocated |
| Inventory (`inventory/`) | on hand, allocated | receive, issue, allocate, deallocate | sales orders | allocation written from the loaded value | as above |
| Expense claims (`expense/`) | claim, items, approval chain, markers | edit, submit, decide, post, pay | idempotency, transfers, posting | decisions on a stale chain or status | paid once, what was approved |
| Payment gateway (`finance/payments/`, `tasks/expense.py`) | payment intents, webhooks | create, initiate, webhook, poll, expire, reset, reverse | expense claims, posting | three ways for an outcome to arrive, in any order | the employee is paid once |
| Banking, tax/lease/consolidation/IPSAS/assets, people and payroll, web layer, integrations | | | posting | | not modelled, see below |

**In one line:** a request or a task runs services in one session; a posting
passes `require_open_period`, inserts the batch and its lines, marks balances
stale and writes the outbox event in that transaction; tasks then relay, refresh
and rebuild in sessions of their own; payables, sagas, claims, transfers and
repairs are callers of that posting which keep a status of their own beside it.

## Modules

| Module | Models | Extends |
|---|---|---|
| `Sessions` | a worker's transaction: begin, continue, end; which columns an UPDATE writes | |
| `JournalLines` | line arithmetic: rounding, entry check, posting checks, trigger, the swap of a reversal | |
| `FiscalPeriods` | period rows, the posting gate, the lifecycle operations | `Sessions` |
| `GeneralLedger` | journals, posting, reversal, composed with the periods and the lines | `FiscalPeriods`, `JournalLines` |
| `LedgerContract` | what the ledger promises: append-only, one acceptable entry per journal | |
| `SumTheorems` | lemmas about sums over finite sets, for the proofs below | |
| `GeneralLedgerProofs` | the theorems about `GeneralLedger` | `GeneralLedger`, `SumTheorems` |
| `BalanceCache` | outbox, refresh queue, balances and the four tasks | `Sessions` |
| `DocumentNumbering` | one sequence, its row lock, and the documents that carry the numbers | `Sessions` |
| `PostingSaga` | orchestrator, both posting sagas, recovery service | `Sessions` |
| `SagaContract` | all effects, none, or openly failed | |
| `PostingSagaProofs` | the theorems about `PostingSaga` | `PostingSaga` |
| `IdempotentRequests` | one key of one endpoint | `Sessions` |
| `HealthRepairs` | the two tasks that repair many documents in one session | |
| `PlatformProofs` | the theorems about the four models to the right | `DocumentNumbering`, `IdempotentRequests`, `HealthRepairs`, `BalanceCache` |
| `Payables` | bills, payments, a batch, their journals | `Sessions` |
| `PayablesProofs` | the theorems about `Payables` | `Payables`, `SumTheorems` |
| `ExpenseClaims` | a claim, its items, chain, markers, posting and payment | `Sessions` |
| `ExpenseClaimsProofs` | the theorems about `ExpenseClaims` | `ExpenseClaims`, `SumTheorems` |
| `GatewayTransfers` | a claim's intents, the gateway, webhooks, polling, the books | `Sessions` |
| `GatewayTransfersProofs` | the theorems about `GatewayTransfers` | `GatewayTransfers` |
| `SalesOrders` | orders, lines, shipments, reservations and one stock | `Sessions` |
| `SalesOrdersProofs` | the theorems about `SalesOrders` | `SalesOrders`, `SumTheorems` |
| `MC…` | the small instances | |

**Transactions.** Services only flush; the request dependency or the task
commits. PostgreSQL runs READ COMMITTED, and what a session has flushed stays
locked until it commits, so its writes are one step. Its reads come earlier: one
action loads the rows and tests them, another writes with the commit (named
`Commit…`, or guarded by `Running`/`Commit`). Between them every other session
may commit. An UPDATE names the primary key only: several models have a `version`
column, but no mapper sets `version_id_col`, and `atomic_status_transition` of
`finance/concurrency.py` has no caller. SQLAlchemy leaves a column without a net
change out of the UPDATE (`Written`). A `SELECT … FOR UPDATE` without
`populate_existing` waits for the row but leaves an already loaded object as it
was; `GatewayTransfers` keeps both (`seen` and the row). A failure before the
commit is `Rollback`, `Crash` or `Refuse`.

Who commits after an exception differs, and the models follow it: `get_db` rolls
back, but a route that stores the error in its idempotency record commits what was
flushed (`ExpenseClaims!Fail`, `IdempotentRequests!Raise`), a web handler that
catches the error and redirects lets its dependency commit (`SalesOrders`), and a
task that swallows it commits at its end (`HealthRepairs!FixUnposted`,
`Payables` batches).

In `Payables` a bill is loaded and tested by `OpenBill` and written by `ApproveBill`,
`PostBill`, `ApiPostBill` or `VoidBill`, over whatever it has become; payments take
`Load`, `LoadBill` and the step that commits. Creation, deletion, clearing and the
batch are one step each. They write the status of a bill only with the amount
paid of it, where payments refer to it, and a bill's journal, once posted, stays. Of two
postings of one bill that overlap, the second makes a journal whose posting is a
replay under the first one's key; the model keeps the posted one. In
`ExpenseClaims` the claim is loaded by `Load`, an existing action marker is read by
`FindMarker` (`FindMarkers` for a resubmission) and written with the commit; only
the insertion of a marker, which waits for the other session, is one step with it.

**History variables and scenarios.** Several properties hold only while sessions
take turns. The modules say so inside the property, by history variables that
record what has happened (`overlapped`, `apiUsed`, `raced`, `outlived`,
`wentBack`, `disturbed`) or by `scenario`, a constant-like variable chosen in
`Init` that says which sessions, rows and events take part, so that one run covers
a deep serial instance and a small concurrent one. What the code does once the
condition is broken is in the table of deviations.

**Data.** Amounts are small integers: millionths (`NUMERIC(20, 6)`) in the
ledger, whole units elsewhere. In `BalanceCache` an amount is the number of times
each batch is counted in it, which tells apart right, missing and double counts.
In `DocumentNumbering` a date is a month. A journal of `Payables`, `PostingSaga`
or `HealthRepairs` is its status: whether its lines balance is the subject of
`GeneralLedger`, and whether its posting is refused is a choice here.

**Left out of these modules.** Organisations (every query is scoped to one),
dimensions, currencies beyond the functional amounts, audit and hook events
(best-effort, they change none of the rows here). `_ensure_period_exists`: dates
of an instance always have a period. Two overlapping `update_journal` calls can
leave both line sets, which the single line list of the model does not show.
`uq_pll_journal_line_once`, which the keys already imply. Reopening a period is
modelled although no route calls it. What a task of `BalanceCache` reads before
its first write is read in one step, and its balance rows exist from the start.
The lines of an order in `SalesOrders` are for positive quantities, which the entry of
orders, left out here, does not check; the quantities of a shipment are any integers.
The components' notes in `PROJECT.json` name the operations that are left out of
each.

## Runs

| Run | Instance | Distinct states | Shows |
|---|---|---|---|
| `gl_serial` | 1 session, 2 journals, 2 users, a month with an adjustment period inside it, 1 reopen session, inputs that round apart within and beyond the tolerance, segregation of duties | 193 488 | `PostedInCoveringPeriod`, `LedgerMatchesJournals`, `FourEyes`, `ReversedNetsToZero`, `NoPostingToClosedPeriod` |
| `gl_racing` | 2 sessions, 2 journals, 1 period, a plain input and one beyond the trigger's tolerance | 154 200 | `TypeOK`, `LedgerBalanced`, `PostedAtMostOnce`, `PostedIsInLedger`, `ImplementsContract` |
| `finding_double_reversal` | 2 sessions, 3 journals | – | `ReversedAtMostOnce` is violated |
| `balance_cache` | 2 workers, 2 batches on 1 balance, 2 retries, 1 crash | 984 864 | `NoStrandedEvent`, `ConvergesToLedger`, `EventsSettle` |
| `numbering` | 3 sessions, 3 months over the end of a 2-month year, numbers to 3, all reset frequencies | 170 729 | `FreshNumbers`, `Gapless` |
| `saga` | AP and AR saga, 2 executors, 3 journals, 2 tax entries, 2 crashes, four sets of disturbances | 783 343 | `CompletedIsPosted`, `NothingOrphaned`, `CompletedStays`, `SagaEnds`, `ImplementsContract` |
| `expense` | 1 session with 2 items, corrections and sequential, parallel and single chains; 1 session with perhaps nobody to ask; 2 sessions on 1 item | 660 018 | `ApprovedMatchesItems`, `PendingHasApprover`, `PaidOnce` |
| `idempotency` | 2 requests at once, 2 bodies, 3 effects | 8 888 | `AtMostOnce`, `SuccessIsReal`, `KeyRecovers` |
| `health` | 3 invoices of which any are refused, 2 unbalanced journals | 9 833 | `PostedIsInLedger`, `ReportIsBound` |
| `payables` | 1 session with 2 bills, 2 payments and a batch; 2 sessions on 1 of each; every posting, VAT release or reversal may be refused | 7 059 505 | `PaidMatchesPayments`, `BillLedger`, `EffectiveIsInLedger`, `CompletedIsSent` |
| `transfers` | 3 intents with lost answers; 1 transfer with all outcomes; 2 intents with every fault; 2 sessions with everything | 2 221 224 | `PaidOnce`, `CompletedWasSent`, `PaidIsBacked`, `BooksMatchTransfers` |
| `orders` | 2 orders on one stock; an order of 2 lines; 2 sessions on 1 order, quantities of −1 and 0 included; 2 sessions on a reservation that falls due | 968 581 | `ShippedMatchesShipments`, `AllocationCoversPromises`, `StatusMatchesShipped`, `ExpiredIsReleased` |

Every bound is a constant of the cfg or a field of a scenario. Two sessions are
enough for each race listed under hazards, all of which are between two
transactions, and three for numbers, where one session holds the row, one waits
with an old date and one comes with the new. Two journals make an original and its
reversal. The retry limit of the outbox is 5 in the code; with 2 events reach it
after first and later retries. Two orders compete for one stock, two lines make a
shipment that is refused at its second. Symmetry sets permute interchangeable
workers, journals or users, and no run with symmetry checks liveness. Where a run
does not check deadlock, its cfg says which rest state the system has.

Each module states `TypeOK` (`NumberingTypeOK`, `RepairsTypeOK`, `CacheTypeOK`), which
documents its variables. `gl_racing` checks the one of `GeneralLedger`; the others
are checked by adding them to the INVARIANTS of their cfg.

**Fairness.** `GeneralLedger`, `DocumentNumbering`, `ExpenseClaims`, `Payables`,
`HealthRepairs` and `GatewayTransfers` state safety only, and have none. Liveness
of the polling of transfers was left out: an intent whose polls are used up
depends on a webhook, which the gateway need not send.
- `BalanceCache`: a begun task goes on (statements have timeouts and a failure is a
  step too), a retry delay passes, and the beat schedule of
  `services/scheduler_config.py` (relay every 30 s, rebuild daily) keeps starting
  relay and rebuild (strong: a worker is not always idle, but tasks leave the
  broker in order). Handler failures may happen each time, which is why settling
  means published or dead.
- `PostingSaga`: an executor that has not crashed goes on.
- `IdempotentRequests`: clients that got no final answer send again, a request that
  is processed comes to an end, and the time to live passes.
- `SalesOrders`: a session commits, and the beat schedule keeps starting
  `release_expired_stock_reservations`. Shipments, receipts and cancellations need
  not happen.

## Known deviations

What the models show the code to do against a sentence of the repository, or
against what one expects of it. The first is kept as the run
`finding_double_reversal`; the others were met in the same way, and the
properties above exclude them by their conditions.

| At | The repository says | The code does |
|---|---|---|
| `gl/reversal.py:105` | "Journal has already been reversed" (`:107`) | two overlapping reversals of a journal both post |
| `gl/ledger_posting.py:220` | "permanent, no further posting" (`gl/period_guard.py:491`) | a posting past the gate commits after the hard close |
| `gl/fiscal_period.py:171` | "Hard close a fiscal period (permanent)." (`:357`) | an open or reopen that loaded SOFT_CLOSED commits after the hard close |
| `gl/journal.py:434` | "Journal entries are immutable after posting." (`docs/gl_source_of_truth.md:33`) | an edit, void or deletion loaded earlier commits after the posting |
| `gl/journal.py:816` | "Void a DRAFT or SUBMITTED journal." (`:793`) | APPROVED is voided too |
| `gl/journal.py:462` | "every line targets an account where posting is allowed" (`:258`) | `update_journal` does not check |
| `tasks/outbox_relay.py:108` | "keeping reporting aggregates current" (`tasks/finance.py:1620`) | refresh, then relay: counted twice and not stale, until the daily rebuild |
| `common/numbering.py:532` | "race-condition-safe generation" (`people/hr/employees.py:287`) | a reference date before the last reset restarts the counter: a date in the past, or a request that waits for the lock over the end of a year |
| `ap/ap_posting_saga.py:338` | "Each step should be atomic" (`saga_orchestrator.py:95`) | a crash between the step's commit and the orchestrator's leaves a second approved journal |
| `platform/saga_orchestrator.py:325` | "Step wasn't completed - nothing to compensate" | after a crash in a compensation the effect stays and the saga is COMPENSATED |
| `platform/saga_recovery.py:268` | "Retry compensation for a saga that failed during rollback." (`:247`) | a step whose reversal was refused is not retried, the saga becomes COMPENSATED |
| `platform/saga_recovery.py:183` | "Retry compensation for a saga that failed during rollback." (`:247`) | marking a saga as failed does not look at its status, so that a completed one can be marked and its posting then undone by a retry of a compensation that never began |
| `platform/saga_orchestrator.py:207` | "Idempotency" (`:80`) | a running saga is resumed by a second executor; the invoice may be linked to a journal that is not posted |
| `ap/ap_posting_saga.py:383` | "Cannot void a posted journal - will need reversal" (`:384`) | the reversed journal is voided, since it is no longer POSTED |
| `platform/saga_recovery.py:304` | – | after cleanup the key starts a second saga, which completes on a journal that was already posted, or reversed |
| `expense/service_common.py:237` | "One-time action marker for expense claims." (`models/expense/expense_claim_action.py:47`) | two sessions that both read a FAILED marker, as a refused payment leaves it, both go on and pay the claim twice |
| `expense/approval_service.py:574` | the test `test_multi_approval_claim_remains_pending_until_all_steps_complete` | two parallel approvals leave the claim pending with nobody to decide |
| `expense/approval_service.py:181` | "Build and persist a fresh approval chain" (`:185`) | an empty chain leaves the decided one of the last round in force |
| `expense/service_claims.py:205` | "rolls back on exception" (`api/deps.py:97`) | a refused item leaves the claim with items and a total of 0 |
| `expense/service_claims.py:293` | "Recalculate totals from items." (`models/expense/expense_claim.py:427`) | of two concurrent additions one is missing from the total |
| `expense/expense_posting_adapter.py:305` | "Use approved amount if available" (`:304`) | an item approved at zero is posted as claimed |
| `expense/service_claims.py:1288` | "CANCELLED: set()", "PAID: set()" (`service_common.py:142`) | a stale decision takes a claim out of a final status |
| `api/idempotency.py:69` | "rather than re-executing operations" (`platform/idempotency.py:4`) | two requests that both pass the check both run |
| `platform/idempotency.py:85` | as above | an expired key is deleted and runs again while its first request is still at work |
| `tasks/data_health.py:328` | "Dict with posting counts." (`:290`) | invoices rolled back with a later one stay in the count; one refused on every run takes the earlier ones back on every run |
| `tasks/data_health.py:893` | "captured in the same db.commit()" (`gl/reversal.py:206`) | the refused reversal of an unbalanced journal is committed: REVERSED, with its lines in the ledger |
| `ap/supplier_invoice.py:1257` | "Statuses where the invoice has been posted to the General Ledger." (`models/finance/ap/supplier_invoice.py:51`) | a void or approval that loaded the bill before its posting overwrites POSTED: a VOID or APPROVED bill with a journal in the ledger |
| `ap/posting/invoice.py:131` | "a journal in APPROVED status must either be currently being posted or already point to a successful posting batch" (`posting/base.py:159`) | two postings of one bill that overlap leave a second journal that stays APPROVED |
| `ap/supplier_payment.py:588` | "optimistic locking via version field" (`models/finance/ap/supplier_invoice.py:82`) | of two payments posted at once one amount is lost |
| `ap/supplier_payment.py:364` | "Allocation exceeds balance due on" (`:366`) | two payments of the whole balance are both created and posted |
| `ap/supplier_payment.py:781` | – | the refused reversal of a voided payment is logged and the payment is VOID, with its lines in the ledger |
| `ap/supplier_payment.py:765` | "Statuses where the invoice has an unpaid balance." (`models/finance/ap/supplier_invoice.py:56`) | a bill paid twice, of which one is voided, becomes PARTIALLY_PAID |
| `ap/supplier_payment.py:570` | "Statuses where the payment has been posted" (`models/finance/ap/supplier_payment.py:48`) names CLEARED | SENT is posted as well |
| `ap/posting/invoice.py:131` | "Statuses where the invoice has been posted to the General Ledger." (`models/…/supplier_invoice.py:51`) | after a refused API posting its DRAFT journal passes for a posted one |
| `ap/posting/payment.py:211` | "a journal in APPROVED status must either be currently being posted or already point to a successful posting batch" (`posting/base.py:159`) | posted by the API and then by the service, a payment gets a second journal that stays APPROVED |
| `ap/payment_batch.py:664` | as `supplier_payment.py:48` | a payment whose VAT journal is refused is REJECTED with its own journal posted |
| `payments/payment_service.py:788` | "row-level lock to prevent race conditions" (`:824`) | two requests both find no active intent; both transfers can be sent |
| `payments/payment_service.py:1578` | "if it was somehow marked PAID" (`:1575`) | the late failure of a first transfer takes back the payment by a second |
| `tasks/expense.py:809` | "never had a transfer initiated" (`:800`) | an initiation whose answer was lost expires although its transfer is under way |
| `payments/payment_service.py:1254` | "we must honour it regardless" (`:1253`) | the success of a transfer the polling gave up is refused |
| `expense/service_claims.py:1228` | "updates the expense claim status to PAID" (`payment_service.py:1220`) | after a reversal the marker stops the second transfer from marking the claim |
| `tasks/expense.py:852` | "After this many failed poll attempts" (`:785`) | ten pending answers end the polling, and nothing fails the intent |
| `payments/payment_service.py:1247` | "prevent race conditions between webhook and manual polling" (`:1231`) | the locked SELECT returns the object as loaded; a poll completes what a webhook has reversed |
| `payments/payment_service.py:1099` | "Fee comes in webhook or verify" | the webhook of a transfer that succeeded at once returns before the fee |
| `inventory/stock_reservation.py:167` | "SELECT … FOR UPDATE" (`docs/odoo-adaptation-phase4.md:374`) | two confirmations both reserve the last unit |
| `inventory/stock_reservation.py:271` | allocation follows fulfilment (`docs/odoo-adaptation-phase4.md:56`) | fulfilling does not take the allocation back, and a short reservation is not used up |
| `ar/sales_order.py:485` | `min="0"` in the form (`templates/finance/ar/shipment_form.html:118`) | the server takes a quantity of zero or less, which lowers `quantity_shipped` again |
| `ar/sales_order.py:487` | – | a shipment refused at its second line leaves the first line shipped and the status unchanged |
| `ar/sales_order.py:740`, `:813` | – | an order cancelled or held while a shipment waits is shipped, or revived by a stale release |
| `models/finance/ar/sales_order.py:42` | "Fully shipped" | an order without lines is shipped at once |
| `models/finance/ar/sales_order.py:43` | COMPLETED when invoiced | `create_invoice_from_so` raises, so that no order gets there |
| `inventory/transaction.py:705` | – | stock is issued below zero when the check reads before another issue |

`finance/` is left out of the paths that need it. Versioned UPDATEs
(`version_id_col`) would answer most of the races, a `FOR SHARE` lock on the
period row in the gate the posting one, and `populate_existing` the poll's.

## Proofs

Every theorem is about every instance: any sets of sessions, documents, users,
periods, accounts, inputs and scenarios, under the named assumptions of the
modules. Every safety invariant and action property of the passing runs is a
theorem, and so are the inductive invariants behind them and the type invariants.

| Module | Theorem | States |
|---|---|---|
| `GeneralLedgerProofs` | `TypeCorrect` | `TypeOK` |
| | `Inductive` | the inductive invariant `IndInv` |
| | `Balanced` | `LedgerBalanced`: no interleaving of edits and postings puts an unbalanced batch into the ledger |
| | `AtMostOnce` | `PostedAtMostOnce`: no journal is in the ledger under both keys |
| | `InLedger` | `PostedIsInLedger` |
| | `InCoveringPeriod` | `PostedInCoveringPeriod` |
| | `AppendOnly` | no step changes or removes a batch |
| | `Refinement` | `ImplementsContract`: `GeneralLedger` implements `LedgerContract` |
| | `SerialInductive` | `SerialInv`, for sessions that take turns |
| | `LedgerAndJournals` | `LedgerMatchesJournals`, likewise |
| | `FourEyesSerially` | `FourEyes`, likewise |
| | `ReversalsNetToZero` | `ReversedNetsToZero`, likewise |
| | `ClosedPeriodsStayClosed` | `NoPostingToClosedPeriod`, likewise |
| `PlatformProofs` | `NumberingTypes` | `NumberingTypeOK` |
| | `NumbersAreFresh` | `FreshNumbers` |
| | `NumbersAreGapless` | `Gapless` |
| | `RequestTypes` | `TypeOK` of `IdempotentRequests` |
| | `SuccessCanBeReliedOn` | `SuccessIsReal` of `IdempotentRequests` |
| | `ExecutedAtMostOnce` | `AtMostOnce` |
| | `RepairsTypes` | `RepairsTypeOK` |
| | `RepairsKeepPosted` | `PostedIsInLedger` of `HealthRepairs` |
| | `ReportCounts` | `ReportIsBound` |
| | `CacheTypes` | `CacheTypeOK` |
| | `EventsAreNotStranded` | `NoStrandedEvent` |
| `PostingSagaProofs` | `Inductive`, `TypesHold` | the inductive invariant `IndInv`, `TypeOK` |
| | `CompletedSagasArePosted` | `CompletedIsPosted` |
| | `NothingIsOrphaned` | `NothingOrphaned` |
| | `CompletedSagasStay` | `CompletedStays` |
| | `KeepsContract` | `ImplementsContract`: `PostingSaga` implements `SagaContract` |
| `PayablesProofs` | `Inductive`, `TypesHold` | `IndInv`, `TypeOK` |
| | `BillsArePaidByPayments` | `PaidMatchesPayments` |
| | `BillsAreInLedger` | `BillLedger` |
| | `PaymentsAreInLedger` | `EffectiveIsInLedger` |
| | `CompletedBatchesAreSent` | `CompletedIsSent` |
| `ExpenseClaimsProofs` | `Inductive`, `TypesHold` | `IndInv`, `TypeOK` |
| | `ClaimsArePaidOnce` | `PaidOnce` |
| | `ApprovalsAddUp` | `ApprovedMatchesItems` |
| | `PendingIsDecidable` | `PendingHasApprover` |
| `GatewayTransfersProofs` | `Inductive`, `TypesHold` | `IndInv`, `TypeOK` |
| | `ReimbursedOnce` | `PaidOnce` |
| | `CompletedMovedMoney` | `CompletedWasSent` |
| | `PaidClaimsAreBacked` | `PaidIsBacked` |
| | `BooksFollowTransfers` | `BooksMatchTransfers` |
| `SalesOrdersProofs` | `Inductive`, `TypesHold` | `IndInv`, `TypeOK` |
| | `ShippedIsSent` | `ShippedMatchesShipments` |
| | `AllocationCovers` | `AllocationCoversPromises` |
| | `StatusTellsShipped` | `StatusMatchesShipped` |

**Assumptions.** Each module names its own. `…Assumption` types the constants and
makes finite the sets of rows whose amounts are summed;
`NullAssumption`, `NullRowAssumption`, `NullRecordAssumption` and `IdleAssumption`
say that the model value for "no row" or "no session" is none of the values it
stands beside. TLC evaluates all of them on the runs. Two theorems assume more in
their statement. `Serially`, of the last five of the ledger, says that there is
one session: the properties fail when sessions overlap (see the deviations), and
the ledger keeps no history variable that a property could name instead.
`CompletedSagasStay` assumes that no set of disturbances has both `mark_failed`
and `retry`: with both, the property is false (`platform/saga_recovery.py:183`
above). The other conditions are in the properties themselves.

**General ledger.** `LedgerBalanced` alone is not inductive, because a session
checks the lines in one transaction step and inserts them in another.
`GuardedTxns` says that whoever has passed the gate carries lines that were
checked and a period that covers their date, `Batches` that this is what is
stored. For `PostedAtMostOnce` a journal has two keys, one of `post_journal` and
one of `create_reversal`. `AutoPosted` says why they never meet: a reversal that
posts itself is born POSTED, so that no session ever loads it as APPROVED.
`Targets` and `BatchLinks` carry `posting_batch_id` for `PostedIsInLedger`. The
refinement follows from `StepAppends`: any step adds at most one batch, under a
key that had none.

With a single session, `SerialInv` adds that a journal and its batches agree line
for line (`Matched`), that what is approved or posted was approved by another and
not edited since (`Approvals`), that a reversal has the swapped lines of its
original (`Mirrored`), and that what the session loaded is still so (`Current`),
the period that passed the gate included. `ReversedNetsToZero` then needs that the
sum over swapped lines is the negated sum (`SumsCancel`).

**Numbering.** The holder of the row lock is the only session that knows a row, so
`SessionOK` relates one session to the row and to the documents. `AllBelow` says
that every document was drawn from a row that the present one can have come from
without a step back, at a date not after it; with `LabelBetween` (a date between
two of the same label has that label) the next number of a label is new.
Gaplessness needs `Consecutive` and `NoGaps`, and no condition on the dates.

**Sagas.** `IndInv` speaks of executors that do not overlap. `Rows` and `Fits` tie
the saga's row, the rows of its steps and the executor's position to each other:
before step `n` exactly the first `n` are completed. `Results` and `Ledger` tie
them to the effects: what step 2 posted is the journal that step 1 recorded.
`Accounted` finds every journal and tax transaction in the data of its step, or in
the hands of the executor that has committed it and not yet recorded it (`DoneAt`),
which is why `NothingOrphaned` needs a step to be committed with its outcome.
`AfterCompletion` follows a completed saga through recovery, the deletion of its
row and a second saga, which cannot get past step 0 while the invoice is POSTED.
`Calm` describes the undisturbed saga, whose compensation leaves nothing behind:
step by step this is the refinement of `SagaContract` (`StepEffects`: a step that
changes an effect leaves the saga's status alone). `TypesInv` holds without any of
these conditions: overlapping executors resume from rows that the other has since
changed, and still restore only a status that a completed step recorded (`PriorKept`).

**Payables.** `Loaded` says that a payment in a session was in a status its
operation is for; a payment's bill never changes. What holds however sessions
overlap is one direction of `BillLedger`: whoever writes POSTED has posted the
journal or found it posted, and a posted journal stays (`Journaled`); whoever writes
a paid status does so on a bill that payments refer to, and `Owed` keeps such a bill
in the ledger, also when a stale void or approval has taken its status. The
converse, that no other bill is in the ledger, is false when sessions overlap (see
the deviation at `ap/supplier_invoice.py:1257`); `Stands` carries it for sessions that
take turns, who find the bill as they loaded it. For these, `Alone` says that a
session has the rows as they are, `PaidUp` that a bill's amount and status follow
its effective payments, `Suits` which payments a batch may have at each stage, and,
unless the API posted something, `Backed` what the ledger has for each status. The
amounts are a sum over a set of payments that may have any size.

**Sums.** `SumTheorems` proves, from the definition of the community modules' fold,
that the sum over a finite set exists, and what taking an element out, joining two
sets, renaming the elements or making the terms smaller does to it. The induction
on finite sets is that of the library, applied to the set of counterexamples
(`MinimalSubset`). Ledger lines, payments, expense items and stock reservations
all rest on it.

**Expense claims.** `Paid` relates the MARK_PAID marker, and the sessions that have
found it FAILED, to the number of payments, until `raced`. The marker's unique key
orders the sessions that insert it, and a COMPLETED marker stops those that come
later. A marker that a refused payment left FAILED is read and changed without a
lock: a single session that has found it is still the only one who may pay, two are
not, and the code pays twice (see the deviations). Without overlaps,
`Flow` says that a marker of a decision goes with its status, so that the marker of
an earlier round cannot stop a later one; `Settled` that the items of an approved
claim add up; `Awaited` that a pending claim's chain has a pending step somebody can decide,
in its first round or when no round has an empty chain (see the deviation at
`expense/approval_service.py:181`). `AmountsInv` adds for `TypeOK` that totals stay
integers and what is approved or posted a natural number, also when overlapping
sessions mix columns of different versions; `total_claimed_amount`, which is
adjusted by differences, may then be any integer.

**Transfers.** `Holds` is the key: what an answer, a poll or a webhook said of a
transfer stays true while the session that read it waits, because a transfer only
goes forward. `Rows` gives `CompletedWasSent` from it, in any order of events. The
other parts are for the events a scenario allows: `Unchanged` for a single session,
`Backed` without manual payments, `Single` (one intent at most) when answers are
only lost or refused, `Agree` for one transfer.

**Data health.** For the outbox, `NoStrandedEvent` needs `Unretried`:
only a posting makes an event PENDING, and nothing does so again, so that the
recovery, which loads PENDING events only, writes back a retry count of 1
(`Handles`), below the limit whatever the relay counted meanwhile. For the
repairs, `Coherent` holds of the committed rows and of the copy the running task
would commit; `Counting` bounds the size of their difference by the report's
count, and the task's list is disjoint from both.

**Idempotency.** `Kept` says that a request being executed has a valid record of
its own body, and that what record and answers say is borne out by an effect.
`Turns` says that, as long as requests do not overlap, the one at work comes
before any effect and an effect leaves a valid record; a dead request leaves its
reservation, which blocks the key until it expires. `PlatformProofs` holds these
theorems with those about numbering and data health, for which three of its models
have names of their own (`NumberingSpec`, `RepairsSpec`, `CacheSpec`).

**Sales orders.** `IndInv` holds however sessions overlap. `ShippedMatchesShipments`
needs of the session that holds its shipment's number that the lines still are what
it loaded (`t.lines = shipped`): `OneNumbered`, the row lock of the numbering
sequence, lets no other session write them. Of other rows `Loaded` keeps only what
nobody changes, the line and the quantity of a reservation, which bound what is
drawn on it and cancelled of it. A shipment of a negative quantity lowers both
sides of `ShippedMatchesShipments` and draws on no reservation (`Drawn`). The other
two properties are for sessions that take turns, as `Serial` says in them: then
`Fresh` says that what the session loaded is still so, and `Unspent` that an active reservation is not overdrawn.
`AllocationCoversPromises` compares a column with the sum over all active
reservations (`Books`): a confirmation adds to both sides what it granted, in
whatever order the rows come (`SumRenamed`, `InOrder`), a release takes from the
allocation at most what it takes from the sum (`SumUnion`, `SumSmaller`), and a
shipment can only reduce the sum. `StatusMatchesShipped` adds the status that the
open session is going to write (`StatusToWrite`), and uses `ShippedByShipment` for
the cancellation, which looks at shipments and not at lines.

Each inductive invariant was first checked by TLC as an invariant of the
component's run.

**Only model-checked.** All liveness
(`ConvergesToLedger`, `EventsSettle`, `SagaEnds`, `KeyRecovers`,
`ExpiredIsReleased`), since TLAPS supports neither fairness nor ENABLED. Induction
with a property as a parameter is beyond the provers; the sums use a set of
counterexamples instead.

## Not modelled

- Banking and reconciliation: matching heuristics, pure functions over imported
  statements with few protocols.
- Tax, lease, consolidation, IPSAS, fixed assets: calculations with posting
  adapters; their ledger side is that of the modelled posting.
- People and payroll, authentication, tenancy, the web layer, integrations and
  notifications: workflows, rendering and I/O outside the financial core.
- Within modelled components: see the notes of the components in `PROJECT.json`.
  The collections side of the gateway and its batch service (which has no caller),
  receipts (which the routes only create), stock valuation and lots, the rollover
  of opening balances, and the creation of periods are the largest.

The map covers the services these modules translate. Most of the repository's
lines are page handlers, schemas, migrations and calculations, in which there is
no state machine to check, so that the share of covered lines stays small however
many protocols are added.

## Plan

1. `FiscalCalendar`: `create_period` and `_ensure_period_exists` racing, the
   reconciliation gate of a soft close.
2. Rollover of opening balances and dimensions in `BalanceCache`.
3. Collections: charges, their webhooks and the receipts they create.
4. Bank reconciliation as a protocol: match, unmatch, complete.
