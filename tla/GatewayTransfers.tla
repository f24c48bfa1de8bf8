-------------------------- MODULE GatewayTransfers --------------------------
(***************************************************************************)
(* Reimbursement of an approved expense claim by Paystack transfers.       *)
(*                                                                         *)
(* A payment intent is created, a transfer is initiated under the intent's *)
(* reference, and its outcome comes back three ways: in the answer, in     *)
(* webhooks, which are repeated and reordered, and by the polling task.    *)
(* "SELECT ... FOR UPDATE" waits for the row, but an intent the session    *)
(* has loaded before keeps the attributes it was loaded with.              *)
(***************************************************************************)
EXTENDS Sessions, Naturals, FiniteSets

CONSTANTS Scenarios,  \* the circumstances considered
          NULL

VARIABLES scenario, \* sessions: those at work; intents: the most there may be;
                    \* polls: MAX_POLL_ATTEMPTS; events: what may happen
          claim,    \* the expense claim: status, and its MARK_PAID marker
          intents,  \* intents[i]: the i-th payment intent, or NULL
          gateway,  \* gateway[i]: the transfer with the reference of intent i
          hooks,    \* hooks[i][e]: the stored webhook of event e
          books     \* the reimbursement and its reversal in the ledger

vars == <<txn, scenario, claim, intents, gateway, hooks, books>>

\* "failure" (of a transfer), "lost" (no answer to an initiation), "pollError",
\* "expiry", "force" (reset of an active intent), "reversal", "refused" (by the
\* ledger) and "manual" (payment outside the gateway)
AllEvents ==
  {"failure", "lost", "pollError", "expiry", "force", "reversal", "refused", "manual"}

ASSUME TransfersAssumption ==
  \A s \in Scenarios : /\ s.sessions \subseteq Workers
                        /\ s.intents \in Nat \ {0}
                        /\ s.polls \in Nat \ {0}
                        /\ s.events \subseteq AllEvents

Intents == 1 .. scenario.intents
May(event) == event \in scenario.events
WebhookEvents == {"success", "failed", "reversed"}
Created == {i \in Intents : intents[i] # NULL}
Active == {i \in Created : intents[i].status \in {"PENDING", "PROCESSING"}}

NewIntent == [status |-> "PENDING", code |-> FALSE, due |-> FALSE, polls |-> 0, fee |-> "NONE"]

Init ==
  /\ SessionsInit
  /\ scenario \in Scenarios
  /\ claim = [status |-> "APPROVED", marked |-> FALSE]
  /\ intents = [i \in Intents |-> NULL]
  /\ gateway = [i \in Intents |-> "NONE"]
  /\ hooks = [i \in Intents |-> [e \in WebhookEvents |-> "NONE"]]
  /\ books = [posted |-> FALSE, reversed |-> FALSE]

\* No other session holds the row of the claim, as an initiation does until it
\* commits.
ClaimIsFree(w) ==
  \A v \in Workers \ {w} : Running(v, "initiate") => txn[v].answer = NULL

\* The session works on intent i, as loaded.
Load(w, op, i, answer) ==
  /\ Begin(w, [op |-> op, intent |-> i, was |-> intents[i], answer |-> answer])
  /\ UNCHANGED <<claim, intents, gateway, hooks, books>>

Rollback(w) ==
  /\ txn[w] # Idle
  /\ End(w)
  /\ UNCHANGED <<claim, intents, gateway, hooks, books>>

-----------------------------------------------------------------------------
(* The gateway *)

Outcomes == {"success"} \cup (IF May("failure") THEN {"failed"} ELSE {})

\* A transfer that is under way ends, and one that succeeded may be reversed.
Settle(i) ==
  /\ \/ /\ gateway[i] = "pending"
        /\ \E s \in Outcomes : gateway' = [gateway EXCEPT ![i] = s]
     \/ /\ May("reversal")
        /\ gateway[i] = "success"
        /\ gateway' = [gateway EXCEPT ![i] = "reversed"]
  /\ UNCHANGED <<txn, claim, intents, hooks, books>>

\* The webhooks the gateway sends of transfer i, in any order and number
Sent(i) ==
  CASE gateway[i] = "success" -> {"success"}
    [] gateway[i] = "failed" -> {"failed"}
    [] gateway[i] = "reversed" -> {"success", "reversed"}
    [] OTHER -> {}

-----------------------------------------------------------------------------
(* The outcome of a transfer.  "row" is the intent as it is in the database,  *)
(* "seen" its status as the session loaded it.                               *)

\* mark_paid: its marker lets it run once.
MarkPaid(c) ==
  IF c.status = "APPROVED" /\ ~c.marked THEN [status |-> "PAID", marked |-> TRUE] ELSE c

\* What a posting leaves: done, or the old value when the ledger refuses it, which
\* is logged and forgotten.
Posted(done, old) == {done} \cup (IF May("refused") THEN {old} ELSE {})

\* post_expense_reimbursement, of a claim that is PAID; the key is the claim's.
Reimbursed(c) ==
  IF c.status = "PAID" THEN Posted([books EXCEPT !.posted = TRUE], books) ELSE {books}

\* _post_transfer_fee; the key is the reference of the intent.
Charged(row, fee) == IF fee /\ row.fee = "NONE" THEN Posted("POSTED", "NONE") ELSE {row.fee}

Reverted(c) == IF c.status = "PAID" THEN [c EXCEPT !.status = "APPROVED"] ELSE c

Outcome(row, c, b, ok) == [row |-> row, claim |-> c, books |-> b, ok |-> ok]

\* Mutant of Completed: the reimbursement is posted before the claim is marked.
MutantCompleted(row, fee) ==
  {Outcome([row EXCEPT !.status = "COMPLETED", !.fee = x[1]], MarkPaid(claim), x[2], TRUE) :
     x \in Charged(row, fee) \X Reimbursed(claim)}

\* The intent is completed.
Completed(row, fee) ==
  {Outcome([row EXCEPT !.status = "COMPLETED", !.fee = x[1]], MarkPaid(claim), x[2], TRUE) :
     x \in Charged(row, fee) \X Reimbursed(MarkPaid(claim))}

\* process_successful_transfer
Succeeded(row, seen, fee) ==
  IF seen \in {"PENDING", "PROCESSING"}
  THEN Completed(row, fee)
  ELSE {Outcome(row, claim, books, seen = "COMPLETED")}

\* mark_transfer_failed
Failed(row, seen) ==
  {Outcome([row EXCEPT !.status = Written(seen, "FAILED", @)], Reverted(claim), books, TRUE)}

\* Mutant of TransferReversed: the claim stays paid.
MutantTransferReversed(row, seen) ==
  IF seen \notin {"COMPLETED", "PROCESSING"} THEN {Outcome(row, claim, books, TRUE)}
  ELSE {Outcome([row EXCEPT !.status = "REVERSED"], claim, books, TRUE)}

\* _post_reversal_entries, of what was posted
Refunded(row) == IF row.fee = "POSTED" THEN Posted("REVERSED", "POSTED") ELSE {row.fee}
Returned == IF books.posted THEN Posted([books EXCEPT !.reversed = TRUE], books) ELSE {books}

\* process_transfer_reversal
TransferReversed(row, seen) ==
  CASE seen = "COMPLETED" ->
         {Outcome([row EXCEPT !.status = "REVERSED", !.fee = x[1]], Reverted(claim), x[2], TRUE) :
            x \in Refunded(row) \X Returned}
    [] seen = "PROCESSING" ->
         {Outcome([row EXCEPT !.status = "REVERSED"], Reverted(claim), books, TRUE)}
    [] OTHER -> {Outcome(row, claim, books, TRUE)}

Handled(event, row, seen) ==
  CASE event = "success" -> Succeeded(row, seen, TRUE)
    [] event = "failed" -> Failed(row, seen)
    [] event = "reversed" -> TransferReversed(row, seen)

\* The session ends with outcome r of intent i.
Apply(w, i, r) ==
  /\ r.claim # claim => ClaimIsFree(w)
  /\ End(w)
  /\ intents' = [intents EXCEPT ![i] = r.row]
  /\ claim' = r.claim
  /\ books' = r.books

-----------------------------------------------------------------------------
(* Creating an intent and initiating its transfer *)

\* Mutant of FindActive: only an intent whose transfer is under way counts.
MutantFindActive(w) ==
  /\ \A i \in Active : intents[i].status # "PROCESSING"
  /\ Load(w, "create", 1, NULL)

\* create_expense_payment_intent looks for an active intent of the claim ...
FindActive(w) ==
  \/ Active = {} /\ Load(w, "create", 1, NULL)
  \/ \E i \in Active : intents[i].due /\ Load(w, "create", i, "expired")

\* ... and creates one.  One that is past its time is EXPIRED.
CreateIntent(w) ==
  /\ Running(w, "create")
  /\ ClaimIsFree(w)
  /\ claim.status = "APPROVED"
  /\ End(w)
  /\ \E i \in Intents :
       /\ i = Cardinality(Created) + 1
       /\ intents' = [[intents EXCEPT ![i] = NewIntent] EXCEPT
                        ![txn[w].intent] = IF txn[w].answer = "expired"
                                           THEN [@ EXCEPT !.status = "EXPIRED"]
                                           ELSE @]
  /\ UNCHANGED <<claim, gateway, hooks, books>>

\* The route of initiate_expense_transfer; a late one only expires the intent.
LoadPending(w, i) ==
  /\ i \in Created
  /\ intents[i].status = "PENDING"
  /\ IF intents[i].due
     THEN /\ txn[w] = Idle
          /\ intents' = [intents EXCEPT ![i].status = "EXPIRED"]
          /\ UNCHANGED <<txn, claim, gateway, hooks, books>>
     ELSE Load(w, "initiate", i, NULL)

\* The gateway takes one transfer for a reference; asked again, it answers with
\* that one (_recover_transfer_initiation).
Initiated(i) ==
  IF gateway[i] = "NONE" THEN {"pending"} \cup Outcomes ELSE {gateway[i]}

\* initiate_expense_transfer: with the claim locked, the transfer is requested.
\* Without an answer the session is rolled back.
SendTransfer(w) ==
  /\ Running(w, "initiate")
  /\ txn[w].answer = NULL
  /\ ClaimIsFree(w)
  /\ claim.status = "APPROVED"
  /\ \E s \in Initiated(txn[w].intent) :
       /\ gateway' = [gateway EXCEPT ![txn[w].intent] = s]
       /\ \/ Continue(w, [txn[w] EXCEPT !.answer = s])
          \/ May("lost") /\ End(w)
  /\ UNCHANGED <<claim, intents, hooks, books>>

\* ... and what was answered is committed; the fee is not known yet.
CommitTransfer(w) ==
  /\ Running(w, "initiate")
  /\ txn[w].answer # NULL
  /\ LET i == txn[w].intent
         row == [intents[i] EXCEPT !.code = TRUE]
         outcomes ==
           CASE txn[w].answer = "success" -> Succeeded(row, "PROCESSING", FALSE)
             [] txn[w].answer = "failed" ->
                  {Outcome([row EXCEPT !.status = "FAILED"], claim, books, TRUE)}
             [] OTHER -> {Outcome([row EXCEPT !.status = "PROCESSING"], claim, books, TRUE)}
     IN \E r \in outcomes : Apply(w, i, r)
  /\ UNCHANGED <<gateway, hooks>>

-----------------------------------------------------------------------------
(* Webhooks *)

\* The route finds the intent of the reference ...
ReceiveWebhook(w, i) ==
  /\ i \in Created
  /\ \E e \in Sent(i) : Load(w, "webhook", i, e)

\* ... and process_webhook handles the event, unless it is stored already.
ProcessWebhook(w) ==
  /\ Running(w, "webhook")
  /\ LET i == txn[w].intent
         e == txn[w].answer
     IN IF hooks[i][e] # "NONE"
        THEN /\ End(w)
             /\ hooks' = [hooks EXCEPT ![i][e] = "DUPLICATE"]
             /\ UNCHANGED <<claim, intents, books>>
        ELSE \E r \in Handled(e, intents[i], txn[w].was.status) :
               /\ Apply(w, i, r)
               /\ hooks' = [hooks EXCEPT ![i][e] = IF r.ok THEN "PROCESSED" ELSE "FAILED"]
  /\ UNCHANGED gateway

-----------------------------------------------------------------------------
(* The polling task *)

\* PENDING intents that were never initiated and are past their time ...
FindStale(w, i) ==
  /\ i \in Created
  /\ intents[i].status = "PENDING" /\ ~intents[i].code /\ intents[i].due
  /\ Load(w, "expire", i, NULL)

\* ... are loaded again in a second session and expired.
ExpireStale(w) ==
  /\ Running(w, "expire")
  /\ End(w)
  /\ intents' = [intents EXCEPT ![txn[w].intent].status = "EXPIRED"]
  /\ UNCHANGED <<claim, gateway, hooks, books>>

FindStuck(w, i) ==
  /\ i \in Active
  /\ intents[i].code
  /\ intents[i].polls < scenario.polls
  /\ Load(w, "poll", i, NULL)

\* verify_transfer
Verify(w) ==
  /\ Running(w, "poll")
  /\ txn[w].answer = NULL
  /\ \E s \in {gateway[txn[w].intent]} \cup (IF May("pollError") THEN {"error"} ELSE {}) :
       Continue(w, [txn[w] EXCEPT !.answer = s])
  /\ UNCHANGED <<claim, intents, gateway, hooks, books>>

\* Mutant of Polled: an answer that is no failure is taken for success.
MutantPolled(row, seen, answer) ==
  IF answer \in {"pending", "error"} THEN Handled("success", row, "PROCESSING")
  ELSE Handled(answer, row, "PROCESSING")

\* What the answer means for the intent, whose polls are counted.
Polled(row, seen, answer) ==
  CASE answer = "pending" ->
         {Outcome([row EXCEPT !.status = Written(seen, "PROCESSING", @)], claim, books, TRUE)}
    [] answer = "error" ->
         {Outcome([row EXCEPT !.status = Written(seen, IF row.polls >= scenario.polls
                                                       THEN "FAILED" ELSE "PROCESSING", @)],
                  claim, books, TRUE)}
    [] OTHER -> Handled(answer, row, "PROCESSING")

\* poll_transfer_status
ApplyPoll(w) ==
  /\ Running(w, "poll")
  /\ txn[w].answer # NULL
  /\ LET i == txn[w].intent
         row == [intents[i] EXCEPT !.polls = txn[w].was.polls + 1]
     IN \E r \in Polled(row, txn[w].was.status, txn[w].answer) : Apply(w, i, r)
  /\ UNCHANGED <<gateway, hooks>>

-----------------------------------------------------------------------------
(* The user and the clock *)

Expire(i) ==
  /\ May("expiry")
  /\ i \in Active
  /\ ~intents[i].due
  /\ intents' = [intents EXCEPT ![i].due = TRUE]
  /\ UNCHANGED <<txn, claim, gateway, hooks, books>>

\* reset_expense_payment_intent of the latest intent
FindLatest(w, i) ==
  /\ i \in Created
  /\ i = Cardinality(Created)
  /\ claim.status = "APPROVED"
  /\ \/ intents[i].status \in {"ABANDONED", "FAILED", "EXPIRED"}
     \/ May("force") /\ intents[i].status \in {"PENDING", "PROCESSING"}
  /\ Load(w, "reset", i, NULL)

ResetIntent(w) ==
  /\ Running(w, "reset")
  /\ End(w)
  /\ intents' = [intents EXCEPT ![txn[w].intent].status =
                   Written(txn[w].was.status, "ABANDONED", @)]
  /\ UNCHANGED <<claim, gateway, hooks, books>>

\* mark_claim_paid: the claim is paid outside the gateway.
PayManually(w) ==
  /\ May("manual")
  /\ txn[w] = Idle
  /\ ClaimIsFree(w)
  /\ claim' = MarkPaid(claim)
  /\ UNCHANGED <<txn, intents, gateway, hooks, books>>

-----------------------------------------------------------------------------

TransferOperation(w) ==
  \/ FindActive(w) \/ CreateIntent(w) \/ SendTransfer(w) \/ CommitTransfer(w)
  \/ ProcessWebhook(w)
  \/ ExpireStale(w) \/ Verify(w) \/ ApplyPoll(w)
  \/ ResetIntent(w) \/ PayManually(w) \/ Rollback(w)
  \/ \E i \in Intents : LoadPending(w, i) \/ ReceiveWebhook(w, i) \/ FindStale(w, i)
                        \/ FindStuck(w, i) \/ FindLatest(w, i)

Next ==
  /\ \/ \E w \in scenario.sessions : TransferOperation(w)
     \/ \E i \in Intents : Settle(i) \/ Expire(i)
  /\ UNCHANGED scenario

Spec == Init /\ [][Next]_vars

-----------------------------------------------------------------------------

PolledUpTo(n) ==
  [status : {"PENDING", "PROCESSING", "COMPLETED", "FAILED", "EXPIRED", "ABANDONED", "REVERSED"},
   code : BOOLEAN, due : BOOLEAN, polls : 0 .. n, fee : {"NONE", "POSTED", "REVERSED"}]

IntentRow == PolledUpTo(scenario.polls)

TransferStates == {"NONE", "pending", "success", "failed", "reversed"}

\* NULL is no row and no answer.
ASSUME NullAssumption ==
  /\ \A s \in Scenarios : NULL \notin PolledUpTo(s.polls)
  /\ NULL \notin TransferStates \cup {"error", "expired"}

\* The rows, the stored webhooks and the sessions have the values of the code, and
\* no transfer is polled more often than allowed.
TypeOK ==
  /\ txn \in [Workers -> {Idle} \cup
               [op : {"create", "initiate", "webhook", "expire", "poll", "reset"},
                intent : Intents, was : {NULL} \cup IntentRow,
                answer : {NULL, "error", "expired"} \cup TransferStates]]
  /\ claim \in [status : {"APPROVED", "PAID"}, marked : BOOLEAN]
  /\ intents \in [Intents -> {NULL} \cup IntentRow]
  /\ gateway \in [Intents -> TransferStates]
  /\ hooks \in [Intents -> [WebhookEvents -> {"NONE", "PROCESSED", "FAILED", "DUPLICATE"}]]
  /\ books \in [posted : BOOLEAN, reversed : BOOLEAN]

Having(statuses) == {i \in Created : intents[i].status \in statuses}

\* One session at a time, and nothing happens but these events
Only(events) ==
  /\ \E w \in Workers : scenario.sessions = {w}
  /\ scenario.events \subseteq events

\* The employee is reimbursed once (create_expense_payment_intent,
\* initiate_expense_transfer): of all the intents, answers without a reply and
\* repeated webhooks, at most one transfer moves the money.
PaidOnce ==
  Only({"lost", "refused"}) =>
    Cardinality({i \in Intents : gateway[i] \in {"pending", "success"}}) <= 1

\* An intent is COMPLETED only after the gateway moved the money
\* (process_successful_transfer), however sessions, faults and manual payments fall.
CompletedWasSent == \A i \in Having({"COMPLETED"}) : gateway[i] \in {"success", "reversed"}

\* Whatever fails, expires, is reset or reversed, a claim that is PAID has a
\* completed transfer (mark_transfer_failed, process_transfer_reversal).
PaidIsBacked ==
  Only(AllEvents \ {"manual"}) => (claim.status = "PAID" => Having({"COMPLETED"}) # {})

\* The ledger carries the reimbursement exactly as long as the transfer is completed
\* (post_expense_reimbursement and its reversal), whatever the order of the webhooks.
BooksMatchTransfers ==
  scenario.intents = 1 /\ Only({"failure", "lost", "reversal"}) =>
    (books.posted /\ ~books.reversed <=> Having({"COMPLETED"}) # {})
=============================================================================
