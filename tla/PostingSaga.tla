---------------------------- MODULE PostingSaga ----------------------------
(***************************************************************************)
(* SagaOrchestrator running APInvoicePostingSaga or ARInvoicePostingSaga   *)
(* for one invoice, and SagaRecoveryService.                               *)
(*                                                                         *)
(* An executor commits before a step (EXECUTING), and after it together    *)
(* with the step's outcome.  The steps of the AR saga only flush, so their *)
(* effects are part of that second commit; those of the AP saga commit on  *)
(* their own first (commitsInStep).  A crash, and an error of the database *)
(* after which the session can no longer commit, lose what was not         *)
(* committed and leave the saga for a later call with the same key, or the *)
(* recovery service, to resume.                                            *)
(*                                                                         *)
(* Journals are those the saga creates.  posted is the journal whose lines *)
(* are in the ledger under the saga's idempotency key, reversed says that  *)
(* its reversal is, too.                                                   *)
(***************************************************************************)
EXTENDS Sessions, Integers

CONSTANTS MaxJournals,  \* bound on the journals created
          MaxTax,       \* bound on the tax transactions created
          MaxCrashes,
          Together,     \* the sets of disturbances considered in one behaviour
          NULL

VARIABLES commitsInStep,  \* TRUE: the AP saga, FALSE: the AR saga
          saga,      \* platform.saga_execution, or NULL
          steps,     \* platform.saga_step rows
          journals,  \* status of each journal
          posted, reversed,
          tax,       \* tax transactions of the invoice
          invoice,
          crashes,
          disturbed, \* history: the kinds of disturbance there have been
          completed  \* history: a saga of the invoice has completed

sagaVars == <<saga, steps>>
effectVars == <<journals, posted, reversed, tax, invoice>>
faultVars == <<commitsInStep, crashes, disturbed, completed>>
vars == <<txn, sagaVars, effectVars, faultVars>>

ASSUME PostingSagaAssumption ==
  /\ MaxJournals \in Nat
  /\ MaxTax \in Nat
  /\ MaxCrashes \in Nat
  /\ Together \subseteq SUBSET {"overlap", "crash", "force", "retry",
                               "mark_failed", "cleanup"}

JournalIds == 1 .. MaxJournals
TaxIds == 1 .. MaxTax

StepNumbers == 0 .. 4

(* Steps in execution order: 0 validate_invoice, 1 create_journal,          *)
(* 2 post_to_ledger, 3 create_tax_transactions, 4 update_invoice_status.    *)

\* Mutant of OwnCommit: the tax step of either saga commits.
MutantTaxCommits(i) == i = 3

\* The steps that commit their own effects.
OwnCommit(i) == commitsInStep /\ i \in {1, 3, 4}

Terminal == {"COMPLETED", "COMPENSATED", "FAILED"}

SagaStatus == Terminal \cup {"PENDING", "EXECUTING", "COMPENSATING"}

SagaRow == [status : SagaStatus, current : 0 .. 5, journal : JournalIds \cup {NULL}]

\* NULL is no row, position, id or status.
ASSUME NullAssumption ==
  /\ NULL \notin SagaRow
  /\ NULL \notin 0 .. 5
  /\ NULL \notin JournalIds
  /\ NULL \notin SagaStatus \cup {"APPROVED", "POSTED"}

\* journal, tax and prior are what compensation_data keeps of each step.
NoResult == [journal |-> NULL, tax |-> {}, prior |-> NULL]

NewStep == [status |-> "PENDING", data |-> NoResult]

Init ==
  /\ SessionsInit
  /\ saga = NULL
  /\ steps = [i \in StepNumbers |-> NewStep]
  /\ journals = [j \in JournalIds |-> "NONE"]
  /\ posted = NULL
  /\ reversed = FALSE
  /\ tax = {}
  /\ invoice = [status |-> "APPROVED", journal |-> NULL]
  /\ commitsInStep \in BOOLEAN
  /\ crashes = 0
  /\ disturbed = {}
  /\ completed = FALSE

\* What interferes with one executor that runs the saga to its end.
Disturb(kinds) ==
  /\ disturbed' = disturbed \cup kinds
  /\ \E together \in Together : disturbed' \subseteq together

\* An executor starts while another is at work.
Overlap == IF \E w \in Workers : txn[w] # Idle THEN {"overlap"} ELSE {}

-----------------------------------------------------------------------------
(* execute: find the saga of the key, or create it *)

Execute(w) ==
  /\ saga = NULL
  /\ Begin(w, [op |-> "create"])
  /\ Disturb(Overlap)
  /\ UNCHANGED <<sagaVars, effectVars, commitsInStep, crashes, completed>>

\* The key is unique: a second creation fails.
CreateSaga(w) ==
  /\ Running(w, "create")
  /\ IF saga = NULL
     THEN /\ saga' = [status |-> "PENDING", current |-> 0, journal |-> NULL]
          /\ Continue(w, [op |-> "start", found |-> "PENDING"])
     ELSE /\ End(w)
          /\ UNCHANGED saga
  /\ UNCHANGED <<steps, effectVars, faultVars>>

\* _handle_existing_saga and recover_saga: a saga in progress is resumed, also
\* while another executor is at work on it.
Resume(w) ==
  /\ saga # NULL
  /\ saga.status \notin Terminal
  /\ Begin(w, [op    |-> IF saga.status = "COMPENSATING" THEN "undo" ELSE "start",
               found |-> saga.status])
  /\ Disturb(Overlap)
  /\ UNCHANGED <<sagaVars, effectVars, commitsInStep, crashes, completed>>

-----------------------------------------------------------------------------
(* _execute_steps *)

\* The position is read after the commit of the new status.
StartSteps(w) ==
  /\ Running(w, "start")
  /\ saga # NULL
  /\ saga' = [saga EXCEPT !.status = Written(txn[w].found, "EXECUTING", @)]
  /\ Continue(w, [op |-> "at", i |-> saga.current, journal |-> saga.journal])
  /\ UNCHANGED <<steps, effectVars, faultVars>>

\* A step that is COMPLETED already is passed over, its output merged.
SkipStep(w) ==
  LET i == txn[w].i
  IN /\ Running(w, "at")
     /\ i \in StepNumbers
     /\ steps[i].status = "COMPLETED"
     /\ Continue(w, [op |-> "at", i |-> i + 1,
                     journal |-> IF i = 1 THEN steps[i].data.journal
                                          ELSE txn[w].journal])
     /\ UNCHANGED <<sagaVars, effectVars, faultVars>>

MarkStep(w) ==
  LET i == txn[w].i
  IN /\ Running(w, "at")
     /\ i \in StepNumbers
     /\ steps[i].status # "COMPLETED"
     /\ steps' = [steps EXCEPT ![i].status = "EXECUTING"]
     /\ Continue(w, [op |-> "exec", i |-> i, journal |-> txn[w].journal,
                     found |-> saga])
     /\ UNCHANGED <<saga, effectVars, faultVars>>

\* The step's outcome, the context and the position, in one commit.  found is
\* the saga row as this session last loaded it.
Record(w, found, data) ==
  LET i == txn[w].i
      j == IF i = 1 THEN data.journal ELSE txn[w].journal
  IN /\ steps' = [steps EXCEPT ![i] = [status |-> "COMPLETED", data |-> data]]
     /\ saga' = [saga EXCEPT !.current = Written(found.current, i + 1, @),
                             !.journal = Written(found.journal, j, @)]
     /\ Continue(w, [op |-> "at", i |-> i + 1, journal |-> j])

\* A step has returned success.
Succeed(w, data) ==
  IF OwnCommit(txn[w].i)
  THEN /\ Continue(w, [op |-> "done", i |-> txn[w].i,
                       journal |-> txn[w].journal, data |-> data])
       /\ UNCHANGED sagaVars
  ELSE Record(w, txn[w].found, data)

\* After a commit of its own the session writes every column it assigns.
RecordStep(w) ==
  /\ Running(w, "done")
  /\ saga # NULL
  /\ Record(w, [current |-> NULL, journal |-> 0], txn[w].data)
  /\ UNCHANGED <<effectVars, faultVars>>

ValidateInvoice(w) ==
  /\ Running(w, "exec") /\ txn[w].i = 0
  /\ invoice.status = "APPROVED"
  /\ Succeed(w, NoResult)
  /\ UNCHANGED <<effectVars, faultVars>>

Fresh(ids) == {x \in ids : \A y \in ids : x <= y}

\* Created, submitted and approved.
CreateJournal(w) ==
  /\ Running(w, "exec") /\ txn[w].i = 1
  /\ \E j \in Fresh({k \in JournalIds : journals[k] = "NONE"}) :
       /\ journals' = [journals EXCEPT ![j] = "APPROVED"]
       /\ Succeed(w, [NoResult EXCEPT !.journal = j])
  /\ UNCHANGED <<posted, reversed, tax, invoice, faultVars>>

\* Mutant of PostToLedger: no idempotent replay of the key.
MutantPostToLedger(w) ==
  LET j == txn[w].journal
  IN /\ Running(w, "exec") /\ txn[w].i = 2
     /\ posted = NULL
     /\ UNCHANGED <<posted, journals>>
     /\ Succeed(w, [NoResult EXCEPT !.journal = j])
     /\ UNCHANGED <<reversed, tax, invoice, faultVars>>

\* post_journal_entry with the saga's key: a batch under the key is a success,
\* whatever journal it is of.
PostToLedger(w) ==
  LET j == txn[w].journal
  IN /\ Running(w, "exec") /\ txn[w].i = 2
     /\ \/ /\ posted # NULL
           /\ UNCHANGED <<posted, journals>>
        \/ /\ posted = NULL
           /\ journals[j] = "APPROVED"
           /\ posted' = j
           /\ journals' = [journals EXCEPT ![j] = "POSTED"]
     /\ Succeed(w, [NoResult EXCEPT !.journal = j])
     /\ UNCHANGED <<reversed, tax, invoice, faultVars>>

\* An invoice without tax, or lines whose tax record fails, adds nothing.
CreateTaxTransactions(w) ==
  /\ Running(w, "exec") /\ txn[w].i = 3
  /\ \/ /\ UNCHANGED tax
        /\ Succeed(w, NoResult)
     \/ \E x \in Fresh(TaxIds \ tax) :
          /\ tax' = tax \cup {x}
          /\ Succeed(w, [NoResult EXCEPT !.tax = {x}])
  /\ UNCHANGED <<journals, posted, reversed, invoice, faultVars>>

UpdateInvoiceStatus(w) ==
  /\ Running(w, "exec") /\ txn[w].i = 4
  /\ invoice' = [status |-> "POSTED", journal |-> txn[w].journal]
  /\ Succeed(w, [NoResult EXCEPT !.prior = invoice.status])
  /\ UNCHANGED <<journals, posted, reversed, tax, faultVars>>

\* A step returns failure or raises before it wrote anything: an invoice,
\* customer or supplier that is gone or refused, a refused journal or period.
\* create_journal rolls its session back.
StepFails(w) ==
  LET i == txn[w].i
  IN /\ Running(w, "exec")
     /\ steps' = [steps EXCEPT ![i].status = "FAILED"]
     /\ Continue(w, [op |-> "undo", found |-> NULL])
     /\ UNCHANGED <<saga, effectVars, faultVars>>

Complete(w) ==
  /\ Running(w, "at") /\ txn[w].i \notin StepNumbers
  /\ saga # NULL
  /\ saga' = [saga EXCEPT !.status = "COMPLETED"]
  /\ completed' = TRUE
  /\ End(w)
  /\ UNCHANGED <<steps, effectVars, commitsInStep, crashes, disturbed>>

-----------------------------------------------------------------------------
(* _compensate_steps *)

StartCompensation(w) ==
  /\ Running(w, "undo")
  /\ saga # NULL
  /\ saga' = [saga EXCEPT !.status = Written(txn[w].found, "COMPENSATING", @)]
  /\ Continue(w, [op |-> "back", i |-> saga.current - 1, failed |-> FALSE])
  /\ UNCHANGED <<steps, effectVars, faultVars>>

\* Mutant of SkipBack: the loop stays at a step that was not completed.
MutantSkipBack(w) ==
  /\ Running(w, "back")
  /\ txn[w].i \in StepNumbers
  /\ steps[txn[w].i].status # "COMPLETED"
  /\ UNCHANGED vars

\* Only a step found COMPLETED is compensated.
SkipBack(w) ==
  LET i == txn[w].i
  IN /\ Running(w, "back")
     /\ i \in StepNumbers
     /\ steps[i].status # "COMPLETED"
     /\ Continue(w, [txn[w] EXCEPT !.i = i - 1])
     /\ UNCHANGED <<sagaVars, effectVars, faultVars>>

\* validate_invoice has no compensation.
MarkBack(w) ==
  LET i == txn[w].i
  IN /\ Running(w, "back")
     /\ i \in StepNumbers
     /\ steps[i].status = "COMPLETED"
     /\ IF i = 0
        THEN /\ steps' = [steps EXCEPT ![i].status = "COMPENSATED"]
             /\ Continue(w, [txn[w] EXCEPT !.i = i - 1])
        ELSE /\ steps' = [steps EXCEPT ![i].status = "COMPENSATING"]
             /\ Continue(w, [txn[w] EXCEPT !.op = "comp"])
     /\ UNCHANGED <<saga, effectVars, faultVars>>

\* A compensation has returned TRUE.
Compensated(w) ==
  LET i == txn[w].i
  IN IF OwnCommit(i)
     THEN /\ Continue(w, [txn[w] EXCEPT !.op = "undone"])
          /\ UNCHANGED sagaVars
     ELSE /\ steps' = [steps EXCEPT ![i].status = "COMPENSATED"]
          /\ Continue(w, [txn[w] EXCEPT !.op = "back", !.i = i - 1])
          /\ UNCHANGED saga

RecordCompensation(w) ==
  /\ Running(w, "undone")
  /\ steps' = [steps EXCEPT ![txn[w].i].status = "COMPENSATED"]
  /\ Continue(w, [txn[w] EXCEPT !.op = "back", !.i = @ - 1])
  /\ UNCHANGED <<saga, effectVars, faultVars>>

\* A journal that is VOID or POSTED is left; any other becomes VOID.
VoidJournal(w) ==
  LET j == steps[1].data.journal
  IN /\ Running(w, "comp") /\ txn[w].i = 1
     /\ journals' = [journals EXCEPT ![j] =
                       IF @ \in {"VOID", "POSTED"} THEN @ ELSE "VOID"]
     /\ Compensated(w)
     /\ UNCHANGED <<posted, reversed, tax, invoice, faultVars>>

\* create_reversal with auto_post.
ReverseJournal(w) ==
  LET j == steps[2].data.journal
  IN /\ Running(w, "comp") /\ txn[w].i = 2
     /\ journals[j] = "POSTED"
     /\ journals' = [journals EXCEPT ![j] = "REVERSED"]
     /\ reversed' = TRUE
     /\ Compensated(w)
     /\ UNCHANGED <<posted, tax, invoice, faultVars>>

\* The reversal is refused, for the journal's status or a closed period: the
\* step stays COMPENSATING.
ReversalRefused(w) ==
  /\ Running(w, "comp") /\ txn[w].i = 2
  /\ Continue(w, [op |-> "back", i |-> 1, failed |-> TRUE])
  /\ UNCHANGED <<sagaVars, effectVars, faultVars>>

DeleteTaxTransactions(w) ==
  /\ Running(w, "comp") /\ txn[w].i = 3
  /\ tax' = tax \ steps[3].data.tax
  /\ Compensated(w)
  /\ UNCHANGED <<journals, posted, reversed, invoice, faultVars>>

RevertInvoiceStatus(w) ==
  /\ Running(w, "comp") /\ txn[w].i = 4
  /\ invoice' = [status |-> steps[4].data.prior, journal |-> NULL]
  /\ Compensated(w)
  /\ UNCHANGED <<journals, posted, reversed, tax, faultVars>>

\* Mutant of FinishCompensation: a failed compensation is not remembered.
MutantFinishCompensation(w) ==
  /\ Running(w, "back") /\ txn[w].i \notin StepNumbers
  /\ saga # NULL
  /\ saga' = [saga EXCEPT !.status = "COMPENSATED"]
  /\ End(w)
  /\ UNCHANGED <<steps, effectVars, faultVars>>

FinishCompensation(w) ==
  /\ Running(w, "back") /\ txn[w].i \notin StepNumbers
  /\ saga # NULL
  /\ saga' = [saga EXCEPT !.status = IF txn[w].failed THEN "FAILED"
                                                      ELSE "COMPENSATED"]
  /\ End(w)
  /\ UNCHANGED <<steps, effectVars, faultVars>>

-----------------------------------------------------------------------------
(* SagaRecoveryService, and failures *)

\* Mutant of ForceCompensate: a saga in a terminal state is compensated, too.
MutantForceCompensate(w) ==
  /\ saga # NULL
  /\ Disturb(Overlap \cup {"force"})
  /\ Begin(w, [op |-> "undo", found |-> saga.status])
  /\ UNCHANGED <<sagaVars, effectVars, commitsInStep, crashes, completed>>

\* recover_saga(force_compensate = True)
ForceCompensate(w) ==
  /\ saga # NULL
  /\ saga.status \notin Terminal
  /\ Disturb(Overlap \cup {"force"})
  /\ Begin(w, [op |-> "undo", found |-> saga.status])
  /\ UNCHANGED <<sagaVars, effectVars, commitsInStep, crashes, completed>>

\* retry_compensation
RetryCompensation(w) ==
  /\ saga # NULL
  /\ saga.status = "FAILED"
  /\ IF \E i \in StepNumbers : steps[i].status = "COMPLETED"
     THEN /\ saga' = [saga EXCEPT !.status = "COMPENSATING"]
          /\ Begin(w, [op |-> "undo", found |-> NULL])
     ELSE /\ txn[w] = Idle
          /\ saga' = [saga EXCEPT !.status = "COMPENSATED"]
          /\ UNCHANGED txn
  /\ Disturb(Overlap \cup {"retry"})
  /\ UNCHANGED <<steps, effectVars, commitsInStep, crashes, completed>>

\* mark_failed
MarkFailed ==
  /\ saga # NULL
  /\ saga' = [saga EXCEPT !.status = "FAILED"]
  /\ Disturb({"mark_failed"})
  /\ UNCHANGED <<txn, steps, effectVars, commitsInStep, crashes, completed>>

\* cleanup_old_completed_sagas, once 90 days have passed: no executor is left.
Cleanup ==
  /\ saga # NULL
  /\ saga.status \in Terminal
  /\ \A w \in Workers : txn[w] = Idle
  /\ saga' = NULL
  /\ steps' = [i \in StepNumbers |-> NewStep]
  /\ Disturb({"cleanup"})
  /\ UNCHANGED <<txn, effectVars, commitsInStep, crashes, completed>>

Crash(w) ==
  /\ txn[w] # Idle
  /\ crashes < MaxCrashes
  /\ crashes' = crashes + 1
  /\ Disturb({"crash"})
  /\ End(w)
  /\ UNCHANGED <<sagaVars, effectVars, commitsInStep, completed>>

Perform(w) ==
  \/ ValidateInvoice(w)
  \/ CreateJournal(w)
  \/ PostToLedger(w)
  \/ CreateTaxTransactions(w)
  \/ UpdateInvoiceStatus(w)

Undo(w) ==
  \/ VoidJournal(w)
  \/ ReverseJournal(w)
  \/ ReversalRefused(w)
  \/ DeleteTaxTransactions(w)
  \/ RevertInvoiceStatus(w)

\* What a running executor does next.
Step(w) ==
  \/ CreateSaga(w)
  \/ StartSteps(w) \/ SkipStep(w) \/ MarkStep(w)
  \/ Perform(w) \/ StepFails(w) \/ RecordStep(w) \/ Complete(w)
  \/ StartCompensation(w) \/ SkipBack(w) \/ MarkBack(w)
  \/ Undo(w) \/ RecordCompensation(w) \/ FinishCompensation(w)

Next ==
  \/ \E w \in Workers :
       \/ Execute(w)
       \/ Resume(w)
       \/ Step(w)
       \/ ForceCompensate(w)
       \/ RetryCompensation(w)
       \/ Crash(w)
  \/ MarkFailed
  \/ Cleanup

\* A running executor goes on.
Fairness == \A w \in Workers : WF_vars(Step(w))

Spec == Init /\ [][Next]_vars /\ Fairness

-----------------------------------------------------------------------------

Result == [journal : JournalIds \cup {NULL}, tax : SUBSET TaxIds,
           prior : {"APPROVED", "POSTED", NULL}]

StepRow == [status : {"PENDING", "EXECUTING", "COMPLETED", "FAILED",
                      "COMPENSATING", "COMPENSATED"},
            data : Result]

\* What an executor knows, by what it does next.
Txn ==
  [op : {"create"}]
  \cup [op : {"start"}, found : SagaStatus]
  \cup [op : {"at"}, i : 0 .. 5, journal : JournalIds \cup {NULL}]
  \cup [op : {"exec"}, i : StepNumbers, journal : JournalIds \cup {NULL},
         found : SagaRow]
  \cup [op : {"done"}, i : StepNumbers, journal : JournalIds \cup {NULL},
         data : Result]
  \cup [op : {"undo"}, found : SagaStatus \cup {NULL}]
  \cup [op : {"back", "comp", "undone"}, i : -1 .. 4, failed : BOOLEAN]

ASSUME IdleAssumption == Idle \notin Txn

\* The rows have the columns and value sets of the models.
TypeOK ==
  /\ txn \in [Workers -> Txn \cup {Idle}]
  /\ saga \in SagaRow \cup {NULL}
  /\ steps \in [StepNumbers -> StepRow]
  /\ journals \in [JournalIds -> {"NONE", "APPROVED", "POSTED", "REVERSED", "VOID"}]
  /\ posted \in JournalIds \cup {NULL}
  /\ invoice \in [status : {"APPROVED", "POSTED"}, journal : JournalIds \cup {NULL}]
  /\ disturbed \subseteq UNION Together

\* A journal whose lines are, or may yet get, into the ledger.
Live(j) == journals[j] \in {"APPROVED", "POSTED"}

Undisturbed(kinds) == disturbed \cap kinds = {}

\* A completed saga left the invoice POSTED, linked to the journal that is in
\* the ledger, not reversed, wherever executors crashed and resumed and whatever
\* SagaRecoveryService did, as long as executors do not overlap and the row of
\* an earlier saga is not deleted.
CompletedIsPosted ==
  /\ saga # NULL
  /\ saga.status = "COMPLETED"
  /\ Undisturbed({"overlap", "cleanup"})
  => /\ invoice.status = "POSTED"
     /\ posted # NULL
     /\ invoice.journal = posted
     /\ ~reversed

\* The AR saga leaves no more than one journal of the invoice approved or posted,
\* so that no second one can be posted by hand, and each tax transaction once:
\* its steps are committed with their outcome.
NothingOrphaned ==
  ~commitsInStep /\ Undisturbed({"overlap", "cleanup"}) =>
    /\ \A j, k \in JournalIds : Live(j) /\ Live(k) => j = k
    /\ saga # NULL /\ saga.status = "COMPLETED" => tax \subseteq steps[3].data.tax

\* Once a saga has completed its invoice stays POSTED, through recovery, the
\* deletion of the saga's row and a second saga for the same invoice.
CompletedStays ==
  completed /\ Undisturbed({"overlap"}) => invoice.status = "POSTED"

\* Executors that are not interrupted bring the saga to an end, also two at once.
SagaEnds ==
  (saga # NULL) ~> \/ saga # NULL /\ saga.status \in Terminal
                   \/ disturbed \ {"overlap"} # {}

\* The abstract saga: all effects, none, or openly failed.
Outcome ==
  CASE disturbed # {} -> "disturbed"
    [] disturbed = {} /\ saga = NULL -> "open"
    [] OTHER ->
       CASE saga.status = "COMPLETED"   -> "completed"
         [] saga.status = "COMPENSATED" -> "compensated"
         [] saga.status = "FAILED"      -> "failed"
         [] OTHER                       -> "open"

Effect ==
  IF disturbed # {} THEN {} ELSE
  {x \in {"journal", "ledger", "tax", "invoice"} :
     \/ x = "journal" /\ \E j \in JournalIds : Live(j)
     \/ x = "ledger" /\ posted # NULL /\ ~reversed
     \/ x = "tax" /\ tax # {}
     \/ x = "invoice" /\ invoice.status = "POSTED"}

Contract == INSTANCE SagaContract
  WITH outcome <- Outcome, effect <- Effect,
       Effects <- {"journal", "ledger", "tax", "invoice"},
       Required <- {"journal", "ledger", "invoice"}

\* The orchestrator with its steps and compensations implements the contract, in
\* both sagas, up to the first disturbance.
ImplementsContract == Contract!Spec
=============================================================================
