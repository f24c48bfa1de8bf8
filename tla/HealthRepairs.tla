---------------------------- MODULE HealthRepairs ----------------------------
(***************************************************************************)
(* Two nightly tasks of tasks/data_health.py that repair many documents in *)
(* one session: auto_post_approved_invoices rolls the session back when an *)
(* invoice is refused, fix_unbalanced_posted_journals goes on without.     *)
(*                                                                         *)
(* The task works on its own copy of the rows until it commits; one that   *)
(* dies before has changed nothing, as one that was not started.           *)
(***************************************************************************)
EXTENDS Integers, FiniteSets

CONSTANTS Invoices,   \* AR invoices
          Journals,   \* POSTED journals whose lines do not balance
          NoTask        \* no task is running

VARIABLES rows,     \* committed: status of every invoice and journal, ledger
          task,     \* the running task, or NoTask
          report,   \* what the last auto_post_approved_invoices returned
          refused   \* the invoices that post_invoice refuses, whenever it is called

repairVars == <<rows, task, report, refused>>

ASSUME InvoicesAssumption == IsFiniteSet(Invoices)

RepairsInit ==
  /\ rows = [invoice |-> [i \in Invoices |-> "SUBMITTED"],
             ledger |-> {},
             journal |-> [j \in Journals |-> "POSTED"],
             reversal |-> [j \in Journals |-> "NONE"]]
  /\ task = NoTask
  /\ report = [posted |-> 0, actual |-> 0]
  /\ refused \in SUBSET Invoices

TaskRuns(op) ==
  /\ task # NoTask
  /\ task.op = op

-----------------------------------------------------------------------------

\* A user approves an invoice; max_age_days pass.
Approve(i) ==
  /\ task = NoTask
  /\ rows.invoice[i] = "SUBMITTED"
  /\ rows' = [rows EXCEPT !.invoice[i] = "APPROVED"]
  /\ UNCHANGED <<task, report, refused>>

StartAutoPost ==
  /\ task = NoTask
  /\ task' = [op |-> "post", pending |-> rows, posted |-> 0,
              todo |-> {i \in Invoices : rows.invoice[i] = "APPROVED"}]
  /\ UNCHANGED <<rows, report, refused>>

\* Mutant of Posted: the entries are not made.
MutantPosted(r, i) == [r EXCEPT !.invoice[i] = "POSTED"]

\* post_invoice: entries in the ledger, and the status of the invoice.
Posted(r, i) ==
  [r EXCEPT !.invoice[i] = "POSTED", !.ledger = @ \cup {i}]

\* Mutant of PostOne: an invoice is posted and not counted.
MutantPostOne(i) ==
  /\ TaskRuns("post")
  /\ i \in task.todo \ refused
  /\ task' = [task EXCEPT !.todo = @ \ {i}, !.pending = Posted(@, i)]
  /\ UNCHANGED <<rows, report, refused>>

PostOne(i) ==
  /\ TaskRuns("post")
  /\ i \in task.todo \ refused
  /\ task' = [task EXCEPT !.todo = @ \ {i},
                          !.pending = Posted(@, i),
                          !.posted = @ + 1]
  /\ UNCHANGED <<rows, report, refused>>

\* db.rollback() takes back the invoices posted before this one as well.
PostRefused(i) ==
  /\ TaskRuns("post")
  /\ i \in task.todo \cap refused
  /\ task' = [task EXCEPT !.todo = @ \ {i}, !.pending = rows]
  /\ UNCHANGED <<rows, report, refused>>

FinishAutoPost ==
  /\ TaskRuns("post")
  /\ task.todo = {}
  /\ task' = NoTask
  /\ rows' = task.pending
  /\ report' = [posted |-> task.posted,
                actual |-> Cardinality(task.pending.ledger \ rows.ledger)]
  /\ UNCHANGED refused

StartFix(dryRun) ==
  /\ task = NoTask
  /\ task' = [op |-> "fix", pending |-> rows, dryRun |-> dryRun,
              todo |-> {j \in Journals : rows.journal[j] = "POSTED"}]
  /\ UNCHANGED <<rows, report, refused>>

\* A dry run, or create_reversal raises before it has changed anything.
FixNothing(j) ==
  /\ TaskRuns("fix")
  /\ j \in task.todo
  /\ task' = [task EXCEPT !.todo = @ \ {j}]
  /\ UNCHANGED <<rows, report, refused>>

\* The reversal of an unbalanced journal is unbalanced: its posting raises, with
\* the original already REVERSED.  Nothing is rolled back.
FixUnposted(j) ==
  /\ TaskRuns("fix")
  /\ ~task.dryRun
  /\ j \in task.todo
  /\ task' = [task EXCEPT !.todo = @ \ {j},
                          !.pending.journal[j] = "REVERSED",
                          !.pending.reversal[j] = "APPROVED"]
  /\ UNCHANGED <<rows, report, refused>>

FinishFix ==
  /\ TaskRuns("fix")
  /\ task.todo = {}
  /\ task' = NoTask
  /\ rows' = IF task.dryRun THEN rows ELSE task.pending
  /\ UNCHANGED <<report, refused>>

AutoPost ==
  \/ StartAutoPost
  \/ \E i \in Invoices : PostOne(i) \/ PostRefused(i)
  \/ FinishAutoPost

Fix ==
  \/ \E dryRun \in BOOLEAN : StartFix(dryRun)
  \/ \E j \in Journals : FixNothing(j) \/ FixUnposted(j)
  \/ FinishFix

RepairsNext ==
  \/ \E i \in Invoices : Approve(i)
  \/ AutoPost
  \/ Fix

RepairsSpec == RepairsInit /\ [][RepairsNext]_repairVars

-----------------------------------------------------------------------------

\* The rows, the task and its report have the values of the code.
RepairsTypeOK ==
  /\ rows \in [invoice : [Invoices -> {"SUBMITTED", "APPROVED", "POSTED"}],
               ledger : SUBSET Invoices,
               journal : [Journals -> {"POSTED", "REVERSED"}],
               reversal : [Journals -> {"NONE", "APPROVED"}]]
  /\ report \in [posted : 0 .. Cardinality(Invoices),
                 actual : 0 .. Cardinality(Invoices)]

\* An invoice is POSTED exactly when its entries are in the ledger, whichever
\* invoice of the batch was refused after it.
PostedIsInLedger ==
  \A i \in Invoices : rows.invoice[i] = "POSTED" <=> i \in rows.ledger

\* "Returns: Dict with posting counts": the report counts at least the invoices
\* that the run left posted, and exactly those when none was refused.
ReportIsBound ==
  /\ report.actual <= report.posted
  /\ refused = {} => report.actual = report.posted
=============================================================================
