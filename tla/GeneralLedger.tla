---------------------------- MODULE GeneralLedger ----------------------------
(***************************************************************************)
(* The general ledger: journals (JournalService), their posting to the     *)
(* append-only ledger (LedgerPostingService) and their reversal            *)
(* (ReversalService), gated by the fiscal periods.                         *)
(*                                                                         *)
(* An operation is a transaction of a worker: an action that loads the     *)
(* journal and tests its status, for postings and reversals a second one   *)
(* that passes the period gate and reads the lines, and an action that     *)
(* commits.  JournalEntry has a "version" column, but no mapper names it   *)
(* as version_id_col, so an UPDATE is by primary key alone and overwrites  *)
(* what another session committed after the load; only a row that was      *)
(* deleted meanwhile makes it fail.                                        *)
(***************************************************************************)
EXTENDS FiscalPeriods, JournalLines

CONSTANTS Journals,    \* journal ids (uuids: never used twice)
          Users,
          Inputs,      \* JournalInput payloads callers may send
          RequireSoD,  \* feature flag FEATURE_REQUIRE_SOD of the organisation
          AllowAdjustment,  \* values callers pass for allow_adjustment
          Deleted      \* a journal id whose row was deleted

VARIABLES journal,       \* gl.journal_entry rows with their lines
          batch,         \* gl.posting_batch rows with their ledger lines, by key
          outbox,        \* batches with a ledger.posting.completed event
          refreshQueue,  \* balances enqueued for a refresh
          approvedLines  \* history: the lines the last approver saw

journalVars == <<journal, approvedLines>>
ledgerVars  == <<batch, outbox, refreshQueue>>
vars        == <<txn, periodVars, journalVars, ledgerVars>>

JournalInput ==
  [date : Dates, rate : Nat \X (Nat \ {0}),
   lines : Seq([account : Accounts, debit : Int, credit : Int,
                fdebit : Int \cup {None}, fcredit : Int \cup {None}])]

ASSUME GeneralLedgerAssumption ==
  /\ Inputs \subseteq JournalInput
  /\ RequireSoD \in BOOLEAN
  /\ AllowAdjustment \subseteq BOOLEAN

JournalStatus ==
  {"DRAFT", "SUBMITTED", "APPROVED", "POSTED", "VOID", "REVERSED"}

\* The idempotency key is derived from the journal: post_journal uses
\* "{org}:GL:{journal}:v1", create_reversal "{org}:GL:{journal}:reversal:v1".
Keys == Journals \X {"v1", "reversal"}

\* Columns that posting, reversal and approval read; lines are the rows of
\* gl.journal_entry_line, batch is posting_batch_id.
JournalRow ==
  [status : JournalStatus, date : Dates, lines : Lines, creator : Users,
   approver : Users \cup {None}, batch : Keys \cup {None},
   reversal : Journals \cup {None}, reversed : Journals \cup {None}]

\* A batch is only ever committed as POSTED, together with its
\* gl.posted_ledger_line rows: no service leaves it PROCESSING or FAILED.
BatchRow == [journal : Journals, period : Periods, date : Dates, lines : Lines]

\* NULL and a deleted id are no rows and no keys.
ASSUME NullAssumption ==
  /\ Deleted # None
  /\ None \notin JournalRow \cup BatchRow \cup Keys \cup Journals \cup Users
  /\ Deleted \notin JournalRow

Exists(j) == journal[j] \notin {None, Deleted}
HasStatus(j, S) == Exists(j) /\ journal[j].status \in S

Init ==
  /\ SessionsInit
  /\ FiscalPeriodsInit
  /\ journal = [j \in Journals |-> None]
  /\ approvedLines = [j \in Journals |-> None]
  /\ batch = [k \in Keys |-> None]
  /\ outbox = {}
  /\ refreshQueue = {}

-----------------------------------------------------------------------------
(* JournalService: entry and workflow. *)

NewJournal(input, u) ==
  [status |-> "DRAFT", date |-> input.date, lines |-> StoredLines(input),
   creator |-> u, approver |-> None, batch |-> None,
   reversal |-> None, reversed |-> None]

\* create_journal.  It only reads rows nobody else removes, so that its reads
\* and its INSERT are one step.
CreateJournal(w, j, input, u) ==
  /\ txn[w] = Idle
  /\ journal[j] = None
  /\ EntryBalanced(input)
  /\ AccountsOpen(input)
  /\ RowChecks(StoredLines(input))
  /\ ResolvePeriod(input.date, FALSE, FALSE) # {}
  /\ journal' = [journal EXCEPT ![j] = NewJournal(input, u)]
  /\ UNCHANGED <<txn, periodVars, approvedLines, ledgerVars>>

\* An operation that loads journal j, tests its status and will commit later.
Load(w, j, from, t) ==
  /\ HasStatus(j, from)
  /\ Begin(w, t)
  /\ UNCHANGED <<periodVars, journalVars, ledgerVars>>

\* Mutant of UpdateJournal: a SUBMITTED or APPROVED journal can be edited.
MutantUpdateJournal(w, j, input) ==
  /\ EntryBalanced(input)
  /\ Load(w, j, {"DRAFT", "SUBMITTED", "APPROVED"},
          [op |-> "update", j |-> j, input |-> input, date |-> journal[j].date])

UpdateJournal(w, j, input) ==
  /\ EntryBalanced(input)
  /\ ResolvePeriod(input.date, FALSE, FALSE) # {}
  /\ Load(w, j, {"DRAFT"},
          [op |-> "update", j |-> j, input |-> input, date |-> journal[j].date])

\* The header columns are written, the old lines deleted, the new inserted.
CommitUpdate(w) ==
  /\ Running(w, "update")
  /\ Exists(txn[w].j)
  /\ RowChecks(StoredLines(txn[w].input))
  /\ journal' = [journal EXCEPT
       ![txn[w].j].date  = Written(txn[w].date, txn[w].input.date, @),
       ![txn[w].j].lines = StoredLines(txn[w].input)]
  /\ End(w)
  /\ UNCHANGED <<periodVars, approvedLines, ledgerVars>>

DeleteJournal(w, j) == Load(w, j, {"DRAFT"}, [op |-> "delete", j |-> j])

\* reversed_journal_id is a foreign key; reversal_journal_id is not, and the
\* link of an original to its deleted draft reversal stays.
CommitDelete(w) ==
  /\ Running(w, "delete")
  /\ LET j == txn[w].j
     IN /\ Exists(j)
        /\ \A r \in Journals : Exists(r) => journal[r].reversed # j
        /\ journal' = [journal EXCEPT ![j] = Deleted]
  /\ End(w)
  /\ UNCHANGED <<periodVars, approvedLines, ledgerVars>>

SubmitJournal(w, j) == Load(w, j, {"DRAFT"}, [op |-> "submit", j |-> j])

\* Mutant of CommitSubmit: a status the enum does not have.
MutantCommitSubmit(w) ==
  /\ Running(w, "submit")
  /\ Exists(txn[w].j)
  /\ journal' = [journal EXCEPT ![txn[w].j].status = "PENDING"]
  /\ End(w)
  /\ UNCHANGED <<periodVars, approvedLines, ledgerVars>>

CommitSubmit(w) ==
  /\ Running(w, "submit")
  /\ Exists(txn[w].j)
  /\ journal' = [journal EXCEPT ![txn[w].j].status = "SUBMITTED"]
  /\ End(w)
  /\ UNCHANGED <<periodVars, approvedLines, ledgerVars>>

ApproveJournal(w, j, u) ==
  /\ Load(w, j, {"SUBMITTED"},
          [op |-> "approve", j |-> j, user |-> u, lines |-> journal[j].lines,
           approver |-> journal[j].approver])
  /\ RequireSoD => journal[j].creator # u

CommitApprove(w) ==
  /\ Running(w, "approve")
  /\ LET j == txn[w].j
     IN /\ Exists(j)
        /\ journal' = [journal EXCEPT
                        ![j].status   = "APPROVED",
                        ![j].approver = Written(txn[w].approver, txn[w].user, @)]
        /\ approvedLines' = [approvedLines EXCEPT ![j] = txn[w].lines]
  /\ End(w)
  /\ UNCHANGED <<periodVars, ledgerVars>>

\* Mutant of VoidJournal: a POSTED journal can be voided.
MutantVoidJournal(w, j) ==
  Load(w, j, JournalStatus \ {"REVERSED", "VOID"}, [op |-> "void", j |-> j])

\* Everything but POSTED and REVERSED may be voided; voiding a VOID journal
\* changes no column.
VoidJournal(w, j) ==
  Load(w, j, JournalStatus \ {"POSTED", "REVERSED", "VOID"},
       [op |-> "void", j |-> j])

CommitVoid(w) ==
  /\ Running(w, "void")
  /\ Exists(txn[w].j)
  /\ journal' = [journal EXCEPT ![txn[w].j].status = "VOID"]
  /\ End(w)
  /\ UNCHANGED <<periodVars, approvedLines, ledgerVars>>

-----------------------------------------------------------------------------
(* LedgerPostingService.post_journal_entry *)

\* Steps 6 and 7.
Postable(lines) == ValidateBalance(lines) /\ ValidateFunctionalAmounts(lines)

\* Steps 8 to 14: the batch with its ledger lines, the balances to refresh and
\* the event.  The UNIQUE key makes the INSERT fail if another session has
\* committed a batch under it.
InsertBatch(key, b) ==
  /\ batch[key] = None
  /\ batch' = [batch EXCEPT ![key] = b]
  /\ refreshQueue' = refreshQueue \cup
       {<<b.lines[i].account, b.period>> : i \in DOMAIN b.lines}
  /\ outbox' = outbox \cup {key}

\* post_journal and steps 1 to 3.  A POSTED journal or batch is a replay that
\* returns success and changes nothing.
PostJournal(w, j, adjustment, session) ==
  /\ batch[<<j, "v1">>] = None
  /\ Load(w, j, {"APPROVED"},
          [op |-> "post", j |-> j, date |-> journal[j].date,
           adjustment |-> adjustment, session |-> session])

\* Mutant of GuardPost: steps 6 and 7 left to the database trigger.
MutantGuardPost(w) ==
  /\ Running(w, "post")
  /\ Exists(txn[w].j)
  /\ \E p \in RequireOpenPeriod(txn[w].date, txn[w].adjustment, txn[w].session) :
       Continue(w, [op |-> "posting", j |-> txn[w].j, date |-> txn[w].date,
                    period |-> p, lines |-> journal[txn[w].j].lines])
  /\ UNCHANGED <<periodVars, journalVars, ledgerVars>>

\* Steps 4 to 7: the period gate, then the lines as they are now.
GuardPost(w) ==
  /\ Running(w, "post")
  /\ LET j == txn[w].j
     IN /\ Exists(j)
        /\ Postable(journal[j].lines)
        /\ \E p \in RequireOpenPeriod(txn[w].date, txn[w].adjustment,
                                      txn[w].session) :
             Continue(w, [op |-> "posting", j |-> j, date |-> txn[w].date,
                          period |-> p, lines |-> journal[j].lines])
  /\ UNCHANGED <<periodVars, journalVars, ledgerVars>>

\* Mutant of CommitPost: the journal does not get its posting_batch_id.
MutantCommitPost(w) ==
  /\ Running(w, "posting")
  /\ Exists(txn[w].j)
  /\ TriggerAccepts(journal[txn[w].j].lines)
  /\ InsertBatch(<<txn[w].j, "v1">>,
                 [journal |-> txn[w].j, period |-> txn[w].period,
                  date |-> txn[w].date, lines |-> txn[w].lines])
  /\ journal' = [journal EXCEPT ![txn[w].j].status = "POSTED"]
  /\ End(w)
  /\ UNCHANGED <<periodVars, approvedLines>>

CommitPost(w) ==
  /\ Running(w, "posting")
  /\ LET j   == txn[w].j
         key == <<j, "v1">>
     IN /\ Exists(j)
        /\ journal[j].status = "POSTED" \/ TriggerAccepts(journal[j].lines)
        /\ InsertBatch(key, [journal |-> j, period |-> txn[w].period,
                             date |-> txn[w].date, lines |-> txn[w].lines])
        /\ journal' = [journal EXCEPT ![j].status = "POSTED",
                                      ![j].batch  = key]
  /\ End(w)
  /\ UNCHANGED <<periodVars, approvedLines>>

-----------------------------------------------------------------------------
(* ReversalService.create_reversal *)

\* Steps 1 to 3.
CreateReversal(w, j, u, date, autoPost, adjustment, session) ==
  /\ Exists(j) => journal[j].reversal = None
  /\ ResolvePeriod(date, FALSE, FALSE) # {}
  /\ Load(w, j, {"POSTED"},
          [op |-> "reverse", j |-> j, user |-> u, date |-> date,
           autoPost |-> autoPost, adjustment |-> adjustment,
           session |-> session])

\* Steps 4 to 6: the period gate when the reversal is posted at once, then
\* the lines of the original.
GuardReversal(w) ==
  /\ Running(w, "reverse")
  /\ LET t == txn[w]
     IN /\ Exists(t.j)
        /\ t.autoPost => Postable(Swapped(journal[t.j].lines))
        /\ \E p \in IF t.autoPost
                    THEN RequireOpenPeriod(t.date, t.adjustment, t.session)
                    ELSE ResolvePeriod(t.date, FALSE, FALSE) :
             Continue(w, [op |-> "reversing", j |-> t.j, user |-> t.user,
                          date |-> t.date, autoPost |-> t.autoPost,
                          period |-> p, lines |-> Swapped(journal[t.j].lines)])
  /\ UNCHANGED <<periodVars, journalVars, ledgerVars>>

\* Mutant of CommitReversal: the reversal stays APPROVED after its posting.
MutantCommitReversal(w, r) ==
  /\ Running(w, "reversing")
  /\ LET t == txn[w]
         key == <<r, "reversal">>
     IN /\ journal[r] = None
        /\ Exists(t.j)
        /\ t.autoPost
        /\ journal' = [journal EXCEPT
             ![r] = [status |-> "APPROVED", date |-> t.date, lines |-> t.lines,
                     creator |-> t.user, approver |-> t.user, batch |-> key,
                     reversal |-> None, reversed |-> t.j],
             ![t.j].reversal = r, ![t.j].status = "REVERSED"]
        /\ InsertBatch(key, [journal |-> r, period |-> t.period,
                             date |-> t.date, lines |-> t.lines])
  /\ End(w)
  /\ UNCHANGED <<periodVars, approvedLines>>

\* Steps 7 to 10.  A reversal that is posted at once goes from APPROVED to
\* POSTED inside the transaction and its original becomes REVERSED; otherwise
\* it is a DRAFT and the original stays POSTED.
CommitReversal(w, r) ==
  /\ Running(w, "reversing")
  /\ LET t   == txn[w]
         key == <<r, "reversal">>
         row == [status   |-> IF t.autoPost THEN "POSTED" ELSE "DRAFT",
                 date     |-> t.date, lines |-> t.lines, creator |-> t.user,
                 approver |-> IF t.autoPost THEN t.user ELSE None,
                 batch    |-> IF t.autoPost THEN key ELSE None,
                 reversal |-> None, reversed |-> t.j]
         original == [journal[t.j] EXCEPT !.reversal = r,
                        !.status = IF t.autoPost THEN "REVERSED" ELSE @]
     IN /\ journal[r] = None
        /\ Exists(t.j)
        /\ RowChecks(t.lines)
        /\ journal' = [journal EXCEPT ![r] = row, ![t.j] = original]
        /\ IF t.autoPost
           THEN InsertBatch(key, [journal |-> r, period |-> t.period,
                                  date |-> t.date, lines |-> t.lines])
           ELSE UNCHANGED ledgerVars
  /\ End(w)
  /\ UNCHANGED <<periodVars, approvedLines>>

-----------------------------------------------------------------------------

\* An exception, a constraint violation or a crash: the session rolls back.
Rollback(w) ==
  /\ txn[w] # Idle
  /\ End(w)
  /\ UNCHANGED <<periodVars, journalVars, ledgerVars>>

JournalOperation(w) ==
  \/ \E j \in Journals, input \in Inputs :
       \/ \E u \in Users : CreateJournal(w, j, input, u)
       \/ UpdateJournal(w, j, input)
  \/ \E j \in Journals :
       \/ DeleteJournal(w, j)
       \/ SubmitJournal(w, j)
       \/ \E u \in Users : ApproveJournal(w, j, u)
       \/ VoidJournal(w, j)
  \/ CommitUpdate(w)
  \/ CommitDelete(w)
  \/ CommitSubmit(w)
  \/ CommitApprove(w)
  \/ CommitVoid(w)

LedgerOperation(w) ==
  \/ \E j \in Journals, adjustment \in AllowAdjustment, s \in 0 .. nextSession :
       \/ PostJournal(w, j, adjustment, s)
       \/ \E u \in Users, d \in Dates, autoPost \in BOOLEAN :
            CreateReversal(w, j, u, d, autoPost, adjustment, s)
  \/ GuardPost(w)
  \/ CommitPost(w)
  \/ GuardReversal(w)
  \/ \E r \in Journals : CommitReversal(w, r)

Next ==
  \E w \in Workers :
    \/ PeriodOperation(w) /\ UNCHANGED <<journalVars, ledgerVars>>
    \/ JournalOperation(w)
    \/ LedgerOperation(w)
    \/ Rollback(w)

Spec == Init /\ [][Next]_vars

-----------------------------------------------------------------------------
(* Types. *)

Txn ==
  PeriodTxn
  \cup [op : {"update"}, j : Journals, input : Inputs, date : Dates]
  \cup [op : {"delete", "submit", "void"}, j : Journals]
  \cup [op : {"approve"}, j : Journals, user : Users, lines : Lines,
         approver : Users \cup {None}]
  \cup [op : {"post"}, j : Journals, date : Dates, adjustment : BOOLEAN,
         session : Nat]
  \cup [op : {"posting"}, j : Journals, date : Dates, period : Periods,
         lines : Lines]
  \cup [op : {"reverse"}, j : Journals, user : Users, date : Dates,
         autoPost : BOOLEAN, adjustment : BOOLEAN, session : Nat]
  \cup [op : {"reversing"}, j : Journals, user : Users, date : Dates,
         autoPost : BOOLEAN, period : Periods, lines : Lines]

\* Every row, batch and open transaction has the columns and value sets the
\* models declare.
TypeOK ==
  /\ txn \in [Workers -> Txn \cup {Idle}]
  /\ FiscalPeriodsTypeOK
  /\ journal \in [Journals -> JournalRow \cup {None, Deleted}]
  /\ approvedLines \in [Journals -> Lines \cup {None}]
  /\ batch \in [Keys -> BatchRow \cup {None}]
  /\ outbox \subseteq Keys
  /\ refreshQueue \subseteq Accounts \X Periods

-----------------------------------------------------------------------------
(* What holds however sessions interleave. *)

PostingsOf(j) == {k \in Keys : batch[k] # None /\ batch[k].journal = j}

\* Debit = credit (within the tolerance) for every posted batch, on sane
\* lines, although journals are entered, edited and approved on the
\* transaction-currency totals alone: LedgerPostingService rule 3.
LedgerBalanced ==
  \A k \in Keys : batch[k] # None => Postable(batch[k].lines)

\* A journal reaches the ledger at most once, whoever posts it again, retries
\* or races: LedgerPostingService rule 4 and the UNIQUE idempotency key.
PostedAtMostOnce ==
  \A j \in Journals : \A k1, k2 \in PostingsOf(j) : k1 = k2

\* A journal shown as POSTED or REVERSED has its lines in the ledger, and
\* points to the batch that holds them.
PostedIsInLedger ==
  \A j \in Journals :
    HasStatus(j, {"POSTED", "REVERSED"}) =>
      /\ journal[j].batch # None
      /\ journal[j].batch \in PostingsOf(j)

\* Every ledger line lies in a period that covers its posting date, however
\* periods overlap and whatever the journal's own period was.
PostedInCoveringPeriod ==
  \A k \in Keys : batch[k] # None => batch[k].period \in Covering(batch[k].date)

\* Posted batches are never changed or removed: the ledger only grows.
LedgerAppendOnly ==
  [][\A k \in Keys : batch[k] # None => batch'[k] = batch[k]]_vars

\* Seen through its batches, the ledger is the append-only journal of
\* LedgerContract: one balanced entry per journal, in a period that covers it.
LedgerEntry ==
  {b \in BatchRow : Postable(b.lines) /\ b.period \in Covering(b.date)}

PostedEntry ==
  [j \in Journals |->
     IF batch[<<j, "v1">>] # None THEN batch[<<j, "v1">>]
                                  ELSE batch[<<j, "reversal">>]]

Contract == INSTANCE LedgerContract WITH Entries <- LedgerEntry,
                                         ledger  <- PostedEntry

\* Posting, reversing, racing, retrying and rolling back implement the
\* contract: refinement of LedgerContract.
ImplementsContract == Contract!Spec

-----------------------------------------------------------------------------
(* What holds when sessions run one after the other. *)

\* The ledger agrees with the journals: a batch exists exactly for the POSTED
\* and REVERSED journals and holds the lines the journal still has, so that
\* nothing edits, voids or deletes a journal once it is posted.
LedgerMatchesJournals ==
  \A j \in Journals :
    /\ HasStatus(j, {"POSTED", "REVERSED"}) <=> PostingsOf(j) # {}
    /\ \A k \in PostingsOf(j) : batch[k].lines = journal[j].lines

\* A REVERSED journal and the reversal it points to cancel in every account.
ReversedNetsToZero ==
  \A j \in Journals :
    HasStatus(j, {"REVERSED"}) =>
      LET r == journal[j].reversal
      IN /\ r # None
         /\ HasStatus(r, {"POSTED", "REVERSED"})
         /\ \A k1 \in PostingsOf(j), k2 \in PostingsOf(r), a \in Accounts :
              Effect(batch[k1].lines, a) + Effect(batch[k2].lines, a) = 0

\* "Journal has already been reversed": no journal has two posted reversals.
\* create_reversal refuses a second one, but two that overlap both go through.
ReversedAtMostOnce ==
  \A j, r1, r2 \in Journals :
    /\ PostingsOf(r1) # {} /\ Exists(r1) /\ journal[r1].reversed = j
    /\ PostingsOf(r2) # {} /\ Exists(r2) /\ journal[r2].reversed = j
    => r1 = r2

\* With segregation of duties on, what post_journal posts was approved by
\* somebody other than its creator, and is line for line what they approved.
FourEyes ==
  \A j \in Journals :
    RequireSoD /\ batch[<<j, "v1">>] # None =>
      /\ Exists(j)
      /\ journal[j].approver \notin {None, journal[j].creator}
      /\ batch[<<j, "v1">>].lines = approvedLines[j]

\* A batch is only added to a period that is OPEN or REOPENED at that moment.
NoPostingToClosedPeriod ==
  [][\A k \in Keys : batch[k] = None /\ batch'[k] # None =>
       period[batch'[k].period].status \in POSTABLE_STATUSES]_vars
=============================================================================
