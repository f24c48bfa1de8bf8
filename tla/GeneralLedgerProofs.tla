------------------------- MODULE GeneralLedgerProofs -------------------------
(***************************************************************************)
(* Theorems about GeneralLedger for any number of sessions, journals,      *)
(* periods, accounts and inputs.                                           *)
(***************************************************************************)
EXTENDS GeneralLedger, SumTheorems, SequenceTheorems

-----------------------------------------------------------------------------
(* The inductive invariant. *)

Kinds == {"v1", "reversal"}

\* Transactions of an operation on a journal.
OnJournal(w) == txn[w] # Idle /\ txn[w].op # "period"

\* A session that has passed the period gate will insert lines that were
\* checked, into a period that covers their date.
CheckedLines(r) ==
  /\ Postable(r.lines)
  /\ r.period \in Covering(r.date)

GuardedTxns ==
  \A w \in Workers :
    /\ Running(w, "posting") => CheckedLines(txn[w])
    /\ Running(w, "reversing") /\ txn[w].autoPost => CheckedLines(txn[w])

Batches ==
  \A j \in Journals, kind \in Kinds :
    batch[<<j, kind>>] # None =>
      /\ batch[<<j, kind>>].journal = j
      /\ CheckedLines(batch[<<j, kind>>])
      /\ journal[j] # None

\* A journal posted as a reversal was never seen as APPROVED, so that no
\* session is about to post it again or to change its status.
AutoPosted ==
  \A j \in Journals :
    batch[<<j, "reversal">>] # None =>
      /\ batch[<<j, "v1">>] = None
      /\ HasStatus(j, {"POSTED", "REVERSED"})
      /\ \A w \in Workers :
           OnJournal(w) /\ txn[w].j = j => txn[w].op \in {"reverse", "reversing"}

\* Sessions work on journals that were created.
Targets ==
  \A w \in Workers : OnJournal(w) => journal[txn[w].j] # None

\* posting_batch_id points to a batch of the journal; a journal that is, or is
\* about to become, POSTED or REVERSED has one.
BatchLinks ==
  /\ \A j \in Journals :
       Exists(j) =>
         /\ journal[j].batch # None =>
              \E kind \in Kinds : /\ journal[j].batch = <<j, kind>>
                                  /\ batch[<<j, kind>>] # None
         /\ journal[j].status \in {"POSTED", "REVERSED"} => journal[j].batch # None
  /\ \A w \in Workers :
       (Running(w, "reverse") \/ Running(w, "reversing")) /\ Exists(txn[w].j) =>
         journal[txn[w].j].batch # None

IndInv ==
  /\ TypeOK
  /\ GuardedTxns
  /\ Batches
  /\ AutoPosted
  /\ Targets
  /\ BatchLinks

-----------------------------------------------------------------------------
(* Lines. *)

\* The rounding of a NUMERIC(20, 6) column yields a number of millionths.
LEMMA RoundedQuotientType ==
  ASSUME NEW n \in Int, NEW d \in Nat \ {0}
  PROVE  RoundedQuotient(n, d) \in Int
<1> DEFINE a == 2 * n + d
           b == d - 2 * n
           c == 2 * d
<1>1. a \in Int /\ b \in Int /\ c \in Nat /\ c > 0
  OBVIOUS
<1> HIDE DEF a, b, c
<1>2. a \div c \in Int /\ -(b \div c) \in Int
  BY <1>1
<1> QED
  BY <1>2 DEF RoundedQuotient, a, b, c

\* A functional amount is an amount, given or converted.
LEMMA FunctionalType ==
  ASSUME NEW given \in Int \cup {None}, NEW amount \in Int,
         NEW rate \in Nat \X (Nat \ {0})
  PROVE  Functional(given, amount, rate) \in Int
<1> DEFINE n == amount * rate[1]
<1>1. n \in Int /\ rate[2] \in Nat \ {0}
  OBVIOUS
<1> HIDE DEF n
<1>2. RoundedQuotient(n, rate[2]) \in Int
  BY <1>1, RoundedQuotientType
<1> QED
  BY <1>2 DEF Functional, n

\* create_journal and update_journal store well-formed lines.
LEMMA StoredLinesType ==
  ASSUME NEW input \in JournalInput
  PROVE  StoredLines(input) \in Lines
<1> DEFINE L == [account : Accounts, debit : Int, credit : Int,
                 fdebit : Int \cup {None}, fcredit : Int \cup {None}]
           e(i) == [account |-> input.lines[i].account,
                    debit   |-> input.lines[i].debit,
                    credit  |-> input.lines[i].credit,
                    fdebit  |-> Functional(input.lines[i].fdebit,
                                           input.lines[i].debit, input.rate),
                    fcredit |-> Functional(input.lines[i].fcredit,
                                           input.lines[i].credit, input.rate)]
<1>1. input.lines \in Seq(L) /\ input.rate \in Nat \X (Nat \ {0})
  BY DEF JournalInput
<1>2. /\ Len(input.lines) \in Nat
      /\ DOMAIN input.lines = 1 .. Len(input.lines)
  BY <1>1, LenProperties
<1>3. ASSUME NEW i \in 1 .. Len(input.lines)
      PROVE  e(i) \in Line
  <2>1. input.lines[i] \in L
    BY <1>1, ElementOfSeq
  <2>2. /\ Functional(input.lines[i].fdebit, input.lines[i].debit, input.rate) \in Int
        /\ Functional(input.lines[i].fcredit, input.lines[i].credit, input.rate) \in Int
    BY <2>1, <1>1, FunctionalType
  <2> QED
    BY <2>1, <2>2 DEF Line
<1>4. StoredLines(input) = [i \in 1 .. Len(input.lines) |-> e(i)]
  BY <1>2 DEF StoredLines
<1> HIDE DEF e
<1>5. [i \in 1 .. Len(input.lines) |-> e(i)] \in Seq(Line)
  BY <1>2, <1>3, IsASeq
<1> QED
  BY <1>4, <1>5 DEF Lines

\* A reversal's lines are well formed.
LEMMA SwappedType ==
  ASSUME NEW lines \in Lines
  PROVE  Swapped(lines) \in Lines
<1> DEFINE e(i) == [account |-> lines[i].account,
                    debit   |-> lines[i].credit,  credit  |-> lines[i].debit,
                    fdebit  |-> lines[i].fcredit, fcredit |-> lines[i].fdebit]
<1>1. lines \in Seq(Line)
  BY DEF Lines
<1>2. Len(lines) \in Nat /\ DOMAIN lines = 1 .. Len(lines)
  BY <1>1, LenProperties
<1>3. ASSUME NEW i \in 1 .. Len(lines)
      PROVE  e(i) \in Line
  <2>1. lines[i] \in Line
    BY <1>1, ElementOfSeq
  <2> QED
    BY <2>1 DEF Line
<1>4. Swapped(lines) = [i \in 1 .. Len(lines) |-> e(i)]
  BY <1>2 DEF Swapped
<1> HIDE DEF e
<1>5. [i \in 1 .. Len(lines) |-> e(i)] \in Seq(Line)
  BY <1>2, <1>3, IsASeq
<1> QED
  BY <1>4, <1>5 DEF Lines

\* The account of a line is an account.
LEMMA LineAccounts ==
  ASSUME NEW lines \in Lines, NEW i \in DOMAIN lines
  PROVE  lines[i].account \in Accounts
<1>1. lines \in Seq(Line) /\ i \in 1 .. Len(lines)
  BY LenProperties DEF Lines
<1>2. lines[i] \in Line
  BY <1>1, ElementOfSeq
<1> QED
  BY <1>2 DEF Line

-----------------------------------------------------------------------------
(* Types. *)

\* What an open transaction carries, by operation.
LEMMA TxnTypes ==
  ASSUME TypeOK, NEW w \in Workers, txn[w] # Idle
  PROVE  /\ txn[w].op = "period" => txn[w].p \in Periods /\ txn[w].to \in PeriodStatus
         /\ txn[w].op # "period" => txn[w].j \in Journals
         /\ txn[w].op = "update" => txn[w].input \in Inputs
         /\ txn[w].op = "approve" => txn[w].user \in Users /\ txn[w].lines \in Lines
         /\ txn[w].op = "post" =>
              txn[w] \in [op : {"post"}, j : Journals, date : Dates,
                          adjustment : BOOLEAN, session : Nat]
         /\ txn[w].op = "posting" =>
              txn[w] \in [op : {"posting"}, j : Journals, date : Dates,
                          period : Periods, lines : Lines]
         /\ txn[w].op = "reverse" =>
              txn[w] \in [op : {"reverse"}, j : Journals, user : Users,
                          date : Dates, autoPost : BOOLEAN,
                          adjustment : BOOLEAN, session : Nat]
         /\ txn[w].op = "reversing" =>
              txn[w] \in [op : {"reversing"}, j : Journals, user : Users,
                          date : Dates, autoPost : BOOLEAN, period : Periods,
                          lines : Lines]
<1>1. txn[w] \in Txn
  BY DEF TypeOK
<1> QED
  BY <1>1, SMTT(60) DEF Txn, PeriodTxn

\* The gate returns periods that cover the date.
LEMMA GateCovers ==
  ASSUME NEW d, NEW a, NEW s
  PROVE  /\ RequireOpenPeriod(d, a, s) \subseteq Covering(d)
         /\ ResolvePeriod(d, FALSE, FALSE) \subseteq Covering(d)
         /\ Covering(d) \subseteq Periods
BY DEF RequireOpenPeriod, ResolvePeriod, First, Covering

\* Inserting a batch row keeps the types of the ledger.
LEMMA InsertBatchType ==
  ASSUME TypeOK, NEW key \in Keys, NEW b \in BatchRow, InsertBatch(key, b)
  PROVE  /\ batch' \in [Keys -> BatchRow \cup {None}]
         /\ outbox' \subseteq Keys
         /\ refreshQueue' \subseteq Accounts \X Periods
<1>1. \A i \in DOMAIN b.lines : b.lines[i].account \in Accounts
  BY LineAccounts DEF BatchRow
<1>2. b.period \in Periods
  BY DEF BatchRow
<1>3. {<<b.lines[i].account, b.period>> : i \in DOMAIN b.lines}
        \subseteq Accounts \X Periods
  BY <1>1, <1>2
<1> HIDE DEF BatchRow
<1> QED
  BY <1>3 DEF TypeOK, InsertBatch

\* The initial rows are well typed.
LEMMA InitType == Init => TypeOK
BY DEF Init, TypeOK, SessionsInit, FiscalPeriodsInit, FiscalPeriodsTypeOK,
       PeriodRow, PeriodStatus, NoSession

\* Every step keeps the types.
LEMMA NextType == TypeOK /\ [Next]_vars => TypeOK'
<1> SUFFICES ASSUME TypeOK, [Next]_vars
             PROVE  TypeOK'
  OBVIOUS
<1> USE DEF TypeOK
<1>1. CASE UNCHANGED vars
  BY <1>1 DEF vars, periodVars, journalVars, ledgerVars, FiscalPeriodsTypeOK
<1>2. ASSUME NEW w \in Workers, PeriodOperation(w),
             UNCHANGED <<journalVars, ledgerVars>>
      PROVE  TypeOK'
  <2> USE DEF journalVars, ledgerVars, FiscalPeriodsTypeOK
  <2>1. CASE CommitPeriod(w)
    <3>1. txn[w].p \in Periods /\ txn[w].to \in PeriodStatus
      BY <2>1, TxnTypes DEF CommitPeriod, Running
    <3>2. period' \in [Periods -> PeriodRow] /\ nextSession' \in Nat
      BY <2>1, <3>1 DEF CommitPeriod, PeriodRow
    <3> QED
      BY <1>2, <2>1, <3>2 DEF CommitPeriod, End
  <2>2. ASSUME NEW p \in Periods, NEW from, NEW to \in PeriodStatus,
               LoadPeriod(w, p, from, to)
        PROVE  TypeOK'
    <3>1. [op |-> "period", p |-> p, to |-> to] \in Txn
      BY DEF Txn, PeriodTxn
    <3> QED
      BY <1>2, <2>2, <3>1 DEF LoadPeriod, Begin, periodVars
  <2>3. CASE \E p \in Periods : OpenPeriod(w, p) \/ SoftClosePeriod(w, p)
                                 \/ HardClosePeriod(w, p) \/ ReopenPeriod(w, p)
    BY <2>2, <2>3 DEF OpenPeriod, SoftClosePeriod, HardClosePeriod, ReopenPeriod,
                      PeriodStatus
  <2>4. CASE \E p \in Periods, s \in 1 .. nextSession : CloseReopenSession(w, p, s)
    BY <2>2, <2>4 DEF CloseReopenSession, PeriodStatus
  <2> QED
    BY <1>2, <2>1, <2>3, <2>4 DEF PeriodOperation
<1>3. ASSUME NEW w \in Workers, NEW j \in Journals, NEW from, NEW t \in Txn,
             Load(w, j, from, t)
      PROVE  TypeOK'
  BY <1>3 DEF Load, Begin, periodVars, journalVars, ledgerVars, FiscalPeriodsTypeOK
<1>4. ASSUME NEW w \in Workers, JournalOperation(w)
      PROVE  TypeOK'
  <2> USE DEF periodVars, ledgerVars, FiscalPeriodsTypeOK
  <2>1. ASSUME NEW j \in Journals, NEW input \in Inputs, NEW u \in Users,
               CreateJournal(w, j, input, u)
        PROVE  TypeOK'
    <3>1. input \in JournalInput
      BY GeneralLedgerAssumption
    <3>2. StoredLines(input) \in Lines /\ input.date \in Dates
      BY <3>1, StoredLinesType DEF JournalInput
    <3>3. NewJournal(input, u) \in JournalRow
      BY <3>2 DEF NewJournal, JournalRow, JournalStatus
    <3> QED
      BY <2>1, <3>3 DEF CreateJournal
  <2>2. ASSUME NEW j \in Journals, NEW input \in Inputs, UpdateJournal(w, j, input)
        PROVE  TypeOK'
    <3>1. journal[j] \in JournalRow
      BY <2>2 DEF UpdateJournal, Load, HasStatus, Exists
    <3>2. journal[j].date \in Dates
      BY <3>1 DEF JournalRow
    <3>3. [op |-> "update", j |-> j, input |-> input, date |-> journal[j].date]
            \in Txn
      BY <3>2 DEF Txn
    <3> QED
      BY <1>3, <2>2, <3>3 DEF UpdateJournal
  <2>3. ASSUME NEW j \in Journals,
               DeleteJournal(w, j) \/ SubmitJournal(w, j) \/ VoidJournal(w, j)
        PROVE  TypeOK'
    <3>1. \A op \in {"delete", "submit", "void"} : [op |-> op, j |-> j] \in Txn
      BY DEF Txn
    <3> QED
      BY <1>3, <2>3, <3>1 DEF DeleteJournal, SubmitJournal, VoidJournal
  <2>4. ASSUME NEW j \in Journals, NEW u \in Users, ApproveJournal(w, j, u)
        PROVE  TypeOK'
    <3>1. journal[j] \in JournalRow
      BY <2>4 DEF ApproveJournal, Load, HasStatus, Exists
    <3>2. journal[j].lines \in Lines /\ journal[j].approver \in Users \cup {None}
      BY <3>1 DEF JournalRow
    <3>3. [op |-> "approve", j |-> j, user |-> u, lines |-> journal[j].lines,
           approver |-> journal[j].approver] \in Txn
      BY <3>2 DEF Txn
    <3> QED
      BY <1>3, <2>4, <3>3 DEF ApproveJournal
  <2>5. CASE CommitUpdate(w)
    <3> DEFINE date == Written(txn[w].date, txn[w].input.date,
                               journal[txn[w].j].date)
    <3>1. txn[w].j \in Journals /\ txn[w].input \in Inputs
      BY <2>5, TxnTypes DEF CommitUpdate, Running
    <3>2. txn[w].input \in JournalInput
      BY <3>1, GeneralLedgerAssumption
    <3>3. StoredLines(txn[w].input) \in Lines /\ txn[w].input.date \in Dates
      BY <3>2, StoredLinesType DEF JournalInput
    <3>4. journal[txn[w].j] \in JournalRow
      BY <2>5, <3>1 DEF CommitUpdate, Exists
    <3>5. date \in Dates
      BY <3>3, <3>4 DEF JournalRow, Written
    <3>6. journal' = [journal EXCEPT ![txn[w].j] =
                        [journal[txn[w].j] EXCEPT
                           !.date = date,
                           !.lines = StoredLines(txn[w].input)]]
      BY <2>5, <3>1, <3>4 DEF CommitUpdate, JournalRow
    <3> HIDE DEF date
    <3>7. [journal[txn[w].j] EXCEPT !.date = date,
                                    !.lines = StoredLines(txn[w].input)]
            \in JournalRow
      BY <3>3, <3>4, <3>5 DEF JournalRow
    <3> QED
      BY <2>5, <3>1, <3>6, <3>7 DEF CommitUpdate, End
  <2>6. CASE CommitDelete(w)
    <3>1. txn[w].j \in Journals
      BY <2>6, TxnTypes DEF CommitDelete, Running
    <3> QED
      BY <2>6, <3>1 DEF CommitDelete, End
  <2>7. CASE CommitSubmit(w) \/ CommitVoid(w)
    <3>1. txn[w].j \in Journals
      BY <2>7, TxnTypes DEF CommitSubmit, CommitVoid, Running
    <3>2. journal[txn[w].j] \in JournalRow
      BY <2>7, <3>1 DEF CommitSubmit, CommitVoid, Exists
    <3>3. \A s \in JournalStatus :
            [journal[txn[w].j] EXCEPT !.status = s] \in JournalRow
      BY <3>2 DEF JournalRow
    <3>4. journal' \in [Journals -> JournalRow \cup {None, Deleted}]
      BY <2>7, <3>1, <3>3 DEF CommitSubmit, CommitVoid, JournalStatus
    <3> QED
      BY <2>7, <3>4 DEF CommitSubmit, CommitVoid, End
  <2>8. CASE CommitApprove(w)
    <3>1. txn[w].j \in Journals /\ txn[w].user \in Users /\ txn[w].lines \in Lines
      BY <2>8, TxnTypes DEF CommitApprove, Running
    <3>2. journal[txn[w].j] \in JournalRow
      BY <2>8, <3>1 DEF CommitApprove, Exists
    <3> DEFINE approver == Written(txn[w].approver, txn[w].user,
                                   journal[txn[w].j].approver)
    <3>3. approver \in Users \cup {None}
      BY <3>1, <3>2 DEF JournalRow, Written
    <3>4. journal' = [journal EXCEPT ![txn[w].j] =
                        [journal[txn[w].j] EXCEPT !.status = "APPROVED",
                                                  !.approver = approver]]
      BY <2>8, <3>1, <3>2 DEF CommitApprove, JournalRow
    <3> HIDE DEF approver
    <3>5. [journal[txn[w].j] EXCEPT !.status = "APPROVED", !.approver = approver]
            \in JournalRow
      BY <3>2, <3>3 DEF JournalRow, JournalStatus
    <3> QED
      BY <2>8, <3>1, <3>4, <3>5 DEF CommitApprove, End
  <2> QED
    BY <1>4, <2>1, <2>2, <2>3, <2>4, <2>5, <2>6, <2>7, <2>8 DEF JournalOperation
<1>5. ASSUME NEW w \in Workers, LedgerOperation(w)
      PROVE  TypeOK'
  <2> USE DEF periodVars, journalVars, ledgerVars, FiscalPeriodsTypeOK
  <2>1. ASSUME NEW j \in Journals, NEW a \in AllowAdjustment,
               NEW s \in 0 .. nextSession, PostJournal(w, j, a, s)
        PROVE  TypeOK'
    <3>1. journal[j] \in JournalRow
      BY <2>1 DEF PostJournal, Load, HasStatus, Exists
    <3>2. [op |-> "post", j |-> j, date |-> journal[j].date,
           adjustment |-> a, session |-> s] \in Txn
      BY <3>1, GeneralLedgerAssumption DEF Txn, JournalRow
    <3> QED
      BY <1>3, <2>1, <3>2 DEF PostJournal
  <2>2. ASSUME NEW j \in Journals, NEW a \in AllowAdjustment,
               NEW s \in 0 .. nextSession, NEW u \in Users, NEW d \in Dates,
               NEW autoPost \in BOOLEAN, CreateReversal(w, j, u, d, autoPost, a, s)
        PROVE  TypeOK'
    <3>1. [op |-> "reverse", j |-> j, user |-> u, date |-> d,
           autoPost |-> autoPost, adjustment |-> a, session |-> s] \in Txn
      BY GeneralLedgerAssumption DEF Txn
    <3> QED
      BY <1>3, <2>2, <3>1 DEF CreateReversal
  <2>3. CASE GuardPost(w)
    <3>1. txn[w] \in [op : {"post"}, j : Journals, date : Dates,
                      adjustment : BOOLEAN, session : Nat]
      BY <2>3, TxnTypes DEF GuardPost, Running
    <3>2. journal[txn[w].j] \in JournalRow
      BY <2>3, <3>1 DEF GuardPost, Exists
    <3>3. PICK p \in Periods :
            Continue(w, [op |-> "posting", j |-> txn[w].j, date |-> txn[w].date,
                         period |-> p, lines |-> journal[txn[w].j].lines])
      BY <2>3, GateCovers DEF GuardPost
    <3>4. [op |-> "posting", j |-> txn[w].j, date |-> txn[w].date,
           period |-> p, lines |-> journal[txn[w].j].lines] \in Txn
      BY <3>1, <3>2 DEF Txn, JournalRow
    <3> QED
      BY <2>3, <3>3, <3>4 DEF GuardPost, Continue
  <2>4. CASE GuardReversal(w)
    <3>1. txn[w] \in [op : {"reverse"}, j : Journals, user : Users,
                      date : Dates, autoPost : BOOLEAN,
                      adjustment : BOOLEAN, session : Nat]
      BY <2>4, TxnTypes DEF GuardReversal, Running
    <3>2. journal[txn[w].j] \in JournalRow
      BY <2>4, <3>1 DEF GuardReversal, Exists
    <3>3. Swapped(journal[txn[w].j].lines) \in Lines
      BY <3>2, SwappedType DEF JournalRow
    <3>4. PICK p \in Periods :
            Continue(w, [op |-> "reversing", j |-> txn[w].j, user |-> txn[w].user,
                         date |-> txn[w].date, autoPost |-> txn[w].autoPost,
                         period |-> p, lines |-> Swapped(journal[txn[w].j].lines)])
      BY <2>4, GateCovers DEF GuardReversal
    <3>5. [op |-> "reversing", j |-> txn[w].j, user |-> txn[w].user,
           date |-> txn[w].date, autoPost |-> txn[w].autoPost,
           period |-> p, lines |-> Swapped(journal[txn[w].j].lines)] \in Txn
      BY <3>1, <3>3 DEF Txn
    <3> QED
      BY <2>4, <3>4, <3>5 DEF GuardReversal, Continue
  <2>5. CASE CommitPost(w)
    <3> DEFINE j == txn[w].j
               key == <<j, "v1">>
               b == [journal |-> j, period |-> txn[w].period,
                     date |-> txn[w].date, lines |-> txn[w].lines]
    <3>1. txn[w] \in [op : {"posting"}, j : Journals, date : Dates,
                      period : Periods, lines : Lines]
      BY <2>5, TxnTypes DEF CommitPost, Running
    <3>2. key \in Keys /\ b \in BatchRow
      BY <3>1 DEF Keys, BatchRow
    <3>3. InsertBatch(key, b)
      BY <2>5 DEF CommitPost
    <3>4. journal[j] \in JournalRow
      BY <2>5, <3>1 DEF CommitPost, Exists
    <3>5. [journal[j] EXCEPT !.status = "POSTED", !.batch = key] \in JournalRow
      BY <3>2, <3>4 DEF JournalRow, JournalStatus
    <3>6. journal' = [journal EXCEPT ![j] =
                        [journal[j] EXCEPT !.status = "POSTED", !.batch = key]]
      BY <2>5, <3>1, <3>4 DEF CommitPost, JournalRow
    <3>7. /\ batch' \in [Keys -> BatchRow \cup {None}]
          /\ outbox' \subseteq Keys
          /\ refreshQueue' \subseteq Accounts \X Periods
      BY <3>2, <3>3, InsertBatchType
    <3> QED
      BY <2>5, <3>1, <3>5, <3>6, <3>7 DEF CommitPost, End
  <2>6. ASSUME NEW r \in Journals, CommitReversal(w, r)
        PROVE  TypeOK'
    <3> DEFINE t == txn[w]
               key == <<r, "reversal">>
               b == [journal |-> r, period |-> t.period, date |-> t.date,
                     lines |-> t.lines]
               row == [status   |-> IF t.autoPost THEN "POSTED" ELSE "DRAFT",
                       date     |-> t.date, lines |-> t.lines, creator |-> t.user,
                       approver |-> IF t.autoPost THEN t.user ELSE None,
                       batch    |-> IF t.autoPost THEN key ELSE None,
                       reversal |-> None, reversed |-> t.j]
               original == [journal[t.j] EXCEPT !.reversal = r,
                              !.status = IF t.autoPost THEN "REVERSED" ELSE @]
    <3>1. t \in [op : {"reversing"}, j : Journals, user : Users,
                 date : Dates, autoPost : BOOLEAN, period : Periods,
                 lines : Lines]
      BY <2>6, TxnTypes DEF CommitReversal, Running
    <3>2. key \in Keys /\ b \in BatchRow
      BY <3>1 DEF Keys, BatchRow
    <3>3. row \in JournalRow
      BY <3>1, <3>2 DEF JournalRow, JournalStatus
    <3>4. journal[t.j] \in JournalRow
      BY <2>6, <3>1 DEF CommitReversal, Exists
    <3>5. original \in JournalRow
      BY <3>1, <3>4 DEF JournalRow, JournalStatus
    <3>6. journal' = [journal EXCEPT ![r] = row, ![t.j] = original]
      BY <2>6 DEF CommitReversal
    <3>7. /\ batch' \in [Keys -> BatchRow \cup {None}]
          /\ outbox' \subseteq Keys
          /\ refreshQueue' \subseteq Accounts \X Periods
      <4>1. CASE t.autoPost
        <5>1. InsertBatch(key, b)
          BY <2>6, <4>1 DEF CommitReversal
        <5> QED
          BY <3>2, <5>1, InsertBatchType
      <4>2. CASE ~t.autoPost
        BY <2>6, <4>2 DEF CommitReversal
      <4> QED
        BY <4>1, <4>2
    <3> QED
      BY <2>6, <3>1, <3>3, <3>5, <3>6, <3>7 DEF CommitReversal, End
  <2> QED
    BY <1>5, <2>1, <2>2, <2>3, <2>4, <2>5, <2>6 DEF LedgerOperation
<1>6. ASSUME NEW w \in Workers, Rollback(w)
      PROVE  TypeOK'
  BY <1>6 DEF Rollback, End, periodVars, journalVars, ledgerVars, FiscalPeriodsTypeOK
<1> QED
  BY <1>1, <1>2, <1>4, <1>5, <1>6 DEF Next

\* Every row, batch and open transaction of the general ledger keeps its type,
\* for any number of concurrent sessions.
THEOREM TypeCorrect == Spec => []TypeOK
<1> QED
  BY InitType, NextType, PTL DEF Spec

-----------------------------------------------------------------------------
(* The inductive invariant is preserved. *)

\* The initial ledger is empty and no session is open.
LEMMA InitInd == Init => IndInv
<1> SUFFICES ASSUME Init
             PROVE  IndInv
  OBVIOUS
<1>1. TypeOK
  BY InitType
<1>2. /\ \A w \in Workers : txn[w] = Idle
      /\ \A j \in Journals : journal[j] = None
      /\ \A j \in Journals, kind \in Kinds : batch[<<j, kind>>] = None
  BY DEF Init, SessionsInit, Keys, Kinds
<1> QED
  BY <1>1, <1>2 DEF IndInv, GuardedTxns, Batches, AutoPosted, Targets, BatchLinks,
                    Running, OnJournal, Exists, Kinds

\* A step that only ends a transaction or begins one on a period.
LEMMA OtherTxnInd ==
  ASSUME IndInv, TypeOK', NEW w \in Workers, NEW t, t = Idle \/ t.op = "period",
         txn' = [txn EXCEPT ![w] = t], UNCHANGED <<journal, batch>>
  PROVE  IndInv'
<1>1. \A v \in Workers : v # w => txn'[v] = txn[v]
  BY DEF IndInv, TypeOK
<1>2. txn'[w] = Idle \/ txn'[w].op = "period"
  BY DEF IndInv, TypeOK
<1>3. GuardedTxns'
  BY <1>1, <1>2 DEF IndInv, GuardedTxns, Running
<1>4. AutoPosted' /\ Targets'
  BY <1>1, <1>2 DEF IndInv, AutoPosted, Targets, OnJournal, HasStatus, Exists
<1>5. BatchLinks'
  BY <1>1, <1>2 DEF IndInv, BatchLinks, Running, Exists
<1>6. Batches'
  BY DEF IndInv, Batches
<1> QED
  BY <1>3, <1>4, <1>5, <1>6 DEF IndInv

\* Loading a journal: only a reversal may begin on a POSTED journal, and no
\* operation on a REVERSED one.
LEMMA LoadInd ==
  ASSUME IndInv, TypeOK', NEW w \in Workers, NEW j \in Journals, NEW from, NEW t,
         Load(w, j, from, t), t.j = j,
         \/ /\ t.op \in {"update", "delete", "submit", "approve", "void", "post"}
            /\ {"POSTED", "REVERSED"} \cap from = {}
         \/ t.op = "reverse" /\ from = {"POSTED"}
  PROVE  IndInv'
<1>1. \A v \in Workers : v # w => txn'[v] = txn[v]
  BY DEF IndInv, TypeOK, Load, Begin
<1>2. txn'[w] = t /\ UNCHANGED <<journal, batch>>
  BY DEF IndInv, TypeOK, Load, Begin, journalVars, ledgerVars
<1>3. Exists(j) /\ journal[j].status \in from
  BY DEF Load, HasStatus
<1>4. GuardedTxns'
  BY <1>1, <1>2 DEF IndInv, GuardedTxns, Running
<1>5. AutoPosted'
  BY <1>1, <1>2, <1>3 DEF IndInv, AutoPosted, OnJournal, HasStatus, Exists
<1>6. Targets'
  BY <1>1, <1>2, <1>3 DEF IndInv, Targets, OnJournal, Exists
<1>7. BatchLinks'
  BY <1>1, <1>2, <1>3 DEF IndInv, BatchLinks, Running, Exists
<1>8. Batches'
  BY <1>2 DEF IndInv, Batches
<1> QED
  BY <1>4, <1>5, <1>6, <1>7, <1>8 DEF IndInv

\* A commit that changes a journal's columns but not its posting_batch_id, and
\* its status only where no posted reversal is concerned.
LEMMA ColumnsInd ==
  ASSUME IndInv, TypeOK', NEW w \in Workers, NEW row \in JournalRow,
         OnJournal(w), Exists(txn[w].j),
         txn[w].op \in {"update", "submit", "approve", "void"},
         journal' = [journal EXCEPT ![txn[w].j] = row],
         row.batch = journal[txn[w].j].batch,
         row.status \in {journal[txn[w].j].status, "SUBMITTED", "APPROVED", "VOID"},
         txn' = [txn EXCEPT ![w] = Idle], UNCHANGED batch
  PROVE  IndInv'
<1> DEFINE j == txn[w].j
<1>1. j \in Journals
  BY TxnTypes DEF IndInv, OnJournal
<1>2. /\ \A v \in Workers : v # w => txn'[v] = txn[v]
      /\ txn'[w] = Idle
  BY DEF IndInv, TypeOK
<1>3. /\ \A k \in Journals : k # j => journal'[k] = journal[k]
      /\ journal'[j] = row
  BY <1>1 DEF IndInv, TypeOK
<1>4. row \notin {None, Deleted}
  BY NullAssumption
<1>5. batch[<<j, "reversal">>] = None
  BY <1>1 DEF IndInv, AutoPosted
<1> HIDE DEF j
<1>6. GuardedTxns'
  BY <1>2 DEF IndInv, GuardedTxns, Running
<1>7. Batches'
  BY <1>3, <1>4 DEF IndInv, Batches
<1>8. AutoPosted'
  BY <1>2, <1>3, <1>5 DEF IndInv, AutoPosted, OnJournal, HasStatus, Exists
<1>9. Targets'
  <2> SUFFICES ASSUME NEW v \in Workers, OnJournal(v)'
               PROVE  journal'[txn'[v].j] # None
    BY DEF Targets
  <2>1. v # w /\ OnJournal(v) /\ txn'[v] = txn[v]
    BY <1>2 DEF OnJournal
  <2>2. txn[v].j \in Journals /\ journal[txn[v].j] # None
    BY <2>1, TxnTypes DEF IndInv, Targets, OnJournal
  <2> QED
    BY <1>3, <1>4, <2>1, <2>2
<1>10. BatchLinks'
  <2>1. ASSUME NEW k \in Journals, Exists(k)'
        PROVE  /\ Exists(k) /\ journal'[k].batch = journal[k].batch
               /\ journal'[k].status \in {"POSTED", "REVERSED"} =>
                    journal[k].status \in {"POSTED", "REVERSED"}
    BY <1>3, <2>1 DEF Exists, j
  <2>2. ASSUME NEW v \in Workers, Running(v, "reverse")' \/ Running(v, "reversing")'
        PROVE  /\ txn'[v] = txn[v] /\ txn[v].j \in Journals
               /\ Running(v, "reverse") \/ Running(v, "reversing")
    BY <1>2, <2>2, TxnTypes DEF IndInv, Running
  <2>3. \A k \in Journals :
          Exists(k)' =>
            /\ journal'[k].batch # None =>
                 \E kind \in Kinds : /\ journal'[k].batch = <<k, kind>>
                                     /\ batch'[<<k, kind>>] # None
            /\ journal'[k].status \in {"POSTED", "REVERSED"} => journal'[k].batch # None
    <3>1. BatchLinks
      BY DEF IndInv
    <3> SUFFICES ASSUME NEW k \in Journals, Exists(k)'
                 PROVE  /\ journal'[k].batch # None =>
                             \E kind \in Kinds : /\ journal'[k].batch = <<k, kind>>
                                                 /\ batch'[<<k, kind>>] # None
                        /\ journal'[k].status \in {"POSTED", "REVERSED"} =>
                             journal'[k].batch # None
      OBVIOUS
    <3>2. /\ Exists(k) /\ journal'[k].batch = journal[k].batch
          /\ journal'[k].status \in {"POSTED", "REVERSED"} =>
               journal[k].status \in {"POSTED", "REVERSED"}
      BY <2>1
    <3>3. /\ journal[k].batch # None =>
               \E kind \in Kinds : /\ journal[k].batch = <<k, kind>>
                                   /\ batch[<<k, kind>>] # None
          /\ journal[k].status \in {"POSTED", "REVERSED"} => journal[k].batch # None
      BY <3>1, <3>2 DEF BatchLinks
    <3> QED
      BY <3>2, <3>3
  <2>4. ASSUME NEW v \in Workers, Running(v, "reverse")' \/ Running(v, "reversing")',
               Exists(txn[v].j)'
        PROVE  journal'[txn'[v].j].batch # None
    BY <2>1, <2>2, <2>4 DEF IndInv, BatchLinks
  <2> QED
    BY <2>2, <2>3, <2>4 DEF BatchLinks, Exists
<1> QED
  BY <1>6, <1>7, <1>8, <1>9, <1>10 DEF IndInv

\* Every step of every session preserves the inductive invariant.
LEMMA NextInd == IndInv /\ [Next]_vars => IndInv'
<1> SUFFICES ASSUME IndInv, [Next]_vars
             PROVE  IndInv'
  OBVIOUS
<1>0. TypeOK /\ TypeOK'
  BY NextType DEF IndInv
<1>1. CASE UNCHANGED vars
  BY <1>1 DEF IndInv, TypeOK, GuardedTxns, Batches, AutoPosted, Targets, BatchLinks,
              vars, periodVars, journalVars, ledgerVars, FiscalPeriodsTypeOK,
              Running, OnJournal, Exists, HasStatus
<1>2. ASSUME NEW w \in Workers, PeriodOperation(w),
             UNCHANGED <<journalVars, ledgerVars>>
      PROVE  IndInv'
  <2>1. PICK t : (t = Idle \/ t.op = "period") /\ txn' = [txn EXCEPT ![w] = t]
    BY <1>2 DEF PeriodOperation, OpenPeriod, SoftClosePeriod, HardClosePeriod,
                ReopenPeriod, CloseReopenSession, LoadPeriod, CommitPeriod, Begin, End
  <2> QED
    BY <1>0, <1>2, <2>1, OtherTxnInd DEF journalVars, ledgerVars
<1>3. ASSUME NEW w \in Workers, JournalOperation(w)
      PROVE  IndInv'
  <2>1. ASSUME NEW j \in Journals, NEW input \in Inputs, NEW u \in Users,
               CreateJournal(w, j, input, u)
        PROVE  IndInv'
    <3>1. /\ journal[j] = None
          /\ \A k \in Journals : k # j => journal'[k] = journal[k]
          /\ journal'[j].status = "DRAFT" /\ journal'[j].batch = None
          /\ UNCHANGED <<txn, batch>>
      BY <1>0, <2>1 DEF CreateJournal, TypeOK, NewJournal, ledgerVars
    <3>2. \A v \in Workers : OnJournal(v) => txn[v].j \in Journals \ {j}
      BY <1>0, <3>1, TxnTypes DEF IndInv, Targets, OnJournal
    <3>3. \A kind \in Kinds : batch[<<j, kind>>] = None
      BY <3>1 DEF IndInv, Batches
    <3>4. GuardedTxns' /\ Targets'
      BY <3>1, <3>2 DEF IndInv, GuardedTxns, Targets, OnJournal, Running
    <3>5. Batches'
      BY <3>1, <3>3 DEF IndInv, Batches
    <3>6. AutoPosted'
      BY <3>1, <3>3 DEF IndInv, AutoPosted, OnJournal, HasStatus, Exists, Kinds
    <3>7. BatchLinks'
      BY <3>1, <3>2 DEF IndInv, BatchLinks, OnJournal, Running, Exists
    <3> QED
      BY <1>0, <3>4, <3>5, <3>6, <3>7 DEF IndInv
  <2>2. ASSUME NEW j \in Journals, NEW input \in Inputs, UpdateJournal(w, j, input)
        PROVE  IndInv'
    BY <1>0, <2>2, LoadInd DEF UpdateJournal
  <2>3. ASSUME NEW j \in Journals,
               DeleteJournal(w, j) \/ SubmitJournal(w, j) \/ VoidJournal(w, j)
        PROVE  IndInv'
    BY <1>0, <2>3, LoadInd DEF DeleteJournal, SubmitJournal, VoidJournal
  <2>4. ASSUME NEW j \in Journals, NEW u \in Users, ApproveJournal(w, j, u)
        PROVE  IndInv'
    BY <1>0, <2>4, LoadInd DEF ApproveJournal
  <2>5. CASE CommitUpdate(w)
    <3> DEFINE date == Written(txn[w].date, txn[w].input.date,
                               journal[txn[w].j].date)
               row == [journal[txn[w].j] EXCEPT !.date = date,
                                                !.lines = StoredLines(txn[w].input)]
    <3>1. txn[w].j \in Journals /\ OnJournal(w) /\ Exists(txn[w].j)
      BY <1>0, <2>5, TxnTypes DEF CommitUpdate, Running, OnJournal
    <3>2. journal[txn[w].j] \in JournalRow
      BY <1>0, <3>1 DEF TypeOK, Exists
    <3>3. journal' = [journal EXCEPT ![txn[w].j] = row]
      BY <1>0, <2>5, <3>1, <3>2 DEF CommitUpdate, TypeOK, JournalRow
    <3>4. row \in JournalRow
      <4>1. txn[w].input \in JournalInput
        BY <1>0, <2>5, TxnTypes, GeneralLedgerAssumption DEF CommitUpdate, Running
      <4>2. StoredLines(txn[w].input) \in Lines
        BY <4>1, StoredLinesType
      <4>3. date \in Dates
        BY <3>2, <4>1 DEF JournalRow, JournalInput, Written
      <4> HIDE DEF date
      <4> QED
        BY <3>2, <4>2, <4>3 DEF JournalRow
    <3>5. row.batch = journal[txn[w].j].batch /\ row.status = journal[txn[w].j].status
      BY <3>2 DEF JournalRow
    <3> HIDE DEF row
    <3> QED
      BY <1>0, <2>5, <3>1, <3>3, <3>4, <3>5, ColumnsInd
         DEF CommitUpdate, End, Running, ledgerVars
  <2>6. CASE CommitDelete(w)
    <3> DEFINE j == txn[w].j
    <3>1. j \in Journals /\ OnJournal(w)
      BY <1>0, <2>6, TxnTypes DEF CommitDelete, Running, OnJournal
    <3>2. /\ \A v \in Workers : v # w => txn'[v] = txn[v]
          /\ txn'[w] = Idle
          /\ \A k \in Journals : k # j => journal'[k] = journal[k]
          /\ journal'[j] = Deleted
          /\ UNCHANGED batch
      BY <1>0, <2>6, <3>1 DEF CommitDelete, End, TypeOK, ledgerVars
    <3>3. batch[<<j, "reversal">>] = None
      BY <2>6, <3>1 DEF IndInv, AutoPosted, CommitDelete, Running
    <3>4. \A v \in Workers : OnJournal(v) => txn[v].j \in Journals
      BY <1>0, TxnTypes DEF OnJournal
    <3> HIDE DEF j
    <3>5. GuardedTxns'
      BY <3>2 DEF IndInv, GuardedTxns, Running
    <3>6. Targets'
      BY <3>2, <3>4, NullAssumption DEF IndInv, Targets, OnJournal
    <3>7. Batches'
      BY <3>2, NullAssumption DEF IndInv, Batches
    <3>8. AutoPosted'
      BY <3>2, <3>3 DEF IndInv, AutoPosted, OnJournal, HasStatus, Exists
    <3>9. BatchLinks'
      <4>1. ASSUME NEW k \in Journals, Exists(k)'
            PROVE  Exists(k) /\ journal'[k] = journal[k]
        BY <3>2, <4>1 DEF Exists
      <4>2. ASSUME NEW v \in Workers,
                   Running(v, "reverse")' \/ Running(v, "reversing")'
            PROVE  /\ txn'[v] = txn[v] /\ txn[v].j \in Journals
                   /\ Running(v, "reverse") \/ Running(v, "reversing")
        BY <3>2, <3>4, <4>2 DEF Running, OnJournal
      <4>3. \A k \in Journals :
              Exists(k)' =>
                /\ journal'[k].batch # None =>
                     \E kind \in Kinds : /\ journal'[k].batch = <<k, kind>>
                                         /\ batch'[<<k, kind>>] # None
                /\ journal'[k].status \in {"POSTED", "REVERSED"} =>
                     journal'[k].batch # None
        BY <3>2, <4>1 DEF IndInv, BatchLinks
      <4>4. ASSUME NEW v \in Workers,
                   Running(v, "reverse")' \/ Running(v, "reversing")',
                   Exists(txn[v].j)'
            PROVE  journal'[txn'[v].j].batch # None
        BY <4>1, <4>2, <4>4 DEF IndInv, BatchLinks
      <4> QED
        BY <4>2, <4>3, <4>4 DEF BatchLinks, Exists
    <3> QED
      BY <1>0, <3>5, <3>6, <3>7, <3>8, <3>9 DEF IndInv
  <2>7. CASE CommitSubmit(w) \/ CommitVoid(w)
    <3>1. txn[w].j \in Journals /\ OnJournal(w) /\ Exists(txn[w].j)
      BY <1>0, <2>7, TxnTypes DEF CommitSubmit, CommitVoid, Running, OnJournal
    <3>2. journal[txn[w].j] \in JournalRow
      BY <1>0, <3>1 DEF TypeOK, Exists
    <3>3. PICK s \in {"SUBMITTED", "VOID"} :
            journal' = [journal EXCEPT ![txn[w].j].status = s]
      BY <2>7 DEF CommitSubmit, CommitVoid
    <3> DEFINE row == [journal[txn[w].j] EXCEPT !.status = s]
    <3>4. row \in JournalRow /\ row.batch = journal[txn[w].j].batch /\ row.status = s
      BY <3>2, <3>3 DEF JournalRow, JournalStatus
    <3>5. journal' = [journal EXCEPT ![txn[w].j] = row]
      BY <3>3
    <3> HIDE DEF row
    <3> QED
      BY <1>0, <2>7, <3>1, <3>4, <3>5, ColumnsInd
         DEF CommitSubmit, CommitVoid, End, Running, ledgerVars
  <2>8. CASE CommitApprove(w)
    <3> DEFINE approver == Written(txn[w].approver, txn[w].user,
                                   journal[txn[w].j].approver)
               row == [journal[txn[w].j] EXCEPT !.status = "APPROVED",
                                                !.approver = approver]
    <3>1. /\ txn[w].j \in Journals /\ txn[w].user \in Users
          /\ OnJournal(w) /\ Exists(txn[w].j)
      BY <1>0, <2>8, TxnTypes DEF CommitApprove, Running, OnJournal
    <3>2. journal[txn[w].j] \in JournalRow
      BY <1>0, <3>1 DEF TypeOK, Exists
    <3>a. approver \in Users \cup {None}
      BY <3>1, <3>2 DEF JournalRow, Written
    <3>3. /\ row \in JournalRow /\ row.status = "APPROVED"
          /\ row.batch = journal[txn[w].j].batch
      <4> HIDE DEF approver
      <4> QED
        BY <3>a, <3>2 DEF JournalRow, JournalStatus
    <3>4. journal' = [journal EXCEPT ![txn[w].j] = row]
      BY <1>0, <2>8, <3>1, <3>2 DEF CommitApprove, TypeOK, JournalRow
    <3> HIDE DEF row
    <3> QED
      BY <1>0, <2>8, <3>1, <3>3, <3>4, ColumnsInd
         DEF CommitApprove, End, Running, ledgerVars
  <2> QED
    BY <1>3, <2>1, <2>2, <2>3, <2>4, <2>5, <2>6, <2>7, <2>8 DEF JournalOperation
<1>4. ASSUME NEW w \in Workers, LedgerOperation(w)
      PROVE  IndInv'
  <2>1. ASSUME NEW j \in Journals, NEW a \in AllowAdjustment,
               NEW s \in 0 .. nextSession, PostJournal(w, j, a, s)
        PROVE  IndInv'
    BY <1>0, <2>1, LoadInd DEF PostJournal
  <2>2. ASSUME NEW j \in Journals, NEW a \in AllowAdjustment,
               NEW s \in 0 .. nextSession, NEW u \in Users, NEW d \in Dates,
               NEW autoPost \in BOOLEAN, CreateReversal(w, j, u, d, autoPost, a, s)
        PROVE  IndInv'
    BY <1>0, <2>2, LoadInd DEF CreateReversal
  <2>3. CASE GuardPost(w)
    <3> DEFINE j == txn[w].j
    <3>1. j \in Journals /\ OnJournal(w) /\ txn[w].op = "post" /\ Exists(j)
      BY <1>0, <2>3, TxnTypes DEF GuardPost, Running, OnJournal
    <3>2. PICK p \in Covering(txn[w].date) :
            Continue(w, [op |-> "posting", j |-> j, date |-> txn[w].date,
                         period |-> p, lines |-> journal[j].lines])
      BY <2>3, GateCovers DEF GuardPost
    <3>3. /\ \A v \in Workers : v # w => txn'[v] = txn[v]
          /\ txn'[w].op = "posting" /\ txn'[w].j = j
          /\ CheckedLines(txn'[w])
          /\ UNCHANGED <<journal, batch>>
      BY <1>0, <2>3, <3>2 DEF GuardPost, Continue, TypeOK, CheckedLines,
                              journalVars, ledgerVars
    <3> HIDE DEF j
    <3>4. GuardedTxns'
      BY <3>3 DEF IndInv, GuardedTxns, Running
    <3>5. AutoPosted'
      BY <3>1, <3>3 DEF IndInv, AutoPosted, OnJournal, HasStatus, Exists, j
    <3>6. Targets' /\ Batches'
      BY <3>1, <3>3 DEF IndInv, Targets, Batches, OnJournal, Exists
    <3>7. BatchLinks'
      BY <3>3 DEF IndInv, BatchLinks, Running, Exists
    <3> QED
      BY <1>0, <3>4, <3>5, <3>6, <3>7 DEF IndInv
  <2>4. CASE GuardReversal(w)
    <3> DEFINE j == txn[w].j
    <3>1. /\ j \in Journals /\ OnJournal(w) /\ Running(w, "reverse") /\ Exists(j)
          /\ txn[w].op = "reverse"
      BY <1>0, <2>4, TxnTypes DEF GuardReversal, Running, OnJournal
    <3>2. PICK p \in Covering(txn[w].date) :
            Continue(w, [op |-> "reversing", j |-> j, user |-> txn[w].user,
                         date |-> txn[w].date, autoPost |-> txn[w].autoPost,
                         period |-> p, lines |-> Swapped(journal[j].lines)])
      BY <2>4, GateCovers DEF GuardReversal
    <3>3. /\ \A v \in Workers : v # w => txn'[v] = txn[v]
          /\ txn'[w].op = "reversing" /\ txn'[w].j = j
          /\ txn'[w].autoPost => CheckedLines(txn'[w])
          /\ UNCHANGED <<journal, batch>>
      BY <1>0, <2>4, <3>2 DEF GuardReversal, Continue, TypeOK, CheckedLines,
                              journalVars, ledgerVars
    <3> HIDE DEF j
    <3>4. GuardedTxns'
      BY <3>3 DEF IndInv, GuardedTxns, Running
    <3>5. AutoPosted'
      BY <3>1, <3>3 DEF IndInv, AutoPosted, OnJournal, HasStatus, Exists, j
    <3>6. Targets' /\ Batches'
      BY <3>1, <3>3 DEF IndInv, Targets, Batches, OnJournal, Exists
    <3>7. BatchLinks'
      BY <3>1, <3>3 DEF IndInv, BatchLinks, Running, Exists, j
    <3> QED
      BY <1>0, <3>4, <3>5, <3>6, <3>7 DEF IndInv
  <2>5. CASE CommitPost(w)
    <3> DEFINE j == txn[w].j
               key == <<j, "v1">>
               b == [journal |-> j, period |-> txn[w].period,
                     date |-> txn[w].date, lines |-> txn[w].lines]
    <3>1. /\ j \in Journals /\ OnJournal(w) /\ Running(w, "posting") /\ Exists(j)
          /\ txn[w] \in [op : {"posting"}, j : Journals, date : Dates,
                         period : Periods, lines : Lines]
      BY <1>0, <2>5, TxnTypes DEF CommitPost, Running, OnJournal
    <3>2. key \in Keys /\ b \in BatchRow /\ b # None
      BY <3>1, NullAssumption DEF Keys, BatchRow
    <3>3. b.journal = j /\ CheckedLines(b)
      BY <3>1 DEF IndInv, GuardedTxns, CheckedLines
    <3>4. /\ \A k \in Keys : k # key => batch'[k] = batch[k]
          /\ batch'[key] = b
      BY <1>0, <2>5, <3>2 DEF CommitPost, InsertBatch, TypeOK
    <3>5. journal[j] \in JournalRow
      BY <1>0, <3>1 DEF TypeOK, Exists
    <3>6. /\ \A k \in Journals : k # j => journal'[k] = journal[k]
          /\ journal'[j].status = "POSTED" /\ journal'[j].batch = key
          /\ journal'[j] \in JournalRow
      <4>1. journal' = [journal EXCEPT ![j] =
                          [journal[j] EXCEPT !.status = "POSTED", !.batch = key]]
        BY <1>0, <2>5, <3>1, <3>5 DEF CommitPost, TypeOK, JournalRow
      <4>2. [journal[j] EXCEPT !.status = "POSTED", !.batch = key] \in JournalRow
        BY <3>2, <3>5 DEF JournalRow, JournalStatus
      <4> QED
        BY <1>0, <3>1, <3>5, <4>1, <4>2 DEF TypeOK, JournalRow
    <3>7. /\ \A v \in Workers : v # w => txn'[v] = txn[v]
          /\ txn'[w] = Idle
      BY <1>0, <2>5 DEF CommitPost, End, TypeOK
    <3>8. batch[<<j, "reversal">>] = None
      BY <3>1 DEF IndInv, AutoPosted, Running
    <3>9. journal'[j] \notin {None, Deleted} /\ key # None
      BY <3>2, <3>6, NullAssumption
    <3>10. \A v \in Workers : OnJournal(v) => txn[v].j \in Journals
      BY <1>0, TxnTypes DEF OnJournal
    <3>11. \A k \in Journals, kind \in Kinds :
             /\ <<k, kind>> \in Keys
             /\ <<k, kind>> = key <=> k = j /\ kind = "v1"
      BY DEF Keys, Kinds
    <3> HIDE DEF j, b, key
    <3>12. GuardedTxns'
      BY <3>7 DEF IndInv, GuardedTxns, Running
    <3>13. Batches'
      BY <3>3, <3>4, <3>6, <3>9, <3>11 DEF IndInv, Batches
    <3>14. AutoPosted'
      <4> SUFFICES ASSUME NEW k \in Journals, batch'[<<k, "reversal">>] # None
                   PROVE  /\ batch'[<<k, "v1">>] = None
                          /\ HasStatus(k, {"POSTED", "REVERSED"})'
                          /\ \A v \in Workers :
                               OnJournal(v)' /\ txn'[v].j = k =>
                                 txn'[v].op \in {"reverse", "reversing"}
        BY DEF AutoPosted
      <4>1. batch[<<k, "reversal">>] # None
        BY <3>4, <3>11 DEF Kinds
      <4>2. k # j
        BY <3>8, <4>1
      <4>3. batch'[<<k, "v1">>] = batch[<<k, "v1">>] /\ journal'[k] = journal[k]
        BY <3>4, <3>6, <3>11, <4>2 DEF Kinds
      <4> QED
        BY <3>7, <4>1, <4>3 DEF IndInv, AutoPosted, OnJournal, HasStatus, Exists
    <3>15. Targets'
      BY <3>6, <3>7, <3>9, <3>10 DEF IndInv, Targets, OnJournal
    <3>16. BatchLinks'
      <4>1. ASSUME NEW k \in Journals, NEW kind \in Kinds, batch[<<k, kind>>] # None
            PROVE  batch'[<<k, kind>>] # None
        BY <3>2, <3>4, <3>11, <4>1
      <4>2. ASSUME NEW k \in Journals, Exists(k)'
            PROVE  /\ journal'[k].batch # None =>
                        \E kind \in Kinds : /\ journal'[k].batch = <<k, kind>>
                                            /\ batch'[<<k, kind>>] # None
                   /\ journal'[k].status \in {"POSTED", "REVERSED"} =>
                        journal'[k].batch # None
        <5>1. CASE k = j
          BY <3>2, <3>4, <3>6, <3>9, <5>1 DEF Kinds, key
        <5>2. CASE k # j
          BY <3>6, <4>1, <4>2, <5>2 DEF IndInv, BatchLinks, Exists
        <5> QED
          BY <5>1, <5>2
      <4>3. ASSUME NEW v \in Workers,
                   Running(v, "reverse")' \/ Running(v, "reversing")',
                   Exists(txn[v].j)'
            PROVE  journal'[txn'[v].j].batch # None
        <5>1. /\ txn'[v] = txn[v] /\ txn[v].j \in Journals
              /\ Running(v, "reverse") \/ Running(v, "reversing")
          BY <3>7, <3>10, <4>3 DEF Running, OnJournal
        <5>2. CASE txn[v].j = j
          BY <3>6, <3>9, <5>1, <5>2
        <5>3. CASE txn[v].j # j
          BY <3>6, <4>3, <5>1, <5>3 DEF IndInv, BatchLinks, Exists
        <5> QED
          BY <5>2, <5>3
      <4> QED
        BY <4>2, <4>3 DEF BatchLinks, Exists
    <3> QED
      BY <1>0, <3>12, <3>13, <3>14, <3>15, <3>16 DEF IndInv
  <2>6. ASSUME NEW r \in Journals, CommitReversal(w, r)
        PROVE  IndInv'
    <3> DEFINE t == txn[w]
               j == t.j
               key == <<r, "reversal">>
               b == [journal |-> r, period |-> t.period, date |-> t.date,
                     lines |-> t.lines]
    <3>1. /\ j \in Journals /\ OnJournal(w) /\ Running(w, "reversing") /\ Exists(j)
          /\ t \in [op : {"reversing"}, j : Journals, user : Users,
                    date : Dates, autoPost : BOOLEAN, period : Periods,
                    lines : Lines]
      BY <1>0, <2>6, TxnTypes DEF CommitReversal, Running, OnJournal
    <3>2. journal[r] = None /\ r # j
      BY <2>6, <3>1 DEF CommitReversal, Exists
    <3>3. key \in Keys /\ b \in BatchRow /\ b # None /\ key # None
      BY <3>1, NullAssumption DEF Keys, BatchRow
    <3>4. b.journal = r /\ (t.autoPost => CheckedLines(b))
      BY <3>1 DEF IndInv, GuardedTxns, CheckedLines
    <3>5. /\ \A k \in Keys : k # key => batch'[k] = batch[k]
          /\ batch'[key] = IF t.autoPost THEN b ELSE batch[key]
      BY <1>0, <2>6, <3>3 DEF CommitReversal, InsertBatch, TypeOK, ledgerVars
    <3>6. journal[j] \in JournalRow
      BY <1>0, <3>1 DEF TypeOK, Exists
    <3>7. /\ \A k \in Journals : k \notin {j, r} => journal'[k] = journal[k]
          /\ journal'[j].batch = journal[j].batch
          /\ journal'[j].status = IF t.autoPost THEN "REVERSED" ELSE journal[j].status
          /\ journal'[r].batch = IF t.autoPost THEN key ELSE None
          /\ journal'[r].status = IF t.autoPost THEN "POSTED" ELSE "DRAFT"
      BY <1>0, <2>6, <3>1, <3>2, <3>6 DEF CommitReversal, TypeOK, JournalRow
    <3>8. journal'[j] \notin {None, Deleted} /\ journal'[r] \notin {None, Deleted}
      <4> DEFINE row == [status   |-> IF t.autoPost THEN "POSTED" ELSE "DRAFT",
                         date     |-> t.date, lines |-> t.lines, creator |-> t.user,
                         approver |-> IF t.autoPost THEN t.user ELSE None,
                         batch    |-> IF t.autoPost THEN key ELSE None,
                         reversal |-> None, reversed |-> j]
                 original == [journal[j] EXCEPT !.reversal = r,
                                !.status = IF t.autoPost THEN "REVERSED" ELSE @]
      <4>1. row \in JournalRow
        BY <3>1, <3>3 DEF JournalRow, JournalStatus
      <4>2. original \in JournalRow
        BY <3>1, <3>6 DEF JournalRow, JournalStatus
      <4>3. journal' = [journal EXCEPT ![r] = row, ![j] = original]
        BY <2>6 DEF CommitReversal
      <4>4. journal'[r] = row /\ journal'[j] = original
        BY <1>0, <3>1, <3>2, <4>3 DEF TypeOK
      <4>5. row \notin {None, Deleted} /\ original \notin {None, Deleted}
        BY <4>1, <4>2, NullAssumption
      <4> HIDE DEF row, original
      <4> QED
        BY <4>4, <4>5
    <3>9. /\ \A v \in Workers : v # w => txn'[v] = txn[v]
          /\ txn'[w] = Idle
      BY <1>0, <2>6 DEF CommitReversal, End, TypeOK
    <3>10. \A v \in Workers : OnJournal(v) => txn[v].j \in Journals \ {r}
      BY <1>0, <3>2, TxnTypes DEF IndInv, Targets, OnJournal
    <3>11. \A kind \in Kinds : batch[<<r, kind>>] = None
      BY <3>2 DEF IndInv, Batches
    <3>12. \A k \in Journals, kind \in Kinds :
             /\ <<k, kind>> \in Keys
             /\ <<k, kind>> = key <=> k = r /\ kind = "reversal"
      BY DEF Keys, Kinds
    <3>13. journal[j].batch # None
      BY <3>1 DEF IndInv, BatchLinks
    <3>14. t.autoPost \in BOOLEAN
      BY <3>1
    <3> HIDE DEF t, j, b, key
    <3>15. GuardedTxns'
      BY <3>9 DEF IndInv, GuardedTxns, Running
    <3>16. Batches'
      <4> SUFFICES ASSUME NEW k \in Journals, NEW kind \in Kinds,
                          batch'[<<k, kind>>] # None
                   PROVE  /\ batch'[<<k, kind>>].journal = k
                          /\ CheckedLines(batch'[<<k, kind>>])
                          /\ journal'[k] # None
        BY DEF Batches, CheckedLines, Covering
      <4>1. CASE k = r
        BY <3>4, <3>5, <3>8, <3>11, <3>12, <4>1 DEF Exists
      <4>2. CASE k # r
        <5>1. batch'[<<k, kind>>] = batch[<<k, kind>>]
          BY <3>5, <3>12, <4>2
        <5> QED
          BY <3>7, <3>8, <4>2, <5>1 DEF IndInv, Batches, Exists
      <4> QED
        BY <4>1, <4>2
    <3>17. AutoPosted'
      <4> SUFFICES ASSUME NEW k \in Journals, batch'[<<k, "reversal">>] # None
                   PROVE  /\ batch'[<<k, "v1">>] = None
                          /\ HasStatus(k, {"POSTED", "REVERSED"})'
                          /\ \A v \in Workers :
                               OnJournal(v)' /\ txn'[v].j = k =>
                                 txn'[v].op \in {"reverse", "reversing"}
        BY DEF AutoPosted
      <4>1. CASE k = r
        <5>1. t.autoPost
          BY <3>3, <3>5, <3>11, <4>1 DEF Kinds, key
        <5>2. batch'[<<r, "v1">>] = None
          BY <3>5, <3>11, <3>12 DEF Kinds
        <5>3. \A v \in Workers : OnJournal(v)' => txn'[v].j # r
          BY <3>9, <3>10 DEF OnJournal
        <5> QED
          BY <3>7, <3>8, <4>1, <5>1, <5>2, <5>3 DEF HasStatus, Exists
      <4>2. CASE k # r
        <5>1. /\ batch'[<<k, "reversal">>] = batch[<<k, "reversal">>]
              /\ batch'[<<k, "v1">>] = batch[<<k, "v1">>]
          BY <3>5, <3>12, <4>2 DEF Kinds
        <5>2. /\ batch[<<k, "v1">>] = None
              /\ HasStatus(k, {"POSTED", "REVERSED"})
          BY <5>1 DEF IndInv, AutoPosted
        <5>3. HasStatus(k, {"POSTED", "REVERSED"})'
          BY <3>7, <3>8, <3>14, <4>2, <5>2 DEF HasStatus, Exists
        <5>4. ASSUME NEW v \in Workers, OnJournal(v)', txn'[v].j = k
              PROVE  txn'[v].op \in {"reverse", "reversing"}
          BY <3>9, <5>1, <5>4 DEF IndInv, AutoPosted, OnJournal
        <5> QED
          BY <5>1, <5>2, <5>3, <5>4
      <4> QED
        BY <4>1, <4>2
    <3>18. Targets'
      BY <3>7, <3>8, <3>9, <3>10 DEF IndInv, Targets, OnJournal, Exists
    <3>19. BatchLinks'
      <4>1. ASSUME NEW k \in Journals, NEW kind \in Kinds, batch[<<k, kind>>] # None
            PROVE  batch'[<<k, kind>>] # None
        BY <3>3, <3>5, <3>12, <4>1
      <4>2. ASSUME NEW k \in Journals, Exists(k)'
            PROVE  /\ journal'[k].batch # None =>
                        \E kind \in Kinds : /\ journal'[k].batch = <<k, kind>>
                                            /\ batch'[<<k, kind>>] # None
                   /\ journal'[k].status \in {"POSTED", "REVERSED"} =>
                        journal'[k].batch # None
        <5>1. CASE k = r
          BY <3>3, <3>5, <3>7, <3>14, <5>1 DEF Kinds, key
        <5>2. CASE k = j
          <6>1. journal'[k].batch = journal[k].batch /\ journal[k].batch # None
            BY <3>7, <3>13, <5>2
          <6>2. PICK kind \in Kinds : /\ journal[k].batch = <<k, kind>>
                                      /\ batch[<<k, kind>>] # None
            BY <3>1, <5>2, <6>1 DEF IndInv, BatchLinks
          <6>3. batch'[<<k, kind>>] # None
            BY <4>1, <6>2
          <6> QED
            BY <6>1, <6>2, <6>3
        <5>3. CASE k \notin {j, r}
          BY <3>7, <4>1, <4>2, <5>3 DEF IndInv, BatchLinks, Exists
        <5> QED
          BY <5>1, <5>2, <5>3
      <4>3. ASSUME NEW v \in Workers,
                   Running(v, "reverse")' \/ Running(v, "reversing")',
                   Exists(txn[v].j)'
            PROVE  journal'[txn'[v].j].batch # None
        <5>1. /\ txn'[v] = txn[v] /\ txn[v].j \in Journals \ {r}
              /\ Running(v, "reverse") \/ Running(v, "reversing")
          BY <3>9, <3>10, <4>3 DEF Running, OnJournal
        <5>2. CASE txn[v].j = j
          BY <3>7, <3>13, <5>1, <5>2
        <5>3. CASE txn[v].j # j
          BY <3>7, <4>3, <5>1, <5>3 DEF IndInv, BatchLinks, Exists
        <5> QED
          BY <5>2, <5>3
      <4> QED
        BY <4>2, <4>3 DEF BatchLinks, Exists
    <3> QED
      BY <1>0, <3>15, <3>16, <3>17, <3>18, <3>19 DEF IndInv
  <2> QED
    BY <1>4, <2>1, <2>2, <2>3, <2>4, <2>5, <2>6 DEF LedgerOperation
<1>5. ASSUME NEW w \in Workers, Rollback(w)
      PROVE  IndInv'
  BY <1>0, <1>5, OtherTxnInd DEF Rollback, End, journalVars, ledgerVars
<1> QED
  BY <1>1, <1>2, <1>3, <1>4, <1>5 DEF Next

-----------------------------------------------------------------------------
(* The theorems. *)

\* The inductive invariant holds however sessions interleave.
THEOREM Inductive == Spec => []IndInv
<1> QED
  BY InitInd, NextInd, PTL DEF Spec

\* Every batch was balanced and sane when it was posted, whoever edited the
\* journal meanwhile: post_journal_entry validates the lines it inserts.
THEOREM Balanced == Spec => []LedgerBalanced
<1>1. IndInv => LedgerBalanced
  <2> SUFFICES ASSUME IndInv, NEW k \in Keys, batch[k] # None
               PROVE  Postable(batch[k].lines)
    BY DEF LedgerBalanced
  <2>1. PICK j \in Journals, kind \in Kinds : k = <<j, kind>>
    BY DEF Keys, Kinds
  <2> QED
    BY <2>1 DEF IndInv, Batches, CheckedLines
<1> QED
  BY <1>1, Inductive, PTL

\* No journal is in the ledger twice, although post_journal and
\* create_reversal post under different idempotency keys.
THEOREM AtMostOnce == Spec => []PostedAtMostOnce
<1>1. IndInv => PostedAtMostOnce
  <2> SUFFICES ASSUME IndInv, NEW j \in Journals,
                      NEW k1 \in PostingsOf(j), NEW k2 \in PostingsOf(j)
               PROVE  k1 = k2
    BY DEF PostedAtMostOnce
  <2>1. PICK j1 \in Journals, kind1 \in Kinds : k1 = <<j1, kind1>>
    BY DEF Keys, Kinds, PostingsOf
  <2>2. PICK j2 \in Journals, kind2 \in Kinds : k2 = <<j2, kind2>>
    BY DEF Keys, Kinds, PostingsOf
  <2>3. /\ batch[<<j1, kind1>>] # None /\ batch[<<j1, kind1>>].journal = j
        /\ batch[<<j2, kind2>>] # None /\ batch[<<j2, kind2>>].journal = j
    BY <2>1, <2>2 DEF PostingsOf
  <2>4. j1 = j /\ j2 = j
    BY <2>3 DEF IndInv, Batches
  <2>5. kind1 = kind2
    BY <2>3, <2>4 DEF IndInv, AutoPosted, Kinds
  <2> QED
    BY <2>1, <2>2, <2>4, <2>5
<1> QED
  BY <1>1, Inductive, PTL

\* A journal shown as POSTED or REVERSED points to its own batch.
THEOREM InLedger == Spec => []PostedIsInLedger
<1>1. IndInv => PostedIsInLedger
  <2> SUFFICES ASSUME IndInv, NEW j \in Journals, HasStatus(j, {"POSTED", "REVERSED"})
               PROVE  journal[j].batch # None /\ journal[j].batch \in PostingsOf(j)
    BY DEF PostedIsInLedger
  <2>1. journal[j].batch # None
    BY DEF IndInv, BatchLinks, HasStatus
  <2>2. PICK kind \in Kinds : /\ journal[j].batch = <<j, kind>>
                              /\ batch[<<j, kind>>] # None
    BY <2>1 DEF IndInv, BatchLinks, HasStatus
  <2>3. batch[<<j, kind>>].journal = j
    BY <2>2 DEF IndInv, Batches
  <2> QED
    BY <2>1, <2>2, <2>3 DEF PostingsOf, Keys, Kinds
<1> QED
  BY <1>1, Inductive, PTL

\* Ledger lines lie in a period that covers their posting date.
THEOREM InCoveringPeriod == Spec => []PostedInCoveringPeriod
<1>1. IndInv => PostedInCoveringPeriod
  <2> SUFFICES ASSUME IndInv, NEW k \in Keys, batch[k] # None
               PROVE  batch[k].period \in Covering(batch[k].date)
    BY DEF PostedInCoveringPeriod
  <2>1. PICK j \in Journals, kind \in Kinds : k = <<j, kind>>
    BY DEF Keys, Kinds
  <2> QED
    BY <2>1 DEF IndInv, Batches, CheckedLines
<1> QED
  BY <1>1, Inductive, PTL

\* The batch of a session that has passed the gate.
BatchOf(w, b) ==
  /\ \/ Running(w, "posting")
     \/ Running(w, "reversing") /\ txn[w].autoPost
  /\ b.period = txn[w].period

\* Any step adds at most one batch, under a key that had none.
LEMMA StepAppends ==
  ASSUME TypeOK, [Next]_vars
  PROVE  \/ UNCHANGED batch
         \/ \E w \in Workers, key \in Keys : \E b :
              /\ BatchOf(w, b)
              /\ batch[key] = None /\ batch' = [batch EXCEPT ![key] = b]
<1>1. CASE UNCHANGED vars
  BY <1>1 DEF vars, ledgerVars
<1>2. ASSUME NEW w \in Workers, PeriodOperation(w),
             UNCHANGED <<journalVars, ledgerVars>>
      PROVE  UNCHANGED batch
  BY <1>2 DEF ledgerVars
<1>3. ASSUME NEW w \in Workers, JournalOperation(w)
      PROVE  UNCHANGED batch
  BY <1>3 DEF JournalOperation, CreateJournal, UpdateJournal, DeleteJournal,
              SubmitJournal, ApproveJournal, VoidJournal, Load, CommitUpdate,
              CommitDelete, CommitSubmit, CommitApprove, CommitVoid, ledgerVars
<1>4. ASSUME NEW w \in Workers, LedgerOperation(w)
      PROVE  \/ UNCHANGED batch
             \/ \E v \in Workers, key \in Keys : \E b :
                  /\ BatchOf(v, b)
                  /\ batch[key] = None /\ batch' = [batch EXCEPT ![key] = b]
  <2>1. ASSUME NEW j \in Journals, NEW a, NEW s, PostJournal(w, j, a, s)
        PROVE  UNCHANGED batch
    BY <2>1 DEF PostJournal, Load, ledgerVars
  <2>2. ASSUME NEW j \in Journals, NEW u, NEW d, NEW autoPost, NEW a, NEW s,
               CreateReversal(w, j, u, d, autoPost, a, s)
        PROVE  UNCHANGED batch
    BY <2>2 DEF CreateReversal, Load, ledgerVars
  <2>3. CASE GuardPost(w) \/ GuardReversal(w)
    BY <2>3 DEF GuardPost, GuardReversal, ledgerVars
  <2>4. CASE CommitPost(w)
    <3>1. txn[w].j \in Journals
      BY <2>4, TxnTypes DEF CommitPost, Running
    <3>2. <<txn[w].j, "v1">> \in Keys
      BY <3>1 DEF Keys
    <3> DEFINE b == [journal |-> txn[w].j, period |-> txn[w].period,
                     date |-> txn[w].date, lines |-> txn[w].lines]
    <3>3. BatchOf(w, b)
      BY <2>4 DEF CommitPost, BatchOf
    <3>4. /\ batch[<<txn[w].j, "v1">>] = None
          /\ batch' = [batch EXCEPT ![<<txn[w].j, "v1">>] = b]
      BY <2>4 DEF CommitPost, InsertBatch
    <3> HIDE DEF b
    <3> QED
      BY <3>2, <3>3, <3>4
  <2>5. ASSUME NEW r \in Journals, CommitReversal(w, r)
        PROVE  \/ UNCHANGED batch
               \/ \E v \in Workers, key \in Keys : \E b :
                    /\ BatchOf(v, b)
                    /\ batch[key] = None /\ batch' = [batch EXCEPT ![key] = b]
    <3>1. <<r, "reversal">> \in Keys
      BY DEF Keys
    <3>2. CASE txn[w].autoPost
      BY <2>5, <3>1, <3>2 DEF CommitReversal, InsertBatch, BatchOf
    <3>3. CASE ~txn[w].autoPost
      BY <2>5, <3>3 DEF CommitReversal, ledgerVars
    <3> QED
      BY <3>2, <3>3
  <2> QED
    BY <1>4, <2>1, <2>2, <2>3, <2>4, <2>5 DEF LedgerOperation
<1>5. ASSUME NEW w \in Workers, Rollback(w)
      PROVE  UNCHANGED batch
  BY <1>5 DEF Rollback, ledgerVars
<1> QED
  BY <1>1, <1>2, <1>3, <1>4, <1>5 DEF Next

\* No step of any service changes or removes a posted batch.
THEOREM AppendOnly == Spec => LedgerAppendOnly
<1>1. TypeOK /\ [Next]_vars =>
        [\A k \in Keys : batch[k] # None => batch'[k] = batch[k]]_vars
  <2> SUFFICES ASSUME TypeOK, [Next]_vars, NEW k \in Keys, batch[k] # None
               PROVE  batch'[k] = batch[k]
    OBVIOUS
  <2> QED
    BY StepAppends DEF TypeOK
<1> QED
  BY <1>1, TypeCorrect, PTL DEF Spec, LedgerAppendOnly

\* The general ledger implements its contract: to its readers it is an
\* append-only map with one balanced entry per journal.
THEOREM Refinement == Spec => ImplementsContract
<1>1. Init => Contract!Init
  <2> SUFFICES ASSUME Init
               PROVE  PostedEntry = [j \in Journals |-> None]
    BY DEF Contract!Init
  <2>1. \A j \in Journals : batch[<<j, "v1">>] = None /\ batch[<<j, "reversal">>] = None
    BY DEF Init, Keys
  <2> QED
    BY <2>1 DEF PostedEntry
<1>2. IndInv /\ IndInv' /\ [Next]_vars => [Contract!Next]_PostedEntry
  <2> SUFFICES ASSUME IndInv, IndInv', [Next]_vars
               PROVE  Contract!Next \/ UNCHANGED PostedEntry
    BY DEF Contract!Next
  <2>0. TypeOK /\ TypeOK'
    BY DEF IndInv
  <2>1. CASE UNCHANGED batch
    BY <2>1 DEF PostedEntry
  <2>2. ASSUME NEW key \in Keys, NEW b, batch[key] = None,
               batch' = [batch EXCEPT ![key] = b], batch' # batch
        PROVE  Contract!Next
    <3>1. PICK j \in Journals, kind \in Kinds : key = <<j, kind>>
      BY DEF Keys, Kinds
    <3>2. /\ batch'[<<j, kind>>] = b /\ b # None
          /\ \A k \in Journals, o \in Kinds :
               <<k, o>> # <<j, kind>> => batch'[<<k, o>>] = batch[<<k, o>>]
      BY <2>0, <2>2, <3>1 DEF TypeOK, Keys, Kinds
    <3>3. PICK other \in Kinds : Kinds = {kind, other} /\ other # kind
      BY DEF Kinds
    <3>4. batch'[<<j, other>>] = None /\ batch[<<j, other>>] = None
      <4>1. batch'[<<j, other>>] = None
        BY <3>2, <3>3 DEF IndInv, AutoPosted, Kinds
      <4> QED
        BY <3>2, <3>3, <4>1
    <3>5. PostedEntry[j] = None /\ PostedEntry'[j] = b
      BY <2>2, <3>1, <3>2, <3>3, <3>4 DEF PostedEntry, Kinds
    <3>6. \A k \in Journals \ {j} : PostedEntry'[k] = PostedEntry[k]
      BY <3>2 DEF PostedEntry, Kinds
    <3>7. PostedEntry' = [PostedEntry EXCEPT ![j] = PostedEntry'[j]]
      BY <3>6 DEF PostedEntry
    <3>8. b \in LedgerEntry
      <4>1. b \in BatchRow
        BY <2>0, <3>1, <3>2 DEF TypeOK
      <4>2. CheckedLines(b)
        BY <3>2 DEF IndInv, Batches, CheckedLines, Covering
      <4> QED
        BY <4>1, <4>2 DEF LedgerEntry, CheckedLines
    <3> QED
      BY <3>5, <3>7, <3>8 DEF Contract!Next, Contract!AppendEntry
  <2> QED
    BY <2>0, <2>1, <2>2, StepAppends
<1> QED
  BY <1>1, <1>2, Inductive, PTL DEF Spec, ImplementsContract, Contract!Spec

-----------------------------------------------------------------------------
(* Sums. *)

\* Total is that sum.
LEMMA TotalIsSum ==
  ASSUME NEW f
  PROVE  Total(f) = Sum(f, DOMAIN f)
  BY DEF Total, FoldFunction, FoldFunctionOnSet, MapThenFoldSet, Partial, Sum, SumsUp, Pick

\* Lines and the same lines swapped cancel in every account.
LEMMA SwappedCancels ==
  ASSUME NEW lines \in Lines, NEW a
  PROVE  Effect(lines, a) + Effect(Swapped(lines), a) = 0
<1> DEFINE S == {n \in DOMAIN lines : lines[n].account = a}
           f == [i \in S |-> lines[i].fdebit - lines[i].fcredit]
           g == [i \in S |-> lines[i].fcredit - lines[i].fdebit]
<1>1. DOMAIN lines = 1 .. Len(lines) /\ Len(lines) \in Nat
  BY DEF Lines
<1>2. IsFiniteSet(S)
  <2>1. IsFiniteSet(1 .. Len(lines))
    BY <1>1, FS_Interval
  <2> QED
    BY <1>1, <2>1, FS_Subset
<1>3. \A i \in DOMAIN lines : lines[i] \in Line
  BY <1>1 DEF Lines
<1>4. \A x \in S : f[x] \in Int /\ g[x] \in Int /\ f[x] + g[x] = 0
  BY <1>3 DEF Line
<1>5. /\ DOMAIN Swapped(lines) = DOMAIN lines
      /\ \A i \in DOMAIN lines :
           /\ Swapped(lines)[i].account = lines[i].account
           /\ Swapped(lines)[i].fdebit  = lines[i].fcredit
           /\ Swapped(lines)[i].fcredit = lines[i].fdebit
  BY DEF Swapped
<1>6. [i \in {n \in DOMAIN Swapped(lines) : Swapped(lines)[n].account = a} |->
         Swapped(lines)[i].fdebit - Swapped(lines)[i].fcredit] = g
  BY <1>5
<1>7. Effect(lines, a) = Sum(f, S)
  BY TotalIsSum DEF Effect
<1>8. Effect(Swapped(lines), a) = Sum(g, S)
  BY <1>6, TotalIsSum DEF Effect
<1> HIDE DEF f, g, S
<1> QED
  BY <1>2, <1>4, <1>7, <1>8, SumsCancel

-----------------------------------------------------------------------------
(* Sessions that run one after the other. *)

Serially == \A v, w \in Workers : v = w

\* A journal is POSTED or REVERSED exactly when it has a batch, of its own lines.
Matched ==
  \A j \in Journals :
    /\ HasStatus(j, {"POSTED", "REVERSED"}) <=> \E kind \in Kinds : batch[<<j, kind>>] # None
    /\ \A kind \in Kinds :
         batch[<<j, kind>>] # None => batch[<<j, kind>>].lines = journal[j].lines

ApprovedByOther(row, lines) ==
  /\ RequireSoD => row.approver \notin {None, row.creator}
  /\ lines = row.lines

\* An approval stands until and after the posting.
Approvals ==
  \A j \in Journals :
    HasStatus(j, {"APPROVED"}) \/ batch[<<j, "v1">>] # None =>
      ApprovedByOther(journal[j], approvedLines[j])

\* r is posted and has the lines of j, swapped.
Mirrors(r, j) ==
  /\ r \in Journals
  /\ HasStatus(r, {"POSTED", "REVERSED"})
  /\ journal[r].lines = Swapped(journal[j].lines)

Mirrored ==
  \A j \in Journals :
    HasStatus(j, {"REVERSED"}) => Mirrors(journal[j].reversal, j)

\* What the only session loaded is still so.
Current(t) ==
  /\ t.op \in {"update", "delete", "submit"} => HasStatus(t.j, {"DRAFT"})
  /\ t.op = "void" => HasStatus(t.j, {"DRAFT", "SUBMITTED", "APPROVED"})
  /\ t.op = "approve" =>
       /\ HasStatus(t.j, {"SUBMITTED"})
       /\ t.lines = journal[t.j].lines /\ t.approver = journal[t.j].approver
       /\ RequireSoD => journal[t.j].creator # t.user
  /\ t.op \in {"post", "posting"} => HasStatus(t.j, {"APPROVED"})
  /\ t.op \in {"reverse", "reversing"} => HasStatus(t.j, {"POSTED"})
  /\ t.op = "posting" =>
       /\ t.lines = journal[t.j].lines
       /\ period[t.period].status \in POSTABLE_STATUSES
  /\ t.op = "reversing" =>
       /\ t.lines = Swapped(journal[t.j].lines)
       /\ t.autoPost => period[t.period].status \in POSTABLE_STATUSES

SerialInv ==
  /\ Matched /\ Approvals /\ Mirrored
  /\ \A w \in Workers : txn[w] # Idle => Current(txn[w])

\* The gate returns a period that is open.
LEMMA GateIsOpen ==
  ASSUME NEW d, NEW a, NEW s, NEW p \in RequireOpenPeriod(d, a, s)
  PROVE  period[p].status \in POSTABLE_STATUSES
BY DEF RequireOpenPeriod, CanPost, POSTABLE_STATUSES

\* A session goes on or ends, and nothing else is written.
LEMMA SerialGoesOn ==
  ASSUME Serially, TypeOK, SerialInv, NEW w \in Workers, NEW t,
         txn' = [txn EXCEPT ![w] = t], t = Idle \/ Current(t),
         UNCHANGED <<journal, batch, approvedLines, period>>
  PROVE  SerialInv'
<1>1. \A v \in Workers : txn'[v] = t
  BY DEF TypeOK, Serially
<1>2. Matched' /\ Approvals' /\ Mirrored'
  BY DEF SerialInv, Matched, Approvals, ApprovedByOther, Mirrored, Mirrors, HasStatus, Exists
<1>3. t = Idle \/ Current(t)'
  BY DEF Current, HasStatus, Exists
<1> QED
  BY <1>1, <1>2, <1>3 DEF SerialInv

\* A session ends with a commit.
LEMMA SerialCommit ==
  ASSUME Serially, TypeOK, NEW w \in Workers, txn' = [txn EXCEPT ![w] = Idle],
         Matched', Approvals', Mirrored'
  PROVE  SerialInv'
<1>1. \A v \in Workers : txn'[v] = Idle
  BY DEF TypeOK, Serially
<1> QED
  BY <1>1 DEF SerialInv

Unposted == {"DRAFT", "SUBMITTED", "APPROVED"}

\* A commit on a journal that is not posted, and does not become so.
LEMMA UnpostedCommit ==
  ASSUME TypeOK, SerialInv, NEW j \in Journals, NEW row,
         journal[j] = None \/ HasStatus(j, Unposted),
         journal' = [journal EXCEPT ![j] = row], UNCHANGED batch,
         row = Deleted \/ row.status \in Unposted \cup {"VOID"},
         \A k \in Journals \ {j} : approvedLines'[k] = approvedLines[k],
         row # Deleted /\ row.status = "APPROVED" => ApprovedByOther(row, approvedLines'[j])
  PROVE  Matched' /\ Approvals' /\ Mirrored'
<1>1. journal'[j] = row /\ \A k \in Journals \ {j} : journal'[k] = journal[k]
  BY DEF TypeOK
<1>2. ~HasStatus(j, {"POSTED", "REVERSED"}) /\ ~HasStatus(j, {"POSTED", "REVERSED"})'
  BY <1>1 DEF HasStatus, Exists, Unposted
<1>3. \A kind \in Kinds : batch[<<j, kind>>] = None
  BY <1>2 DEF SerialInv, Matched
<1>4. Matched'
  <2>1. ASSUME NEW k \in Journals \ {j}
        PROVE  /\ HasStatus(k, {"POSTED", "REVERSED"})'
                    <=> \E kind \in Kinds : batch'[<<k, kind>>] # None
               /\ \A kind \in Kinds :
                    batch'[<<k, kind>>] # None => batch'[<<k, kind>>].lines = journal'[k].lines
    BY <1>1, <2>1 DEF SerialInv, Matched, HasStatus, Exists
  <2> QED
    BY <1>2, <1>3, <2>1 DEF Matched
<1>5. Approvals'
  <2>1. ASSUME NEW k \in Journals \ {j},
               HasStatus(k, {"APPROVED"})' \/ batch'[<<k, "v1">>] # None
        PROVE  ApprovedByOther(journal'[k], approvedLines'[k])
    BY <1>1, <2>1 DEF SerialInv, Approvals, HasStatus, Exists
  <2>2. ASSUME HasStatus(j, {"APPROVED"})'
        PROVE  ApprovedByOther(journal'[j], approvedLines'[j])
    BY <1>1, <2>2 DEF HasStatus, Exists
  <2>3. batch'[<<j, "v1">>] = None
    BY <1>3 DEF Kinds
  <2> QED
    BY <2>1, <2>2, <2>3 DEF Approvals, ApprovedByOther
<1>6. Mirrored'
  <2> SUFFICES ASSUME NEW k \in Journals, HasStatus(k, {"REVERSED"})'
               PROVE  Mirrors(journal[k].reversal, k)'
    BY DEF Mirrored
  <2>1. k # j
    BY <1>2 DEF HasStatus
  <2>2. HasStatus(k, {"REVERSED"}) /\ journal'[k] = journal[k]
    BY <1>1, <2>1 DEF HasStatus, Exists
  <2>3. PICK r : r = journal[k].reversal
    OBVIOUS
  <2>4. Mirrors(r, k)
    BY <2>2, <2>3 DEF SerialInv, Mirrored
  <2>5. r # j
    BY <1>2, <2>4 DEF Mirrors
  <2>6. journal'[r] = journal[r] /\ HasStatus(r, {"POSTED", "REVERSED"})'
    BY <1>1, <2>4, <2>5 DEF Mirrors, HasStatus, Exists
  <2> QED
    BY <2>2, <2>3, <2>4, <2>6 DEF Mirrors
<1> QED
  BY <1>4, <1>5, <1>6

LEMMA InitSerial == Init => SerialInv
<1> SUFFICES ASSUME Init PROVE SerialInv
  OBVIOUS
<1>1. \A j \in Journals : ~Exists(j) /\ \A kind \in Kinds : batch[<<j, kind>>] = None
  BY DEF Init, Exists, Keys, Kinds
<1>2. Matched /\ Approvals /\ Mirrored
  BY <1>1 DEF Matched, Approvals, Mirrored, HasStatus, Kinds
<1> QED
  BY <1>2 DEF SerialInv, Init, SessionsInit

\* An operation that loads a journal.
LEMMA SerialLoad ==
  ASSUME Serially, TypeOK, SerialInv, NEW w \in Workers, NEW j, NEW from, NEW t,
         Load(w, j, from, t), Current(t)
  PROVE  SerialInv'
  BY SerialGoesOn DEF Load, Begin, periodVars, journalVars, ledgerVars

\* The operations of a period change no journal.
LEMMA PeriodSerial ==
  ASSUME Serially, TypeOK, SerialInv, NEW w \in Workers, PeriodOperation(w),
         UNCHANGED <<journalVars, ledgerVars>>
  PROVE  SerialInv'
<1> USE DEF journalVars, ledgerVars
<1>1. ASSUME NEW p, NEW from, NEW to, LoadPeriod(w, p, from, to)
      PROVE  SerialInv'
  <2> DEFINE t == [op |-> "period", p |-> p, to |-> to]
  <2>1. Current(t)
    BY DEF Current
  <2> HIDE DEF t
  <2> QED
    BY <1>1, <2>1, SerialGoesOn DEF LoadPeriod, Begin, periodVars, t
<1>2. CASE CommitPeriod(w)
  <2>1. Matched' /\ Approvals' /\ Mirrored'
    BY DEF SerialInv, Matched, Approvals, ApprovedByOther, Mirrored, Mirrors, HasStatus, Exists
  <2> QED
    BY <1>2, <2>1, SerialCommit DEF CommitPeriod, End
<1> QED
  BY <1>1, <1>2 DEF PeriodOperation, OpenPeriod, SoftClosePeriod, HardClosePeriod,
                    ReopenPeriod, CloseReopenSession

\* Entry and workflow happen before the posting.
LEMMA JournalSerial ==
  ASSUME Serially, TypeOK, SerialInv, NEW w \in Workers, JournalOperation(w)
  PROVE  SerialInv'
<1>1. ASSUME NEW j \in Journals, NEW input, NEW u, CreateJournal(w, j, input, u)
      PROVE  SerialInv'
  <2> DEFINE row == NewJournal(input, u)
  <2>1. row.status = "DRAFT"
    BY DEF NewJournal
  <2> HIDE DEF row
  <2>2. /\ journal[j] = None /\ journal' = [journal EXCEPT ![j] = row]
        /\ UNCHANGED <<txn, batch, approvedLines>> /\ txn[w] = Idle
    BY <1>1 DEF CreateJournal, ledgerVars, row
  <2>3. Matched' /\ Approvals' /\ Mirrored'
    BY <2>1, <2>2, UnpostedCommit DEF Unposted
  <2> QED
    BY <2>2, <2>3, SerialCommit DEF TypeOK
<1>2. ASSUME NEW j \in Journals, NEW input, UpdateJournal(w, j, input)
      PROVE  SerialInv'
  <2> DEFINE t == [op |-> "update", j |-> j, input |-> input, date |-> journal[j].date]
  <2>1. Load(w, j, {"DRAFT"}, t) /\ HasStatus(j, {"DRAFT"})
    BY <1>2 DEF UpdateJournal, Load
  <2>2. Current(t)
    BY <2>1 DEF Current
  <2> HIDE DEF t
  <2> QED
    BY <2>1, <2>2, SerialLoad
<1>3. ASSUME NEW j \in Journals, DeleteJournal(w, j) \/ SubmitJournal(w, j)
      PROVE  SerialInv'
  <2>1. ASSUME NEW op \in {"delete", "submit"}, Load(w, j, {"DRAFT"}, [op |-> op, j |-> j])
        PROVE  SerialInv'
    <3> DEFINE t == [op |-> op, j |-> j]
    <3>1. Current(t)
      BY <2>1 DEF Current, Load
    <3> HIDE DEF t
    <3> QED
      BY <2>1, <3>1, SerialLoad DEF t
  <2> QED
    BY <1>3, <2>1 DEF DeleteJournal, SubmitJournal
<1>4. ASSUME NEW j \in Journals, NEW u, ApproveJournal(w, j, u)
      PROVE  SerialInv'
  <2> DEFINE t == [op |-> "approve", j |-> j, user |-> u, lines |-> journal[j].lines,
                   approver |-> journal[j].approver]
  <2>1. /\ Load(w, j, {"SUBMITTED"}, t) /\ HasStatus(j, {"SUBMITTED"})
        /\ RequireSoD => journal[j].creator # u
    BY <1>4 DEF ApproveJournal, Load
  <2>2. Current(t)
    BY <2>1 DEF Current
  <2> HIDE DEF t
  <2> QED
    BY <2>1, <2>2, SerialLoad
<1>5. ASSUME NEW j \in Journals, VoidJournal(w, j)
      PROVE  SerialInv'
  <2> DEFINE t == [op |-> "void", j |-> j]
             from == JournalStatus \ {"POSTED", "REVERSED", "VOID"}
  <2>1. Load(w, j, from, t) /\ HasStatus(j, {"DRAFT", "SUBMITTED", "APPROVED"})
    BY <1>5 DEF VoidJournal, Load, HasStatus, JournalStatus
  <2>2. Current(t)
    BY <2>1 DEF Current
  <2> HIDE DEF t, from
  <2> QED
    BY <2>1, <2>2, SerialLoad
<1>6. ASSUME NEW j \in Journals, NEW row, j = txn[w].j, HasStatus(j, Unposted),
             journal' = [journal EXCEPT ![j] = row], UNCHANGED batch, End(w),
             row = Deleted \/ row.status \in Unposted \cup {"VOID"},
             \A k \in Journals \ {j} : approvedLines'[k] = approvedLines[k],
             row # Deleted /\ row.status = "APPROVED" => ApprovedByOther(row, approvedLines'[j])
      PROVE  SerialInv'
  BY <1>6, UnpostedCommit, SerialCommit DEF End
<1> DEFINE j == txn[w].j
<1>7. CASE CommitUpdate(w)
  <2> DEFINE row == [journal[j] EXCEPT
                       !.date  = Written(txn[w].date, txn[w].input.date, @),
                       !.lines = StoredLines(txn[w].input)]
  <2>1. j \in Journals /\ txn[w] # Idle /\ txn[w].op = "update"
    BY <1>7, TxnTypes DEF CommitUpdate, Running
  <2>2. HasStatus(j, {"DRAFT"})
    BY <2>1 DEF SerialInv, Current
  <2>3. journal[j] \in JournalRow /\ journal[j].status = "DRAFT"
    BY <2>1, <2>2 DEF HasStatus, Exists, TypeOK
  <2>4. row.status = "DRAFT"
    BY <2>3 DEF JournalRow
  <2>5. journal' = [journal EXCEPT ![j] = row] /\ UNCHANGED batch /\ UNCHANGED approvedLines
        /\ End(w)
    BY <1>7 DEF CommitUpdate, ledgerVars
  <2>6. HasStatus(j, Unposted)
    BY <2>2 DEF HasStatus, Unposted
  <2> HIDE DEF row, j
  <2> QED
    BY <1>6, <2>1, <2>4, <2>5, <2>6 DEF j, Unposted
<1>8. CASE CommitDelete(w)
  <2>1. j \in Journals /\ txn[w] # Idle /\ txn[w].op = "delete"
    BY <1>8, TxnTypes DEF CommitDelete, Running
  <2>2. HasStatus(j, Unposted)
    BY <2>1 DEF SerialInv, Current, HasStatus, Unposted
  <2>3. journal' = [journal EXCEPT ![j] = Deleted] /\ UNCHANGED batch /\ UNCHANGED approvedLines
        /\ End(w)
    BY <1>8 DEF CommitDelete, ledgerVars
  <2> HIDE DEF j
  <2> QED
    BY <1>6, <2>1, <2>2, <2>3 DEF j
<1>9. CASE CommitSubmit(w) \/ CommitVoid(w)
  <2> DEFINE to == IF CommitSubmit(w) THEN "SUBMITTED" ELSE "VOID"
             row == [journal[j] EXCEPT !.status = to]
  <2>1. j \in Journals /\ txn[w] # Idle /\ txn[w].op \in {"submit", "void"}
    BY <1>9, TxnTypes DEF CommitSubmit, CommitVoid, Running
  <2>2. HasStatus(j, Unposted)
    BY <2>1 DEF SerialInv, Current, HasStatus, Unposted
  <2>3. journal[j] \in JournalRow
    BY <2>1, <2>2 DEF HasStatus, Exists, TypeOK
  <2>4. row.status \in {"SUBMITTED", "VOID"}
    BY <2>3 DEF JournalRow
  <2>5. journal' = [journal EXCEPT ![j] = row] /\ UNCHANGED batch /\ UNCHANGED approvedLines
        /\ End(w)
    BY <1>9 DEF CommitSubmit, CommitVoid, ledgerVars
  <2> HIDE DEF row, j
  <2> QED
    BY <1>6, <2>1, <2>2, <2>4, <2>5 DEF j, Unposted
<1>10. CASE CommitApprove(w)
  <2> DEFINE t == txn[w]
             row == [journal[j] EXCEPT !.status   = "APPROVED",
                                       !.approver = Written(t.approver, t.user, @)]
  <2>1. /\ j \in Journals /\ t # Idle /\ t.op = "approve"
        /\ t.user \in Users
    BY <1>10, TxnTypes DEF CommitApprove, Running, Txn, PeriodTxn
  <2>2. /\ HasStatus(j, {"SUBMITTED"})
        /\ t.lines = journal[j].lines /\ t.approver = journal[j].approver
        /\ RequireSoD => journal[j].creator # t.user
    BY <2>1 DEF SerialInv, Current
  <2>3. journal[j] \in JournalRow
    BY <2>1, <2>2 DEF HasStatus, Exists, TypeOK
  <2>4. /\ row.status = "APPROVED" /\ row.approver = t.user
        /\ row.creator = journal[j].creator /\ row.lines = journal[j].lines
    BY <2>2, <2>3 DEF JournalRow, Written
  <2>5. /\ journal' = [journal EXCEPT ![j] = row] /\ UNCHANGED batch /\ End(w)
        /\ approvedLines' = [approvedLines EXCEPT ![j] = t.lines]
    BY <1>10 DEF CommitApprove, ledgerVars
  <2>6. HasStatus(j, Unposted)
    BY <2>2 DEF HasStatus, Unposted
  <2>7. /\ approvedLines'[j] = t.lines
        /\ \A k \in Journals \ {j} : approvedLines'[k] = approvedLines[k]
    BY <2>1, <2>5 DEF TypeOK
  <2>8. ApprovedByOther(row, approvedLines'[j])
    BY <2>1, <2>2, <2>4, <2>7, NullAssumption DEF ApprovedByOther
  <2> HIDE DEF row, j, t
  <2> QED
    BY <1>6, <2>1, <2>4, <2>5, <2>6, <2>7, <2>8 DEF j, Unposted
<1> QED
  BY <1>1, <1>2, <1>3, <1>4, <1>5, <1>7, <1>8, <1>9, <1>10 DEF JournalOperation

\* Posting and reversal write the batch of what the journal holds.
LEMMA LedgerSerial ==
  ASSUME Serially, TypeOK, SerialInv, NEW w \in Workers, LedgerOperation(w)
  PROVE  SerialInv'
<1>1. ASSUME NEW j \in Journals, NEW a, NEW s, PostJournal(w, j, a, s)
      PROVE  SerialInv'
  <2> DEFINE t == [op |-> "post", j |-> j, date |-> journal[j].date,
                   adjustment |-> a, session |-> s]
  <2>1. Load(w, j, {"APPROVED"}, t) /\ HasStatus(j, {"APPROVED"})
    BY <1>1 DEF PostJournal, Load
  <2>2. Current(t)
    BY <2>1 DEF Current
  <2> HIDE DEF t
  <2> QED
    BY <2>1, <2>2, SerialLoad
<1>2. ASSUME NEW j \in Journals, NEW u, NEW d, NEW autoPost, NEW a, NEW s,
             CreateReversal(w, j, u, d, autoPost, a, s)
      PROVE  SerialInv'
  <2> DEFINE t == [op |-> "reverse", j |-> j, user |-> u, date |-> d,
                   autoPost |-> autoPost, adjustment |-> a, session |-> s]
  <2>1. Load(w, j, {"POSTED"}, t) /\ HasStatus(j, {"POSTED"})
    BY <1>2 DEF CreateReversal, Load
  <2>2. Current(t)
    BY <2>1 DEF Current
  <2> HIDE DEF t
  <2> QED
    BY <2>1, <2>2, SerialLoad
<1>3. CASE GuardPost(w)
  <2>1. txn[w] # Idle /\ txn[w].op = "post" /\ HasStatus(txn[w].j, {"APPROVED"})
    BY <1>3 DEF GuardPost, Running, SerialInv, Current
  <2>2. PICK p \in RequireOpenPeriod(txn[w].date, txn[w].adjustment, txn[w].session) :
          Continue(w, [op |-> "posting", j |-> txn[w].j, date |-> txn[w].date,
                       period |-> p, lines |-> journal[txn[w].j].lines])
    BY <1>3 DEF GuardPost
  <2> DEFINE t == [op |-> "posting", j |-> txn[w].j, date |-> txn[w].date,
                   period |-> p, lines |-> journal[txn[w].j].lines]
  <2>3. Current(t)
    BY <2>1, GateIsOpen DEF Current
  <2>4. txn' = [txn EXCEPT ![w] = t]
    BY <2>2 DEF Continue
  <2> HIDE DEF t
  <2> QED
    BY <1>3, <2>3, <2>4, SerialGoesOn DEF GuardPost, periodVars, journalVars, ledgerVars
<1>4. CASE GuardReversal(w)
  <2>1. txn[w] # Idle /\ txn[w].op = "reverse" /\ HasStatus(txn[w].j, {"POSTED"})
    BY <1>4 DEF GuardReversal, Running, SerialInv, Current
  <2> DEFINE t(p) == [op |-> "reversing", j |-> txn[w].j, user |-> txn[w].user,
                      date |-> txn[w].date, autoPost |-> txn[w].autoPost,
                      period |-> p, lines |-> Swapped(journal[txn[w].j].lines)]
  <2>2. PICK p : /\ txn' = [txn EXCEPT ![w] = t(p)]
                 /\ txn[w].autoPost =>
                      p \in RequireOpenPeriod(txn[w].date, txn[w].adjustment, txn[w].session)
    BY <1>4 DEF GuardReversal, Continue
  <2>3. Current(t(p))
    BY <2>1, <2>2, GateIsOpen DEF Current
  <2> HIDE DEF t
  <2> QED
    BY <1>4, <2>2, <2>3, SerialGoesOn DEF GuardReversal, periodVars, journalVars, ledgerVars
<1>5. CASE CommitPost(w)
  <2> DEFINE t == txn[w]
  <2>0. PICK j \in Journals : j = t.j
    BY <1>5, TxnTypes DEF CommitPost, Running
  <2> DEFINE b == [journal |-> j, period |-> t.period, date |-> t.date, lines |-> t.lines]
             row == [journal[j] EXCEPT !.status = "POSTED", !.batch = <<j, "v1">>]
  <2>1. j \in Journals /\ t # Idle /\ t.op = "posting"
    BY <1>5 DEF CommitPost, Running
  <2>2. HasStatus(j, {"APPROVED"}) /\ t.lines = journal[j].lines
    BY <2>0, <2>1 DEF SerialInv, Current
  <2>3. journal[j] \in JournalRow
    BY <2>1, <2>2 DEF HasStatus, Exists, TypeOK
  <2>4. /\ row.status = "POSTED" /\ row.approver = journal[j].approver
        /\ row.creator = journal[j].creator /\ row.lines = journal[j].lines
    BY <2>3 DEF JournalRow
  <2>5. row \in JournalRow
    BY <2>1, <2>3 DEF JournalRow, JournalStatus, Keys
  <2>6. /\ journal' = [journal EXCEPT ![j] = row]
        /\ batch' = [batch EXCEPT ![<<j, "v1">>] = b]
        /\ UNCHANGED approvedLines /\ End(w)
    BY <1>5, <2>0 DEF CommitPost, InsertBatch
  <2>7. b.lines = t.lines /\ b # None
    <3>1. b \in BatchRow
      BY <2>1, TxnTypes DEF BatchRow
    <3> QED
      BY <3>1, NullAssumption
  <2>8. row \notin {None, Deleted}
    BY <2>5, NullAssumption
  <2> HIDE DEF row, b
  <2>9. journal'[j] = row /\ \A k \in Journals \ {j} : journal'[k] = journal[k]
    BY <2>1, <2>6 DEF TypeOK
  <2>10. /\ batch'[<<j, "v1">>] = b /\ batch'[<<j, "reversal">>] = batch[<<j, "reversal">>]
         /\ \A k \in Journals \ {j}, kind \in Kinds : batch'[<<k, kind>>] = batch[<<k, kind>>]
    BY <2>1, <2>6 DEF TypeOK, Keys, Kinds
  <2>11. batch[<<j, "reversal">>] = None
    BY <2>1, <2>2 DEF SerialInv, Matched, HasStatus, Kinds
  <2>12. HasStatus(j, {"POSTED", "REVERSED"})' /\ ~HasStatus(j, {"APPROVED", "REVERSED"})'
    BY <2>4, <2>8, <2>9 DEF HasStatus, Exists
  <2>13. Matched'
    <3>1. ASSUME NEW k \in Journals \ {j}
          PROVE  /\ HasStatus(k, {"POSTED", "REVERSED"})'
                      <=> \E kind \in Kinds : batch'[<<k, kind>>] # None
                 /\ \A kind \in Kinds :
                      batch'[<<k, kind>>] # None => batch'[<<k, kind>>].lines = journal'[k].lines
      <4>1. /\ HasStatus(k, {"POSTED", "REVERSED"})
                 <=> \E kind \in Kinds : batch[<<k, kind>>] # None
            /\ \A kind \in Kinds :
                 batch[<<k, kind>>] # None => batch[<<k, kind>>].lines = journal[k].lines
        BY DEF SerialInv, Matched
      <4>2. /\ journal'[k] = journal[k]
            /\ \A kind \in Kinds : batch'[<<k, kind>>] = batch[<<k, kind>>]
        BY <2>9, <2>10
      <4>3. HasStatus(k, {"POSTED", "REVERSED"})' <=> HasStatus(k, {"POSTED", "REVERSED"})
        BY <4>2 DEF HasStatus, Exists
      <4> QED
        BY <4>1, <4>2, <4>3
    <3>2. /\ \E kind \in Kinds : batch'[<<j, kind>>] # None
          /\ \A kind \in Kinds :
               batch'[<<j, kind>>] # None => batch'[<<j, kind>>].lines = journal'[j].lines
      BY <2>2, <2>4, <2>7, <2>9, <2>10, <2>11 DEF Kinds
    <3> QED
      BY <2>12, <3>1, <3>2 DEF Matched
  <2>14. Approvals'
    <3>1. ASSUME NEW k \in Journals \ {j},
                 HasStatus(k, {"APPROVED"})' \/ batch'[<<k, "v1">>] # None
          PROVE  ApprovedByOther(journal'[k], approvedLines'[k])
      BY <2>6, <2>9, <2>10, <3>1 DEF SerialInv, Approvals, HasStatus, Exists, Kinds
    <3>2. ApprovedByOther(journal'[j], approvedLines'[j])
      <4>1. ApprovedByOther(journal[j], approvedLines[j])
        BY <2>1, <2>2 DEF SerialInv, Approvals
      <4> QED
        BY <2>4, <2>6, <2>9, <4>1 DEF ApprovedByOther
    <3> QED
      BY <3>1, <3>2 DEF Approvals, ApprovedByOther
  <2>15. Mirrored'
    <3> SUFFICES ASSUME NEW k \in Journals, HasStatus(k, {"REVERSED"})'
                 PROVE  Mirrors(journal[k].reversal, k)'
      BY DEF Mirrored
    <3>1. k # j
      BY <2>12 DEF HasStatus
    <3>2. HasStatus(k, {"REVERSED"}) /\ journal'[k] = journal[k]
      BY <2>9, <3>1 DEF HasStatus, Exists
    <3>3. PICK r : r = journal[k].reversal
      OBVIOUS
    <3>4. Mirrors(r, k)
      BY <3>2, <3>3 DEF SerialInv, Mirrored
    <3>5. r # j
      BY <2>2, <3>4 DEF Mirrors, HasStatus
    <3>6. journal'[r] = journal[r] /\ HasStatus(r, {"POSTED", "REVERSED"})'
      BY <2>9, <3>4, <3>5 DEF Mirrors, HasStatus, Exists
    <3> QED
      BY <3>2, <3>3, <3>4, <3>6 DEF Mirrors
  <2> QED
    BY <2>6, <2>13, <2>14, <2>15, SerialCommit DEF End
<1>6. ASSUME NEW r \in Journals, CommitReversal(w, r)
      PROVE  SerialInv'
  <2> DEFINE t == txn[w]
  <2>0. PICK j \in Journals : j = t.j
    BY <1>6, TxnTypes DEF CommitReversal, Running
  <2> DEFINE key == <<r, "reversal">>
             row == [status   |-> IF t.autoPost THEN "POSTED" ELSE "DRAFT",
                     date     |-> t.date, lines |-> t.lines, creator |-> t.user,
                     approver |-> IF t.autoPost THEN t.user ELSE None,
                     batch    |-> IF t.autoPost THEN key ELSE None,
                     reversal |-> None, reversed |-> j]
             original == [journal[j] EXCEPT !.reversal = r,
                            !.status = IF t.autoPost THEN "REVERSED" ELSE @]
             b == [journal |-> r, period |-> t.period, date |-> t.date, lines |-> t.lines]
  <2>1. /\ j \in Journals /\ t # Idle /\ t.op = "reversing" /\ t.autoPost \in BOOLEAN
        /\ t \in [op : {"reversing"}, j : Journals, user : Users,
                    date : Dates, autoPost : BOOLEAN, period : Periods,
                    lines : Lines]
    BY <1>6, TxnTypes DEF CommitReversal, Running
  <2>2. HasStatus(j, {"POSTED"}) /\ t.lines = Swapped(journal[j].lines)
    BY <2>0, <2>1 DEF SerialInv, Current
  <2>3. journal[j] \in JournalRow /\ journal[j].status = "POSTED"
    BY <2>1, <2>2 DEF HasStatus, Exists, TypeOK
  <2>4. journal[r] = None /\ r # j
    BY <1>6, <2>2 DEF CommitReversal, HasStatus, Exists
  <2>5. /\ row \in JournalRow /\ row.lines = t.lines
        /\ row.status = IF t.autoPost THEN "POSTED" ELSE "DRAFT"
    BY <2>1 DEF JournalRow, JournalStatus, Keys
  <2>6. /\ original \in JournalRow /\ original.lines = journal[j].lines
        /\ original.approver = journal[j].approver /\ original.creator = journal[j].creator
        /\ original.reversal = r
        /\ original.status = IF t.autoPost THEN "REVERSED" ELSE "POSTED"
    BY <2>1, <2>3 DEF JournalRow, JournalStatus
  <2>7. b \in BatchRow /\ b.lines = t.lines
    BY <2>1 DEF BatchRow
  <2>8. row \notin {None, Deleted} /\ original \notin {None, Deleted} /\ b # None
    BY <2>5, <2>6, <2>7, NullAssumption
  <2>9. /\ journal' = [journal EXCEPT ![r] = row, ![j] = original]
        /\ IF t.autoPost THEN batch' = [batch EXCEPT ![key] = b] ELSE UNCHANGED batch
        /\ UNCHANGED approvedLines /\ End(w)
    BY <1>6, <2>0 DEF CommitReversal, InsertBatch, ledgerVars
  <2> HIDE DEF row, original, b
  <2>10. /\ journal'[r] = row /\ journal'[j] = original
         /\ \A k \in Journals \ {r, j} : journal'[k] = journal[k]
    BY <2>1, <2>4, <2>9 DEF TypeOK
  <2>11. /\ batch'[<<r, "v1">>] = batch[<<r, "v1">>]
         /\ batch'[<<r, "reversal">>] = IF t.autoPost THEN b ELSE batch[<<r, "reversal">>]
         /\ \A k \in Journals \ {r}, kind \in Kinds : batch'[<<k, kind>>] = batch[<<k, kind>>]
    BY <2>9 DEF TypeOK, Keys, Kinds
  <2>12. \A kind \in Kinds : batch[<<r, kind>>] = None
    BY <2>4 DEF SerialInv, Matched, HasStatus, Exists
  <2>13. /\ HasStatus(j, {"POSTED", "REVERSED"})' /\ ~HasStatus(j, {"APPROVED"})'
         /\ HasStatus(j, {"REVERSED"})' <=> t.autoPost
         /\ HasStatus(r, {"POSTED", "REVERSED"})' <=> t.autoPost
         /\ ~HasStatus(r, {"APPROVED", "REVERSED"})'
    BY <2>1, <2>5, <2>6, <2>8, <2>10 DEF HasStatus, Exists
  <2>14. Matched'
    <3>1. ASSUME NEW k \in Journals \ {j, r}
          PROVE  /\ HasStatus(k, {"POSTED", "REVERSED"})'
                      <=> \E kind \in Kinds : batch'[<<k, kind>>] # None
                 /\ \A kind \in Kinds :
                      batch'[<<k, kind>>] # None => batch'[<<k, kind>>].lines = journal'[k].lines
      <4>1. /\ HasStatus(k, {"POSTED", "REVERSED"})
                 <=> \E kind \in Kinds : batch[<<k, kind>>] # None
            /\ \A kind \in Kinds :
                 batch[<<k, kind>>] # None => batch[<<k, kind>>].lines = journal[k].lines
        BY DEF SerialInv, Matched
      <4>2. /\ journal'[k] = journal[k]
            /\ \A kind \in Kinds : batch'[<<k, kind>>] = batch[<<k, kind>>]
        BY <2>10, <2>11
      <4>3. HasStatus(k, {"POSTED", "REVERSED"})' <=> HasStatus(k, {"POSTED", "REVERSED"})
        BY <4>2 DEF HasStatus, Exists
      <4> QED
        BY <4>1, <4>2, <4>3
    <3>2. /\ \E kind \in Kinds : batch'[<<j, kind>>] # None
          /\ \A kind \in Kinds :
               batch'[<<j, kind>>] # None => batch'[<<j, kind>>].lines = journal'[j].lines
      <4>1. /\ \E kind \in Kinds : batch[<<j, kind>>] # None
            /\ \A kind \in Kinds :
                 batch[<<j, kind>>] # None => batch[<<j, kind>>].lines = journal[j].lines
        BY <2>1, <2>2 DEF SerialInv, Matched, HasStatus
      <4> QED
        BY <2>1, <2>4, <2>6, <2>10, <2>11, <4>1
    <3>3. /\ (\E kind \in Kinds : batch'[<<r, kind>>] # None) <=> t.autoPost
          /\ \A kind \in Kinds :
               batch'[<<r, kind>>] # None => batch'[<<r, kind>>].lines = journal'[r].lines
      BY <2>1, <2>5, <2>7, <2>8, <2>10, <2>11, <2>12 DEF Kinds
    <3> QED
      BY <2>13, <3>1, <3>2, <3>3 DEF Matched
  <2>15. Approvals'
    <3>1. ASSUME NEW k \in Journals \ {j, r},
                 HasStatus(k, {"APPROVED"})' \/ batch'[<<k, "v1">>] # None
          PROVE  ApprovedByOther(journal'[k], approvedLines'[k])
      BY <2>9, <2>10, <2>11, <3>1 DEF SerialInv, Approvals, HasStatus, Exists, Kinds
    <3>2. batch'[<<r, "v1">>] = None
      BY <2>11, <2>12 DEF Kinds
    <3>3. ASSUME batch'[<<j, "v1">>] # None
          PROVE  ApprovedByOther(journal'[j], approvedLines'[j])
      <4>1. batch[<<j, "v1">>] # None
        BY <2>1, <2>4, <2>11, <3>3 DEF Kinds
      <4>2. ApprovedByOther(journal[j], approvedLines[j])
        BY <2>1, <4>1 DEF SerialInv, Approvals
      <4> QED
        BY <2>6, <2>9, <2>10, <4>2 DEF ApprovedByOther
    <3>4. ~HasStatus(r, {"APPROVED"})'
      BY <2>13 DEF HasStatus
    <3>5. ASSUME NEW k \in Journals,
                 HasStatus(k, {"APPROVED"})' \/ batch'[<<k, "v1">>] # None
          PROVE  ApprovedByOther(journal'[k], approvedLines'[k])
      BY <2>13, <3>1, <3>2, <3>3, <3>4, <3>5
    <3> QED
      BY <3>5 DEF Approvals, ApprovedByOther
  <2>16. Mirrored'
    <3> SUFFICES ASSUME NEW k \in Journals, HasStatus(k, {"REVERSED"})'
                 PROVE  Mirrors(journal[k].reversal, k)'
      BY DEF Mirrored
    <3>1. CASE k = j
      <4>1. t.autoPost
        BY <2>13, <3>1
      <4>2. journal'[k].reversal = r /\ journal'[r].lines = Swapped(journal'[k].lines)
        BY <2>2, <2>5, <2>6, <2>10, <3>1
      <4> QED
        BY <2>13, <4>1, <4>2 DEF Mirrors
    <3>2. CASE k # j
      <4>1. k # r
        BY <2>13 DEF HasStatus
      <4>2. HasStatus(k, {"REVERSED"}) /\ journal'[k] = journal[k]
        BY <2>10, <3>2, <4>1 DEF HasStatus, Exists
      <4>3. PICK q : q = journal[k].reversal
        OBVIOUS
      <4>4. Mirrors(q, k)
        BY <4>2, <4>3 DEF SerialInv, Mirrored
      <4>5. q # r
        BY <2>4, <4>4 DEF Mirrors, HasStatus, Exists
      <4>6. journal'[q].lines = journal[q].lines /\ HasStatus(q, {"POSTED", "REVERSED"})'
        <5>1. CASE q = j
          BY <2>6, <2>10, <2>13, <5>1
        <5>2. CASE q # j
          BY <2>10, <4>4, <4>5, <5>2 DEF Mirrors, HasStatus, Exists
        <5> QED
          BY <5>1, <5>2
      <4> QED
        BY <4>2, <4>3, <4>4, <4>6 DEF Mirrors
    <3> QED
      BY <3>1, <3>2
  <2> QED
    BY <2>9, <2>14, <2>15, <2>16, SerialCommit DEF End
<1> QED
  BY <1>1, <1>2, <1>3, <1>4, <1>5, <1>6 DEF LedgerOperation

LEMMA NextSerial ==
  ASSUME Serially
  PROVE  TypeOK /\ SerialInv /\ [Next]_vars => SerialInv'
<1> SUFFICES ASSUME TypeOK, SerialInv, [Next]_vars
             PROVE  SerialInv'
  OBVIOUS
<1>1. CASE UNCHANGED vars
  <2>1. Matched' /\ Approvals' /\ Mirrored'
    BY <1>1 DEF vars, journalVars, ledgerVars, SerialInv, Matched, Approvals,
                ApprovedByOther, Mirrored, Mirrors, HasStatus, Exists
  <2>2. ASSUME NEW t, Current(t) PROVE Current(t)'
    BY <1>1, <2>2 DEF vars, journalVars, periodVars, Current, HasStatus, Exists
  <2>3. txn' = txn
    BY <1>1 DEF vars
  <2>4. ASSUME NEW w \in Workers, txn'[w] # Idle PROVE Current(txn[w])'
    <3>1. PICK t : t = txn[w]
      OBVIOUS
    <3>2. Current(t)'
      BY <2>2, <2>3, <2>4, <3>1 DEF SerialInv
    <3> QED
      BY <2>3, <3>1, <3>2
  <2> QED
    BY <2>1, <2>4 DEF SerialInv
<1>2. ASSUME NEW w \in Workers, Rollback(w)
      PROVE  SerialInv'
  BY <1>2, SerialGoesOn DEF Rollback, End, periodVars, journalVars, ledgerVars
<1> QED
  BY <1>1, <1>2, PeriodSerial, JournalSerial, LedgerSerial DEF Next

\* Run one after the other, sessions find what they loaded, and keep the journals
\* and the ledger in step.
THEOREM SerialInductive ==
  ASSUME Serially
  PROVE  Spec => [](IndInv /\ SerialInv)
<1>1. IndInv /\ SerialInv /\ [Next]_vars => SerialInv'
  BY NextSerial DEF IndInv
<1> QED
  BY <1>1, InitSerial, Inductive, PTL DEF Spec

\* Without overlaps, nothing edits, voids or deletes a journal that is posted.
THEOREM LedgerAndJournals ==
  ASSUME Serially
  PROVE  Spec => []LedgerMatchesJournals
<1>1. IndInv /\ SerialInv => LedgerMatchesJournals
  <2> SUFFICES ASSUME IndInv, SerialInv, NEW j \in Journals
               PROVE  /\ HasStatus(j, {"POSTED", "REVERSED"}) <=> PostingsOf(j) # {}
                      /\ \A k \in PostingsOf(j) : batch[k].lines = journal[j].lines
    BY DEF LedgerMatchesJournals
  <2>1. ASSUME NEW k \in PostingsOf(j)
        PROVE  \E kind \in Kinds : k = <<j, kind>> /\ batch[<<j, kind>>] # None
    <3>1. PICK i \in Journals, kind \in Kinds : k = <<i, kind>>
      BY DEF PostingsOf, Keys, Kinds
    <3>2. batch[<<i, kind>>] # None /\ batch[<<i, kind>>].journal = j
      BY <3>1 DEF PostingsOf
    <3> QED
      BY <3>1, <3>2 DEF IndInv, Batches
  <2>2. ASSUME NEW kind \in Kinds, batch[<<j, kind>>] # None
        PROVE  <<j, kind>> \in PostingsOf(j)
    BY <2>2 DEF IndInv, Batches, PostingsOf, Keys, Kinds
  <2>3. PostingsOf(j) # {} <=> \E kind \in Kinds : batch[<<j, kind>>] # None
    BY <2>1, <2>2
  <2>4. ASSUME NEW k \in PostingsOf(j)
        PROVE  batch[k].lines = journal[j].lines
    BY <2>1 DEF SerialInv, Matched
  <2> QED
    BY <2>3, <2>4 DEF SerialInv, Matched
<1> QED
  BY <1>1, SerialInductive, PTL

\* Without overlaps, what is posted was approved by another user, line for line.
THEOREM FourEyesSerially ==
  ASSUME Serially
  PROVE  Spec => []FourEyes
<1>1. SerialInv => FourEyes
  <2> SUFFICES ASSUME SerialInv, NEW j \in Journals, RequireSoD, batch[<<j, "v1">>] # None
               PROVE  /\ Exists(j)
                      /\ journal[j].approver \notin {None, journal[j].creator}
                      /\ batch[<<j, "v1">>].lines = approvedLines[j]
    BY DEF FourEyes
  <2>1. Exists(j) /\ batch[<<j, "v1">>].lines = journal[j].lines
    BY DEF SerialInv, Matched, Kinds, HasStatus
  <2>2. ApprovedByOther(journal[j], approvedLines[j])
    BY DEF SerialInv, Approvals
  <2> QED
    BY <2>1, <2>2 DEF ApprovedByOther
<1> QED
  BY <1>1, SerialInductive, PTL

\* Without overlaps, a reversal undoes its original in every account.
THEOREM ReversalsNetToZero ==
  ASSUME Serially
  PROVE  Spec => []ReversedNetsToZero
<1>1. TypeOK /\ SerialInv /\ LedgerMatchesJournals => ReversedNetsToZero
  <2> SUFFICES ASSUME TypeOK, SerialInv, LedgerMatchesJournals,
                      NEW j \in Journals, HasStatus(j, {"REVERSED"}),
                      NEW r, r = journal[j].reversal
               PROVE  /\ r # None
                      /\ HasStatus(r, {"POSTED", "REVERSED"})
                      /\ \A k1 \in PostingsOf(j), k2 \in PostingsOf(r), a \in Accounts :
                           Effect(batch[k1].lines, a) + Effect(batch[k2].lines, a) = 0
    BY DEF ReversedNetsToZero
  <2>1. Mirrors(r, j)
    BY DEF SerialInv, Mirrored
  <2>2. journal[j].lines \in Lines
    BY DEF TypeOK, JournalRow, HasStatus, Exists
  <2>3. ASSUME NEW k1 \in PostingsOf(j), NEW k2 \in PostingsOf(r), NEW a \in Accounts
        PROVE  Effect(batch[k1].lines, a) + Effect(batch[k2].lines, a) = 0
    <3>1. /\ batch[k1].lines = journal[j].lines
          /\ batch[k2].lines = Swapped(journal[j].lines)
      BY <2>1 DEF LedgerMatchesJournals, Mirrors
    <3> QED
      BY <2>2, <3>1, SwappedCancels
  <2> QED
    BY <2>1, <2>3, NullAssumption DEF Mirrors
<1> QED
  BY <1>1, TypeCorrect, SerialInductive, LedgerAndJournals, PTL

\* Without overlaps, no posting lands in a period closed between its gate and
\* its commit.
THEOREM ClosedPeriodsStayClosed ==
  ASSUME Serially
  PROVE  Spec => NoPostingToClosedPeriod
<1>1. TypeOK /\ SerialInv /\ [Next]_vars =>
        [\A k \in Keys : batch[k] = None /\ batch'[k] # None =>
           period[batch'[k].period].status \in POSTABLE_STATUSES]_vars
  <2> SUFFICES ASSUME TypeOK, SerialInv, [Next]_vars,
                      NEW k \in Keys, batch[k] = None, batch'[k] # None
               PROVE  period[batch'[k].period].status \in POSTABLE_STATUSES
    OBVIOUS
  <2>1. PICK w \in Workers, key \in Keys :
          \E b : BatchOf(w, b) /\ batch' = [batch EXCEPT ![key] = b]
    BY StepAppends
  <2>2. BatchOf(w, batch'[k])
    BY <2>1 DEF TypeOK
  <2>3. Current(txn[w])
    BY <2>2 DEF BatchOf, Running, SerialInv
  <2> QED
    BY <2>2, <2>3 DEF BatchOf, Running, Current
<1> QED
  BY <1>1, TypeCorrect, SerialInductive, PTL DEF Spec, NoPostingToClosedPeriod
=============================================================================
