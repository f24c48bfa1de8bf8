-------------------------- MODULE PostingSagaProofs --------------------------
(***************************************************************************)
(* Theorems about PostingSaga for any number of executors, crashes,        *)
(* journals and tax transactions, and for either saga.                     *)
(***************************************************************************)
EXTENDS PostingSaga, TLAPS

-----------------------------------------------------------------------------
(* The inductive invariant: what holds while executors do not overlap. *)

Active == \E w \in Workers : txn[w] # Idle

\* There is at most one executor.
One ==
  /\ txn = [w \in Workers |-> txn[w]]
  /\ \A v, w \in Workers : txn[v] # Idle /\ txn[w] # Idle => v = w

JournalStatuses == {"NONE", "APPROVED", "POSTED", "REVERSED", "VOID"}

Types ==
  /\ saga \in SagaRow \cup {NULL}
  /\ steps \in [StepNumbers -> StepRow]
  /\ journals \in [JournalIds -> JournalStatuses]
  /\ tax \subseteq TaxIds
  /\ posted \in JournalIds \cup {NULL}
  /\ invoice \in [status : {"APPROVED", "POSTED"}, journal : JournalIds \cup {NULL}]

\* The outcome of step i was recorded.
Done(i) == steps[i].status \in {"COMPLETED", "COMPENSATING", "COMPENSATED"}

\* The first n steps are completed and none of the others is.
Ahead(n) ==
  /\ saga.current = n
  /\ \A k \in StepNumbers :
       IF k < n THEN steps[k].status = "COMPLETED"
                ELSE steps[k].status \in {"PENDING", "EXECUTING", "FAILED"}

\* The saga's row agrees with the rows of its steps.
Rows ==
  /\ saga = NULL => \A i \in StepNumbers : steps[i].status = "PENDING"
  /\ saga # NULL =>
       /\ saga.status \in {"PENDING", "EXECUTING"} => Ahead(saga.current)
       /\ saga.status = "COMPLETED" =>
            ~Active /\ \A i \in StepNumbers : steps[i].status = "COMPLETED"
       /\ saga.current >= 2 => saga.journal = steps[1].data.journal

Results ==
  /\ Done(1) => steps[1].data.journal \in JournalIds
  /\ Done(4) => steps[4].data.prior # NULL
  /\ steps[4].status = "COMPLETED" => invoice.status = "POSTED"

Backward == {"back", "comp", "undone"}

\* The executor is where the rows say.
Fits(t) ==
  /\ t \in Txn
  /\ t.op = "create" => saga = NULL
  /\ t.op # "create" => saga # NULL /\ saga.status # "COMPLETED"
  /\ t.op = "start" => Ahead(saga.current)
  /\ t.op \in {"at", "exec", "done"} =>
       /\ Ahead(t.i)
       /\ t.i >= 2 => t.journal = steps[1].data.journal
  /\ t.op = "exec" =>
       /\ t.found.current = saga.current /\ t.found.journal = saga.journal
  /\ t.op = "done" =>
       /\ t.i \in {1, 3, 4}
       /\ commitsInStep
       /\ t.i = 1 => t.data.journal \in JournalIds
       /\ t.i = 4 => /\ t.data.prior # NULL
                     /\ invoice.status = "POSTED" /\ invoice.journal = t.journal
  /\ t.op = "undo" =>
       (t.found = "COMPENSATING" => saga.status \notin {"PENDING", "EXECUTING"})
  /\ t.op \in Backward =>
       saga.status \notin {"PENDING", "EXECUTING"}
  /\ t.op \in {"comp", "undone"} =>
       t.i \in 1 .. 4 /\ steps[t.i].status = "COMPENSATING"
  /\ t.op = "undone" => commitsInStep

Fit == \A w \in Workers : txn[w] # Idle => Fits(txn[w])

\* As long as the row of no earlier saga was deleted, the ledger holds what
\* step 2 recorded, the journal of step 1.
Ledger ==
  /\ Done(2) => Done(1)
  /\ Done(2) <=> posted # NULL
  /\ posted # NULL => posted = steps[1].data.journal /\ posted = steps[2].data.journal
  /\ reversed => steps[2].status \in {"COMPENSATING", "COMPENSATED"}
  /\ \A j \in JournalIds : journals[j] = "POSTED" <=> posted = j /\ ~reversed
  /\ steps[4].status = "COMPLETED" => invoice.journal = steps[1].data.journal

\* An executor has committed step i and not yet recorded it.
DoneAt(i) == {w \in Workers : txn[w] # Idle /\ txn[w].op = "done" /\ txn[w].i = i}

\* Journals and tax transactions are in the data of their step.
Accounted ==
  /\ \A j \in JournalIds :
       journals[j] # "NONE" =>
         \/ Done(1) /\ j = steps[1].data.journal
         \/ \E w \in DoneAt(1) : j = txn[w].data.journal
  /\ \A x \in tax :
         \/ Done(3) /\ x \in steps[3].data.tax
         \/ \E w \in DoneAt(3) : x \in txn[w].data.tax

\* A saga has completed: its row stays, or no later saga gets past step 0.
AfterCompletion ==
  /\ invoice.status = "POSTED"
  /\ \/ /\ saga # NULL /\ ~Active
        /\ \/ saga.status = "COMPLETED"
           \/ saga.status = "FAILED" /\ "mark_failed" \in disturbed
     \/ \A i \in StepNumbers : ~Done(i)

\* The effect of step i is not, or no longer, there.
Gone(i) ==
  /\ i = 1 => \A j \in JournalIds : ~Live(j)
  /\ i = 2 => posted = NULL \/ reversed
  /\ i = 3 => tax = {}
  /\ i = 4 => invoice.status = "APPROVED"

Calmly(t) ==
  /\ t.op = "done" /\ t.i = 4 => t.data.prior = "APPROVED"
  /\ t.op = "start" => saga.status = "PENDING" /\ t.found = "PENDING"
  /\ t.op \in {"at", "exec", "done"} => saga.status = "EXECUTING"
  /\ t.op = "undo" => saga.status = "EXECUTING" /\ t.found = NULL /\ Ahead(saga.current)
  /\ t.op \in Backward =>
       /\ saga.status = "COMPENSATING"
       /\ \A i \in StepNumbers :
            (IF t.op = "back" THEN i <= t.i ELSE i < t.i) =>
              steps[i].status \notin {"COMPENSATING", "COMPENSATED"}
       /\ ~t.failed =>
            /\ \A i \in StepNumbers :
                 i > t.i => steps[i].status \notin {"COMPLETED", "COMPENSATING"} /\ Gone(i)
            /\ t.op = "undone" => Gone(t.i)

\* Without disturbances the effects are those of the steps done and not undone.
CalmEffects ==
  /\ Done(4) => steps[4].data.prior = "APPROVED"
  /\ \A i \in StepNumbers : ~Done(i) => Gone(i) \/ DoneAt(i) # {}

CalmRow ==
  saga # NULL =>
    /\ saga.status \in Terminal <=> ~Active
    /\ saga.status = "COMPENSATED" => \A i \in StepNumbers : Gone(i)

CalmFit == \A w \in Workers : txn[w] # Idle => Calmly(txn[w])

Calm == CalmEffects /\ CalmRow /\ CalmFit

NoRetryAfterMark == ~({"mark_failed", "retry"} \subseteq disturbed)

Alone == "overlap" \notin disturbed

NoCleanup == "cleanup" \notin disturbed

Body ==
  /\ One /\ Types /\ Rows /\ Results /\ Fit
  /\ NoCleanup => Ledger
  /\ NoCleanup /\ (disturbed = {} \/ ~commitsInStep) => Accounted
  /\ completed /\ NoRetryAfterMark => AfterCompletion
  /\ disturbed = {} => Calm

IndInv == Alone => Body

-----------------------------------------------------------------------------
(* Lemmas. *)

\* What each operation of an executor knows.
LEMMA TxnTypes ==
  ASSUME NEW t \in Txn
  PROVE  /\ t.op = "start" => t \in [op : {"start"}, found : SagaStatus]
         /\ t.op = "at" =>
              t \in [op : {"at"}, i : 0 .. 5, journal : JournalIds \cup {NULL}]
         /\ t.op = "exec" =>
              t \in [op : {"exec"}, i : StepNumbers, journal : JournalIds \cup {NULL},
                     found : SagaRow]
         /\ t.op = "done" =>
              t \in [op : {"done"}, i : StepNumbers, journal : JournalIds \cup {NULL},
                     data : Result]
         /\ t.op = "undo" => t \in [op : {"undo"}, found : SagaStatus \cup {NULL}]
         /\ t.op \in Backward => t \in [op : Backward, i : -1 .. 4, failed : BOOLEAN]
  BY DEF Txn, Backward

\* The only executor goes on as t.
LEMMA OneGoesOn ==
  ASSUME One, NEW w \in Workers, \A v \in Workers : v # w => txn[v] = Idle,
         NEW t, txn' = [txn EXCEPT ![w] = t]
  PROVE  /\ One' /\ txn'[w] = t
         /\ \A v \in Workers : v # w => txn'[v] = Idle
         /\ Active' <=> t # Idle
         /\ \A i : DoneAt(i)' = IF t # Idle /\ t.op = "done" /\ t.i = i THEN {w} ELSE {}
<1>1. /\ txn'[w] = t /\ txn' = [v \in Workers |-> txn'[v]]
      /\ \A v \in Workers : v # w => txn'[v] = Idle
  BY DEF One
<1> QED
  BY <1>1 DEF One, Active, DoneAt

LEMMA SagaColumns ==
  ASSUME saga \in SagaRow, NEW s \in SagaStatus, saga' = [saga EXCEPT !.status = s]
  PROVE  /\ saga' \in SagaRow /\ saga' # NULL
         /\ saga'.status = s /\ saga'.current = saga.current /\ saga'.journal = saga.journal
<1>1. saga' \in SagaRow /\ saga'.status = s /\ saga'.current = saga.current
      /\ saga'.journal = saga.journal
  BY DEF SagaRow
<1> QED
  BY <1>1, NullAssumption

StepStatus ==
  {"PENDING", "EXECUTING", "COMPLETED", "FAILED", "COMPENSATING", "COMPENSATED"}

LEMMA StepColumns ==
  ASSUME steps \in [StepNumbers -> StepRow], NEW i \in StepNumbers,
         NEW s \in StepStatus, steps' = [steps EXCEPT ![i].status = s]
  PROVE  /\ steps' \in [StepNumbers -> StepRow]
         /\ steps'[i].status = s /\ steps'[i].data = steps[i].data
         /\ \A k \in StepNumbers : k # i => steps'[k] = steps[k]
  BY DEF StepRow, StepStatus

\* An executor that runs is the only one, and where the rows say.
LEMMA Runs ==
  ASSUME Body, NEW w \in Workers, txn[w] # Idle
  PROVE  /\ \A v \in Workers : v # w => txn[v] = Idle
         /\ Fits(txn[w]) /\ txn[w] \in Txn
         /\ Active
         /\ \A i : DoneAt(i) = IF txn[w].op = "done" /\ txn[w].i = i THEN {w} ELSE {}
  BY DEF Body, One, Fit, Fits, Active, DoneAt

-----------------------------------------------------------------------------
(* Steps of an executor that write nothing. *)

\* The only executor goes on, starts or stops.
LEMMA QuietStep ==
  ASSUME Body, NEW w \in Workers, \A v \in Workers : v # w => txn[v] = Idle,
         NEW t, txn' = [txn EXCEPT ![w] = t], t = Idle \/ Fits(t),
         UNCHANGED <<sagaVars, effectVars, commitsInStep, completed>>,
         disturbed \subseteq disturbed',
         t # Idle => Active \/ saga = NULL \/ saga.status \notin Terminal,
         (commitsInStep /\ disturbed' # {}) \/ \A i : DoneAt(i) = {},
         disturbed' = {} => t # Idle /\ Calmly(t) /\ (saga = NULL \/ Active)
  PROVE  Body'
<1> USE DEF sagaVars, effectVars
<1>1. /\ One' /\ txn'[w] = t
      /\ \A v \in Workers : v # w => txn'[v] = Idle
      /\ Active' <=> t # Idle
      /\ \A i : DoneAt(i)' = IF t # Idle /\ t.op = "done" /\ t.i = i THEN {w} ELSE {}
  BY OneGoesOn DEF Body
<1>2. /\ \A n : Ahead(n)' <=> Ahead(n)
      /\ \A i : Gone(i)' <=> Gone(i)
      /\ \A i : Done(i)' <=> Done(i)
  BY DEF Ahead, Gone, Done, Live
<1>3. Types' /\ Results'
  BY <1>2 DEF Body, Types, Results
<1>4. Fit'
  <2>1. Fits(t)' <=> Fits(t)
    BY <1>2 DEF Fits
  <2> QED
    BY <1>1, <2>1 DEF Fit
<1>5. Rows'
  <2>1. saga # NULL /\ saga.status = "COMPLETED" => ~Active'
    BY <1>1 DEF Body, Rows, Fits, Terminal
  <2> QED
    BY <1>2, <2>1 DEF Body, Rows
<1>6. NoCleanup' => Ledger'
  BY <1>2 DEF Body, NoCleanup, Ledger
<1>7. NoCleanup' /\ (disturbed' = {} \/ ~commitsInStep') => Accounted'
  <2> SUFFICES ASSUME NoCleanup', disturbed' = {} \/ ~commitsInStep'
               PROVE  Accounted'
    OBVIOUS
  <2>1. Accounted /\ \A i : DoneAt(i) = {}
    BY DEF Body, NoCleanup
  <2> QED
    BY <1>2, <2>1 DEF Accounted
<1>8. completed' /\ NoRetryAfterMark' => AfterCompletion'
  <2> SUFFICES ASSUME completed', NoRetryAfterMark'
               PROVE  AfterCompletion'
    OBVIOUS
  <2>1. AfterCompletion
    BY DEF Body, NoRetryAfterMark
  <2> QED
    BY <1>1, <1>2, <2>1 DEF AfterCompletion, Terminal
<1>9. disturbed' = {} => Calm'
  <2> SUFFICES ASSUME disturbed' = {}
               PROVE  Calm'
    OBVIOUS
  <2>1. Calm /\ Calmly(t) /\ Active' /\ \A i : DoneAt(i) = {}
    BY <1>1 DEF Body
  <2>2. Calmly(t)'
    BY <1>2, <2>1 DEF Calmly
  <2>3. CalmFit'
    BY <1>1, <2>2 DEF CalmFit
  <2>4. CalmEffects' /\ CalmRow'
    BY <1>2, <2>1 DEF Calm, CalmEffects, CalmRow
  <2> QED
    BY <2>3, <2>4 DEF Calm
<1> QED
  BY <1>1, <1>3, <1>4, <1>5, <1>6, <1>7, <1>8, <1>9 DEF Body

\* What starts another executor while one runs is not considered here.
LEMMA Starts ==
  ASSUME NEW kinds, Disturb(Overlap \cup kinds), Alone'
  PROVE  /\ \A v \in Workers : txn[v] = Idle
         /\ ~Active /\ \A i : DoneAt(i) = {}
         /\ kinds \subseteq disturbed' /\ disturbed \subseteq disturbed' /\ Alone
BY DEF Disturb, Overlap, Alone, Active, DoneAt

LEMMA ExecuteInd ==
  ASSUME Body, Alone', NEW w \in Workers, Execute(w)
  PROVE  Body'
<1>1. PICK t : t = [op |-> "create"]
  OBVIOUS
<1>2. /\ saga = NULL /\ txn' = [txn EXCEPT ![w] = t] /\ Disturb(Overlap \cup {})
      /\ UNCHANGED <<sagaVars, effectVars, commitsInStep, completed>>
  BY <1>1 DEF Execute, Begin
<1>3. Fits(t) /\ Calmly(t) /\ t # Idle
  BY <1>1, <1>2, IdleAssumption DEF Fits, Calmly, Backward, Txn
<1> QED
  BY <1>2, <1>3, Starts, QuietStep

LEMMA ResumeInd ==
  ASSUME Body, Alone', NEW w \in Workers, Resume(w)
  PROVE  Body'
<1>1. PICK t : t = [op    |-> IF saga.status = "COMPENSATING" THEN "undo" ELSE "start",
                    found |-> saga.status]
  OBVIOUS
<1>2. /\ saga # NULL /\ txn' = [txn EXCEPT ![w] = t] /\ Disturb(Overlap \cup {})
      /\ UNCHANGED <<sagaVars, effectVars, commitsInStep, completed>>
      /\ saga.status \notin Terminal
  BY <1>1 DEF Resume, Begin
<1>3. saga \in SagaRow
  BY <1>2 DEF Body, Types
<1>4. t \in Txn
  BY <1>1, <1>3 DEF Txn, SagaRow
<1>5. saga.status \in {"PENDING", "EXECUTING", "COMPENSATING"}
  BY <1>2, <1>3 DEF SagaRow, SagaStatus, Terminal
<1>6. Fits(t) /\ t # Idle
  BY <1>1, <1>2, <1>4, <1>5, IdleAssumption DEF Fits, Backward, Body, Rows
<1>7. disturbed' # {}
  <2>1. ~Active /\ disturbed \subseteq disturbed'
    BY <1>2, Starts
  <2> QED
    BY <1>2, <2>1 DEF Body, Calm, CalmRow
<1> QED
  BY <1>2, <1>6, <1>7, Starts, QuietStep

LEMMA ForceInd ==
  ASSUME Body, Alone', NEW w \in Workers, ForceCompensate(w)
  PROVE  Body'
<1>1. PICK t : t = [op |-> "undo", found |-> saga.status]
  OBVIOUS
<1>2. /\ saga # NULL /\ txn' = [txn EXCEPT ![w] = t] /\ Disturb(Overlap \cup {"force"})
      /\ UNCHANGED <<sagaVars, effectVars, commitsInStep, completed>>
      /\ saga.status \notin Terminal
  BY <1>1 DEF ForceCompensate, Begin
<1>3. saga \in SagaRow
  BY <1>2 DEF Body, Types
<1>4. t \in Txn
  BY <1>1, <1>3 DEF Txn, SagaRow
<1>5. saga.status # "COMPLETED"
  BY <1>2 DEF Terminal
<1>6. Fits(t) /\ t # Idle
  BY <1>1, <1>2, <1>4, <1>5, IdleAssumption DEF Fits, Backward
<1> QED
  BY <1>2, <1>6, Starts, QuietStep

LEMMA CrashInd ==
  ASSUME Body, NEW w \in Workers, Crash(w)
  PROVE  Body'
<1>1. PICK t : t = Idle
  OBVIOUS
<1>2. /\ txn[w] # Idle /\ txn' = [txn EXCEPT ![w] = t]
      /\ UNCHANGED <<sagaVars, effectVars, commitsInStep, completed>>
      /\ disturbed \subseteq disturbed' /\ disturbed' # {}
  BY <1>1 DEF Crash, Disturb, End
<1>3. commitsInStep \/ \A i : DoneAt(i) = {}
  BY <1>2, Runs DEF Fits
<1> QED
  BY <1>1, <1>2, <1>3, Runs, QuietStep

LEMMA BackInd ==
  ASSUME Body, NEW w \in Workers, SkipBack(w) \/ ReversalRefused(w)
  PROVE  Body'
<1>1. PICK r : r = txn[w]
  OBVIOUS
<1>2. /\ r # Idle /\ r.op \in {"back", "comp"}
      /\ r.op = "comp" => r.i = 2
      /\ UNCHANGED <<sagaVars, effectVars, faultVars>>
  BY <1>1 DEF SkipBack, ReversalRefused, Running
<1>3. PICK t : t = IF r.op = "back" THEN [r EXCEPT !.i = r.i - 1]
                                    ELSE [op |-> "back", i |-> 1, failed |-> TRUE]
  OBVIOUS
<1>4. /\ txn' = [txn EXCEPT ![w] = t]
      /\ r.op = "back" => r.i \in StepNumbers /\ steps[r.i].status # "COMPLETED"
  BY <1>1, <1>3 DEF SkipBack, ReversalRefused, Running, Continue
<1>5. /\ \A v \in Workers : v # w => txn[v] = Idle
      /\ Fits(r) /\ Active /\ \A i : DoneAt(i) = {}
      /\ r \in [op : Backward, i : -1 .. 4, failed : BOOLEAN]
  BY <1>1, <1>2, Runs, TxnTypes DEF Backward
<1>6. t.op = "back" /\ t \in [op : Backward, i : -1 .. 4, failed : BOOLEAN]
  BY <1>2, <1>3, <1>4, <1>5 DEF Backward, StepNumbers
<1>7. t \in Txn /\ t # Idle
  BY <1>6, IdleAssumption DEF Txn, Backward
<1>8. Fits(t)
  BY <1>2, <1>5, <1>6, <1>7 DEF Fits, Backward
<1>9. disturbed = {} => Calmly(t)
  <2> SUFFICES ASSUME disturbed = {}
               PROVE  Calmly(t)
    OBVIOUS
  <2>1. Calm /\ Calmly(r)
    BY <1>1, <1>2 DEF Body, Calm, CalmFit
  <2>2. CASE r.op = "comp"
    BY <1>2, <1>3, <2>1, <2>2 DEF Calmly, Backward, StepNumbers
  <2>3. CASE r.op = "back"
    <3>1. t.i = r.i - 1 /\ t.failed = r.failed
      BY <1>3, <1>5, <2>3
    <3>2. steps[r.i].status \notin {"COMPLETED", "COMPENSATING", "COMPENSATED"}
      BY <1>2, <1>4, <1>5, <2>1, <2>3 DEF Calmly, Backward
    <3>3. Gone(r.i)
      BY <1>4, <1>5, <2>1, <2>3, <3>2 DEF Calm, CalmEffects, Done
    <3>4. /\ r.op \in Backward /\ t.op \in Backward /\ t.op = "back" /\ t.i = r.i - 1
          /\ t.failed = r.failed /\ r.i \in Int
      BY <1>2, <1>4, <1>6, <2>3, <3>1 DEF Backward, StepNumbers
    <3>5. \A i \in StepNumbers : i > t.i => i > r.i \/ i = r.i
      BY <3>4 DEF StepNumbers
    <3>6. \A i \in StepNumbers : i <= t.i => i <= r.i
      BY <3>4 DEF StepNumbers
    <3> QED
      BY <2>1, <2>3, <3>2, <3>3, <3>4, <3>5, <3>6 DEF Calmly
  <2> QED
    BY <1>2, <2>2, <2>3
<1> QED
  BY <1>2, <1>4, <1>5, <1>7, <1>8, <1>9, QuietStep DEF faultVars

-----------------------------------------------------------------------------
(* Steps that write the saga's row alone. *)

LEMMA RowStep ==
  ASSUME Body, NEW w \in Workers, \A v \in Workers : v # w => txn[v] = Idle,
         NEW t, txn' = [txn EXCEPT ![w] = t],
         saga' \in SagaRow \cup {NULL}, Rows', t = Idle \/ Fits(t)',
         UNCHANGED <<steps, effectVars, commitsInStep>>,
         disturbed \subseteq disturbed',
         (commitsInStep /\ disturbed' # {}) \/ \A i : DoneAt(i) = {},
         completed' /\ NoRetryAfterMark' => AfterCompletion',
         disturbed' = {} => (t = Idle \/ Calmly(t)') /\ CalmRow'
  PROVE  Body'
<1> USE DEF effectVars
<1>1. /\ One' /\ txn'[w] = t
      /\ \A v \in Workers : v # w => txn'[v] = Idle
      /\ \A i : DoneAt(i)' = IF t # Idle /\ t.op = "done" /\ t.i = i THEN {w} ELSE {}
  BY OneGoesOn DEF Body
<1>2. /\ \A i : Gone(i)' <=> Gone(i)
      /\ \A i : Done(i)' <=> Done(i)
  BY DEF Gone, Done, Live
<1>3. Types' /\ Results'
  BY <1>2 DEF Body, Types, Results
<1>4. Fit'
  BY <1>1 DEF Fit
<1>5. NoCleanup' => Ledger'
  BY <1>2 DEF Body, NoCleanup, Ledger
<1>6. NoCleanup' /\ (disturbed' = {} \/ ~commitsInStep') => Accounted'
  <2> SUFFICES ASSUME NoCleanup', disturbed' = {} \/ ~commitsInStep'
               PROVE  Accounted'
    OBVIOUS
  <2>1. Accounted /\ \A i : DoneAt(i) = {}
    BY DEF Body, NoCleanup
  <2> QED
    BY <1>2, <2>1 DEF Accounted
<1>7. disturbed' = {} => Calm'
  <2> SUFFICES ASSUME disturbed' = {}
               PROVE  Calm'
    OBVIOUS
  <2>1. CalmEffects /\ \A i : DoneAt(i) = {}
    BY DEF Body, Calm
  <2>2. CalmFit'
    BY <1>1 DEF CalmFit
  <2>3. CalmEffects'
    BY <1>2, <2>1 DEF CalmEffects
  <2> QED
    BY <2>2, <2>3 DEF Calm
<1> QED
  BY <1>1, <1>3, <1>4, <1>5, <1>6, <1>7 DEF Body

\* Once a saga has completed, an executor is at work on a later one that has
\* done nothing.
LEMMA NothingDoneAgain ==
  ASSUME Body, Active, completed, NoRetryAfterMark
  PROVE  invoice.status = "POSTED" /\ \A i \in StepNumbers : ~Done(i)
BY DEF Body, AfterCompletion

LEMMA AfterStays ==
  ASSUME Body, Active, UNCHANGED <<steps, invoice, completed>>,
         disturbed \subseteq disturbed'
  PROVE  completed' /\ NoRetryAfterMark' => AfterCompletion'
<1> SUFFICES ASSUME completed', NoRetryAfterMark'
             PROVE  AfterCompletion'
  OBVIOUS
<1>1. invoice.status = "POSTED" /\ \A i \in StepNumbers : ~Done(i)
  BY NothingDoneAgain DEF NoRetryAfterMark
<1> QED
  BY <1>1 DEF AfterCompletion, Done

LEMMA CreateSagaInd ==
  ASSUME Body, NEW w \in Workers, CreateSaga(w)
  PROVE  Body'
<1>1. txn[w] # Idle /\ txn[w].op = "create" /\ UNCHANGED <<steps, effectVars, faultVars>>
  BY DEF CreateSaga, Running
<1>2. /\ \A v \in Workers : v # w => txn[v] = Idle
      /\ saga = NULL /\ Active /\ \A i : DoneAt(i) = {}
  BY <1>1, Runs DEF Fits
<1>3. PICK t : t = [op |-> "start", found |-> "PENDING"]
  OBVIOUS
<1>4. /\ txn' = [txn EXCEPT ![w] = t]
      /\ saga' = [status |-> "PENDING", current |-> 0, journal |-> NULL]
  BY <1>2, <1>3 DEF CreateSaga, Continue
<1>5. saga' \in SagaRow
  BY <1>4 DEF SagaRow, SagaStatus
<1>6. t \in Txn /\ t # Idle /\ saga' # NULL
  BY <1>3, <1>5, NullAssumption, IdleAssumption DEF Txn, SagaStatus
<1>7. Ahead(saga.current)'
  BY <1>1, <1>2, <1>4 DEF Ahead, Body, Rows, StepNumbers
<1>8. Rows' /\ Fits(t)'
  BY <1>3, <1>4, <1>6, <1>7 DEF Rows, Fits, Backward
<1>9. Calmly(t)' /\ CalmRow'
  <2>1. Active'
    BY <1>2, <1>4, <1>6, OneGoesOn DEF Body
  <2> QED
    BY <1>3, <1>4, <2>1 DEF Calmly, CalmRow, Terminal, Backward
<1>10. completed' /\ NoRetryAfterMark' => AfterCompletion'
  BY <1>1, <1>2, AfterStays DEF effectVars, faultVars
<1> QED
  BY <1>1, <1>2, <1>4, <1>5, <1>8, <1>9, <1>10, RowStep DEF faultVars

LEMMA StartStepsInd ==
  ASSUME Body, NEW w \in Workers, StartSteps(w)
  PROVE  Body'
<1>1. PICK r : r = txn[w]
  OBVIOUS
<1>2. r # Idle /\ r.op = "start" /\ saga # NULL /\ UNCHANGED <<steps, effectVars, faultVars>>
  BY <1>1 DEF StartSteps, Running
<1>3. /\ \A v \in Workers : v # w => txn[v] = Idle
      /\ Fits(r) /\ Active /\ (\A i : DoneAt(i) = {})
      /\ r.found \in SagaStatus /\ saga \in SagaRow
  BY <1>1, <1>2, Runs, TxnTypes DEF Body, Types
<1>4. PICK t : t = [op |-> "at", i |-> saga.current, journal |-> saga.journal]
  OBVIOUS
<1>5. PICK s : s = Written(r.found, "EXECUTING", saga.status)
  OBVIOUS
<1>6. txn' = [txn EXCEPT ![w] = t] /\ saga' = [saga EXCEPT !.status = s]
  BY <1>1, <1>4, <1>5 DEF StartSteps, Continue
<1>7. s \in SagaStatus /\ s # "COMPLETED"
  BY <1>2, <1>3, <1>5 DEF Written, SagaRow, SagaStatus, Fits
<1>8. /\ saga' \in SagaRow /\ saga' # NULL /\ saga'.status = s
      /\ saga'.current = saga.current /\ saga'.journal = saga.journal
  BY <1>3, <1>6, <1>7, SagaColumns
<1>9. t \in Txn /\ t # Idle
  BY <1>3, <1>4, IdleAssumption DEF Txn, SagaRow
<1>10. Ahead(saga.current)' /\ Ahead(t.i)'
  BY <1>2, <1>3, <1>4, <1>8 DEF Ahead, Fits
<1>11. Rows' /\ Fits(t)'
  BY <1>2, <1>4, <1>7, <1>8, <1>9, <1>10 DEF Rows, Fits, Backward, Body
<1>12. disturbed' = {} => Calmly(t)' /\ CalmRow'
  <2> SUFFICES ASSUME disturbed' = {}
               PROVE  Calmly(t)' /\ CalmRow'
    OBVIOUS
  <2>1. saga.status = "PENDING" /\ r.found = "PENDING"
    BY <1>1, <1>2 DEF Body, Calm, CalmFit, Calmly, faultVars
  <2>2. Active' /\ s = "EXECUTING"
    BY <1>3, <1>5, <1>6, <1>9, <2>1, OneGoesOn DEF Body, Written
  <2> QED
    BY <1>4, <1>8, <2>2 DEF Calmly, CalmRow, Terminal, Backward
<1>13. completed' /\ NoRetryAfterMark' => AfterCompletion'
  BY <1>2, <1>3, AfterStays DEF effectVars, faultVars
<1> QED
  BY <1>2, <1>3, <1>6, <1>8, <1>11, <1>12, <1>13, RowStep DEF faultVars

LEMMA StartCompensationInd ==
  ASSUME Body, NEW w \in Workers, StartCompensation(w)
  PROVE  Body'
<1>1. PICK r : r = txn[w]
  OBVIOUS
<1>2. r # Idle /\ r.op = "undo" /\ saga # NULL /\ UNCHANGED <<steps, effectVars, faultVars>>
  BY <1>1 DEF StartCompensation, Running
<1>3. /\ \A v \in Workers : v # w => txn[v] = Idle
      /\ Fits(r) /\ Active /\ (\A i : DoneAt(i) = {})
      /\ r.found \in SagaStatus \cup {NULL} /\ saga \in SagaRow
  BY <1>1, <1>2, Runs, TxnTypes DEF Body, Types
<1>4. PICK t : t = [op |-> "back", i |-> saga.current - 1, failed |-> FALSE]
  OBVIOUS
<1>5. PICK s : s = Written(r.found, "COMPENSATING", saga.status)
  OBVIOUS
<1>6. txn' = [txn EXCEPT ![w] = t] /\ saga' = [saga EXCEPT !.status = s]
  BY <1>1, <1>4, <1>5 DEF StartCompensation, Continue
<1>7. s \in SagaStatus /\ s \notin {"COMPLETED", "PENDING", "EXECUTING"}
  BY <1>2, <1>3, <1>5 DEF Written, SagaRow, SagaStatus, Fits
<1>8. /\ saga' \in SagaRow /\ saga' # NULL /\ saga'.status = s
      /\ saga'.current = saga.current /\ saga'.journal = saga.journal
  BY <1>3, <1>6, <1>7, SagaColumns
<1>9. t \in Txn /\ t # Idle
  <2>1. t.i \in -1 .. 4
    BY <1>3, <1>4 DEF SagaRow
  <2>2. t \in [op : {"back", "comp", "undone"}, i : -1 .. 4, failed : BOOLEAN]
    BY <1>4, <2>1
  <2> QED
    BY <2>2, IdleAssumption DEF Txn
<1>10. Rows' /\ Fits(t)'
  BY <1>2, <1>4, <1>7, <1>8, <1>9 DEF Rows, Fits, Backward, Body
<1>11. disturbed' = {} => Calmly(t)' /\ CalmRow'
  <2> SUFFICES ASSUME disturbed' = {}
               PROVE  Calmly(t)' /\ CalmRow'
    OBVIOUS
  <2>1. Calm /\ Calmly(r)
    BY <1>1, <1>2 DEF Body, Calm, CalmFit, faultVars
  <2>2. saga.status = "EXECUTING" /\ r.found = NULL /\ Ahead(saga.current)
    BY <1>2, <2>1 DEF Calmly
  <2>3. Active' /\ s = "COMPENSATING"
    BY <1>3, <1>5, <1>6, <1>9, <2>2, OneGoesOn, NullAssumption DEF Body, Written, SagaStatus
  <2>4. saga.current \in 0 .. 5
    BY <1>3 DEF SagaRow
  <2>5. \A i \in StepNumbers :
          /\ i <= t.i => steps[i].status = "COMPLETED"
          /\ i > t.i => ~Done(i) /\ Gone(i)
    BY <1>3, <1>4, <2>1, <2>2, <2>4 DEF Ahead, StepNumbers, Calm, CalmEffects, Done
  <2>6. /\ \A i \in StepNumbers : i > t.i => steps'[i].status \notin {"COMPLETED", "COMPENSATING"}
        /\ \A i \in StepNumbers : i > t.i => Gone(i)'
        /\ \A i \in StepNumbers : i <= t.i => steps'[i].status = "COMPLETED"
    BY <1>2, <2>5 DEF Gone, Done, Live, effectVars
  <2> QED
    BY <1>4, <1>8, <2>3, <2>6 DEF Calmly, CalmRow, Terminal, Backward
<1>12. completed' /\ NoRetryAfterMark' => AfterCompletion'
  BY <1>2, <1>3, AfterStays DEF effectVars, faultVars
<1> QED
  BY <1>2, <1>3, <1>6, <1>8, <1>10, <1>11, <1>12, RowStep DEF faultVars

LEMMA FinishInd ==
  ASSUME Body, NEW w \in Workers, FinishCompensation(w)
  PROVE  Body'
<1>1. PICK r : r = txn[w]
  OBVIOUS
<1>2. /\ r # Idle /\ r.op = "back" /\ r.i \notin StepNumbers /\ saga # NULL
      /\ UNCHANGED <<steps, effectVars, faultVars>>
  BY <1>1 DEF FinishCompensation, Running
<1>3. /\ \A v \in Workers : v # w => txn[v] = Idle
      /\ Fits(r) /\ Active /\ (\A i : DoneAt(i) = {})
      /\ r \in [op : Backward, i : -1 .. 4, failed : BOOLEAN] /\ saga \in SagaRow
  BY <1>1, <1>2, Runs, TxnTypes DEF Body, Types, Backward
<1>4. PICK t : t = Idle
  OBVIOUS
<1>5. PICK s : s = IF r.failed THEN "FAILED" ELSE "COMPENSATED"
  OBVIOUS
<1>6. txn' = [txn EXCEPT ![w] = t] /\ saga' = [saga EXCEPT !.status = s]
  BY <1>1, <1>4, <1>5 DEF FinishCompensation, End
<1>7. s \in SagaStatus /\ s \in {"FAILED", "COMPENSATED"}
  BY <1>5 DEF SagaStatus, Terminal
<1>8. /\ saga' \in SagaRow /\ saga' # NULL /\ saga'.status = s
      /\ saga'.current = saga.current /\ saga'.journal = saga.journal
  BY <1>3, <1>6, <1>7, SagaColumns
<1>9. Rows'
  BY <1>2, <1>7, <1>8 DEF Rows, Body
<1>10. disturbed' = {} => CalmRow'
  <2> SUFFICES ASSUME disturbed' = {}
               PROVE  CalmRow'
    OBVIOUS
  <2>1. ~Active'
    BY <1>3, <1>4, <1>6, OneGoesOn DEF Body
  <2>2. Calmly(r)
    BY <1>1, <1>2 DEF Body, Calm, CalmFit, faultVars
  <2>3. r.i = -1
    BY <1>2, <1>3 DEF StepNumbers
  <2>4. ~r.failed => \A i \in StepNumbers : Gone(i)
    BY <1>2, <2>2, <2>3 DEF Calmly, Backward, StepNumbers
  <2>5. ~r.failed => \A i \in StepNumbers : Gone(i)'
    BY <1>2, <2>4 DEF Gone, Live, effectVars
  <2>6. r.failed \in BOOLEAN
    BY <1>3
  <2> QED
    BY <1>5, <1>7, <1>8, <2>1, <2>5, <2>6 DEF CalmRow, Terminal
<1>11. completed' /\ NoRetryAfterMark' => AfterCompletion'
  BY <1>2, <1>3, AfterStays DEF effectVars, faultVars
<1> QED
  BY <1>2, <1>3, <1>4, <1>6, <1>8, <1>9, <1>10, <1>11, RowStep DEF faultVars

LEMMA CompleteInd ==
  ASSUME Body, NEW w \in Workers, Complete(w)
  PROVE  Body'
<1>1. PICK r : r = txn[w]
  OBVIOUS
<1>2. /\ r # Idle /\ r.op = "at" /\ r.i \notin StepNumbers /\ saga # NULL
      /\ UNCHANGED <<steps, effectVars, commitsInStep, disturbed>>
  BY <1>1 DEF Complete, Running
<1>3. /\ \A v \in Workers : v # w => txn[v] = Idle
      /\ Fits(r) /\ (\A i : DoneAt(i) = {})
      /\ r.i \in 0 .. 5 /\ saga \in SagaRow
  BY <1>1, <1>2, Runs, TxnTypes DEF Body, Types
<1>4. PICK t : t = Idle
  OBVIOUS
<1>5. txn' = [txn EXCEPT ![w] = t] /\ saga' = [saga EXCEPT !.status = "COMPLETED"]
  BY <1>4 DEF Complete, End
<1>6. /\ saga' \in SagaRow /\ saga' # NULL /\ saga'.status = "COMPLETED"
      /\ saga'.current = saga.current /\ saga'.journal = saga.journal
  BY <1>3, <1>5, SagaColumns DEF SagaStatus, Terminal
<1>7. ~Active'
  BY <1>3, <1>4, <1>5, OneGoesOn DEF Body
<1>8. \A i \in StepNumbers : steps[i].status = "COMPLETED"
  BY <1>2, <1>3 DEF Fits, Ahead, StepNumbers
<1>9. Rows'
  BY <1>2, <1>6, <1>7, <1>8 DEF Rows, Body
<1>10. CalmRow'
  BY <1>6, <1>7 DEF CalmRow, Terminal
<1>11. AfterCompletion'
  <2>1. invoice'.status = "POSTED"
    BY <1>2, <1>8 DEF Body, Results, StepNumbers, effectVars
  <2> QED
    BY <1>6, <1>7, <2>1 DEF AfterCompletion
<1> QED
  BY <1>2, <1>3, <1>4, <1>5, <1>6, <1>9, <1>10, <1>11, RowStep

LEMMA MarkFailedInd ==
  ASSUME Body, MarkFailed
  PROVE  Body'
<1>1. /\ saga # NULL /\ saga' = [saga EXCEPT !.status = "FAILED"]
      /\ UNCHANGED <<txn, steps, effectVars, commitsInStep, completed>>
      /\ disturbed \subseteq disturbed' /\ "mark_failed" \in disturbed'
  BY DEF MarkFailed, Disturb
<1>2. saga \in SagaRow
  BY <1>1 DEF Body, Types
<1>3. /\ saga' \in SagaRow /\ saga' # NULL /\ saga'.status = "FAILED"
      /\ saga'.current = saga.current /\ saga'.journal = saga.journal
  BY <1>1, <1>2, SagaColumns DEF SagaStatus, Terminal
<1>4. Rows'
  BY <1>1, <1>3 DEF Rows, Body
<1>5. completed' /\ NoRetryAfterMark' => AfterCompletion'
  <2> SUFFICES ASSUME completed', NoRetryAfterMark'
               PROVE  AfterCompletion'
    OBVIOUS
  <2>1. AfterCompletion
    BY <1>1 DEF Body, NoRetryAfterMark
  <2> QED
    BY <1>1, <1>3, <2>1 DEF AfterCompletion, Done, Active, effectVars
<1>6. CASE Workers = {}
  <2>1. One' /\ Fit'
    BY <1>1, <1>6 DEF Body, One, Fit
  <2>2. Types' /\ Results' /\ (NoCleanup' => Ledger')
    BY <1>1, <1>3 DEF Body, Types, Results, NoCleanup, Ledger, Done, effectVars
  <2>3. NoCleanup' /\ (disturbed' = {} \/ ~commitsInStep') => Accounted'
    BY <1>1 DEF Body, NoCleanup, Accounted, DoneAt, Done, effectVars
  <2> QED
    BY <1>1, <1>4, <1>5, <2>1, <2>2, <2>3 DEF Body
<1>7. CASE Workers # {}
  <2>1. PICK w \in Workers : \A v \in Workers : v # w => txn[v] = Idle
    BY <1>7 DEF Body, One
  <2>2. PICK t : t = txn[w]
    OBVIOUS
  <2>3. txn' = [txn EXCEPT ![w] = t]
    <3>1. txn = [v \in Workers |-> txn[v]] /\ txn' = txn
      BY <1>1 DEF Body, One
    <3> QED
      BY <2>2, <3>1
  <2>4. t = Idle \/ Fits(t)'
    <3>1. t = Idle \/ Fits(t)
      BY <2>2 DEF Body, Fit
    <3>2. \A n : Ahead(n) => Ahead(n)'
      BY <1>1, <1>3 DEF Ahead
    <3> QED
      BY <1>1, <1>3, <3>1, <3>2 DEF Fits, effectVars
  <2>5. commitsInStep \/ \A i : DoneAt(i) = {}
    BY DEF Body, Fit, Fits, DoneAt
  <2> QED
    BY <1>1, <1>3, <1>4, <1>5, <2>1, <2>3, <2>4, <2>5, RowStep
<1> QED
  BY <1>6, <1>7

LEMMA RetryInd ==
  ASSUME Body, Alone', NEW w \in Workers, RetryCompensation(w)
  PROVE  Body'
<1>1. /\ saga # NULL /\ saga.status = "FAILED" /\ Disturb(Overlap \cup {"retry"})
      /\ UNCHANGED <<steps, effectVars, commitsInStep, completed>>
  BY DEF RetryCompensation
<1>2. /\ \A v \in Workers : txn[v] = Idle
      /\ ~Active /\ (\A i : DoneAt(i) = {})
      /\ "retry" \in disturbed' /\ disturbed \subseteq disturbed'
      /\ saga \in SagaRow
  BY <1>1, Starts DEF Body, Types
<1>3. PICK t : t = IF \E i \in StepNumbers : steps[i].status = "COMPLETED"
                   THEN [op |-> "undo", found |-> NULL] ELSE Idle
  OBVIOUS
<1>4. PICK s \in {"COMPENSATING", "COMPENSATED"} :
        txn' = [txn EXCEPT ![w] = t] /\ saga' = [saga EXCEPT !.status = s]
  <2>1. CASE \E i \in StepNumbers : steps[i].status = "COMPLETED"
    BY <1>3, <2>1 DEF RetryCompensation, Begin
  <2>2. CASE ~ \E i \in StepNumbers : steps[i].status = "COMPLETED"
    <3>1. txn' = [txn EXCEPT ![w] = t]
      <4>1. txn = [v \in Workers |-> txn[v]] /\ txn' = txn /\ txn[w] = t
        BY <1>2, <1>3, <2>2 DEF RetryCompensation, Body, One
      <4> QED
        BY <4>1
    <3> QED
      BY <2>2, <3>1 DEF RetryCompensation
  <2> QED
    BY <2>1, <2>2
<1>5. /\ saga' \in SagaRow /\ saga' # NULL /\ saga'.status = s
      /\ saga'.current = saga.current /\ saga'.journal = saga.journal
  BY <1>2, <1>4, SagaColumns DEF SagaStatus, Terminal
<1>6. Rows'
  BY <1>1, <1>4, <1>5 DEF Rows, Body
<1>7. t = Idle \/ Fits(t)'
  BY <1>3, <1>4, <1>5, NullAssumption DEF Fits, Txn, Backward, SagaStatus
<1>8. completed' /\ NoRetryAfterMark' => AfterCompletion'
  <2> SUFFICES ASSUME completed', NoRetryAfterMark'
               PROVE  AfterCompletion'
    OBVIOUS
  <2>1. AfterCompletion /\ "mark_failed" \notin disturbed
    BY <1>1, <1>2 DEF Body, NoRetryAfterMark
  <2> QED
    BY <1>1, <2>1 DEF AfterCompletion, Done, effectVars
<1>9. disturbed' # {}
  BY <1>2
<1> QED
  BY <1>1, <1>2, <1>4, <1>5, <1>6, <1>7, <1>8, <1>9, RowStep

-----------------------------------------------------------------------------
(* Steps that write the status of one step. *)

LEMMA StatusStep ==
  ASSUME Body, NEW w \in Workers, txn[w] # Idle, txn[w].op # "done", txn[w].op # "create",
         NEW t, txn' = [txn EXCEPT ![w] = t], t # Idle, Fits(t)',
         NEW i \in StepNumbers, NEW s \in StepStatus \ {"COMPLETED"},
         steps' = [steps EXCEPT ![i].status = s],
         Done(i) <=> s \in {"COMPENSATING", "COMPENSATED"},
         saga.status \in {"PENDING", "EXECUTING"} => Ahead(saga.current)',
         UNCHANGED <<saga, effectVars, faultVars>>,
         disturbed' = {} => Calmly(t)'
  PROVE  Body'
<1> USE DEF effectVars, faultVars
<1>1. /\ \A v \in Workers : v # w => txn[v] = Idle
      /\ Fits(txn[w]) /\ Active /\ \A k : DoneAt(k) = {}
  BY Runs
<1>2. /\ One' /\ txn'[w] = t
      /\ \A v \in Workers : v # w => txn'[v] = Idle
      /\ Active'
  BY <1>1, OneGoesOn DEF Body
<1>3. saga # NULL /\ saga.status # "COMPLETED"
  BY <1>1 DEF Fits
<1>4. /\ steps' \in [StepNumbers -> StepRow]
      /\ steps'[i].status = s
      /\ \A k \in StepNumbers : k # i => steps'[k].status = steps[k].status
      /\ \A k \in StepNumbers : steps'[k].data = steps[k].data
  BY StepColumns DEF Body, Types
<1>5. /\ \A k \in StepNumbers : Done(k)' <=> Done(k)
      /\ \A k : Gone(k)' <=> Gone(k)
      /\ \A k \in StepNumbers : steps'[k].status = "COMPLETED" => steps[k].status = "COMPLETED"
  BY <1>4 DEF Done, Gone, Live
<1>6. 1 \in StepNumbers /\ 2 \in StepNumbers /\ 3 \in StepNumbers /\ 4 \in StepNumbers
  BY DEF StepNumbers
<1>7. Types' /\ Results'
  BY <1>4, <1>5, <1>6 DEF Body, Types, Results
<1>8. Rows'
  BY <1>3, <1>4, <1>6 DEF Body, Rows
<1>9. Fit'
  BY <1>2 DEF Fit
<1>10. NoCleanup' => Ledger'
  <2> SUFFICES ASSUME NoCleanup'
               PROVE  Ledger'
    OBVIOUS
  <2>1. Ledger
    BY DEF Body, NoCleanup
  <2>2. reversed => steps'[2].status \in {"COMPENSATING", "COMPENSATED"}
    BY <1>4, <1>6, <2>1 DEF Ledger, Done
  <2> QED
    BY <1>4, <1>5, <1>6, <2>1, <2>2 DEF Ledger
<1>11. NoCleanup' /\ (disturbed' = {} \/ ~commitsInStep') => Accounted'
  <2> SUFFICES ASSUME NoCleanup', disturbed' = {} \/ ~commitsInStep'
               PROVE  Accounted'
    OBVIOUS
  <2>1. Accounted
    BY DEF Body, NoCleanup
  <2> QED
    BY <1>1, <1>4, <1>5, <1>6, <2>1 DEF Accounted
<1>12. completed' /\ NoRetryAfterMark' => AfterCompletion'
  BY <1>1, <1>5, NothingDoneAgain DEF AfterCompletion, NoRetryAfterMark
<1>13. disturbed' = {} => Calm'
  <2> SUFFICES ASSUME disturbed' = {}
               PROVE  Calm'
    OBVIOUS
  <2>1. Calm
    BY DEF Body
  <2>2. CalmFit'
    BY <1>2 DEF CalmFit
  <2>3. CalmEffects'
    BY <1>1, <1>4, <1>5, <1>6, <2>1 DEF Calm, CalmEffects
  <2>4. CalmRow'
    BY <1>1, <1>2, <1>3, <1>5, <2>1 DEF Calm, CalmRow, Terminal
  <2> QED
    BY <2>2, <2>3, <2>4 DEF Calm
<1> QED
  BY <1>2, <1>7, <1>8, <1>9, <1>10, <1>11, <1>12, <1>13 DEF Body

LEMMA MarkStepInd ==
  ASSUME Body, NEW w \in Workers, MarkStep(w)
  PROVE  Body'
<1>1. PICK r : r = txn[w]
  OBVIOUS
<1>2. PICK i \in StepNumbers : i = r.i
  BY <1>1 DEF MarkStep
<1>3. r # Idle /\ r.op = "at" /\ UNCHANGED <<saga, effectVars, faultVars>>
      /\ steps' = [steps EXCEPT ![i].status = "EXECUTING"]
  BY <1>1, <1>2 DEF MarkStep, Running
<1>4. /\ Fits(r) /\ saga \in SagaRow
      /\ r.journal \in JournalIds \cup {NULL}
  BY <1>1, <1>3, Runs, TxnTypes DEF Body, Types, Fits
<1>5. PICK t : t = [op |-> "exec", i |-> i, journal |-> r.journal, found |-> saga]
  OBVIOUS
<1>6. txn' = [txn EXCEPT ![w] = t]
  BY <1>1, <1>2, <1>5 DEF MarkStep, Continue
<1>7. t \in Txn /\ t # Idle
  BY <1>4, <1>5, IdleAssumption DEF Txn
<1>8. /\ steps'[i].status = "EXECUTING" /\ \A k \in StepNumbers : steps'[k].data = steps[k].data
      /\ \A k \in StepNumbers : k # i => steps'[k] = steps[k]
  BY <1>3, StepColumns DEF Body, Types, StepStatus
<1>9. Ahead(i) /\ Ahead(i)' /\ saga.current = i
  BY <1>2, <1>3, <1>4, <1>8 DEF Fits, Ahead, StepNumbers
<1>10. Fits(t)'
  BY <1>2, <1>3, <1>4, <1>5, <1>7, <1>8, <1>9 DEF Fits, Backward, StepNumbers
<1>11. disturbed' = {} => Calmly(t)'
  BY <1>1, <1>3, <1>5 DEF Body, Calm, CalmFit, Calmly, Backward, faultVars
<1>12. ~Done(i)
  BY <1>9 DEF Ahead, Done, StepNumbers
<1>13. Ahead(saga.current)'
  BY <1>3, <1>9
<1>14. PICK s \in StepStatus \ {"COMPLETED"} : s = "EXECUTING"
  BY DEF StepStatus
<1> QED
  BY <1>1, <1>3, <1>6, <1>7, <1>10, <1>11, <1>12, <1>13, <1>14, StatusStep

LEMMA StepFailsInd ==
  ASSUME Body, NEW w \in Workers, StepFails(w)
  PROVE  Body'
<1>1. PICK r : r = txn[w]
  OBVIOUS
<1>2. r # Idle /\ r.op = "exec" /\ UNCHANGED <<saga, effectVars, faultVars>>
      /\ steps' = [steps EXCEPT ![r.i].status = "FAILED"]
  BY <1>1 DEF StepFails, Running
<1>3. Fits(r) /\ r.i \in StepNumbers
  BY <1>1, <1>2, Runs, TxnTypes DEF Fits
<1>4. PICK t : t = [op |-> "undo", found |-> NULL]
  OBVIOUS
<1>5. txn' = [txn EXCEPT ![w] = t]
  BY <1>4 DEF StepFails, Continue
<1>6. t \in Txn /\ t # Idle
  BY <1>4, IdleAssumption DEF Txn
<1>7. /\ steps'[r.i].status = "FAILED"
      /\ \A k \in StepNumbers : k # r.i => steps'[k] = steps[k]
  BY <1>2, <1>3, StepColumns DEF Body, Types, StepStatus
<1>8. Ahead(r.i) /\ Ahead(r.i)' /\ saga.current = r.i
  BY <1>2, <1>3, <1>7 DEF Fits, Ahead, StepNumbers
<1>9. Fits(t)'
  BY <1>2, <1>3, <1>4, <1>6, NullAssumption DEF Fits, Backward, SagaStatus
<1>10. disturbed' = {} => Calmly(t)'
  BY <1>1, <1>2, <1>4, <1>8 DEF Body, Calm, CalmFit, Calmly, Backward, faultVars
<1>11. ~Done(r.i)
  BY <1>3, <1>8 DEF Ahead, Done, StepNumbers
<1>12. Ahead(saga.current)'
  BY <1>2, <1>8
<1>13. PICK s \in StepStatus \ {"COMPLETED"} : s = "FAILED"
  BY DEF StepStatus
<1> QED
  BY <1>1, <1>2, <1>3, <1>5, <1>6, <1>9, <1>10, <1>11, <1>12, <1>13, StatusStep

\* The executor goes back, step r.i being undone or about to be.
LEMMA MarkBackInd ==
  ASSUME Body, NEW w \in Workers, MarkBack(w)
  PROVE  Body'
<1>1. PICK r : r = txn[w]
  OBVIOUS
<1>2. /\ r # Idle /\ r.op = "back" /\ UNCHANGED <<saga, effectVars, faultVars>>
      /\ r.i \in StepNumbers /\ steps[r.i].status = "COMPLETED"
  BY <1>1 DEF MarkBack, Running
<1>3. /\ Fits(r) /\ r \in [op : Backward, i : -1 .. 4, failed : BOOLEAN]
  BY <1>1, <1>2, Runs, TxnTypes DEF Backward
<1>4. PICK t : t = IF r.i = 0 THEN [r EXCEPT !.i = r.i - 1] ELSE [r EXCEPT !.op = "comp"]
  OBVIOUS
<1>5. PICK s : s = IF r.i = 0 THEN "COMPENSATED" ELSE "COMPENSATING"
  OBVIOUS
<1>6. txn' = [txn EXCEPT ![w] = t] /\ steps' = [steps EXCEPT ![r.i].status = s]
  BY <1>1, <1>2, <1>4, <1>5 DEF MarkBack, Continue
<1>7. /\ t \in [op : Backward, i : -1 .. 4, failed : BOOLEAN] /\ t.failed = r.failed
      /\ r.i = 0 => t.op = "back" /\ t.i = -1
      /\ r.i # 0 => t.op = "comp" /\ t.i = r.i /\ t.i \in 1 .. 4
  BY <1>2, <1>3, <1>4 DEF Backward, StepNumbers
<1>8. t \in Txn /\ t # Idle
  BY <1>7, IdleAssumption DEF Txn, Backward
<1>9. s \in StepStatus \ {"COMPLETED"}
  BY <1>5 DEF StepStatus
<1>10. /\ steps'[r.i].status = s
       /\ \A k \in StepNumbers : k # r.i => steps'[k] = steps[k]
  BY <1>2, <1>6, <1>9, StepColumns DEF Body, Types
<1>11. saga # NULL /\ saga.status \notin {"COMPLETED", "PENDING", "EXECUTING"}
  BY <1>2, <1>3 DEF Fits, Backward
<1>12. Fits(t)'
  BY <1>2, <1>5, <1>7, <1>8, <1>10, <1>11 DEF Fits, Backward
<1>13. disturbed' = {} => Calmly(t)'
  <2> SUFFICES ASSUME disturbed' = {}
               PROVE  Calmly(t)'
    OBVIOUS
  <2>1. Calmly(r)
    BY <1>1, <1>2 DEF Body, Calm, CalmFit, faultVars
  <2>2. \A k : Gone(k)' <=> Gone(k)
    BY <1>2 DEF Gone, Live, effectVars
  <2>3. Gone(0)
    BY DEF Gone
  <2>4. \A k \in StepNumbers :
          (IF t.op = "back" THEN k <= t.i ELSE k < t.i) =>
             steps'[k].status \notin {"COMPENSATING", "COMPENSATED"}
    BY <1>2, <1>7, <1>10, <2>1 DEF Calmly, Backward, StepNumbers
  <2>5. ~t.failed => \A k \in StepNumbers :
          k > t.i => steps'[k].status \notin {"COMPLETED", "COMPENSATING"} /\ Gone(k)
    BY <1>2, <1>5, <1>7, <1>10, <2>1, <2>3 DEF Calmly, Backward, StepNumbers
  <2>6. t.op \in {"back", "comp"} /\ saga'.status = "COMPENSATING"
    BY <1>2, <1>7, <2>1 DEF Calmly, Backward, StepNumbers
  <2> QED
    BY <2>2, <2>4, <2>5, <2>6 DEF Calmly, Backward
<1>14. Done(r.i) <=> s \in {"COMPENSATING", "COMPENSATED"}
  BY <1>2, <1>5 DEF Done
<1> QED
  BY <1>1, <1>2, <1>6, <1>8, <1>9, <1>11, <1>12, <1>13, <1>14, StatusStep

LEMMA RecordCompensationInd ==
  ASSUME Body, NEW w \in Workers, RecordCompensation(w)
  PROVE  Body'
<1>1. PICK r : r = txn[w]
  OBVIOUS
<1>2. r # Idle /\ r.op = "undone" /\ UNCHANGED <<saga, effectVars, faultVars>>
      /\ steps' = [steps EXCEPT ![r.i].status = "COMPENSATED"]
  BY <1>1 DEF RecordCompensation, Running
<1>3. /\ Fits(r) /\ r \in [op : Backward, i : -1 .. 4, failed : BOOLEAN]
      /\ r.i \in 1 .. 4 /\ steps[r.i].status = "COMPENSATING"
  BY <1>1, <1>2, Runs, TxnTypes DEF Backward, Fits
<1>4. PICK t : t = [r EXCEPT !.op = "back", !.i = r.i - 1]
  OBVIOUS
<1>5. txn' = [txn EXCEPT ![w] = t]
  BY <1>1, <1>3, <1>4 DEF RecordCompensation, Continue
<1>6. /\ t \in [op : Backward, i : -1 .. 4, failed : BOOLEAN] /\ t.failed = r.failed
      /\ t.op = "back" /\ t.i = r.i - 1
  <2>1. r.i - 1 \in -1 .. 4 /\ "back" \in Backward
    BY <1>3 DEF Backward
  <2> QED
    BY <1>3, <1>4, <2>1
<1>7. t \in Txn /\ t # Idle
  BY <1>6, IdleAssumption DEF Txn, Backward
<1>8. r.i \in StepNumbers
  BY <1>3 DEF StepNumbers
<1>9. /\ steps'[r.i].status = "COMPENSATED"
      /\ \A k \in StepNumbers : k # r.i => steps'[k] = steps[k]
  BY <1>2, <1>8, StepColumns DEF Body, Types, StepStatus
<1>10. saga # NULL /\ saga.status \notin {"COMPLETED", "PENDING", "EXECUTING"}
  BY <1>2, <1>3 DEF Fits, Backward
<1>11. Fits(t)'
  BY <1>2, <1>6, <1>7, <1>10 DEF Fits, Backward
<1>12. disturbed' = {} => Calmly(t)'
  <2> SUFFICES ASSUME disturbed' = {}
               PROVE  Calmly(t)'
    OBVIOUS
  <2>1. Calmly(r)
    BY <1>1, <1>2 DEF Body, Calm, CalmFit, faultVars
  <2>2. \A k : Gone(k)' <=> Gone(k)
    BY <1>2 DEF Gone, Live, effectVars
  <2>4. \A k \in StepNumbers :
          k <= t.i => steps'[k].status \notin {"COMPENSATING", "COMPENSATED"}
    BY <1>2, <1>3, <1>6, <1>9, <2>1 DEF Calmly, Backward, StepNumbers
  <2>5. ~t.failed => \A k \in StepNumbers :
          k > t.i => steps'[k].status \notin {"COMPLETED", "COMPENSATING"} /\ Gone(k)
    BY <1>2, <1>3, <1>6, <1>9, <2>1 DEF Calmly, Backward, StepNumbers
  <2>6. saga'.status = "COMPENSATING"
    BY <1>2, <2>1 DEF Calmly, Backward
  <2> QED
    BY <1>6, <2>2, <2>4, <2>5, <2>6 DEF Calmly, Backward
<1>13. Done(r.i)
  BY <1>3 DEF Done
<1> QED
  BY <1>1, <1>2, <1>5, <1>7, <1>8, <1>10, <1>11, <1>12, <1>13, StatusStep DEF StepStatus

-----------------------------------------------------------------------------
(* Steps of the saga. *)

\* The effects and the rest of the invariant after a step.
EffectParts ==
  /\ journals \in [JournalIds -> JournalStatuses]
  /\ tax \subseteq TaxIds
  /\ posted \in JournalIds \cup {NULL}
  /\ invoice \in [status : {"APPROVED", "POSTED"}, journal : JournalIds \cup {NULL}]
  /\ Results
  /\ NoCleanup => Ledger
  /\ NoCleanup /\ (disturbed = {} \/ ~commitsInStep) => Accounted
  /\ disturbed = {} => CalmEffects

\* Step i is recorded as done.
Recorded(i, data) ==
  /\ steps'[i].status = "COMPLETED" /\ steps'[i].data = data
  /\ \A k \in StepNumbers : k # i => steps'[k] = steps[k]
  /\ \A k : DoneAt(k)' = {}

\* Step i is done and not yet recorded.
Committed(w, i, data) ==
  /\ UNCHANGED sagaVars
  /\ DoneAt(i)' = {w} /\ txn'[w].data = data
  /\ \A k : k # i => DoneAt(k)' = {}

LEMMA Records ==
  ASSUME Body, NEW w \in Workers, txn[w] # Idle, txn[w].op \in {"exec", "done"},
         NEW data \in Result, txn[w].i = 1 => data.journal \in JournalIds,
         txn[w].i = 0 => invoice.status # "POSTED",
         NEW found, Record(w, found, data), UNCHANGED faultVars,
         found.current \in {saga.current, NULL}, found.journal \in {saga.journal, 0},
         EffectParts'
  PROVE  Body'
<1>1. PICK r : r = txn[w]
  OBVIOUS
<1>2. /\ \A v \in Workers : v # w => txn[v] = Idle
      /\ Fits(r) /\ Active
      /\ r.i \in StepNumbers /\ r.journal \in JournalIds \cup {NULL}
      /\ saga # NULL /\ saga.status # "COMPLETED" /\ saga \in SagaRow
  BY <1>1, Runs, TxnTypes DEF Fits, Body, Types
<1>3. PICK i \in StepNumbers : i = r.i
  BY <1>2
<1>4. Ahead(i) /\ saga.current = i /\ (i >= 2 => r.journal = steps[1].data.journal)
  BY <1>1, <1>2, <1>3 DEF Fits, Ahead
<1>5. PICK j \in JournalIds \cup {NULL} : j = IF i = 1 THEN data.journal ELSE r.journal
  BY <1>1, <1>2, <1>3
<1>6. PICK t : t = [op |-> "at", i |-> i + 1, journal |-> j]
  OBVIOUS
<1>7. /\ txn' = [txn EXCEPT ![w] = t]
      /\ steps' = [steps EXCEPT ![i] = [status |-> "COMPLETED", data |-> data]]
      /\ saga' = [saga EXCEPT !.current = Written(found.current, i + 1, @),
                              !.journal = Written(found.journal, j, @)]
  BY <1>1, <1>3, <1>5, <1>6 DEF Record, Continue
<1>8. /\ saga' \in SagaRow /\ saga'.current = i + 1 /\ saga'.journal = j
      /\ saga'.status = saga.status
  <2>1. i + 1 \in 0 .. 5 /\ i + 1 # i /\ i + 1 # NULL
    BY NullAssumption DEF StepNumbers
  <2>2. Written(found.current, i + 1, saga.current) = i + 1
    BY <1>4, <2>1 DEF Written
  <2>3. j # 0
    BY <1>5, NullAssumption DEF JournalIds
  <2>4. Written(found.journal, j, saga.journal) = j
    BY <2>3 DEF Written
  <2>5. saga' = [saga EXCEPT !.current = i + 1, !.journal = j]
    BY <1>7, <2>2, <2>4
  <2> QED
    BY <1>2, <2>1, <2>5 DEF SagaRow
<1>9. saga' # NULL
  BY <1>8, NullAssumption
<1>10. /\ steps' \in [StepNumbers -> StepRow]
       /\ steps'[i].status = "COMPLETED" /\ steps'[i].data = data
       /\ \A k \in StepNumbers : k # i => steps'[k] = steps[k]
  BY <1>7 DEF Body, Types, StepRow
<1>11. Ahead(i + 1)'
  BY <1>4, <1>8, <1>10 DEF Ahead, StepNumbers
<1>12. i + 1 >= 2 => j = steps'[1].data.journal
  BY <1>4, <1>5, <1>10 DEF StepNumbers
<1>13. t \in Txn /\ t # Idle
  BY <1>6, IdleAssumption DEF Txn, StepNumbers
<1>14. /\ One' /\ txn'[w] = t /\ Active'
       /\ \A v \in Workers : v # w => txn'[v] = Idle
  BY <1>2, <1>7, <1>13, OneGoesOn DEF Body
<1>15. Rows'
  BY <1>2, <1>8, <1>9, <1>11, <1>12 DEF Rows
<1>16. Fit'
  <2>1. Fits(t)'
    BY <1>2, <1>6, <1>8, <1>9, <1>11, <1>12, <1>13 DEF Fits, Backward
  <2> QED
    BY <1>14, <2>1 DEF Fit
<1>17. completed' /\ NoRetryAfterMark' => AfterCompletion'
  <2> SUFFICES ASSUME completed', NoRetryAfterMark'
               PROVE  FALSE
    OBVIOUS
  <2>1. invoice.status = "POSTED" /\ \A k \in StepNumbers : ~Done(k)
    BY <1>2, NothingDoneAgain DEF NoRetryAfterMark, faultVars
  <2>2. i = 0
    BY <1>4, <2>1 DEF Ahead, Done, StepNumbers
  <2> QED
    BY <1>1, <1>3, <2>1, <2>2
<1>18. disturbed' = {} => Calm'
  <2> SUFFICES ASSUME disturbed' = {}
               PROVE  CalmRow' /\ CalmFit'
    BY DEF Calm, EffectParts
  <2>1. Calm /\ saga.status = "EXECUTING"
    BY <1>1, <1>2 DEF Body, Calm, CalmFit, Calmly, faultVars
  <2>2. Calmly(t)'
    BY <1>6, <1>8, <2>1 DEF Calmly, Backward
  <2> QED
    BY <1>8, <1>14, <2>1, <2>2 DEF CalmRow, CalmFit, Terminal
<1>19. Types'
  BY <1>8, <1>10 DEF Types, EffectParts
<1> QED
  BY <1>14, <1>15, <1>16, <1>17, <1>18, <1>19 DEF Body, EffectParts

LEMMA Commits ==
  ASSUME Body, NEW w \in Workers, txn[w] # Idle, txn[w].op = "exec",
         OwnCommit(txn[w].i), NEW data \in Result,
         txn[w].i = 1 => data.journal \in JournalIds,
         txn[w].i = 4 => /\ data.prior # NULL
                         /\ invoice' = [status |-> "POSTED", journal |-> txn[w].journal]
                         /\ disturbed = {} => data.prior = "APPROVED",
         Succeed(w, data), UNCHANGED faultVars,
         EffectParts'
  PROVE  Body'
<1>1. PICK r : r = txn[w]
  OBVIOUS
<1>2. /\ \A v \in Workers : v # w => txn[v] = Idle
      /\ Fits(r) /\ Active
      /\ r.i \in StepNumbers /\ r.journal \in JournalIds \cup {NULL}
      /\ saga # NULL /\ saga.status # "COMPLETED" /\ saga \in SagaRow
  BY <1>1, Runs, TxnTypes DEF Fits, Body, Types
<1>3. r.i \in {1, 3, 4} /\ commitsInStep
  BY <1>1 DEF OwnCommit
<1>4. PICK t : t = [op |-> "done", i |-> r.i, journal |-> r.journal, data |-> data]
  OBVIOUS
<1>5. txn' = [txn EXCEPT ![w] = t] /\ UNCHANGED <<saga, steps>>
  BY <1>1, <1>4 DEF Succeed, Continue, sagaVars
<1>6. t \in Txn /\ t # Idle
  BY <1>2, <1>4, IdleAssumption DEF Txn
<1>7. /\ One' /\ txn'[w] = t /\ Active'
      /\ \A v \in Workers : v # w => txn'[v] = Idle
  BY <1>2, <1>5, <1>6, OneGoesOn DEF Body
<1>8. Ahead(r.i) /\ Ahead(r.i)' /\ (r.i >= 2 => r.journal = steps[1].data.journal)
  BY <1>1, <1>2, <1>5 DEF Fits, Ahead
<1>9. Fits(t)'
  BY <1>1, <1>2, <1>3, <1>4, <1>5, <1>6, <1>8 DEF Fits, Backward, faultVars
<1>10. Fit'
  BY <1>7, <1>9 DEF Fit
<1>11. Rows'
  BY <1>2, <1>5 DEF Body, Rows, Ahead
<1>12. completed' /\ NoRetryAfterMark' => AfterCompletion'
  <2> SUFFICES ASSUME completed', NoRetryAfterMark'
               PROVE  FALSE
    OBVIOUS
  <2>1. \A k \in StepNumbers : ~Done(k)
    BY <1>1, <1>2, NothingDoneAgain DEF NoRetryAfterMark, faultVars
  <2> QED
    BY <1>3, <1>8, <2>1 DEF Ahead, Done, StepNumbers
<1>13. disturbed' = {} => Calm'
  <2> SUFFICES ASSUME disturbed' = {}
               PROVE  CalmRow' /\ CalmFit'
    BY DEF Calm, EffectParts
  <2>1. Calm /\ saga.status = "EXECUTING"
    BY <1>1, <1>2 DEF Body, Calm, CalmFit, Calmly, faultVars
  <2>2. Calmly(t)'
    BY <1>1, <1>3, <1>4, <1>5, <2>1 DEF Calmly, Backward, faultVars
  <2> QED
    BY <1>5, <1>7, <2>1, <2>2 DEF CalmRow, CalmFit, Terminal
<1>14. Types'
  BY <1>5 DEF Body, Types, EffectParts
<1> QED
  BY <1>7, <1>10, <1>11, <1>12, <1>13, <1>14 DEF Body, EffectParts

\* A step has returned success: its effects are recorded or committed.
LEMMA Succeeds ==
  ASSUME Body, NEW w \in Workers, txn[w] # Idle, txn[w].op = "exec",
         NEW i \in StepNumbers, txn[w].i = i, NEW data \in Result,
         i = 0 => invoice.status # "POSTED",
         i = 1 => data.journal \in JournalIds,
         i = 4 => /\ data.prior # NULL
                  /\ invoice' = [status |-> "POSTED", journal |-> txn[w].journal]
                  /\ disturbed = {} => data.prior = "APPROVED",
         Succeed(w, data), UNCHANGED faultVars,
         Recorded(i, data) \/ (OwnCommit(i) /\ Committed(w, i, data)) => EffectParts'
  PROVE  Body'
<1>1. PICK r : r = txn[w]
  OBVIOUS
<1>2. /\ \A v \in Workers : v # w => txn[v] = Idle
      /\ Fits(r) /\ r \in [op : {"exec"}, i : StepNumbers,
                           journal : JournalIds \cup {NULL}, found : SagaRow]
  BY <1>1, Runs, TxnTypes
<1>3. CASE OwnCommit(i)
  <2>1. PICK t : t = [op |-> "done", i |-> i, journal |-> r.journal, data |-> data]
    OBVIOUS
  <2>2. txn' = [txn EXCEPT ![w] = t] /\ UNCHANGED sagaVars
    BY <1>1, <1>3, <2>1 DEF Succeed, Continue
  <2>3. t # Idle /\ t.op = "done" /\ t.i = i /\ t.data = data
    BY <1>2, <2>1, IdleAssumption DEF Txn
  <2>4. /\ txn'[w] = t
        /\ \A k : DoneAt(k)' = IF t # Idle /\ t.op = "done" /\ t.i = k THEN {w} ELSE {}
    <3>1. One /\ txn' = [txn EXCEPT ![w] = t]
      BY <2>2 DEF Body
    <3>2. \A v \in Workers : v # w => txn[v] = Idle
      BY <1>2
    <3>3. /\ txn'[w] = t
          /\ \A k : DoneAt(k)' = IF t # Idle /\ t.op = "done" /\ t.i = k THEN {w} ELSE {}
      BY <3>1, <3>2, OneGoesOn
    <3> QED
      BY <3>3
  <2>5. Committed(w, i, data)
    BY <2>2, <2>3, <2>4 DEF Committed
  <2> QED
    BY <1>3, <2>5, Commits
<1>4. CASE ~OwnCommit(i)
  <2>1. Record(w, r.found, data)
    BY <1>1, <1>4 DEF Succeed
  <2>2. PICK j : j = IF i = 1 THEN data.journal ELSE r.journal
    OBVIOUS
  <2>3. PICK t : t = [op |-> "at", i |-> i + 1, journal |-> j]
    OBVIOUS
  <2>4. /\ txn' = [txn EXCEPT ![w] = t] /\ t.op = "at"
        /\ steps' = [steps EXCEPT ![i] = [status |-> "COMPLETED", data |-> data]]
    BY <1>1, <2>1, <2>2, <2>3 DEF Record, Continue
  <2>5. \A k : DoneAt(k)' = {}
    BY <1>2, <2>4, OneGoesOn DEF Body
  <2>6. Recorded(i, data)
    BY <2>4, <2>5 DEF Recorded, Body, Types
  <2>7. r.found.current \in {saga.current, NULL} /\ r.found.journal \in {saga.journal, 0}
    BY <1>1, <1>2 DEF Fits
  <2>8. EffectParts'
    BY <2>6
  <2> QED
    BY <1>1, <2>1, <2>7, <2>8, Records
<1> QED
  BY <1>3, <1>4

\* An executor in step i, or that has committed it: the steps before it are done,
\* and it and those after it are not.
LEMMA Performs ==
  ASSUME Body, NEW w \in Workers, txn[w] # Idle, NEW i \in StepNumbers, txn[w].i = i,
         txn[w].op \in {"exec", "done"}
  PROVE  /\ Ahead(i) /\ Fits(txn[w])
         /\ \A k \in StepNumbers : Done(k) <=> k < i
         /\ \A k \in StepNumbers : steps[k].status = "COMPLETED" <=> k < i
         /\ i >= 2 => txn[w].journal = steps[1].data.journal
         /\ txn[w].op = "exec" => \A k : DoneAt(k) = {}
         /\ \A k : k # i => DoneAt(k) = {}
<1>1. Fits(txn[w]) /\ Ahead(i) /\ (i >= 2 => txn[w].journal = steps[1].data.journal)
  BY Runs DEF Fits
<1>2. \A k \in StepNumbers : IF k < i THEN steps[k].status = "COMPLETED"
                             ELSE steps[k].status \in {"PENDING", "EXECUTING", "FAILED"}
  BY <1>1 DEF Ahead
<1>3. \A k \in StepNumbers :
        (Done(k) <=> k < i) /\ (steps[k].status = "COMPLETED" <=> k < i)
  BY <1>2 DEF Done
<1> QED
  BY <1>1, <1>3, Runs

LEMMA RecordStepInd ==
  ASSUME Body, NEW w \in Workers, RecordStep(w)
  PROVE  Body'
<1>1. PICK r : r = txn[w]
  OBVIOUS
<1>2. PICK found : found = [current |-> NULL, journal |-> 0]
  OBVIOUS
<1>3. /\ r # Idle /\ r.op = "done" /\ Record(w, found, r.data)
      /\ UNCHANGED effectVars /\ UNCHANGED faultVars
  BY <1>1, <1>2 DEF RecordStep, Running
<1>4. /\ \A v \in Workers : v # w => txn[v] = Idle
      /\ Fits(r) /\ r \in [op : {"done"}, i : StepNumbers,
                           journal : JournalIds \cup {NULL}, data : Result]
  BY <1>1, <1>3, Runs, TxnTypes
<1>5. PICK i \in StepNumbers : i = r.i
  BY <1>4
<1>6. i \in {1, 3, 4} /\ commitsInStep /\ (i = 1 => r.data.journal \in JournalIds)
      /\ (i = 4 => /\ r.data.prior # NULL
                   /\ invoice.status = "POSTED" /\ invoice.journal = r.journal)
  BY <1>3, <1>4, <1>5 DEF Fits
<1>7. Recorded(i, r.data)
  <2>1. PICK t : t = [op |-> "at", i |-> i + 1,
                      journal |-> IF i = 1 THEN r.data.journal ELSE r.journal]
    OBVIOUS
  <2>2. /\ txn' = [txn EXCEPT ![w] = t] /\ t.op = "at"
        /\ steps' = [steps EXCEPT ![i] = [status |-> "COMPLETED", data |-> r.data]]
    BY <1>1, <1>3, <1>5, <2>1 DEF Record, Continue
  <2>3. \A k : DoneAt(k)' = {}
    BY <1>4, <2>2, OneGoesOn DEF Body
  <2> QED
    BY <2>2, <2>3 DEF Recorded, Body, Types
<1>8. /\ \A k \in StepNumbers : Done(k) <=> k < i
      /\ \A k \in StepNumbers : steps[k].status = "COMPLETED" <=> k < i
      /\ i >= 2 => r.journal = steps[1].data.journal
      /\ \A k : k # i => DoneAt(k) = {}
      /\ DoneAt(i) = {w}
  BY <1>1, <1>3, <1>5, Performs, Runs
<1>9. /\ \A k \in StepNumbers : Done(k)' <=> k <= i
      /\ \A k \in StepNumbers : steps'[k].status = "COMPLETED" <=> k <= i
      /\ 1 \in StepNumbers /\ 2 \in StepNumbers /\ 3 \in StepNumbers /\ 4 \in StepNumbers
  BY <1>7, <1>8 DEF Recorded, Done, StepNumbers
<1>10. EffectParts'
  <2>1. Results'
    BY <1>3, <1>6, <1>7, <1>8, <1>9 DEF Body, Results, Recorded, effectVars
  <2>2. NoCleanup' => Ledger'
    <3> SUFFICES ASSUME NoCleanup'
                 PROVE  Ledger'
      OBVIOUS
    <3>1. Ledger
      BY <1>3 DEF Body, NoCleanup, faultVars
    <3>2. i = 1 => posted = NULL
      BY <1>8, <1>9, <3>1 DEF Ledger
    <3> QED
      BY <1>3, <1>6, <1>7, <1>8, <1>9, <3>1, <3>2 DEF Ledger, Recorded, effectVars
  <2>3. NoCleanup' /\ (disturbed' = {} \/ ~commitsInStep') => Accounted'
    <3> SUFFICES ASSUME NoCleanup', disturbed' = {} \/ ~commitsInStep'
                 PROVE  Accounted'
      OBVIOUS
    <3>1. Accounted
      BY <1>3 DEF Body, NoCleanup, faultVars
    <3>2. \A j \in JournalIds : journals[j] # "NONE" =>
            Done(1)' /\ j = steps'[1].data.journal
      BY <1>1, <1>7, <1>8, <1>9, <3>1 DEF Accounted, Recorded
    <3>3. \A x \in tax : Done(3)' /\ x \in steps'[3].data.tax
      BY <1>1, <1>7, <1>8, <1>9, <3>1 DEF Accounted, Recorded
    <3> QED
      BY <1>3, <3>2, <3>3 DEF Accounted, effectVars
  <2>4. disturbed' = {} => CalmEffects'
    <3> SUFFICES ASSUME disturbed' = {}
                 PROVE  CalmEffects'
      OBVIOUS
    <3>1. CalmEffects /\ Calmly(r)
      BY <1>1, <1>3 DEF Body, Calm, CalmFit, faultVars
    <3>2. \A k \in StepNumbers : ~Done(k)' => Gone(k)
      <4> SUFFICES ASSUME NEW k \in StepNumbers, ~Done(k)'
                   PROVE  Gone(k)
        OBVIOUS
      <4>1. k # i /\ ~Done(k) /\ DoneAt(k) = {}
        BY <1>8, <1>9 DEF StepNumbers
      <4> QED
        BY <3>1, <4>1 DEF CalmEffects
    <3>4. \A k : Gone(k)' <=> Gone(k)
      BY <1>3 DEF Gone, Live, effectVars
    <3>3. Done(4)' => steps'[4].data.prior = "APPROVED"
      BY <1>3, <1>5, <1>7, <1>8, <1>9, <3>1 DEF CalmEffects, Calmly, Recorded
    <3> QED
      BY <3>2, <3>3, <3>4 DEF CalmEffects
  <2> QED
    BY <1>3, <2>1, <2>2, <2>3, <2>4 DEF EffectParts, Body, Types, effectVars
<1> QED
  BY <1>1, <1>2, <1>3, <1>4, <1>5, <1>6, <1>10, Records

\* The steps' own writes: which rows a step that goes on leaves as they were, and
\* what was done before and is done now.
LEMMA AfterStep ==
  ASSUME Body, NEW w \in Workers, txn[w] # Idle, txn[w].op = "exec",
         NEW i \in StepNumbers, txn[w].i = i, NEW data,
         Recorded(i, data) \/ (OwnCommit(i) /\ Committed(w, i, data))
  PROVE  /\ \A k \in StepNumbers : k # i => steps'[k] = steps[k]
         /\ \A k \in StepNumbers : k # i => (Done(k)' <=> k < i)
         /\ \A k : k # i => DoneAt(k)' = {}
         /\ \/ Done(i)' /\ steps'[i].data = data /\ steps'[i].status = "COMPLETED"
               /\ DoneAt(i)' = {}
            \/ ~Done(i)' /\ steps'[i] = steps[i] /\ steps'[i].status # "COMPLETED"
               /\ DoneAt(i)' = {w} /\ txn'[w].data = data
<1>1. /\ \A k \in StepNumbers : Done(k) <=> k < i
      /\ \A k \in StepNumbers : steps[k].status = "COMPLETED" <=> k < i
      /\ \A k : DoneAt(k) = {}
  BY Performs
<1>2. ~(i < i)
  BY DEF StepNumbers
<1> QED
  BY <1>1, <1>2 DEF Recorded, Committed, Done, sagaVars

LEMMA ValidateInvoiceInd ==
  ASSUME Body, NEW w \in Workers, ValidateInvoice(w)
  PROVE  Body'
<1>1. PICK i \in StepNumbers : i = 0
  BY DEF StepNumbers
<1>2. PICK data : data = NoResult
  OBVIOUS
<1>3. /\ txn[w] # Idle /\ txn[w].op = "exec" /\ txn[w].i = i
      /\ invoice.status = "APPROVED" /\ Succeed(w, data)
      /\ UNCHANGED effectVars /\ UNCHANGED faultVars
  BY <1>1, <1>2 DEF ValidateInvoice, Running
<1>4. data \in Result
  BY <1>2 DEF NoResult, Result
<1>5. ASSUME Recorded(i, data) \/ (OwnCommit(i) /\ Committed(w, i, data))
      PROVE  EffectParts'
  <2>1. /\ \A k \in StepNumbers : k # i => steps'[k] = steps[k]
        /\ \A k \in StepNumbers : k # i => ~Done(k)'
        /\ \A k : k # i => DoneAt(k)' = {}
    BY <1>1, <1>3, <1>5, AfterStep DEF StepNumbers
  <2>2. /\ \A k \in StepNumbers : ~Done(k)
        /\ \A k : DoneAt(k) = {}
    BY <1>1, <1>3, Performs DEF StepNumbers
  <2>3. 1 \in StepNumbers /\ 2 \in StepNumbers /\ 3 \in StepNumbers /\ 4 \in StepNumbers
        /\ i # 1 /\ i # 2 /\ i # 3 /\ i # 4
    BY <1>1 DEF StepNumbers
  <2>4. Results'
    BY <1>3, <2>1, <2>3 DEF Body, Results, effectVars
  <2>5. NoCleanup' => Ledger'
    BY <1>3, <2>1, <2>2, <2>3 DEF Body, NoCleanup, Ledger, faultVars, effectVars
  <2>6. NoCleanup' /\ (disturbed' = {} \/ ~commitsInStep') => Accounted'
    <3> SUFFICES ASSUME NoCleanup', disturbed' = {} \/ ~commitsInStep'
                 PROVE  Accounted'
      OBVIOUS
    <3>1. Accounted
      BY <1>3 DEF Body, NoCleanup, faultVars
    <3>2. (\A j \in JournalIds : journals[j] = "NONE") /\ tax = {}
      BY <2>2, <2>3, <3>1 DEF Accounted
    <3> QED
      BY <1>3, <3>2 DEF Accounted, effectVars
  <2>7. disturbed' = {} => CalmEffects'
    <3> SUFFICES ASSUME disturbed' = {}
                 PROVE  CalmEffects'
      OBVIOUS
    <3>1. CalmEffects
      BY <1>3 DEF Body, Calm, faultVars
    <3>2. \A k \in StepNumbers : Gone(k)
      BY <2>2, <3>1 DEF CalmEffects
    <3>3. \A k : Gone(k)' <=> Gone(k)
      BY <1>3 DEF Gone, Live, effectVars
    <3> QED
      BY <2>1, <2>3, <3>2, <3>3 DEF CalmEffects
  <2> QED
    BY <1>3, <2>4, <2>5, <2>6, <2>7 DEF EffectParts, Body, Types, effectVars
<1> QED
  BY <1>1, <1>3, <1>4, <1>5, Succeeds

LEMMA CreateJournalInd ==
  ASSUME Body, NEW w \in Workers, CreateJournal(w)
  PROVE  Body'
<1>1. PICK i \in StepNumbers : i = 1
  BY DEF StepNumbers
<1>2. PICK j \in JournalIds :
        /\ journals[j] = "NONE" /\ journals' = [journals EXCEPT ![j] = "APPROVED"]
        /\ Succeed(w, [NoResult EXCEPT !.journal = j])
  BY DEF CreateJournal, Fresh
<1>3. PICK data : data = [NoResult EXCEPT !.journal = j]
  OBVIOUS
<1>4. /\ txn[w] # Idle /\ txn[w].op = "exec" /\ txn[w].i = i /\ Succeed(w, data)
      /\ UNCHANGED <<posted, reversed, tax, invoice>> /\ UNCHANGED faultVars
  BY <1>1, <1>2, <1>3 DEF CreateJournal, Running
<1>5. data \in Result /\ data.journal = j
  BY <1>3 DEF NoResult, Result
<1>6. /\ journals' \in [JournalIds -> JournalStatuses] /\ journals'[j] = "APPROVED"
      /\ \A k \in JournalIds : k # j => journals'[k] = journals[k]
  BY <1>2 DEF Body, Types, JournalStatuses
<1>7. ASSUME Recorded(i, data) \/ (OwnCommit(i) /\ Committed(w, i, data))
      PROVE  EffectParts'
  <2>1. /\ \A k \in StepNumbers : k # i => steps'[k] = steps[k]
        /\ \A k \in StepNumbers : k > i => ~Done(k)'
        /\ \A k : k # i => DoneAt(k)' = {}
        /\ \/ Done(i)' /\ steps'[i].data = data /\ DoneAt(i)' = {}
           \/ ~Done(i)' /\ DoneAt(i)' = {w} /\ txn'[w].data = data
    BY <1>1, <1>4, <1>7, AfterStep DEF StepNumbers
  <2>2. /\ \A k \in StepNumbers : k >= i => ~Done(k)
        /\ \A k : DoneAt(k) = {}
    BY <1>1, <1>4, Performs DEF StepNumbers
  <2>3. 1 \in StepNumbers /\ 2 \in StepNumbers /\ 3 \in StepNumbers /\ 4 \in StepNumbers
        /\ i = 1 /\ 2 > i /\ 3 > i /\ 4 > i /\ 2 >= i /\ 3 >= i /\ 4 >= i /\ i >= i
    BY <1>1 DEF StepNumbers
  <2>4. Results'
    BY <1>4, <1>5, <2>1, <2>3 DEF Body, Results, Done
  <2>5. NoCleanup' => Ledger'
    <3> SUFFICES ASSUME NoCleanup'
                 PROVE  Ledger'
      OBVIOUS
    <3>1. Ledger
      BY <1>4 DEF Body, NoCleanup, faultVars
    <3>2. posted = NULL /\ ~reversed /\ \A k \in JournalIds : journals[k] # "POSTED"
      BY <2>2, <2>3, <3>1, NullAssumption DEF Ledger, Done
    <3>3. \A k \in JournalIds : journals'[k] # "POSTED"
      BY <1>6, <3>2
    <3>4. ~Done(2)' /\ steps'[4].status # "COMPLETED"
      BY <2>1, <2>2, <2>3 DEF Done
    <3> QED
      BY <1>4, <3>2, <3>3, <3>4, NullAssumption DEF Ledger
  <2>6. NoCleanup' /\ (disturbed' = {} \/ ~commitsInStep') => Accounted'
    <3> SUFFICES ASSUME NoCleanup', disturbed' = {} \/ ~commitsInStep'
                 PROVE  Accounted'
      OBVIOUS
    <3>1. Accounted
      BY <1>4 DEF Body, NoCleanup, faultVars
    <3>2. (\A k \in JournalIds : journals[k] = "NONE") /\ tax = {}
      BY <2>2, <2>3, <3>1 DEF Accounted
    <3>3. \A k \in JournalIds : journals'[k] # "NONE" => k = j
      BY <1>6, <3>2
    <3> QED
      BY <1>4, <1>5, <2>1, <2>3, <3>2, <3>3 DEF Accounted
  <2>7. disturbed' = {} => CalmEffects'
    <3> SUFFICES ASSUME disturbed' = {}
                 PROVE  CalmEffects'
      OBVIOUS
    <3>1. CalmEffects
      BY <1>4 DEF Body, Calm, faultVars
    <3>2. \A k \in StepNumbers : k > i => Gone(k)
      BY <2>2, <2>3, <3>1 DEF CalmEffects, StepNumbers
    <3>3. \A k \in StepNumbers : k # i => (Gone(k)' <=> Gone(k))
      BY <1>4, <2>3 DEF Gone
    <3>4. Gone(0)' /\ \A k \in StepNumbers : k = 0 \/ k = i \/ k > i
      BY <1>1 DEF Gone, StepNumbers
    <3>5. \A k \in StepNumbers : k > i => k # i
      BY <1>1 DEF StepNumbers
    <3>6. \A k \in StepNumbers : ~Done(k)' => Gone(k)' \/ DoneAt(k)' # {}
      BY <2>1, <3>2, <3>3, <3>4, <3>5
    <3> QED
      BY <2>1, <2>3, <3>6 DEF CalmEffects
  <2> QED
    BY <1>4, <1>6, <2>4, <2>5, <2>6, <2>7 DEF EffectParts, Body, Types
<1> QED
  BY <1>1, <1>4, <1>5, <1>7, Succeeds

LEMMA PostToLedgerInd ==
  ASSUME Body, NEW w \in Workers, PostToLedger(w)
  PROVE  Body'
<1>1. PICK i \in StepNumbers : i = 2
  BY DEF StepNumbers
<1>2. PICK j : j = txn[w].journal
  OBVIOUS
<1>3. PICK data : data = [NoResult EXCEPT !.journal = j]
  OBVIOUS
<1>4. /\ txn[w] # Idle /\ txn[w].op = "exec" /\ txn[w].i = i /\ Succeed(w, data)
      /\ UNCHANGED <<reversed, tax, invoice>> /\ UNCHANGED faultVars
      /\ \/ /\ posted # NULL
            /\ UNCHANGED <<posted, journals>>
         \/ /\ posted = NULL
            /\ journals[j] = "APPROVED"
            /\ posted' = j
            /\ journals' = [journals EXCEPT ![j] = "POSTED"]
  BY <1>1, <1>2, <1>3 DEF PostToLedger, Running
<1>5. /\ \A k \in StepNumbers : k >= i => ~Done(k)
      /\ \A k : DoneAt(k) = {}
      /\ j = steps[1].data.journal
      /\ Done(1)
  BY <1>1, <1>2, <1>4, Performs DEF StepNumbers
<1>6. j \in JournalIds
  BY <1>5 DEF Body, Results
<1>7. data \in Result /\ data.journal = j
  BY <1>3, <1>6 DEF NoResult, Result
<1>8. /\ journals' \in [JournalIds -> JournalStatuses]
      /\ \A k \in JournalIds : k # j => journals'[k] = journals[k]
      /\ posted = NULL => journals'[j] = "POSTED"
      /\ posted # NULL => journals'[j] = journals[j]
  BY <1>4, <1>6 DEF Body, Types, JournalStatuses
<1>9. posted' \in JournalIds \cup {NULL}
  BY <1>4, <1>6 DEF Body, Types
<1>10. ASSUME Recorded(i, data) \/ (OwnCommit(i) /\ Committed(w, i, data))
       PROVE  EffectParts'
  <2>1. /\ \A k \in StepNumbers : k # i => steps'[k] = steps[k]
        /\ \A k : DoneAt(k)' = {}
        /\ Done(i)' /\ steps'[i].data = data /\ steps'[i].status = "COMPLETED"
    <3>1. Recorded(i, data)
      BY <1>1, <1>10 DEF OwnCommit
    <3> QED
      BY <3>1 DEF Recorded, Done
  <2>2. 1 \in StepNumbers /\ 2 \in StepNumbers /\ 3 \in StepNumbers /\ 4 \in StepNumbers
        /\ i = 2 /\ 3 > i /\ 4 > i /\ 2 >= i /\ 3 >= i /\ 4 >= i /\ 1 # i /\ 3 # i /\ 4 # i
    BY <1>1 DEF StepNumbers
  <2>3. Results'
    BY <1>4, <2>1, <2>2 DEF Body, Results, Done
  <2>4. NoCleanup' => Ledger'
    <3> SUFFICES ASSUME NoCleanup'
                 PROVE  Ledger'
      OBVIOUS
    <3>1. Ledger
      BY <1>4 DEF Body, NoCleanup, faultVars
    <3>2. posted = NULL /\ ~reversed /\ \A k \in JournalIds : journals[k] # "POSTED"
      BY <1>5, <2>2, <3>1, NullAssumption DEF Ledger, Done
    <3>3. posted' = j /\ \A k \in JournalIds : journals'[k] = "POSTED" <=> k = j
      BY <1>4, <1>6, <1>8, <3>2
    <3>4. Done(1)' /\ j = steps'[1].data.journal /\ steps'[4].status # "COMPLETED"
      BY <1>5, <2>1, <2>2 DEF Done
    <3> QED
      BY <1>4, <1>6, <1>7, <2>1, <2>2, <3>2, <3>3, <3>4, NullAssumption DEF Ledger
  <2>5. NoCleanup' /\ (disturbed' = {} \/ ~commitsInStep') => Accounted'
    <3> SUFFICES ASSUME NoCleanup', disturbed' = {} \/ ~commitsInStep'
                 PROVE  Accounted'
      OBVIOUS
    <3>1. Accounted
      BY <1>4 DEF Body, NoCleanup, faultVars
    <3>2. (\A k \in JournalIds : journals[k] # "NONE" => k = j) /\ tax = {}
      BY <1>5, <2>2, <3>1 DEF Accounted
    <3>3. \A k \in JournalIds : journals'[k] # "NONE" => k = j
      BY <1>8, <3>2
    <3>4. Done(1)' /\ j = steps'[1].data.journal
      BY <1>5, <2>1, <2>2 DEF Done
    <3> QED
      BY <1>4, <3>2, <3>3, <3>4 DEF Accounted
  <2>6. disturbed' = {} => CalmEffects'
    <3> SUFFICES ASSUME disturbed' = {}
                 PROVE  CalmEffects'
      OBVIOUS
    <3>1. CalmEffects
      BY <1>4 DEF Body, Calm, faultVars
    <3>2. Gone(3) /\ Gone(4)
      BY <1>5, <2>2, <3>1 DEF CalmEffects
    <3>3. Gone(3)' /\ Gone(4)' /\ Gone(0)'
      BY <1>4, <3>2 DEF Gone
    <3>4. \A k \in StepNumbers : k = 0 \/ k = 1 \/ k = i \/ k = 3 \/ k = 4
      BY <1>1 DEF StepNumbers
    <3>5. Done(1)' /\ Done(i)' /\ ~Done(4)'
      BY <1>5, <2>1, <2>2 DEF Done
    <3> QED
      BY <2>1, <3>3, <3>4, <3>5 DEF CalmEffects
  <2> QED
    BY <1>4, <1>8, <1>9, <2>3, <2>4, <2>5, <2>6 DEF EffectParts, Body, Types
<1> QED
  BY <1>1, <1>4, <1>7, <1>10, Succeeds

LEMMA CreateTaxTransactionsInd ==
  ASSUME Body, NEW w \in Workers, CreateTaxTransactions(w)
  PROVE  Body'
<1>1. PICK i \in StepNumbers : i = 3
  BY DEF StepNumbers
<1>2. PICK data \in Result : Succeed(w, data) /\ tax' = tax \cup data.tax /\ data.tax \subseteq TaxIds
  <2>1. CASE tax' = tax /\ Succeed(w, NoResult)
    <3>1. NoResult \in Result /\ NoResult.tax = {}
      BY DEF NoResult, Result
    <3> QED
      BY <2>1, <3>1
  <2>2. CASE \E x \in Fresh(TaxIds \ tax) :
               tax' = tax \cup {x} /\ Succeed(w, [NoResult EXCEPT !.tax = {x}])
    <3>1. PICK x \in TaxIds :
            tax' = tax \cup {x} /\ Succeed(w, [NoResult EXCEPT !.tax = {x}])
      BY <2>2 DEF Fresh
    <3>2. [NoResult EXCEPT !.tax = {x}] \in Result
          /\ [NoResult EXCEPT !.tax = {x}].tax = {x}
      BY DEF NoResult, Result
    <3> QED
      BY <3>1, <3>2
  <2> QED
    BY <2>1, <2>2 DEF CreateTaxTransactions
<1>3. /\ txn[w] # Idle /\ txn[w].op = "exec" /\ txn[w].i = i
      /\ UNCHANGED <<journals, posted, reversed, invoice>> /\ UNCHANGED faultVars
  BY <1>1 DEF CreateTaxTransactions, Running
<1>4. /\ \A k \in StepNumbers : k >= i => ~Done(k)
      /\ \A k : DoneAt(k) = {}
      /\ Done(1) /\ Done(2)
  BY <1>1, <1>3, Performs DEF StepNumbers
<1>5. ASSUME Recorded(i, data) \/ (OwnCommit(i) /\ Committed(w, i, data))
      PROVE  EffectParts'
  <2>1. /\ \A k \in StepNumbers : k # i => steps'[k] = steps[k]
        /\ \A k : k # i => DoneAt(k)' = {}
        /\ \/ Done(i)' /\ steps'[i].data = data /\ DoneAt(i)' = {}
           \/ ~Done(i)' /\ DoneAt(i)' = {w} /\ txn'[w].data = data
    BY <1>1, <1>3, <1>5, AfterStep
  <2>2. 1 \in StepNumbers /\ 2 \in StepNumbers /\ 3 \in StepNumbers /\ 4 \in StepNumbers
        /\ i = 3 /\ 4 > i /\ 3 >= i /\ 4 >= i /\ 1 # i /\ 2 # i /\ 4 # i
    BY <1>1 DEF StepNumbers
  <2>3. /\ \A k \in {1, 2, 4} : Done(k)' <=> Done(k)
        /\ Done(1)' /\ Done(2)' /\ ~Done(4)'
    BY <1>4, <2>1, <2>2 DEF Done
  <2>4. Results'
    BY <1>3, <2>1, <2>2 DEF Body, Results, Done
  <2>5. NoCleanup' => Ledger'
    BY <1>3, <2>1, <2>2, <2>3 DEF Body, NoCleanup, Ledger, faultVars
  <2>6. NoCleanup' /\ (disturbed' = {} \/ ~commitsInStep') => Accounted'
    <3> SUFFICES ASSUME NoCleanup', disturbed' = {} \/ ~commitsInStep'
                 PROVE  Accounted'
      OBVIOUS
    <3>1. Accounted
      BY <1>3 DEF Body, NoCleanup, faultVars
    <3>2. (\A k \in JournalIds : journals[k] # "NONE" => k = steps'[1].data.journal)
          /\ tax = {}
      BY <1>4, <2>1, <2>2, <3>1 DEF Accounted
    <3>3. tax' = data.tax
      BY <1>2, <3>2
    <3> QED
      BY <1>3, <2>1, <2>2, <2>3, <3>2, <3>3 DEF Accounted
  <2>7. disturbed' = {} => CalmEffects'
    <3> SUFFICES ASSUME disturbed' = {}
                 PROVE  CalmEffects'
      OBVIOUS
    <3>1. CalmEffects
      BY <1>3 DEF Body, Calm, faultVars
    <3>2. Gone(4)
      BY <1>4, <2>2, <3>1 DEF CalmEffects
    <3>3. Gone(4)' /\ Gone(0)'
      BY <1>3, <3>2 DEF Gone
    <3>4. \A k \in StepNumbers : k = 0 \/ k = 1 \/ k = 2 \/ k = i \/ k = 4
      BY <1>1 DEF StepNumbers
    <3> QED
      BY <2>1, <2>3, <3>3, <3>4 DEF CalmEffects
  <2>8. tax' \subseteq TaxIds
    BY <1>2 DEF Body, Types
  <2> QED
    BY <1>3, <2>4, <2>5, <2>6, <2>7, <2>8 DEF EffectParts, Body, Types
<1> QED
  BY <1>1, <1>2, <1>3, <1>5, Succeeds

LEMMA UpdateInvoiceStatusInd ==
  ASSUME Body, NEW w \in Workers, UpdateInvoiceStatus(w)
  PROVE  Body'
<1>1. PICK i \in StepNumbers : i = 4
  BY DEF StepNumbers
<1>2. PICK data : data = [NoResult EXCEPT !.prior = invoice.status]
  OBVIOUS
<1>3. /\ txn[w] # Idle /\ txn[w].op = "exec" /\ txn[w].i = i /\ Succeed(w, data)
      /\ invoice' = [status |-> "POSTED", journal |-> txn[w].journal]
      /\ UNCHANGED <<journals, posted, reversed, tax>> /\ UNCHANGED faultVars
  BY <1>1, <1>2 DEF UpdateInvoiceStatus, Running
<1>4. /\ \A k \in StepNumbers : Done(k) <=> k < i
      /\ \A k : DoneAt(k) = {}
      /\ txn[w].journal = steps[1].data.journal
  BY <1>1, <1>3, Performs DEF StepNumbers
<1>5. 1 \in StepNumbers /\ 2 \in StepNumbers /\ 3 \in StepNumbers /\ 4 \in StepNumbers
      /\ i = 4 /\ 1 # i /\ 2 # i /\ 3 # i /\ ~(i < i)
      /\ Done(1) /\ Done(2) /\ Done(3) /\ ~Done(4)
  BY <1>1, <1>4 DEF StepNumbers
<1>6. txn[w].journal \in JournalIds
  BY <1>4, <1>5 DEF Body, Results
<1>7. invoice.status \in {"APPROVED", "POSTED"}
  BY DEF Body, Types
<1>8. data \in Result /\ data.prior = invoice.status /\ data.prior # NULL
  BY <1>2, <1>7, NullAssumption DEF NoResult, Result
<1>9. disturbed = {} => data.prior = "APPROVED"
  BY <1>4, <1>5, <1>8 DEF Body, Calm, CalmEffects, Gone
<1>10. invoice' \in [status : {"APPROVED", "POSTED"}, journal : JournalIds \cup {NULL}]
       /\ invoice'.status = "POSTED" /\ invoice'.journal = steps[1].data.journal
  BY <1>3, <1>4, <1>6
<1>11. ASSUME Recorded(i, data) \/ (OwnCommit(i) /\ Committed(w, i, data))
       PROVE  EffectParts'
  <2>1. /\ \A k \in StepNumbers : k # i => steps'[k] = steps[k]
        /\ \A k : k # i => DoneAt(k)' = {}
        /\ \/ Done(i)' /\ steps'[i].data = data /\ DoneAt(i)' = {}
           \/ ~Done(i)' /\ DoneAt(i)' = {w} /\ txn'[w].data = data
    BY <1>1, <1>3, <1>11, AfterStep
  <2>2. Done(1)' /\ Done(2)' /\ Done(3)'
    BY <1>5, <2>1 DEF Done
  <2>3. Results'
    BY <1>5, <1>8, <1>10, <2>1 DEF Body, Results, Done
  <2>4. NoCleanup' => Ledger'
    BY <1>3, <1>5, <1>10, <2>1, <2>2 DEF Body, NoCleanup, Ledger, faultVars
  <2>5. NoCleanup' /\ (disturbed' = {} \/ ~commitsInStep') => Accounted'
    BY <1>3, <1>4, <1>5, <2>1, <2>2 DEF Body, NoCleanup, Accounted, faultVars
  <2>6. disturbed' = {} => CalmEffects'
    <3>1. Gone(0)'
      BY DEF Gone
    <3>2. \A k \in StepNumbers : k = 0 \/ k = 1 \/ k = 2 \/ k = 3 \/ k = i
      BY <1>1 DEF StepNumbers
    <3>3. \A k \in StepNumbers : ~Done(k)' => Gone(k)' \/ DoneAt(k)' # {}
      BY <2>1, <2>2, <3>1, <3>2
    <3>4. disturbed' = {} /\ Done(4)' => steps'[4].data.prior = "APPROVED"
      BY <1>3, <1>5, <1>9, <2>1 DEF faultVars
    <3> QED
      BY <3>3, <3>4 DEF CalmEffects
  <2> QED
    BY <1>3, <1>10, <2>3, <2>4, <2>5, <2>6 DEF EffectParts, Body, Types
<1> QED
  BY <1>1, <1>3, <1>8, <1>9, <1>11, Succeeds

\* No completed step is met on the way forward.
LEMMA SkipStepInd ==
  ASSUME Body, NEW w \in Workers, SkipStep(w)
  PROVE  Body'
<1>1. /\ txn[w] # Idle /\ txn[w].op = "at" /\ txn[w].i \in StepNumbers
      /\ steps[txn[w].i].status = "COMPLETED"
  BY DEF SkipStep, Running
<1>2. Ahead(txn[w].i) /\ ~(txn[w].i < txn[w].i)
  BY <1>1, Runs DEF Fits, StepNumbers
<1> QED
  BY <1>1, <1>2 DEF Ahead

-----------------------------------------------------------------------------
(* Compensations. *)

\* The rows of the steps once step i was undone.
UndoneRows(i) ==
  /\ steps'[i].status \in {"COMPENSATING", "COMPENSATED"}
  /\ steps'[i].data = steps[i].data
  /\ \A k \in StepNumbers : k # i => steps'[k] = steps[k]
  /\ \A k : DoneAt(k)' = {}

LEMMA Undone ==
  ASSUME Body, NEW w \in Workers, txn[w] # Idle, txn[w].op = "comp",
         NEW i \in StepNumbers, txn[w].i = i, Compensated(w), UNCHANGED faultVars,
         UndoneRows(i) =>
           /\ EffectParts'
           /\ disturbed = {} /\ (\A k \in StepNumbers : k > i => Gone(k)) =>
                \A k \in StepNumbers : k >= i => Gone(k)'
  PROVE  Body'
<1>1. PICK r : r = txn[w]
  OBVIOUS
<1>2. /\ \A v \in Workers : v # w => txn[v] = Idle
      /\ Fits(r) /\ Active /\ r \in [op : Backward, i : -1 .. 4, failed : BOOLEAN]
  BY <1>1, Runs, TxnTypes DEF Backward
<1>3. /\ saga # NULL /\ saga.status \notin {"COMPLETED", "PENDING", "EXECUTING"}
      /\ i \in 1 .. 4 /\ steps[i].status = "COMPENSATING"
  BY <1>1, <1>2 DEF Fits, Backward
<1>4. PICK t : t = IF OwnCommit(i) THEN [r EXCEPT !.op = "undone"]
                                   ELSE [r EXCEPT !.op = "back", !.i = i - 1]
  OBVIOUS
<1>5. PICK s : s = IF OwnCommit(i) THEN "COMPENSATING" ELSE "COMPENSATED"
  OBVIOUS
<1>6. /\ txn' = [txn EXCEPT ![w] = t] /\ saga' = saga
      /\ OwnCommit(i) => steps' = steps
      /\ ~OwnCommit(i) => steps' = [steps EXCEPT ![i].status = "COMPENSATED"]
  BY <1>1, <1>4 DEF Compensated, Continue, sagaVars
<1>7. /\ t \in [op : Backward, i : -1 .. 4, failed : BOOLEAN] /\ t.failed = r.failed
      /\ OwnCommit(i) => t.op = "undone" /\ t.i = i
      /\ ~OwnCommit(i) => t.op = "back" /\ t.i = i - 1
  <2>1. i - 1 \in -1 .. 4 /\ "back" \in Backward /\ "undone" \in Backward
    BY <1>3 DEF Backward
  <2> QED
    BY <1>1, <1>2, <1>4, <2>1
<1>8. t \in Txn /\ t # Idle
  BY <1>7, IdleAssumption DEF Txn, Backward
<1>9. /\ steps' \in [StepNumbers -> StepRow]
      /\ steps'[i].status = s /\ steps'[i].data = steps[i].data
      /\ \A k \in StepNumbers : k # i => steps'[k] = steps[k]
  <2>1. CASE OwnCommit(i)
    BY <1>3, <1>5, <1>6, <2>1 DEF Body, Types
  <2>2. CASE ~OwnCommit(i)
    BY <1>5, <1>6, <2>2, StepColumns DEF Body, Types, StepStatus
  <2> QED
    BY <2>1, <2>2
<1>10. /\ One' /\ txn'[w] = t /\ Active'
       /\ \A v \in Workers : v # w => txn'[v] = Idle
       /\ \A k : DoneAt(k)' = IF t # Idle /\ t.op = "done" /\ t.i = k THEN {w} ELSE {}
  BY <1>2, <1>6, <1>8, OneGoesOn DEF Body
<1>11. UndoneRows(i)
  BY <1>5, <1>7, <1>9, <1>10 DEF UndoneRows, Backward
<1>12. EffectParts'
  BY <1>11
<1>13. Types'
  BY <1>6, <1>9, <1>12 DEF Body, Types, EffectParts
<1>14. Rows'
  <2>1. steps'[1].data = steps[1].data
    BY <1>9 DEF StepNumbers
  <2> QED
    BY <1>3, <1>6, <2>1 DEF Body, Rows
<1>15. Fits(t)'
  <2>1. CASE OwnCommit(i)
    BY <1>3, <1>5, <1>6, <1>7, <1>8, <1>9, <2>1 DEF Fits, Backward, OwnCommit, faultVars
  <2>2. CASE ~OwnCommit(i)
    BY <1>3, <1>6, <1>7, <1>8, <2>2 DEF Fits, Backward
  <2> QED
    BY <2>1, <2>2
<1>16. Fit'
  BY <1>10, <1>15 DEF Fit
<1>17. completed' /\ NoRetryAfterMark' => AfterCompletion'
  <2>1. Done(i)
    BY <1>3 DEF Done
  <2> QED
    BY <1>2, <2>1, NothingDoneAgain DEF NoRetryAfterMark, faultVars
<1>18. disturbed' = {} => Calm'
  <2> SUFFICES ASSUME disturbed' = {}
               PROVE  CalmRow' /\ CalmFit'
    BY <1>12 DEF Calm, EffectParts
  <2>1. Calm /\ Calmly(r) /\ disturbed = {}
    BY <1>1 DEF Body, Calm, CalmFit, faultVars
  <2>2. saga.status = "COMPENSATING" /\ r.op = "comp" /\ r.i = i
    BY <1>1, <2>1 DEF Calmly, Backward
  <2>3. /\ \A k \in StepNumbers : k < i =>
             steps[k].status \notin {"COMPENSATING", "COMPENSATED"}
        /\ ~r.failed => \A k \in StepNumbers :
             k > i => steps[k].status \notin {"COMPLETED", "COMPENSATING"} /\ Gone(k)
    BY <2>1, <2>2 DEF Calmly, Backward
  <2>4. ~r.failed => \A k \in StepNumbers : k >= i => Gone(k)'
    BY <1>11, <2>1, <2>3
  <2>5. Calmly(t)'
    <3>1. CASE OwnCommit(i)
      <4>1. \A k \in StepNumbers : k < i =>
              steps'[k].status \notin {"COMPENSATING", "COMPENSATED"}
        BY <1>6, <2>3, <3>1
      <4>2. ~r.failed => /\ Gone(i)'
                         /\ \A k \in StepNumbers : k > i =>
                              steps'[k].status \notin {"COMPLETED", "COMPENSATING"} /\ Gone(k)'
        BY <1>6, <2>3, <2>4, <3>1 DEF StepNumbers
      <4> QED
        BY <1>6, <1>7, <2>2, <3>1, <4>1, <4>2 DEF Calmly, Backward
    <3>2. CASE ~OwnCommit(i)
      <4>1. \A k \in StepNumbers : k <= i - 1 =>
              steps'[k].status \notin {"COMPENSATING", "COMPENSATED"}
        BY <1>9, <2>3 DEF StepNumbers
      <4>2. ~r.failed => \A k \in StepNumbers : k > i - 1 =>
              steps'[k].status \notin {"COMPLETED", "COMPENSATING"} /\ Gone(k)'
        BY <1>5, <1>9, <2>3, <2>4, <3>2 DEF StepNumbers
      <4> QED
        BY <1>6, <1>7, <2>2, <3>2, <4>1, <4>2 DEF Calmly, Backward
    <3> QED
      BY <3>1, <3>2
  <2>6. CalmFit'
    BY <1>10, <2>5 DEF CalmFit
  <2> QED
    BY <1>6, <1>10, <2>2, <2>6 DEF CalmRow, Terminal
<1> QED
  BY <1>10, <1>12, <1>13, <1>14, <1>16, <1>17, <1>18 DEF Body, EffectParts

\* What a step being undone had done.
LEMMA Undoes ==
  ASSUME Body, NEW w \in Workers, txn[w] # Idle, txn[w].op = "comp",
         NEW i \in StepNumbers, txn[w].i = i
  PROVE  /\ steps[i].status = "COMPENSATING" /\ Done(i)
         /\ \A k : DoneAt(k) = {}
         /\ UndoneRows(i) =>
              /\ \A k \in StepNumbers : Done(k)' <=> Done(k)
              /\ \A k \in StepNumbers : steps'[k].data = steps[k].data
              /\ \A k \in StepNumbers :
                   steps'[k].status = "COMPLETED" <=> steps[k].status = "COMPLETED"
              /\ \A k : DoneAt(k)' = {}
<1>1. steps[i].status = "COMPENSATING" /\ \A k : DoneAt(k) = {}
  BY Runs DEF Fits
<1> QED
  BY <1>1 DEF Done, UndoneRows

LEMMA VoidJournalInd ==
  ASSUME Body, NEW w \in Workers, VoidJournal(w)
  PROVE  Body'
<1>1. PICK i \in StepNumbers : i = 1
  BY DEF StepNumbers
<1>2. PICK j : j = steps[1].data.journal
  OBVIOUS
<1>3. /\ txn[w] # Idle /\ txn[w].op = "comp" /\ txn[w].i = i /\ Compensated(w)
      /\ journals' = [journals EXCEPT ![j] =
                        IF journals[j] \in {"VOID", "POSTED"} THEN journals[j] ELSE "VOID"]
      /\ UNCHANGED <<posted, reversed, tax, invoice>> /\ UNCHANGED faultVars
  BY <1>1, <1>2 DEF VoidJournal, Running
<1>4. /\ Done(1) /\ (\A k : DoneAt(k) = {}) /\ j \in JournalIds
  BY <1>1, <1>2, <1>3, Undoes DEF Body, Results
<1>5. /\ journals' \in [JournalIds -> JournalStatuses]
      /\ \A k \in JournalIds : k # j => journals'[k] = journals[k]
      /\ journals[j] = "POSTED" <=> journals'[j] = "POSTED"
      /\ journals'[j] \in {"POSTED", "VOID"}
  BY <1>3, <1>4 DEF Body, Types, JournalStatuses
<1>6. ASSUME UndoneRows(i)
      PROVE  EffectParts'
  <2>1. /\ \A k \in StepNumbers : Done(k)' <=> Done(k)
        /\ \A k \in StepNumbers : steps'[k].data = steps[k].data
        /\ \A k \in StepNumbers :
             steps'[k].status = "COMPLETED" <=> steps[k].status = "COMPLETED"
        /\ \A k : DoneAt(k)' = {}
        /\ 2 # i /\ steps'[2] = steps[2]
    BY <1>1, <1>3, <1>6, Undoes DEF UndoneRows, StepNumbers
  <2>2. 1 \in StepNumbers /\ 2 \in StepNumbers /\ 3 \in StepNumbers /\ 4 \in StepNumbers
    BY DEF StepNumbers
  <2>3. Results'
    BY <1>3, <2>1, <2>2 DEF Body, Results
  <2>4. NoCleanup' => Ledger'
    <3> SUFFICES ASSUME NoCleanup'
                 PROVE  Ledger'
      OBVIOUS
    <3>1. Ledger
      BY <1>3 DEF Body, NoCleanup, faultVars
    <3>2. \A k \in JournalIds : journals'[k] = "POSTED" <=> journals[k] = "POSTED"
      BY <1>5
    <3> QED
      BY <1>3, <2>1, <2>2, <3>1, <3>2 DEF Ledger
  <2>5. NoCleanup' /\ (disturbed' = {} \/ ~commitsInStep') => Accounted'
    <3> SUFFICES ASSUME NoCleanup', disturbed' = {} \/ ~commitsInStep'
                 PROVE  Accounted'
      OBVIOUS
    <3>1. Accounted
      BY <1>3 DEF Body, NoCleanup, faultVars
    <3>2. \A k \in JournalIds : journals'[k] # "NONE" =>
            Done(1)' /\ k = steps'[1].data.journal
      BY <1>2, <1>4, <1>5, <2>1, <2>2, <3>1 DEF Accounted
    <3> QED
      BY <1>3, <1>4, <2>1, <2>2, <3>1, <3>2 DEF Accounted
  <2>6. disturbed' = {} => CalmEffects'
    <3>1. \A k \in StepNumbers : k # i => (Gone(k)' <=> Gone(k))
      BY <1>1, <1>3 DEF Gone
    <3> QED
      BY <1>1, <1>3, <1>4, <2>1, <2>2, <3>1 DEF Body, Calm, CalmEffects, faultVars
  <2> QED
    BY <1>3, <1>5, <2>3, <2>4, <2>5, <2>6 DEF EffectParts, Body, Types
<1>7. ASSUME disturbed = {}, \A k \in StepNumbers : k > i => Gone(k)
      PROVE  \A k \in StepNumbers : k >= i => Gone(k)'
  <2>1. Ledger /\ Accounted
    BY <1>7 DEF Body, NoCleanup
  <2>2. Gone(2) /\ Gone(3) /\ Gone(4)
    BY <1>1, <1>7 DEF StepNumbers
  <2>3. \A k \in JournalIds : journals[k] # "POSTED"
    BY <2>1, <2>2, NullAssumption DEF Ledger, Gone
  <2>4. \A k \in JournalIds : k # j => journals[k] = "NONE"
    BY <1>2, <1>4, <2>1 DEF Accounted
  <2>5. \A k \in JournalIds : journals'[k] \notin {"APPROVED", "POSTED"}
    BY <1>4, <1>5, <2>3, <2>4
  <2>6. Gone(1)' /\ Gone(2)' /\ Gone(3)' /\ Gone(4)'
    BY <1>3, <2>2, <2>5 DEF Gone, Live
  <2> QED
    BY <1>1, <2>6 DEF StepNumbers
<1> QED
  BY <1>3, <1>6, <1>7, Undone

LEMMA ReverseJournalInd ==
  ASSUME Body, NEW w \in Workers, ReverseJournal(w)
  PROVE  Body'
<1>1. PICK i \in StepNumbers : i = 2
  BY DEF StepNumbers
<1>2. PICK j : j = steps[2].data.journal
  OBVIOUS
<1>3. /\ txn[w] # Idle /\ txn[w].op = "comp" /\ txn[w].i = i /\ Compensated(w)
      /\ journals[j] = "POSTED" /\ journals' = [journals EXCEPT ![j] = "REVERSED"]
      /\ reversed' = TRUE
      /\ UNCHANGED <<posted, tax, invoice>> /\ UNCHANGED faultVars
  BY <1>1, <1>2 DEF ReverseJournal, Running
<1>4. Done(2) /\ \A k : DoneAt(k) = {}
  BY <1>1, <1>3, Undoes
<1>5. /\ journals' \in [JournalIds -> JournalStatuses]
      /\ \A k \in JournalIds : k # j => journals'[k] = journals[k]
      /\ j \in JournalIds => journals'[j] = "REVERSED"
  BY <1>3 DEF Body, Types, JournalStatuses
<1>6. ASSUME NoCleanup
      PROVE  Ledger /\ posted = j /\ j \in JournalIds /\ Done(1)
  <2>1. Ledger
    BY <1>6 DEF Body
  <2> QED
    BY <1>2, <1>4, <2>1 DEF Ledger, Body, Types
<1>7. ASSUME UndoneRows(i)
      PROVE  EffectParts'
  <2>1. /\ \A k \in StepNumbers : Done(k)' <=> Done(k)
        /\ \A k \in StepNumbers : steps'[k].data = steps[k].data
        /\ \A k \in StepNumbers :
             steps'[k].status = "COMPLETED" <=> steps[k].status = "COMPLETED"
        /\ \A k : DoneAt(k)' = {}
        /\ steps'[2].status \in {"COMPENSATING", "COMPENSATED"}
    BY <1>1, <1>3, <1>7, Undoes DEF UndoneRows
  <2>2. 1 \in StepNumbers /\ 2 \in StepNumbers /\ 3 \in StepNumbers /\ 4 \in StepNumbers
    BY DEF StepNumbers
  <2>3. Results'
    BY <1>3, <2>1, <2>2 DEF Body, Results
  <2>4. NoCleanup' => Ledger'
    <3> SUFFICES ASSUME NoCleanup'
                 PROVE  Ledger'
      OBVIOUS
    <3>1. Ledger /\ posted = j /\ j \in JournalIds
      BY <1>3, <1>6 DEF NoCleanup, faultVars
    <3>2. \A k \in JournalIds : journals'[k] # "POSTED"
      BY <1>5, <3>1 DEF Ledger
    <3> QED
      BY <1>3, <2>1, <2>2, <3>1, <3>2 DEF Ledger
  <2>5. NoCleanup' /\ (disturbed' = {} \/ ~commitsInStep') => Accounted'
    <3> SUFFICES ASSUME NoCleanup', disturbed' = {} \/ ~commitsInStep'
                 PROVE  Accounted'
      OBVIOUS
    <3>1. Accounted
      BY <1>3 DEF Body, NoCleanup, faultVars
    <3>2. \A k \in JournalIds : journals'[k] # "NONE" => journals[k] # "NONE"
      BY <1>3, <1>5
    <3> QED
      BY <1>3, <1>4, <2>1, <2>2, <3>1, <3>2 DEF Accounted
  <2>6. disturbed' = {} => CalmEffects'
    <3> SUFFICES ASSUME disturbed' = {}
                 PROVE  CalmEffects'
      OBVIOUS
    <3>1. CalmEffects /\ Done(1)
      BY <1>3, <1>6 DEF Body, Calm, NoCleanup, faultVars
    <3>2. \A k \in StepNumbers : k # 1 => (Gone(k) => Gone(k)')
      BY <1>3 DEF Gone
    <3> QED
      BY <1>4, <2>1, <2>2, <3>1, <3>2 DEF CalmEffects
  <2> QED
    BY <1>3, <1>5, <2>3, <2>4, <2>5, <2>6 DEF EffectParts, Body, Types
<1>8. ASSUME disturbed = {}, \A k \in StepNumbers : k > i => Gone(k)
      PROVE  \A k \in StepNumbers : k >= i => Gone(k)'
  <2>1. Gone(3) /\ Gone(4)
    BY <1>1, <1>8 DEF StepNumbers
  <2>2. Gone(2)' /\ Gone(3)' /\ Gone(4)'
    BY <1>3, <2>1 DEF Gone
  <2> QED
    BY <1>1, <2>2 DEF StepNumbers
<1> QED
  BY <1>3, <1>7, <1>8, Undone

LEMMA DeleteTaxTransactionsInd ==
  ASSUME Body, NEW w \in Workers, DeleteTaxTransactions(w)
  PROVE  Body'
<1>1. PICK i \in StepNumbers : i = 3
  BY DEF StepNumbers
<1>2. /\ txn[w] # Idle /\ txn[w].op = "comp" /\ txn[w].i = i /\ Compensated(w)
      /\ tax' = tax \ steps[3].data.tax
      /\ UNCHANGED <<journals, posted, reversed, invoice>> /\ UNCHANGED faultVars
  BY <1>1 DEF DeleteTaxTransactions, Running
<1>3. Done(3) /\ \A k : DoneAt(k) = {}
  BY <1>1, <1>2, Undoes
<1>4. ASSUME UndoneRows(i)
      PROVE  EffectParts'
  <2>1. /\ \A k \in StepNumbers : Done(k)' <=> Done(k)
        /\ \A k \in StepNumbers : steps'[k].data = steps[k].data
        /\ \A k \in StepNumbers :
             steps'[k].status = "COMPLETED" <=> steps[k].status = "COMPLETED"
        /\ \A k : DoneAt(k)' = {}
        /\ 2 # i /\ steps'[2] = steps[2]
    BY <1>1, <1>2, <1>4, Undoes DEF UndoneRows, StepNumbers
  <2>2. 1 \in StepNumbers /\ 2 \in StepNumbers /\ 3 \in StepNumbers /\ 4 \in StepNumbers
    BY DEF StepNumbers
  <2>3. Results'
    BY <1>2, <2>1, <2>2 DEF Body, Results
  <2>4. NoCleanup' => Ledger'
    BY <1>2, <2>1, <2>2 DEF Body, NoCleanup, Ledger, faultVars
  <2>5. NoCleanup' /\ (disturbed' = {} \/ ~commitsInStep') => Accounted'
    BY <1>2, <1>3, <2>1, <2>2 DEF Body, NoCleanup, Accounted, faultVars
  <2>6. disturbed' = {} => CalmEffects'
    <3> SUFFICES ASSUME disturbed' = {}
                 PROVE  CalmEffects'
      OBVIOUS
    <3>1. CalmEffects
      BY <1>2 DEF Body, Calm, faultVars
    <3>2. \A k \in StepNumbers : k # i => (Gone(k)' <=> Gone(k))
      BY <1>1, <1>2 DEF Gone, Live
    <3> QED
      BY <1>1, <1>3, <2>1, <2>2, <3>1, <3>2 DEF CalmEffects
  <2>7. tax' \subseteq TaxIds
    BY <1>2 DEF Body, Types
  <2> QED
    BY <1>2, <2>3, <2>4, <2>5, <2>6, <2>7 DEF EffectParts, Body, Types
<1>5. ASSUME disturbed = {}, \A k \in StepNumbers : k > i => Gone(k)
      PROVE  \A k \in StepNumbers : k >= i => Gone(k)'
  <2>1. tax' = {}
    BY <1>2, <1>3, <1>5 DEF Body, NoCleanup, Accounted
  <2>2. Gone(4)
    BY <1>1, <1>5 DEF StepNumbers
  <2>3. Gone(3)' /\ Gone(4)'
    BY <1>2, <2>1, <2>2 DEF Gone
  <2> QED
    BY <1>1, <2>3 DEF StepNumbers
<1> QED
  BY <1>2, <1>4, <1>5, Undone

LEMMA RevertInvoiceStatusInd ==
  ASSUME Body, NEW w \in Workers, RevertInvoiceStatus(w)
  PROVE  Body'
<1>1. PICK i \in StepNumbers : i = 4
  BY DEF StepNumbers
<1>2. /\ txn[w] # Idle /\ txn[w].op = "comp" /\ txn[w].i = i /\ Compensated(w)
      /\ invoice' = [status |-> steps[4].data.prior, journal |-> NULL]
      /\ UNCHANGED <<journals, posted, reversed, tax>> /\ UNCHANGED faultVars
  BY <1>1 DEF RevertInvoiceStatus, Running
<1>3. Done(4) /\ steps[4].status = "COMPENSATING" /\ \A k : DoneAt(k) = {}
  BY <1>1, <1>2, Undoes
<1>4. /\ steps[4].data.prior \in {"APPROVED", "POSTED"}
      /\ disturbed = {} => steps[4].data.prior = "APPROVED"
  <2>1. steps[4].data.prior \in {"APPROVED", "POSTED", NULL}
    BY DEF Body, Types, StepRow, Result, StepNumbers
  <2> QED
    BY <1>3, <2>1 DEF Body, Results, Calm, CalmEffects
<1>5. invoice' \in [status : {"APPROVED", "POSTED"}, journal : JournalIds \cup {NULL}]
      /\ invoice'.status = steps[4].data.prior
  BY <1>2, <1>4
<1>6. ASSUME UndoneRows(i)
      PROVE  EffectParts'
  <2>1. /\ \A k \in StepNumbers : Done(k)' <=> Done(k)
        /\ \A k \in StepNumbers : steps'[k].data = steps[k].data
        /\ \A k : DoneAt(k)' = {}
        /\ steps'[4].status # "COMPLETED"
        /\ 2 # i /\ steps'[2] = steps[2]
    BY <1>1, <1>2, <1>6, Undoes DEF UndoneRows, StepNumbers
  <2>2. 1 \in StepNumbers /\ 2 \in StepNumbers /\ 3 \in StepNumbers /\ 4 \in StepNumbers
    BY DEF StepNumbers
  <2>3. Results'
    BY <2>1, <2>2 DEF Body, Results
  <2>4. NoCleanup' => Ledger'
    BY <1>2, <2>1, <2>2 DEF Body, NoCleanup, Ledger, faultVars
  <2>5. NoCleanup' /\ (disturbed' = {} \/ ~commitsInStep') => Accounted'
    BY <1>2, <1>3, <2>1, <2>2 DEF Body, NoCleanup, Accounted, faultVars
  <2>6. disturbed' = {} => CalmEffects'
    <3> SUFFICES ASSUME disturbed' = {}
                 PROVE  CalmEffects'
      OBVIOUS
    <3>1. CalmEffects
      BY <1>2 DEF Body, Calm, faultVars
    <3>2. \A k \in StepNumbers : k # i => (Gone(k)' <=> Gone(k))
      BY <1>1, <1>2 DEF Gone, Live
    <3> QED
      BY <1>1, <1>3, <2>1, <2>2, <3>1, <3>2 DEF CalmEffects
  <2> QED
    BY <1>2, <1>5, <2>3, <2>4, <2>5, <2>6 DEF EffectParts, Body, Types
<1>7. ASSUME disturbed = {}, \A k \in StepNumbers : k > i => Gone(k)
      PROVE  \A k \in StepNumbers : k >= i => Gone(k)'
  <2>1. Gone(4)'
    BY <1>4, <1>5, <1>7 DEF Gone
  <2> QED
    BY <1>1, <2>1 DEF StepNumbers
<1> QED
  BY <1>2, <1>6, <1>7, Undone

-----------------------------------------------------------------------------
(* The invariant. *)

LEMMA CleanupInd ==
  ASSUME Body, Cleanup
  PROVE  Body'
<1>1. /\ \A w \in Workers : txn[w] = Idle
      /\ saga' = NULL /\ steps' = [i \in StepNumbers |-> NewStep]
      /\ UNCHANGED <<txn, effectVars, commitsInStep, completed>>
      /\ disturbed \subseteq disturbed' /\ "cleanup" \in disturbed'
  BY DEF Cleanup, Disturb
<1>2. NewStep \in StepRow /\ NewStep.status = "PENDING"
  BY DEF NewStep, StepRow, NoResult, Result
<1>3. steps' \in [StepNumbers -> StepRow] /\ \A i \in StepNumbers : steps'[i].status = "PENDING"
  BY <1>1, <1>2
<1>4. 1 \in StepNumbers /\ 4 \in StepNumbers
  BY DEF StepNumbers
<1>5. One' /\ Fit'
  BY <1>1 DEF Body, One, Fit
<1>6. Types' /\ Rows' /\ Results'
  BY <1>1, <1>3, <1>4 DEF Body, Types, Rows, Results, Done, effectVars
<1>7. completed' /\ NoRetryAfterMark' => AfterCompletion'
  <2> SUFFICES ASSUME completed', NoRetryAfterMark'
               PROVE  AfterCompletion'
    OBVIOUS
  <2>1. invoice.status = "POSTED"
    BY <1>1 DEF Body, NoRetryAfterMark, AfterCompletion
  <2> QED
    BY <1>1, <1>3, <2>1 DEF AfterCompletion, Done, effectVars
<1> QED
  BY <1>1, <1>5, <1>6, <1>7 DEF Body, NoCleanup

LEMMA StutterInd ==
  ASSUME Body, UNCHANGED vars
  PROVE  Body'
<1> USE DEF vars, sagaVars, effectVars, faultVars
<1>1. /\ \A n : Ahead(n)' <=> Ahead(n)
      /\ \A i : Gone(i)' <=> Gone(i)
      /\ \A i : Done(i)' <=> Done(i)
      /\ \A i : DoneAt(i)' = DoneAt(i)
      /\ Active' <=> Active
  BY DEF Ahead, Gone, Done, Live, DoneAt, Active
<1>2. One' /\ Types' /\ Rows' /\ Results'
  BY <1>1 DEF Body, One, Types, Rows, Results
<1>3. Fit'
  BY <1>1 DEF Body, Fit, Fits
<1>4. (NoCleanup' => Ledger') /\ (completed' /\ NoRetryAfterMark' => AfterCompletion')
  BY <1>1 DEF Body, NoCleanup, Ledger, NoRetryAfterMark, AfterCompletion
<1>5. NoCleanup' /\ (disturbed' = {} \/ ~commitsInStep') => Accounted'
  BY <1>1 DEF Body, NoCleanup, Accounted
<1>6. disturbed' = {} => Calm'
  <2>1. CalmFit => CalmFit'
    BY <1>1 DEF CalmFit, Calmly
  <2> QED
    BY <1>1, <2>1 DEF Body, Calm, CalmEffects, CalmRow
<1> QED
  BY <1>2, <1>3, <1>4, <1>5, <1>6 DEF Body

LEMMA InitInd == Init => IndInv
<1> SUFFICES ASSUME Init
             PROVE  Body
  BY DEF IndInv
<1>1. /\ txn = [w \in Workers |-> Idle] /\ \A w \in Workers : txn[w] = Idle
      /\ saga = NULL /\ steps = [i \in StepNumbers |-> NewStep]
      /\ journals = [j \in JournalIds |-> "NONE"] /\ posted = NULL /\ reversed = FALSE
      /\ tax = {} /\ invoice = [status |-> "APPROVED", journal |-> NULL]
      /\ completed = FALSE
  BY DEF Init, SessionsInit
<1>2. NewStep \in StepRow /\ NewStep.status = "PENDING"
  BY DEF NewStep, StepRow, NoResult, Result
<1>3. steps \in [StepNumbers -> StepRow] /\ \A i \in StepNumbers : steps[i].status = "PENDING"
  BY <1>1, <1>2
<1>4. 1 \in StepNumbers /\ 2 \in StepNumbers /\ 4 \in StepNumbers
  BY DEF StepNumbers
<1>5. One /\ Fit
  BY <1>1 DEF One, Fit
<1>6. Types /\ Rows /\ Results
  BY <1>1, <1>3, <1>4 DEF Types, Rows, Results, Done, JournalStatuses
<1>7. Ledger /\ Accounted
  BY <1>1, <1>3, <1>4, NullAssumption DEF Ledger, Accounted, Done
<1>8. Calm
  <2>1. invoice.status = "APPROVED" /\ \A i \in StepNumbers : Gone(i)
    BY <1>1 DEF Gone, Live
  <2> QED
    BY <1>1, <1>3, <1>4, <2>1 DEF Calm, CalmEffects, CalmRow, CalmFit, Done
<1> QED
  BY <1>1, <1>5, <1>6, <1>7, <1>8 DEF Body

LEMMA StepInd ==
  ASSUME Body, NEW w \in Workers, Step(w)
  PROVE  Body'
<1>1. CASE Perform(w)
  BY <1>1, ValidateInvoiceInd, CreateJournalInd, PostToLedgerInd,
     CreateTaxTransactionsInd, UpdateInvoiceStatusInd DEF Perform
<1>2. CASE Undo(w)
  BY <1>2, VoidJournalInd, ReverseJournalInd, BackInd, DeleteTaxTransactionsInd,
     RevertInvoiceStatusInd DEF Undo
<1>3. CASE CreateSaga(w) \/ StartSteps(w) \/ SkipStep(w) \/ MarkStep(w)
  BY <1>3, CreateSagaInd, StartStepsInd, SkipStepInd, MarkStepInd
<1>4. CASE StepFails(w) \/ RecordStep(w) \/ Complete(w)
  BY <1>4, StepFailsInd, RecordStepInd, CompleteInd
<1>5. CASE StartCompensation(w) \/ SkipBack(w) \/ MarkBack(w)
  BY <1>5, StartCompensationInd, BackInd, MarkBackInd
<1>6. CASE RecordCompensation(w) \/ FinishCompensation(w)
  BY <1>6, RecordCompensationInd, FinishInd
<1> QED
  BY <1>1, <1>2, <1>3, <1>4, <1>5, <1>6 DEF Step

LEMMA NextInd == IndInv /\ [Next]_vars => IndInv'
<1> SUFFICES ASSUME IndInv, [Next]_vars, Alone'
             PROVE  Body'
  BY DEF IndInv
<1>1. Alone
  <2>1. disturbed \subseteq disturbed'
    <3>1. ASSUME NEW w \in Workers, Step(w)
          PROVE  UNCHANGED disturbed
      BY <3>1 DEF Step, CreateSaga, StartSteps, SkipStep, MarkStep, Perform, StepFails,
         RecordStep, Complete, StartCompensation, SkipBack, MarkBack, Undo,
         RecordCompensation, FinishCompensation, ValidateInvoice, CreateJournal,
         PostToLedger, CreateTaxTransactions, UpdateInvoiceStatus, VoidJournal,
         ReverseJournal, ReversalRefused, DeleteTaxTransactions, RevertInvoiceStatus,
         faultVars
    <3>2. CASE UNCHANGED vars
      BY <3>2 DEF vars, faultVars
    <3>3. CASE Next
      BY <3>1, <3>3 DEF Next, Execute, Resume, ForceCompensate, RetryCompensation, Crash,
         MarkFailed, Cleanup, Disturb
    <3> QED
      BY <3>2, <3>3
  <2> QED
    BY <2>1 DEF Alone
<1>2. Body
  BY <1>1 DEF IndInv
<1>3. CASE UNCHANGED vars
  BY <1>2, <1>3, StutterInd
<1>4. ASSUME NEW w \in Workers,
             \/ Execute(w) \/ Resume(w) \/ Step(w) \/ ForceCompensate(w)
             \/ RetryCompensation(w) \/ Crash(w)
      PROVE  Body'
  BY <1>2, <1>4, ExecuteInd, ResumeInd, StepInd, ForceInd, RetryInd, CrashInd
<1>5. CASE MarkFailed \/ Cleanup
  BY <1>2, <1>5, MarkFailedInd, CleanupInd
<1> QED
  BY <1>3, <1>4, <1>5 DEF Next

\* The inductive invariant holds in every state the saga and its recovery reach.
THEOREM Inductive == Spec => []IndInv
BY InitInd, NextInd, PTL DEF Spec

-----------------------------------------------------------------------------
(* What the invariant says of the saga's promises. *)

\* A saga that completed, resumed after crashes or recovered as it may have been,
\* left its invoice POSTED and linked to the journal in the ledger
\* (posting_sagas.py, update_invoice_status and post_to_ledger).
THEOREM CompletedSagasArePosted == Spec => []CompletedIsPosted
<1>1. IndInv => CompletedIsPosted
  <2> SUFFICES ASSUME IndInv, saga # NULL, saga.status = "COMPLETED",
                      Undisturbed({"overlap", "cleanup"})
               PROVE  /\ invoice.status = "POSTED" /\ posted # NULL
                      /\ invoice.journal = posted /\ ~reversed
    BY DEF CompletedIsPosted
  <2>1. Body /\ Ledger
    BY DEF IndInv, Body, Alone, NoCleanup, Undisturbed
  <2>2. steps[2].status = "COMPLETED" /\ steps[4].status = "COMPLETED"
    BY <2>1 DEF Body, Rows, StepNumbers
  <2> QED
    BY <2>1, <2>2 DEF Body, Results, Ledger, Done
<1> QED
  BY <1>1, Inductive, PTL

\* The saga whose steps only flush leaves no second journal to be posted by hand
\* and no tax transaction that it does not know of (a crash loses the effect of a
\* step together with its record).
THEOREM NothingIsOrphaned == Spec => []NothingOrphaned
<1>1. IndInv => NothingOrphaned
  <2> SUFFICES ASSUME IndInv, ~commitsInStep, Undisturbed({"overlap", "cleanup"})
               PROVE  /\ \A j, k \in JournalIds : Live(j) /\ Live(k) => j = k
                      /\ saga # NULL /\ saga.status = "COMPLETED" =>
                           tax \subseteq steps[3].data.tax
    BY DEF NothingOrphaned
  <2>1. Body /\ Accounted
    BY DEF IndInv, Body, Alone, NoCleanup, Undisturbed
  <2>2. \A i : DoneAt(i) = {}
    BY <2>1 DEF Body, Fit, Fits, DoneAt
  <2> QED
    BY <2>1, <2>2 DEF Accounted, Live
<1> QED
  BY <1>1, Inductive, PTL

\* The disturbances there have been are ones considered together.
Considered == disturbed = {} \/ \E together \in Together : disturbed \subseteq together

LEMMA StepsDoNotDisturb ==
  ASSUME NEW w \in Workers, Step(w)
  PROVE  UNCHANGED disturbed
BY DEF Step, CreateSaga, StartSteps, SkipStep, MarkStep, Perform, StepFails,
  RecordStep, Complete, StartCompensation, SkipBack, MarkBack, Undo,
  RecordCompensation, FinishCompensation, ValidateInvoice, CreateJournal,
  PostToLedger, CreateTaxTransactions, UpdateInvoiceStatus, VoidJournal,
  ReverseJournal, ReversalRefused, DeleteTaxTransactions, RevertInvoiceStatus,
  faultVars

LEMMA ConsideredInv == Spec => []Considered
<1>1. Init => Considered
  BY DEF Init, Considered
<1>2. Considered /\ [Next]_vars => Considered'
  <2> SUFFICES ASSUME Considered, [Next]_vars
               PROVE  Considered'
    OBVIOUS
  <2>1. CASE UNCHANGED disturbed
    BY <2>1 DEF Considered
  <2>2. ASSUME NEW kinds, Disturb(kinds)
        PROVE  Considered'
    BY <2>2 DEF Disturb, Considered
  <2>3. CASE UNCHANGED vars
    BY <2>1, <2>3 DEF vars, faultVars
  <2>4. CASE Next
    BY <2>1, <2>2, <2>4, StepsDoNotDisturb
    DEF Next, Execute, Resume, ForceCompensate, RetryCompensation, Crash, MarkFailed, Cleanup
  <2> QED
    BY <2>3, <2>4
<1> QED
  BY <1>1, <1>2, PTL DEF Spec

\* mark_failed does not look at the status and retry_compensation undoes what is
\* FAILED: where the two are not both used, a saga that completed left its invoice
\* POSTED for good, a second saga for the invoice included.
THEOREM CompletedSagasStay ==
  ASSUME \A together \in Together : ~({"mark_failed", "retry"} \subseteq together)
  PROVE  Spec => []CompletedStays
<1>1. IndInv /\ Considered => CompletedStays
  BY DEF IndInv, Body, Alone, Considered, NoRetryAfterMark, AfterCompletion,
     CompletedStays, Undisturbed
<1> QED
  BY <1>1, Inductive, ConsideredInv, PTL

-----------------------------------------------------------------------------
(* The orchestrator implements the contract of a saga. *)

LEMMA OutcomeIs ==
  /\ disturbed # {} => Outcome = "disturbed" /\ Effect = {}
  /\ disturbed = {} /\ saga = NULL => Outcome = "open"
  /\ disturbed = {} /\ saga # NULL =>
       /\ saga.status = "COMPLETED" => Outcome = "completed"
       /\ saga.status = "COMPENSATED" => Outcome = "compensated"
       /\ saga.status = "FAILED" => Outcome = "failed"
       /\ saga.status \notin Terminal => Outcome = "open"
BY DEF Outcome, Effect, Terminal

LEMMA OutcomeAfter ==
  /\ disturbed' # {} => Outcome' = "disturbed" /\ Effect' = {}
  /\ disturbed' = {} /\ saga' = NULL => Outcome' = "open"
  /\ disturbed' = {} /\ saga' # NULL =>
       /\ saga'.status = "COMPLETED" => Outcome' = "completed"
       /\ saga'.status = "COMPENSATED" => Outcome' = "compensated"
       /\ saga'.status = "FAILED" => Outcome' = "failed"
       /\ saga'.status \notin Terminal => Outcome' = "open"
BY DEF Outcome, Effect, Terminal

AllEffects == {"journal", "ledger", "tax", "invoice"}

LEMMA EffectsAfter ==
  ASSUME Body', disturbed' = {}, saga' # NULL
  PROVE  /\ saga'.status = "COMPLETED" => {"journal", "ledger", "invoice"} \subseteq Effect'
         /\ saga'.status = "COMPENSATED" => Effect' = {}
<1>1. ASSUME saga'.status = "COMPLETED"
      PROVE  {"journal", "ledger", "invoice"} \subseteq Effect'
  <2>1. Ledger'
    BY DEF Body, NoCleanup
  <2>2. steps'[1].status = "COMPLETED" /\ steps'[2].status = "COMPLETED"
        /\ steps'[4].status = "COMPLETED"
    BY <1>1 DEF Body, Rows, StepNumbers
  <2>3. posted' # NULL /\ ~reversed' /\ invoice'.status = "POSTED"
    BY <2>1, <2>2 DEF Body, Results, Ledger, Done
  <2>4. posted' \in JournalIds
    BY <2>3 DEF Body, Types
  <2>5. journals'[posted'] = "POSTED"
    BY <2>1, <2>3, <2>4 DEF Ledger
  <2> QED
    BY <2>3, <2>4, <2>5 DEF Effect, Live
<1>2. ASSUME saga'.status = "COMPENSATED"
      PROVE  Effect' = {}
  <2>1. Gone(1)' /\ Gone(2)' /\ Gone(3)' /\ Gone(4)'
    BY <1>2 DEF Body, Calm, CalmRow, StepNumbers
  <2> QED
    BY <2>1 DEF Effect, Gone
<1> QED
  BY <1>1, <1>2

\* A step keeps the effects, or it keeps the saga's status.
LEMMA StepEffects ==
  ASSUME NEW w \in Workers, Step(w), saga \in SagaRow \cup {NULL}
  PROVE  \/ UNCHANGED effectVars
         \/ saga # NULL /\ saga' # NULL => saga'.status = saga.status
<1>1. ASSUME NEW found, NEW data, Record(w, found, data), saga # NULL
      PROVE  saga'.status = saga.status
  <2>1. PICK c, j : saga' = [saga EXCEPT !.current = c, !.journal = j]
    BY <1>1 DEF Record
  <2> QED
    BY <1>1, <2>1 DEF SagaRow
<1>2. ASSUME NEW data, Succeed(w, data), saga # NULL
      PROVE  saga'.status = saga.status
  BY <1>1, <1>2 DEF Succeed, sagaVars
<1>3. CASE Perform(w)
  <2>1. \E data : Succeed(w, data)
    BY <1>3 DEF Perform, ValidateInvoice, CreateJournal, PostToLedger,
       CreateTaxTransactions, UpdateInvoiceStatus
  <2> QED
    BY <1>2, <2>1
<1>4. CASE Undo(w)
  <2>1. UNCHANGED saga
    BY <1>4 DEF Undo, VoidJournal, ReverseJournal, ReversalRefused,
       DeleteTaxTransactions, RevertInvoiceStatus, Compensated, sagaVars
  <2> QED
    BY <2>1
<1>5. CASE ~Perform(w) /\ ~Undo(w)
  BY <1>5 DEF Step, CreateSaga, StartSteps, SkipStep, MarkStep, StepFails, RecordStep,
     Complete, StartCompensation, SkipBack, MarkBack, RecordCompensation,
     FinishCompensation, effectVars
<1> QED
  BY <1>3, <1>4, <1>5

LEMMA StepsRun ==
  ASSUME NEW w \in Workers, Step(w)
  PROVE  txn[w] # Idle
BY DEF Step, CreateSaga, StartSteps, SkipStep, MarkStep, Perform, StepFails,
  RecordStep, Complete, StartCompensation, SkipBack, MarkBack, Undo,
  RecordCompensation, FinishCompensation, ValidateInvoice, CreateJournal,
  PostToLedger, CreateTaxTransactions, UpdateInvoiceStatus, VoidJournal,
  ReverseJournal, ReversalRefused, DeleteTaxTransactions, RevertInvoiceStatus, Running

\* The saga with its steps and compensations, run by one executor to its end, keeps
\* the contract: every effect of a completed saga is there, none of a compensated
\* one, and nothing changes after the end (orchestrator.py, execute and
\* _compensate_steps).
THEOREM KeepsContract == Spec => ImplementsContract
<1>1. Init => Contract!Init
  BY OutcomeIs DEF Init, Contract!Init, Effect, Live
<1>2. IndInv /\ IndInv' /\ [Next]_vars => [Contract!Next]_<<Outcome, Effect>>
  <2> SUFFICES ASSUME IndInv, IndInv', [Next]_vars
               PROVE  Contract!Next \/ UNCHANGED <<Outcome, Effect>>
    OBVIOUS
  <2>1. CASE disturbed' # {}
    BY <2>1, OutcomeAfter DEF Contract!Next, Contract!Disturb
  <2>2. CASE disturbed' = {} /\ UNCHANGED <<saga, effectVars, disturbed>>
    BY <2>2 DEF Outcome, Effect, Live, effectVars
  <2>3. ASSUME disturbed' = {}, NEW w \in Workers, Step(w)
        PROVE  Contract!Next \/ UNCHANGED <<Outcome, Effect>>
    <3>1. disturbed = {} /\ Body /\ Body'
      BY <2>3, StepsDoNotDisturb DEF IndInv, Alone
    <3>2. Active
      BY <2>3, StepsRun DEF Active
    <3>3. saga = NULL \/ saga.status \notin Terminal
      BY <3>1, <3>2 DEF Body, Calm, CalmRow
    <3>4. Outcome = "open"
      BY <3>1, <3>3, OutcomeIs
    <3>5. Effect' \in SUBSET AllEffects
      BY DEF Effect, AllEffects
    <3>6. CASE Outcome' = "open"
      BY <3>4, <3>5, <3>6 DEF Contract!Next, Contract!Work, AllEffects
    <3>7. CASE Outcome' # "open"
      <4>1. saga' # NULL /\ saga' \in SagaRow /\ saga'.status \in Terminal
        BY <2>3, <3>1, <3>7, OutcomeAfter DEF Body, Types
      <4>2. UNCHANGED effectVars
        <5>1. saga # NULL => saga'.status # saga.status
          BY <3>3, <4>1
        <5>2. CASE saga = NULL
          <6>1. ~Perform(w) /\ ~Undo(w)
            <7>1. txn[w].op = "create"
              BY <2>3, <3>1, <5>2, StepsRun, Runs DEF Fits
            <7> QED
              BY <7>1 DEF Perform, ValidateInvoice, CreateJournal, PostToLedger,
                 CreateTaxTransactions, UpdateInvoiceStatus, Undo, VoidJournal,
                 ReverseJournal, ReversalRefused, DeleteTaxTransactions,
                 RevertInvoiceStatus, Running
          <6> QED
            BY <2>3, <6>1 DEF Step, CreateSaga, StartSteps, SkipStep, MarkStep, StepFails,
               RecordStep, Complete, StartCompensation, SkipBack, MarkBack,
               RecordCompensation, FinishCompensation, effectVars
        <5>3. saga \in SagaRow \cup {NULL}
          BY <3>1 DEF Body, Types
        <5> QED
          BY <2>3, <4>1, <5>1, <5>2, <5>3, StepEffects
      <4>3. Effect' = Effect
        BY <2>3, <3>1, <4>2 DEF Effect, Live, effectVars
      <4>4. CASE saga'.status = "COMPLETED"
        <5>1. Outcome' = "completed" /\ {"journal", "ledger", "invoice"} \subseteq Effect
          BY <2>3, <3>1, <4>1, <4>3, <4>4, OutcomeAfter, EffectsAfter
        <5> QED
          BY <3>4, <4>3, <5>1 DEF Contract!Next, Contract!Complete
      <4>5. CASE saga'.status = "COMPENSATED"
        <5>1. Outcome' = "compensated" /\ Effect = {}
          BY <2>3, <3>1, <4>1, <4>3, <4>5, OutcomeAfter, EffectsAfter
        <5> QED
          BY <3>4, <4>3, <5>1 DEF Contract!Next, Contract!Compensate
      <4>6. CASE saga'.status = "FAILED"
        <5>1. Outcome' = "failed"
          BY <2>3, <4>1, <4>6, OutcomeAfter
        <5> QED
          BY <3>4, <4>3, <5>1 DEF Contract!Next, Contract!Fail
      <4> QED
        BY <4>1, <4>4, <4>5, <4>6 DEF Terminal
    <3> QED
      BY <3>6, <3>7
  <2>4. ASSUME NEW kinds, Disturb(kinds), disturbed' = {}
        PROVE  UNCHANGED disturbed
    BY <2>4 DEF Disturb
  <2>5. ASSUME disturbed' = {}, NEW w \in Workers,
               Execute(w) \/ Resume(w) \/ ForceCompensate(w)
        PROVE  UNCHANGED <<saga, effectVars, disturbed>>
    BY <2>4, <2>5 DEF Execute, Resume, ForceCompensate, sagaVars
  <2>6. ASSUME NEW w \in Workers, RetryCompensation(w) \/ Crash(w)
        PROVE  disturbed' # {}
    BY <2>6 DEF RetryCompensation, Crash, Disturb
  <2>7. ASSUME MarkFailed \/ Cleanup
        PROVE  disturbed' # {}
    BY <2>7 DEF MarkFailed, Cleanup, Disturb
  <2>8. CASE UNCHANGED vars
    BY <2>1, <2>2, <2>8 DEF vars, sagaVars, faultVars
  <2>9. CASE Next
    BY <2>1, <2>2, <2>3, <2>5, <2>6, <2>7, <2>9 DEF Next
  <2> QED
    BY <2>8, <2>9
<1> QED
  BY <1>1, <1>2, Inductive, PTL DEF Spec, ImplementsContract, Contract!Spec

-----------------------------------------------------------------------------
(* Types, however many executors are at work. *)

\* An invoice gets back the status that step 4 found.
PriorKept == steps[4].status = "COMPLETED" => steps[4].data.prior # NULL

\* What an executor knows is of its kind, and what it returns to is there.
Knows(t) ==
  /\ t \in Txn
  /\ t.op # "create" => saga # NULL
  /\ t.op \in {"comp", "undone"} => t.i \in 1 .. 4
  /\ t.op = "comp" /\ t.i = 4 => steps[4].data.prior # NULL
  /\ t.op = "done" /\ t.i = 4 => t.data.prior # NULL

TypesInv ==
  /\ txn = [w \in Workers |-> txn[w]]
  /\ Types
  /\ PriorKept
  /\ \A w \in Workers : txn[w] # Idle => Knows(txn[w])

\* What the rows of the others are known by is not lost.
Kept ==
  /\ saga # NULL => saga' # NULL
  /\ steps[4].data.prior # NULL => steps'[4].data.prior # NULL

LEMMA TypedStep ==
  ASSUME TypesInv, NEW w \in Workers, NEW t, txn' = [txn EXCEPT ![w] = t],
         t = Idle \/ Knows(t)', Types', PriorKept', Kept
  PROVE  TypesInv'
<1>1. /\ txn' = [v \in Workers |-> txn'[v]] /\ txn'[w] = t
      /\ \A v \in Workers : v # w => txn'[v] = txn[v]
  BY DEF TypesInv
<1>2. ASSUME NEW v \in Workers, v # w, txn[v] # Idle
      PROVE  Knows(txn[v])'
  <2>1. Knows(txn[v])
    BY <1>2 DEF TypesInv
  <2> QED
    BY <1>1, <1>2, <2>1 DEF Knows, Kept
<1>3. ASSUME NEW v \in Workers, txn'[v] # Idle
      PROVE  Knows(txn[v])'
  <2>1. CASE v = w
    <3>1. Knows(t)'
      BY <1>1, <1>3, <2>1
    <3> QED
      BY <1>1, <2>1, <3>1 DEF Knows
  <2>2. CASE v # w
    BY <1>1, <1>2, <1>3, <2>2
  <2> QED
    BY <2>1, <2>2
<1> QED
  BY <1>1, <1>3 DEF TypesInv

\* The rows stay as they are.
LEMMA TypedQuiet ==
  ASSUME TypesInv, UNCHANGED <<sagaVars, effectVars>>
  PROVE  Types' /\ PriorKept' /\ Kept
BY DEF TypesInv, Types, PriorKept, Kept, sagaVars, effectVars

LEMMA TypedBegins ==
  ASSUME TypesInv, NEW w \in Workers, Execute(w) \/ Resume(w) \/ ForceCompensate(w)
  PROVE  TypesInv'
<1>1. UNCHANGED <<sagaVars, effectVars>>
  BY DEF Execute, Resume, ForceCompensate
<1>2. Types' /\ PriorKept' /\ Kept
  BY <1>1, TypedQuiet
<1>3. PICK t \in Txn : /\ txn' = [txn EXCEPT ![w] = t]
                       /\ t.op \in {"create", "start", "undo"}
                       /\ t.op # "create" => saga # NULL
  <2>1. CASE Execute(w)
    <3>1. [op |-> "create"] \in Txn
      BY DEF Txn
    <3> QED
      BY <2>1, <3>1 DEF Execute, Begin
  <2>2. CASE Resume(w)
    <3>1. saga # NULL /\ saga.status \in SagaStatus
      BY <2>2 DEF Resume, TypesInv, Types, SagaRow
    <3>2. PICK t : t = [op    |-> IF saga.status = "COMPENSATING" THEN "undo" ELSE "start",
                        found |-> saga.status]
      OBVIOUS
    <3>3. t \in Txn
      BY <3>1, <3>2 DEF Txn
    <3> QED
      BY <2>2, <3>1, <3>2, <3>3 DEF Resume, Begin
  <2>3. CASE ForceCompensate(w)
    <3>1. saga # NULL /\ saga.status \in SagaStatus
      BY <2>3 DEF ForceCompensate, TypesInv, Types, SagaRow
    <3>2. [op |-> "undo", found |-> saga.status] \in Txn
      BY <3>1 DEF Txn
    <3> QED
      BY <2>3, <3>1, <3>2 DEF ForceCompensate, Begin
  <2> QED
    BY <2>1, <2>2, <2>3
<1>4. Knows(t)'
  BY <1>1, <1>3 DEF Knows, sagaVars
<1> QED
  BY <1>2, <1>3, <1>4, TypedStep

\* The saga's row is made or its status set.
LEMMA TypedRow ==
  ASSUME TypesInv, saga' \in SagaRow, UNCHANGED <<steps, effectVars>>
  PROVE  Types' /\ PriorKept' /\ Kept
BY NullAssumption DEF TypesInv, Types, PriorKept, Kept, effectVars

LEMMA TypedStarts ==
  ASSUME TypesInv, NEW w \in Workers,
         CreateSaga(w) \/ StartSteps(w) \/ StartCompensation(w)
  PROVE  TypesInv'
<1>1. PICK r : r = txn[w]
  OBVIOUS
<1>2. Knows(r) /\ r \in Txn
  BY <1>1 DEF TypesInv, Knows, CreateSaga, StartSteps, StartCompensation, Running
<1>3. CASE CreateSaga(w) /\ saga = NULL
  <2>1. saga' = [status |-> "PENDING", current |-> 0, journal |-> NULL]
        /\ txn' = [txn EXCEPT ![w] = [op |-> "start", found |-> "PENDING"]]
        /\ UNCHANGED <<steps, effectVars>>
    BY <1>3 DEF CreateSaga, Continue
  <2>2. saga' \in SagaRow /\ saga' # NULL
    BY <2>1, NullAssumption DEF SagaRow, SagaStatus
  <2>3. Knows([op |-> "start", found |-> "PENDING"])'
    BY <2>2 DEF Knows, Txn, SagaStatus
  <2> QED
    BY <2>1, <2>2, <2>3, TypedRow, TypedStep
<1>4. CASE CreateSaga(w) /\ saga # NULL
  <2>1. txn' = [txn EXCEPT ![w] = Idle] /\ UNCHANGED <<sagaVars, effectVars>>
    BY <1>4 DEF CreateSaga, End, sagaVars
  <2> QED
    BY <2>1, TypedQuiet, TypedStep
<1>5. CASE StartSteps(w)
  <2>1. /\ saga # NULL /\ saga \in SagaRow /\ r.found \in SagaStatus
        /\ UNCHANGED <<steps, effectVars>>
    BY <1>1, <1>2, <1>5, TxnTypes DEF StartSteps, Running, TypesInv, Types
  <2>2. PICK s \in SagaStatus : saga' = [saga EXCEPT !.status = s]
    <3>1. Written(r.found, "EXECUTING", saga.status) \in SagaStatus
      BY <2>1 DEF Written, SagaRow, SagaStatus
    <3> QED
      BY <1>1, <1>5, <3>1 DEF StartSteps
  <2>3. saga' \in SagaRow /\ saga' # NULL
    BY <2>1, <2>2, SagaColumns
  <2>4. PICK t : t = [op |-> "at", i |-> saga.current, journal |-> saga.journal]
    OBVIOUS
  <2>5. t \in Txn
    BY <2>1, <2>4 DEF Txn, SagaRow
  <2>6. Knows(t)'
    BY <2>3, <2>4, <2>5 DEF Knows
  <2>7. txn' = [txn EXCEPT ![w] = t]
    BY <1>5, <2>4 DEF StartSteps, Continue
  <2> QED
    BY <2>1, <2>3, <2>6, <2>7, TypedRow, TypedStep
<1>6. CASE StartCompensation(w)
  <2>1. /\ saga # NULL /\ saga \in SagaRow
        /\ UNCHANGED <<steps, effectVars>>
    BY <1>6 DEF StartCompensation, TypesInv, Types
  <2>2. PICK s \in SagaStatus : saga' = [saga EXCEPT !.status = s]
    <3>1. Written(r.found, "COMPENSATING", saga.status) \in SagaStatus
      BY <2>1 DEF Written, SagaRow, SagaStatus
    <3> QED
      BY <1>1, <1>6, <3>1 DEF StartCompensation
  <2>3. saga' \in SagaRow /\ saga' # NULL
    BY <2>1, <2>2, SagaColumns
  <2>4. PICK t : t = [op |-> "back", i |-> saga.current - 1, failed |-> FALSE]
    OBVIOUS
  <2>5. t \in Txn
    <3>1. saga.current - 1 \in -1 .. 4
      BY <2>1 DEF SagaRow
    <3> QED
      BY <2>4, <3>1 DEF Txn
  <2>6. Knows(t)'
    BY <2>3, <2>4, <2>5 DEF Knows
  <2>7. txn' = [txn EXCEPT ![w] = t]
    BY <1>6, <2>4 DEF StartCompensation, Continue
  <2> QED
    BY <2>1, <2>3, <2>6, <2>7, TypedRow, TypedStep
<1> QED
  BY <1>3, <1>4, <1>5, <1>6

LEMMA TypedEnds ==
  ASSUME TypesInv, NEW w \in Workers,
         Complete(w) \/ FinishCompensation(w) \/ Crash(w)
  PROVE  TypesInv'
<1>1. txn' = [txn EXCEPT ![w] = Idle]
  BY DEF Complete, FinishCompensation, Crash, End
<1>2. CASE Crash(w)
  BY <1>1, <1>2, TypedQuiet, TypedStep DEF Crash
<1>3. CASE Complete(w) \/ FinishCompensation(w)
  <2>1. saga \in SagaRow /\ UNCHANGED <<steps, effectVars>>
    BY <1>3 DEF Complete, FinishCompensation, TypesInv, Types
  <2>2. PICK s \in SagaStatus : saga' = [saga EXCEPT !.status = s]
    BY <1>3 DEF Complete, FinishCompensation, SagaStatus, Terminal
  <2>3. saga' \in SagaRow
    BY <2>1, <2>2, SagaColumns
  <2> QED
    BY <1>1, <2>1, <2>3, TypedRow, TypedStep
<1> QED
  BY <1>2, <1>3

\* retry_compensation and mark_failed write the row of the saga only.
LEMMA TypedRetry ==
  ASSUME TypesInv, NEW w \in Workers, RetryCompensation(w) \/ MarkFailed
  PROVE  TypesInv'
<1>1. saga \in SagaRow /\ UNCHANGED <<steps, effectVars>>
  BY DEF RetryCompensation, MarkFailed, TypesInv, Types
<1>2. PICK s \in SagaStatus : saga' = [saga EXCEPT !.status = s]
  BY DEF RetryCompensation, MarkFailed, SagaStatus, Terminal
<1>3. saga' \in SagaRow /\ saga' # NULL
  BY <1>1, <1>2, SagaColumns
<1>4. CASE UNCHANGED txn
  <2>1. txn' = [txn EXCEPT ![w] = txn[w]]
    BY <1>4 DEF TypesInv
  <2>2. Kept /\ Types' /\ PriorKept'
    BY <1>1, <1>3, TypedRow
  <2>3. txn[w] = Idle \/ Knows(txn[w])
    BY DEF TypesInv
  <2>4. PICK t : t = txn[w]
    OBVIOUS
  <2>5. t = Idle \/ Knows(t)'
    BY <2>2, <2>3, <2>4 DEF Knows, Kept
  <2> QED
    BY <2>1, <2>2, <2>4, <2>5, TypedStep
<1>5. CASE txn' = [txn EXCEPT ![w] = [op |-> "undo", found |-> NULL]]
  <2>1. Knows([op |-> "undo", found |-> NULL])'
    BY <1>3 DEF Knows, Txn
  <2> QED
    BY <1>1, <1>3, <1>5, <2>1, TypedRow, TypedStep
<1> QED
  BY <1>4, <1>5 DEF RetryCompensation, MarkFailed, Begin

LEMMA TypedCleanup ==
  ASSUME TypesInv, Cleanup
  PROVE  TypesInv'
<1>1. UNCHANGED <<txn, effectVars>> /\ \A w \in Workers : txn[w] = Idle
  BY DEF Cleanup
<1>2. steps' \in [StepNumbers -> StepRow] /\ steps'[4].status = "PENDING" /\ saga' = NULL
  BY DEF Cleanup, NewStep, NoResult, StepRow, Result, StepNumbers
<1> QED
  BY <1>1, <1>2 DEF TypesInv, Types, PriorKept, effectVars

\* The status of a step is set.
LEMMA TypedStatus ==
  ASSUME TypesInv, NEW i \in StepNumbers, NEW s \in StepStatus,
         steps' = [steps EXCEPT ![i].status = s], s # "COMPLETED",
         UNCHANGED <<saga, effectVars>>
  PROVE  Types' /\ PriorKept' /\ Kept
<1>1. 4 \in StepNumbers
  BY DEF StepNumbers
<1>2. /\ steps' \in [StepNumbers -> StepRow]
      /\ steps'[i].status = s /\ steps'[i].data = steps[i].data
      /\ \A k \in StepNumbers : k # i => steps'[k] = steps[k]
  BY StepColumns DEF TypesInv, Types
<1> QED
  BY <1>1, <1>2 DEF TypesInv, Types, PriorKept, Kept, effectVars

\* The step's outcome is recorded, whatever the session had found.
LEMMA TypedRecord ==
  ASSUME TypesInv, NEW w \in Workers, Knows(txn[w]), txn[w].op \in {"exec", "done"},
         NEW data \in Result, txn[w].i = 4 => data.prior # NULL,
         NEW found, Record(w, found, data),
         (journals \in [JournalIds -> JournalStatuses])', (tax \subseteq TaxIds)',
         (posted \in JournalIds \cup {NULL})',
         (invoice \in [status : {"APPROVED", "POSTED"},
                       journal : JournalIds \cup {NULL}])'
  PROVE  TypesInv'
<1>1. PICK r : r = txn[w]
  OBVIOUS
<1>2. r \in Txn /\ r.i \in StepNumbers /\ r.journal \in JournalIds \cup {NULL}
      /\ saga # NULL /\ saga \in SagaRow
  BY <1>1, TxnTypes DEF Knows, TypesInv, Types
<1>3. PICK i \in StepNumbers : i = r.i
  BY <1>2
<1>4. PICK j \in JournalIds \cup {NULL} : j = IF i = 1 THEN data.journal ELSE r.journal
  BY <1>2 DEF Result
<1>5. PICK t : t = [op |-> "at", i |-> i + 1, journal |-> j]
  OBVIOUS
<1>6. /\ txn' = [txn EXCEPT ![w] = t]
      /\ steps' = [steps EXCEPT ![i] = [status |-> "COMPLETED", data |-> data]]
      /\ saga' = [saga EXCEPT !.current = Written(found.current, i + 1, @),
                              !.journal = Written(found.journal, j, @)]
  BY <1>1, <1>3, <1>4, <1>5 DEF Record, Continue
<1>7. i + 1 \in 0 .. 5
  BY DEF StepNumbers
<1>8. /\ Written(found.current, i + 1, saga.current) \in 0 .. 5
      /\ Written(found.journal, j, saga.journal) \in JournalIds \cup {NULL}
  BY <1>2, <1>7 DEF Written, SagaRow
<1>9. saga' \in SagaRow
  <2>1. PICK c \in 0 .. 5, k \in JournalIds \cup {NULL} :
          c = Written(found.current, i + 1, saga.current)
          /\ k = Written(found.journal, j, saga.journal)
    BY <1>8
  <2>2. saga' = [saga EXCEPT !.current = c, !.journal = k]
    BY <1>6, <2>1
  <2> QED
    BY <1>2, <2>2 DEF SagaRow
<1>10. saga' # NULL
  BY <1>9, NullAssumption
<1>11. /\ steps' \in [StepNumbers -> StepRow] /\ steps'[i].data = data
       /\ \A k \in StepNumbers : k # i => steps'[k] = steps[k]
  BY <1>6 DEF TypesInv, Types, StepRow
<1>12. 4 \in StepNumbers /\ (i = 4 => data.prior # NULL)
  BY <1>1, <1>3 DEF StepNumbers
<1>13. PriorKept' /\ Kept
  <2>1. CASE i = 4
    BY <1>10, <1>11, <1>12, <2>1 DEF PriorKept, Kept
  <2>2. CASE i # 4
    BY <1>10, <1>11, <1>12, <2>2 DEF PriorKept, Kept, TypesInv
  <2> QED
    BY <2>1, <2>2
<1>14. Types'
  BY <1>9, <1>11 DEF Types
<1>15. t \in Txn
  BY <1>5, <1>7 DEF Txn
<1>16. Knows(t)'
  BY <1>5, <1>10, <1>15 DEF Knows
<1> QED
  BY <1>6, <1>13, <1>14, <1>16, TypedStep

LEMMA TypedSucceeds ==
  ASSUME TypesInv, NEW w \in Workers, Running(w, "exec"),
         NEW data \in Result, txn[w].i = 4 => data.prior # NULL, Succeed(w, data),
         (journals \in [JournalIds -> JournalStatuses])', (tax \subseteq TaxIds)',
         (posted \in JournalIds \cup {NULL})',
         (invoice \in [status : {"APPROVED", "POSTED"},
                       journal : JournalIds \cup {NULL}])'
  PROVE  TypesInv'
<1>1. PICK r : r = txn[w]
  OBVIOUS
<1>2. Knows(r) /\ r \in Txn /\ r.op = "exec" /\ r.i \in StepNumbers
      /\ r.journal \in JournalIds \cup {NULL} /\ saga # NULL
  BY <1>1, TxnTypes DEF TypesInv, Knows, Running
<1>3. CASE OwnCommit(r.i)
  <2>1. PICK t : t = [op |-> "done", i |-> r.i, journal |-> r.journal, data |-> data]
    OBVIOUS
  <2>2. txn' = [txn EXCEPT ![w] = t] /\ UNCHANGED sagaVars
    BY <1>1, <1>3, <2>1 DEF Succeed, Continue
  <2>3. t \in Txn
    BY <1>2, <2>1 DEF Txn
  <2>4. Knows(t)'
    BY <1>1, <1>2, <2>1, <2>2, <2>3 DEF Knows, sagaVars
  <2>5. Types' /\ PriorKept' /\ Kept
    BY <2>2 DEF TypesInv, Types, PriorKept, Kept, sagaVars
  <2> QED
    BY <2>2, <2>4, <2>5, TypedStep
<1>4. CASE ~OwnCommit(r.i)
  <2>1. Record(w, r.found, data)
    BY <1>1, <1>4 DEF Succeed
  <2> QED
    BY <1>1, <1>2, <2>1, TypedRecord
<1> QED
  BY <1>3, <1>4

LEMMA TypedPerforms ==
  ASSUME TypesInv, NEW w \in Workers, Perform(w)
  PROVE  TypesInv'
<1>1. PICK r : r = txn[w]
  OBVIOUS
<1>2. Running(w, "exec") /\ r \in Txn /\ r.journal \in JournalIds \cup {NULL}
  <2>1. Running(w, "exec")
    BY DEF Perform, ValidateInvoice, CreateJournal, PostToLedger,
           CreateTaxTransactions, UpdateInvoiceStatus
  <2> QED
    BY <1>1, <2>1, TxnTypes DEF TypesInv, Knows, Running
<1>3. NoResult \in Result
  BY DEF NoResult, Result
<1> USE DEF JournalStatuses
<1>4. CASE ValidateInvoice(w)
  BY <1>2, <1>3, <1>4, TypedSucceeds DEF ValidateInvoice, effectVars, TypesInv, Types
<1>5. CASE CreateJournal(w)
  <2>1. PICK j \in JournalIds :
          /\ journals' = [journals EXCEPT ![j] = "APPROVED"]
          /\ Succeed(w, [NoResult EXCEPT !.journal = j])
    BY <1>5 DEF CreateJournal, Fresh
  <2>2. [NoResult EXCEPT !.journal = j] \in Result
    BY DEF NoResult, Result
  <2>3. txn[w].i = 1 /\ UNCHANGED <<posted, reversed, tax, invoice>>
    BY <1>5 DEF CreateJournal
  <2> QED
    BY <1>2, <2>1, <2>2, <2>3, TypedSucceeds DEF TypesInv, Types
<1>6. CASE PostToLedger(w)
  <2>1. /\ Succeed(w, [NoResult EXCEPT !.journal = r.journal])
        /\ txn[w].i = 2 /\ UNCHANGED <<reversed, tax, invoice>>
        /\ \/ UNCHANGED <<posted, journals>>
           \/ /\ posted' = r.journal
              /\ journals' = [journals EXCEPT ![r.journal] = "POSTED"]
    BY <1>1, <1>6 DEF PostToLedger
  <2>2. [NoResult EXCEPT !.journal = r.journal] \in Result
    BY <1>2 DEF NoResult, Result
  <2>3. /\ journals' \in [JournalIds -> JournalStatuses]
        /\ posted' \in JournalIds \cup {NULL}
    BY <1>2, <2>1 DEF TypesInv, Types
  <2> QED
    BY <1>2, <2>1, <2>2, <2>3, TypedSucceeds DEF TypesInv, Types
<1>7. CASE CreateTaxTransactions(w)
  <2>1. txn[w].i = 3 /\ UNCHANGED <<journals, posted, reversed, invoice>>
    BY <1>7 DEF CreateTaxTransactions
  <2>2. PICK data \in Result : Succeed(w, data) /\ (tax \subseteq TaxIds)'
    <3>1. CASE UNCHANGED tax /\ Succeed(w, NoResult)
      BY <1>3, <3>1 DEF TypesInv, Types
    <3>2. CASE \E x \in Fresh(TaxIds \ tax) :
                 /\ tax' = tax \cup {x}
                 /\ Succeed(w, [NoResult EXCEPT !.tax = {x}])
      <4>1. PICK x \in TaxIds : /\ tax' = tax \cup {x}
                                /\ Succeed(w, [NoResult EXCEPT !.tax = {x}])
        BY <3>2 DEF Fresh
      <4>2. [NoResult EXCEPT !.tax = {x}] \in Result
        BY DEF NoResult, Result
      <4> QED
        BY <4>1, <4>2 DEF TypesInv, Types
    <3> QED
      BY <1>7, <3>1, <3>2 DEF CreateTaxTransactions
  <2> QED
    BY <1>2, <2>1, <2>2, TypedSucceeds DEF TypesInv, Types
<1>8. CASE UpdateInvoiceStatus(w)
  <2>1. /\ invoice' = [status |-> "POSTED", journal |-> r.journal]
        /\ Succeed(w, [NoResult EXCEPT !.prior = invoice.status])
        /\ UNCHANGED <<journals, posted, reversed, tax>>
    BY <1>1, <1>8 DEF UpdateInvoiceStatus
  <2>2. invoice.status \in {"APPROVED", "POSTED"} /\ invoice.status # NULL
    BY NullAssumption DEF TypesInv, Types, SagaStatus
  <2>3. /\ [NoResult EXCEPT !.prior = invoice.status] \in Result
        /\ [NoResult EXCEPT !.prior = invoice.status].prior = invoice.status
    BY <2>2 DEF NoResult, Result
  <2> QED
    BY <1>2, <2>1, <2>2, <2>3, TypedSucceeds DEF TypesInv, Types
<1> QED
  BY <1>4, <1>5, <1>6, <1>7, <1>8 DEF Perform

LEMMA TypedForward ==
  ASSUME TypesInv, NEW w \in Workers,
         SkipStep(w) \/ MarkStep(w) \/ StepFails(w) \/ RecordStep(w)
  PROVE  TypesInv'
<1>1. PICK r : r = txn[w]
  OBVIOUS
<1>2. Knows(r) /\ r \in Txn /\ r.op \in {"at", "exec", "done"} /\ saga # NULL
      /\ saga \in SagaRow /\ r.journal \in JournalIds \cup {NULL}
  BY <1>1, TxnTypes DEF TypesInv, Types, Knows, SkipStep, MarkStep, StepFails,
     RecordStep, Running
<1>3. CASE SkipStep(w)
  <2>1. /\ r.i \in StepNumbers
        /\ txn' = [txn EXCEPT ![w] =
                     [op |-> "at", i |-> r.i + 1,
                      journal |-> IF r.i = 1 THEN steps[r.i].data.journal ELSE r.journal]]
        /\ UNCHANGED <<sagaVars, effectVars>>
    BY <1>1, <1>3 DEF SkipStep, Continue
  <2>2. PICK t : t = [op |-> "at", i |-> r.i + 1,
                      journal |-> IF r.i = 1 THEN steps[r.i].data.journal ELSE r.journal]
    OBVIOUS
  <2>3. r.i + 1 \in 0 .. 5 /\ steps[r.i].data.journal \in JournalIds \cup {NULL}
    BY <2>1 DEF StepNumbers, TypesInv, Types, StepRow, Result
  <2>4. t \in Txn
    BY <1>2, <2>2, <2>3 DEF Txn
  <2>5. Knows(t)'
    BY <1>2, <2>1, <2>2, <2>4 DEF Knows, sagaVars
  <2> QED
    BY <2>1, <2>2, <2>5, TypedQuiet, TypedStep
<1>4. CASE MarkStep(w)
  <2>1. /\ r.i \in StepNumbers
        /\ steps' = [steps EXCEPT ![r.i].status = "EXECUTING"]
        /\ txn' = [txn EXCEPT ![w] = [op |-> "exec", i |-> r.i, journal |-> r.journal,
                                      found |-> saga]]
        /\ UNCHANGED <<saga, effectVars>>
    BY <1>1, <1>4 DEF MarkStep, Continue
  <2>2. PICK t : t = [op |-> "exec", i |-> r.i, journal |-> r.journal, found |-> saga]
    OBVIOUS
  <2>3. t \in Txn
    BY <1>2, <2>1, <2>2 DEF Txn
  <2>4. Knows(t)'
    BY <1>2, <2>1, <2>2, <2>3 DEF Knows
  <2> QED
    BY <2>1, <2>2, <2>4, TypedStatus, TypedStep DEF StepStatus
<1>5. CASE StepFails(w)
  <2>1. /\ r.op = "exec"
        /\ steps' = [steps EXCEPT ![r.i].status = "FAILED"]
        /\ txn' = [txn EXCEPT ![w] = [op |-> "undo", found |-> NULL]]
        /\ UNCHANGED <<saga, effectVars>>
    BY <1>1, <1>5 DEF StepFails, Continue, Running
  <2>2. r.i \in StepNumbers
    BY <1>2, <2>1, TxnTypes
  <2>3. Knows([op |-> "undo", found |-> NULL])'
    BY <1>2, <2>1 DEF Knows, Txn
  <2> QED
    BY <2>1, <2>2, <2>3, TypedStatus, TypedStep DEF StepStatus
<1>6. CASE RecordStep(w)
  <2>1. /\ r.op = "done" /\ UNCHANGED effectVars
        /\ Record(w, [current |-> NULL, journal |-> 0], r.data)
    BY <1>1, <1>6 DEF RecordStep, Running
  <2>2. r.data \in Result /\ (r.i = 4 => r.data.prior # NULL)
    BY <1>2, <2>1, TxnTypes DEF Knows
  <2> QED
    BY <1>1, <1>2, <2>1, <2>2, TypedRecord DEF TypesInv, Types, effectVars
<1> QED
  BY <1>3, <1>4, <1>5, <1>6

\* An executor that goes back, at step i with the operation op.
LEMMA TypedBack ==
  ASSUME NEW r \in [op : Backward, i : -1 .. 4, failed : BOOLEAN],
         NEW op \in Backward, NEW i \in -1 .. 4
  PROVE  /\ [r EXCEPT !.op = op, !.i = i] \in Txn
         /\ [r EXCEPT !.op = op, !.i = i].op = op
         /\ [r EXCEPT !.op = op, !.i = i].i = i
<1>1. [r EXCEPT !.op = op, !.i = i] \in [op : Backward, i : -1 .. 4, failed : BOOLEAN]
      /\ [r EXCEPT !.op = op, !.i = i].op = op
      /\ [r EXCEPT !.op = op, !.i = i].i = i
  OBVIOUS
<1> QED
  BY <1>1 DEF Txn, Backward

LEMMA TypedSearch ==
  ASSUME TypesInv, NEW w \in Workers,
         SkipBack(w) \/ MarkBack(w) \/ RecordCompensation(w)
  PROVE  TypesInv'
<1>1. PICK r : r = txn[w]
  OBVIOUS
<1>2. /\ Knows(r) /\ r.op \in {"back", "undone"} /\ saga # NULL
      /\ r \in [op : Backward, i : -1 .. 4, failed : BOOLEAN]
      /\ r.i \in StepNumbers
  <2>1. Knows(r) /\ r.op \in {"back", "undone"}
    BY <1>1 DEF TypesInv, SkipBack, MarkBack, RecordCompensation, Running
  <2>2. r \in [op : Backward, i : -1 .. 4, failed : BOOLEAN]
    BY <2>1, TxnTypes DEF Knows, Backward
  <2>3. r.i \in StepNumbers
    BY <1>1, <2>1 DEF Knows, SkipBack, MarkBack, RecordCompensation, Running, StepNumbers
  <2> QED
    BY <2>1, <2>2, <2>3 DEF Knows
<1>3. PICK back : back = [r EXCEPT !.op = "back", !.i = r.i - 1]
  OBVIOUS
<1>4. back \in Txn /\ back.op = "back"
  <2>1. r.i - 1 \in -1 .. 4 /\ "back" \in Backward
    BY <1>2 DEF StepNumbers, Backward
  <2> QED
    BY <1>2, <1>3, <2>1, TypedBack
<1>5. CASE SkipBack(w)
  <2>1. r.op = "back" /\ txn' = [txn EXCEPT ![w] = [r EXCEPT !.i = r.i - 1]]
        /\ UNCHANGED <<sagaVars, effectVars>>
    BY <1>1, <1>5 DEF SkipBack, Continue, Running
  <2>2. back = [r EXCEPT !.i = r.i - 1]
    BY <1>2, <1>3, <2>1
  <2>3. Knows(back)'
    BY <1>2, <1>4, <2>1 DEF Knows, sagaVars
  <2> QED
    BY <2>1, <2>2, <2>3, TypedQuiet, TypedStep
<1>6. CASE MarkBack(w) /\ r.i = 0
  <2>1. /\ r.op = "back" /\ txn' = [txn EXCEPT ![w] = [r EXCEPT !.i = r.i - 1]]
        /\ steps' = [steps EXCEPT ![r.i].status = "COMPENSATED"]
        /\ UNCHANGED <<saga, effectVars>>
    BY <1>1, <1>6 DEF MarkBack, Continue, Running
  <2>2. back = [r EXCEPT !.i = r.i - 1]
    BY <1>2, <1>3, <2>1
  <2>3. Knows(back)'
    BY <1>2, <1>4, <2>1 DEF Knows
  <2> QED
    BY <1>2, <2>1, <2>2, <2>3, TypedStatus, TypedStep DEF StepStatus
<1>7. CASE MarkBack(w) /\ r.i # 0
  <2>1. /\ r.op = "back" /\ txn' = [txn EXCEPT ![w] = [r EXCEPT !.op = "comp"]]
        /\ steps[r.i].status = "COMPLETED"
        /\ steps' = [steps EXCEPT ![r.i].status = "COMPENSATING"]
        /\ UNCHANGED <<saga, effectVars>>
    BY <1>1, <1>7 DEF MarkBack, Continue, Running
  <2>2. PICK t : t = [r EXCEPT !.op = "comp"]
    OBVIOUS
  <2>3. t = [r EXCEPT !.op = "comp", !.i = r.i]
    BY <1>2, <2>2
  <2>4. t \in Txn /\ t.op = "comp" /\ t.i = r.i
    BY <1>2, <2>3, TypedBack DEF Backward
  <2>5. r.i \in 1 .. 4
    BY <1>2, <1>7 DEF StepNumbers
  <2>6. Types' /\ PriorKept' /\ Kept
    BY <1>2, <2>1, TypedStatus DEF StepStatus
  <2>7. r.i = 4 => steps'[4].data.prior # NULL
    BY <2>1, <2>6 DEF TypesInv, PriorKept, Kept
  <2>8. Knows(t)'
    BY <1>2, <2>1, <2>4, <2>5, <2>7 DEF Knows
  <2> QED
    BY <2>1, <2>2, <2>6, <2>8, TypedStep
<1>8. CASE RecordCompensation(w)
  <2>1. /\ r.op = "undone"
        /\ txn' = [txn EXCEPT ![w] = [r EXCEPT !.op = "back", !.i = r.i - 1]]
        /\ steps' = [steps EXCEPT ![r.i].status = "COMPENSATED"]
        /\ UNCHANGED <<saga, effectVars>>
    BY <1>1, <1>8 DEF RecordCompensation, Continue, Running
  <2>2. Knows(back)'
    BY <1>2, <1>4, <2>1 DEF Knows
  <2> QED
    BY <1>2, <1>3, <2>1, <2>2, TypedStatus, TypedStep DEF StepStatus
<1> QED
  BY <1>5, <1>6, <1>7, <1>8

\* A compensation wrote rows of their kinds and was recorded, or will be.
LEMMA TypedCompensated ==
  ASSUME TypesInv, NEW w \in Workers, Running(w, "comp"), Compensated(w),
         (journals \in [JournalIds -> JournalStatuses])', (tax \subseteq TaxIds)',
         (posted \in JournalIds \cup {NULL})',
         (invoice \in [status : {"APPROVED", "POSTED"},
                       journal : JournalIds \cup {NULL}])'
  PROVE  TypesInv'
<1>1. PICK r : r = txn[w]
  OBVIOUS
<1>2. /\ Knows(r) /\ r.op = "comp" /\ saga # NULL /\ r.i \in 1 .. 4
      /\ r \in [op : Backward, i : -1 .. 4, failed : BOOLEAN]
  BY <1>1, TxnTypes DEF TypesInv, Knows, Running, Backward
<1>3. CASE OwnCommit(r.i)
  <2>1. txn' = [txn EXCEPT ![w] = [r EXCEPT !.op = "undone"]] /\ UNCHANGED sagaVars
    BY <1>1, <1>3 DEF Compensated, Continue
  <2>2. PICK t : t = [r EXCEPT !.op = "undone"]
    OBVIOUS
  <2>3. t = [r EXCEPT !.op = "undone", !.i = r.i]
    BY <1>2, <2>2
  <2>4. t \in Txn /\ t.op = "undone" /\ t.i = r.i
    BY <1>2, <2>3, TypedBack DEF Backward
  <2>5. Knows(t)'
    BY <1>2, <2>1, <2>4 DEF Knows, sagaVars
  <2>6. Types' /\ PriorKept' /\ Kept
    BY <2>1 DEF TypesInv, Types, PriorKept, Kept, sagaVars
  <2> QED
    BY <2>1, <2>2, <2>5, <2>6, TypedStep
<1>4. CASE ~OwnCommit(r.i)
  <2>1. /\ txn' = [txn EXCEPT ![w] = [r EXCEPT !.op = "back", !.i = r.i - 1]]
        /\ steps' = [steps EXCEPT ![r.i].status = "COMPENSATED"]
        /\ UNCHANGED saga
    BY <1>1, <1>4 DEF Compensated, Continue
  <2>2. PICK t : t = [r EXCEPT !.op = "back", !.i = r.i - 1]
    OBVIOUS
  <2>3. t \in Txn /\ t.op = "back"
    <3>1. r.i - 1 \in -1 .. 4 /\ "back" \in Backward
      BY <1>2 DEF Backward
    <3> QED
      BY <1>2, <2>2, <3>1, TypedBack
  <2>4. Knows(t)'
    BY <1>2, <2>1, <2>3 DEF Knows
  <2>5. r.i \in StepNumbers /\ 4 \in StepNumbers
    BY <1>2 DEF StepNumbers
  <2>6. /\ steps' \in [StepNumbers -> StepRow]
        /\ steps'[r.i].status = "COMPENSATED" /\ steps'[r.i].data = steps[r.i].data
        /\ \A k \in StepNumbers : k # r.i => steps'[k] = steps[k]
    BY <2>1, <2>5, StepColumns DEF TypesInv, Types, StepStatus
  <2>7. Types' /\ PriorKept' /\ Kept
    BY <2>1, <2>5, <2>6 DEF TypesInv, Types, PriorKept, Kept
  <2> QED
    BY <2>1, <2>2, <2>4, <2>7, TypedStep
<1> QED
  BY <1>3, <1>4

LEMMA TypedUndoes ==
  ASSUME TypesInv, NEW w \in Workers, Undo(w)
  PROVE  TypesInv'
<1> USE DEF JournalStatuses
<1>1. CASE VoidJournal(w)
  <2>1. journals' \in [JournalIds -> JournalStatuses]
    BY <1>1 DEF VoidJournal, TypesInv, Types
  <2> QED
    BY <1>1, <2>1, TypedCompensated DEF VoidJournal, TypesInv, Types
<1>2. CASE ReverseJournal(w)
  <2>1. journals' \in [JournalIds -> JournalStatuses]
    BY <1>2 DEF ReverseJournal, TypesInv, Types
  <2> QED
    BY <1>2, <2>1, TypedCompensated DEF ReverseJournal, TypesInv, Types
<1>3. CASE ReversalRefused(w)
  <2>1. txn' = [txn EXCEPT ![w] = [op |-> "back", i |-> 1, failed |-> TRUE]]
        /\ UNCHANGED <<sagaVars, effectVars>>
    BY <1>3 DEF ReversalRefused, Continue
  <2>2. saga # NULL
    BY <1>3 DEF ReversalRefused, Running, TypesInv, Knows
  <2>3. [op |-> "back", i |-> 1, failed |-> TRUE] \in Txn
    BY DEF Txn
  <2>4. Knows([op |-> "back", i |-> 1, failed |-> TRUE])'
    BY <2>1, <2>2, <2>3 DEF Knows, sagaVars
  <2> QED
    BY <2>1, <2>4, TypedQuiet, TypedStep
<1>4. CASE DeleteTaxTransactions(w)
  BY <1>4, TypedCompensated DEF DeleteTaxTransactions, TypesInv, Types
<1>5. CASE RevertInvoiceStatus(w)
  <2>1. Knows(txn[w]) /\ Running(w, "comp") /\ txn[w].i = 4 /\ Compensated(w)
        /\ UNCHANGED <<journals, posted, reversed, tax>>
        /\ invoice' = [status |-> steps[4].data.prior, journal |-> NULL]
    BY <1>5 DEF RevertInvoiceStatus, Running, TypesInv
  <2>2. steps[4].data.prior \in {"APPROVED", "POSTED"}
    BY <2>1 DEF Knows, Running, TypesInv, Types, StepRow, Result, StepNumbers
  <2> QED
    BY <2>1, <2>2, TypedCompensated DEF TypesInv, Types
<1> QED
  BY <1>1, <1>2, <1>3, <1>4, <1>5 DEF Undo

LEMMA TypesInvariant == Spec => []TypesInv
<1>1. Init => TypesInv
  BY DEF Init, SessionsInit, TypesInv, Types, PriorKept, NewStep, NoResult, StepRow,
     Result, StepNumbers, JournalStatuses
<1>2. TypesInv /\ [Next]_vars => TypesInv'
  <2> SUFFICES ASSUME TypesInv, [Next]_vars
               PROVE  TypesInv'
    OBVIOUS
  <2>1. CASE UNCHANGED vars
    BY <2>1 DEF vars, sagaVars, effectVars, TypesInv, Types, PriorKept, Knows
  <2>2. ASSUME NEW w \in Workers, Step(w)
        PROVE  TypesInv'
    BY <2>2, TypedStarts, TypedEnds, TypedPerforms, TypedForward, TypedSearch,
       TypedUndoes DEF Step
  <2>3. CASE Next
    <3>1. CASE MarkFailed
      <4>1. CASE Workers = {}
        <5>1. saga \in SagaRow /\ UNCHANGED <<txn, steps, effectVars>>
          BY <3>1 DEF MarkFailed, TypesInv, Types
        <5>2. saga' \in SagaRow
          BY <3>1, <5>1 DEF MarkFailed, SagaRow, SagaStatus, Terminal
        <5>3. Types' /\ PriorKept'
          BY <5>1, <5>2, TypedRow
        <5> QED
          BY <4>1, <5>1, <5>3 DEF TypesInv
      <4> QED
        BY <3>1, <4>1, TypedRetry
    <3> QED
      BY <2>2, <2>3, <3>1, TypedBegins, TypedEnds, TypedRetry, TypedCleanup DEF Next
  <2> QED
    BY <2>1, <2>3
<1> QED
  BY <1>1, <1>2, PTL DEF Spec

\* The rows keep their values also when executors overlap, resume each other's saga
\* and compensate while the other still executes: in particular, what an invoice gets
\* back from compensation_data is a status that a completed step recorded.
THEOREM TypesHold == Spec => []TypeOK
<1>1. TypesInv /\ Considered => TypeOK
  <2> SUFFICES ASSUME TypesInv, Considered
               PROVE  TypeOK
    OBVIOUS
  <2>1. txn \in [Workers -> Txn \cup {Idle}]
    BY DEF TypesInv, Knows
  <2>2. disturbed \subseteq UNION Together
    BY DEF Considered
  <2> QED
    BY <2>1, <2>2 DEF TypesInv, Types, TypeOK, JournalStatuses
<1> QED
  BY <1>1, TypesInvariant, ConsideredInv, PTL
=============================================================================
