--------------------------- MODULE PlatformProofs ---------------------------
(***************************************************************************)
(* Theorems about what serves every document, for any number of sessions,  *)
(* documents and requests.                                                 *)
(* DocumentNumbering: numbers are fresh and gapless, for any reset         *)
(* frequency and a calendar of any length.  IdempotentRequests: a client   *)
(* that is told of success can rely on it, and requests that take turns    *)
(* execute the operation once.  HealthRepairs: the nightly repairs leave   *)
(* no invoice half posted and report what they posted or more.             *)
(* BalanceCache: no event of the outbox is stranded by the relay and the   *)
(* recovery of stuck events.                                               *)
(***************************************************************************)
EXTENDS DocumentNumbering, IdempotentRequests, HealthRepairs, BalanceCache,
        FiniteSetTheorems, TLAPS

-----------------------------------------------------------------------------
(* The calendar *)

LEMMA YearMonth ==
  ASSUME NEW d \in Nat
  PROVE  /\ Year(d) \in Nat /\ Month(d) \in Nat
         /\ d = MonthsPerYear * Year(d) + Month(d)
  <1>1. MonthsPerYear \in Nat \ {0}
    BY NumberingAssumption
  <1> QED BY <1>1, SMT DEF Year, Month

LEMMA YearMonotone ==
  ASSUME NEW d \in Nat, NEW e \in Nat, d <= e
  PROVE  Year(d) <= Year(e)
  <1>1. MonthsPerYear \in Nat \ {0}
    BY NumberingAssumption
  <1> QED BY <1>1, SMT DEF Year

\* Months are counted without a break, so that year and month determine the date.
LEMMA SameDate ==
  ASSUME NEW d \in Nat, NEW e \in Nat, Year(d) = Year(e), Month(d) = Month(e)
  PROVE  d = e
  BY YearMonth

\* A date between two of the same label has that label.
LEMMA LabelBetween ==
  ASSUME NEW f \in {"YEARLY", "MONTHLY"}, NEW a \in Nat, NEW b \in Nat, NEW c \in Nat,
         a <= b, b <= c, Label(f, a) = Label(f, c)
  PROVE  Label(f, a) = Label(f, b)
  <1>1. CASE f = "YEARLY"
    <2>1. Year(a) = Year(c)
      BY <1>1 DEF Label
    <2>2. Year(a) <= Year(b) /\ Year(b) <= Year(c)
      BY YearMonotone
    <2>3. Year(a) = Year(b)
      BY <2>1, <2>2, YearMonth
    <2> QED BY <1>1, <2>3 DEF Label
  <1>2. CASE f = "MONTHLY"
    <2>1. Year(a) = Year(c) /\ Month(a) = Month(c)
      BY <1>2 DEF Label
    <2>2. a = c
      BY <2>1, SameDate
    <2>3. a = b
      BY <2>2
    <2> QED BY <2>3
  <1> QED BY <1>1, <1>2

LEMMA LabelType ==
  ASSUME NEW f \in {"NEVER", "YEARLY", "MONTHLY"}, NEW d \in Nat
  PROVE  Label(f, d) \in Seq(Nat)
  BY YearMonth DEF Label

\* A reset is due exactly when the date shows another label than the row.
LEMMA ResetByLabel ==
  ASSUME frequency \in Frequencies, NEW r \in Row, NEW d \in Nat
  PROVE  /\ r.date # None =>
              (ShouldReset(r, d) <=> Label(frequency, d) # Label(frequency, r.date))
         /\ r.date = None => (ShouldReset(r, d) <=> frequency # "NEVER")
  <1>1. frequency \in {"NEVER", "YEARLY", "MONTHLY"}
    BY NumberingAssumption
  <1>2. CASE frequency = "NEVER"
    BY <1>2 DEF ShouldReset, Label
  <1>3. CASE frequency = "YEARLY"
    BY <1>3 DEF ShouldReset, Label
  <1>4. CASE frequency = "MONTHLY"
    BY <1>4 DEF ShouldReset, Label
  <1> QED BY <1>1, <1>2, <1>3, <1>4

-----------------------------------------------------------------------------
(* The inductive invariant *)

\* x was drawn from a row that has come to be r, without a step back: at a date
\* not after r's, and with a number up to r's if the label is still the same.
Below(x, r) ==
  IF r.date = None
  THEN frequency = "NEVER" /\ x.label = <<>> /\ x.n <= r.number
  ELSE \E d \in Nat :
         /\ d <= r.date
         /\ x.label = Label(frequency, d)
         /\ x.label = Label(frequency, r.date) => x.n <= r.number

AllBelow(D, r) == \A x \in D : Below(x, r)

\* The numbers of r's label up to n are in D.
Consecutive(r, n, D) ==
  \A k \in 1 .. n : [label |-> Label(frequency, r.date), n |-> k] \in D

NoGaps(D) == \A x \in D : \A k \in 1 .. x.n : [x EXCEPT !.n = k] \in D

\* What a session knows of the row whose lock it holds, before and after it saves
\* the document for which it drew a number.
SaveOK(t) ==
  /\ t.number = [label |-> Label(frequency, t.row.date), n |-> t.row.number]
  /\ Consecutive(t.row, t.row.number - 1, documents \cup t.saved)
  /\ NoGaps(documents \cup t.saved)
  /\ ~wentBack => /\ AllBelow(documents \cup t.saved, t.row)
                  /\ Below(t.number, t.row)
                  /\ t.number \notin documents \cup t.saved

SavedOK(t) ==
  /\ Consecutive(t.row, t.row.number, documents \cup t.saved)
  /\ NoGaps(documents \cup t.saved)
  /\ ~wentBack => AllBelow(documents \cup t.saved, t.row)

SessionOK(w) ==
  /\ Running(w, "save") => lock = w /\ SaveOK(txn[w])
  /\ Running(w, "saved") => lock = w /\ SavedOK(txn[w])

SequenceOK ==
  /\ NoGaps(documents)
  /\ sequence = None => documents = {}
  /\ sequence # None => /\ Consecutive(sequence, sequence.number, documents)
                        /\ ~wentBack => AllBelow(documents, sequence)

NumberingInv ==
  /\ NumberingTypeOK
  /\ SequenceOK
  /\ \A w \in Workers : SessionOK(w)

-----------------------------------------------------------------------------
(* One draw *)

\* A draw that does not step back gives a number that no document has.
LEMMA DrawFresh ==
  ASSUME frequency \in Frequencies, NEW r \in Row, NEW d \in Nat,
         NEW D \in SUBSET Number, AllBelow(D, r), NEW next, next = Incremented(r, d),
         ~(r.date # None /\ next.date # r.date /\ d < r.date),
         NEW x, x = [label |-> Label(frequency, d), n |-> next.number]
  PROVE  AllBelow(D, next) /\ Below(x, next) /\ x \notin D
  <1>0. frequency \in {"NEVER", "YEARLY", "MONTHLY"}
    BY NumberingAssumption
  <1>n. None \notin Nat
    BY NumberingAssumption
  <1>1. CASE ShouldReset(r, d) /\ r.date = None
    <2>1. D = {}
      BY <1>1, ResetByLabel DEF AllBelow, Below
    <2>2. next.date = d /\ next.number = 1
      BY <1>1 DEF Incremented
    <2>3. Below(x, next)
      BY <2>2, <1>n DEF Below
    <2> QED BY <2>1, <2>3 DEF AllBelow
  <1>2. CASE ShouldReset(r, d) /\ r.date # None
    <2>1. r.date \in Nat
      BY <1>2 DEF Row
    <2>2. next.date = d /\ next.number = 1
      BY <1>2 DEF Incremented
    <2>3. Label(frequency, d) # Label(frequency, r.date)
      BY <1>2, ResetByLabel
    <2>4. r.date <= d
      BY <1>2, <2>1, <2>2, <2>3
    <2>5. frequency # "NEVER"
      BY <2>3 DEF Label
    <2>6. ASSUME NEW y \in D PROVE Below(y, next) /\ y # x
      <3>1. PICK e \in Nat : e <= r.date /\ y.label = Label(frequency, e)
        BY <1>2 DEF AllBelow, Below
      <3>2. Label(frequency, e) # Label(frequency, d)
        BY <1>0, <2>1, <2>3, <2>4, <2>5, <3>1, LabelBetween
      <3>3. e <= d
        BY <2>1, <2>4, <3>1
      <3>4. y # x
        BY <3>1, <3>2
      <3>5. y.label # Label(frequency, next.date)
        BY <2>2, <3>1, <3>2
      <3> QED BY <1>n, <2>2, <3>1, <3>3, <3>4, <3>5 DEF Below
    <2>7. Below(x, next)
      BY <2>2, <1>n DEF Below
    <2> QED BY <2>6, <2>7 DEF AllBelow
  <1>3. CASE ~ShouldReset(r, d) /\ r.date = None
    <2>1. frequency = "NEVER"
      BY <1>3, ResetByLabel
    <2>2. next = [r EXCEPT !.number = @ + 1]
      BY <1>3 DEF Incremented
    <2>3. next.date = None /\ next.number = r.number + 1 /\ r.number \in Nat
      BY <1>3, <2>2 DEF Row
    <2>4. x.label = <<>> /\ x.n = r.number + 1
      BY <2>1, <2>3 DEF Label
    <2>5. \A y \in D : y.n \in Nat /\ y.label = <<>> /\ y.n <= r.number
      BY <1>3 DEF AllBelow, Below, Number
    <2>6. AllBelow(D, next)
      BY <2>1, <2>3, <2>5 DEF AllBelow, Below
    <2>7. Below(x, next)
      BY <2>1, <2>3, <2>4 DEF Below
    <2>8. x \notin D
      BY <2>3, <2>4, <2>5
    <2> QED BY <2>6, <2>7, <2>8
  <1>4. CASE ~ShouldReset(r, d) /\ r.date # None
    <2>1. r.date \in Nat /\ r.number \in Nat
      BY <1>4 DEF Row
    <2>2. Label(frequency, d) = Label(frequency, r.date)
      BY <1>4, ResetByLabel
    <2>3. next = [r EXCEPT !.number = @ + 1]
      BY <1>4 DEF Incremented
    <2>4. next.date = r.date /\ next.number = r.number + 1
      BY <2>3 DEF Row
    <2>5. \A y \in D : /\ y.n \in Nat
                       /\ \E e \in Nat : e <= r.date /\ y.label = Label(frequency, e)
                       /\ y.label = Label(frequency, r.date) => y.n <= r.number
      BY <1>4 DEF AllBelow, Below, Number
    <2>6. AllBelow(D, next)
      BY <1>4, <2>1, <2>4, <2>5 DEF AllBelow, Below
    <2>7. Below(x, next)
      BY <1>4, <2>1, <2>2, <2>4 DEF Below
    <2>8. x \notin D
      BY <2>1, <2>2, <2>4, <2>5
    <2> QED BY <2>6, <2>7, <2>8
  <1> QED BY <1>1, <1>2, <1>3, <1>4

\* A draw skips no number of its label.
LEMMA DrawConsecutive ==
  ASSUME frequency \in Frequencies, NEW r \in Row, NEW d \in Nat,
         NEW D, Consecutive(r, r.number, D), NEW next, next = Incremented(r, d)
  PROVE  /\ next \in Row
         /\ Label(frequency, next.date) = Label(frequency, d)
         /\ Consecutive(next, next.number - 1, D)
  <1>1. CASE ShouldReset(r, d)
    <2>1. next = [number |-> 1, date |-> d]
      BY <1>1 DEF Incremented
    <2>2. next.number - 1 = 0
      BY <2>1
    <2> QED BY <2>1, <2>2 DEF Row, Consecutive
  <1>2. CASE ~ShouldReset(r, d)
    <2>1. next = [r EXCEPT !.number = @ + 1]
      BY <1>2 DEF Incremented
    <2>2. next \in Row /\ next.date = r.date /\ next.number - 1 = r.number
      BY <2>1 DEF Row
    <2>3. Label(frequency, r.date) = Label(frequency, d)
      <3>1. CASE r.date = None
        <4>1. frequency = "NEVER"
          BY <1>2, <3>1, ResetByLabel
        <4> QED BY <4>1 DEF Label
      <3>2. CASE r.date # None
        BY <1>2, <3>2, ResetByLabel
      <3> QED BY <3>1, <3>2
    <2> QED BY <2>2, <2>3 DEF Consecutive
  <1> QED BY <1>1, <1>2

-----------------------------------------------------------------------------
(* The steps *)

LEMMA SessionTypes ==
  ASSUME NumberingTypeOK, NEW w \in Workers
  PROVE  /\ Running(w, "draw") => txn[w].date \in Nat
         /\ Running(w, "insert") => txn[w].date \in Nat
         /\ Running(w, "save") => txn[w] \in
              [op : {"save"}, row : Row, saved : SUBSET Number, number : Number]
         /\ Running(w, "saved") => txn[w] \in
              [op : {"saved"}, row : Row, saved : SUBSET Number]
  BY DEF NumberingTypeOK, NumberingTxn, Running

\* The holder of the lock is the only session with a row.
LEMMA OthersWait ==
  ASSUME NumberingInv, NEW w \in Workers, lock = None \/ lock = w
  PROVE  \A v \in Workers \ {w} : ~Running(v, "save") /\ ~Running(v, "saved")
  BY NumberingAssumption DEF NumberingInv, SessionOK

\* A session that has no row after the step, in a step that leaves the others alone.
LEMMA RowlessInd ==
  ASSUME NumberingInv, NEW w \in Workers,
         NEW t \in {Idle} \cup [op : {"draw", "insert"}, date : Nat],
         txn' = [txn EXCEPT ![w] = t],
         lock' = lock \/ (lock = w /\ lock' = None),
         UNCHANGED <<frequency, sequence, documents, today, wentBack>>
  PROVE  NumberingInv'
  <1>1. NumberingTypeOK'
    <2>1. t \in NumberingTxn \cup {Idle}
      BY DEF NumberingTxn
    <2>2. txn' \in [Workers -> NumberingTxn \cup {Idle}]
      BY <2>1 DEF NumberingInv, NumberingTypeOK
    <2> QED BY <2>2 DEF NumberingInv, NumberingTypeOK
  <1>2. SequenceOK'
    BY DEF NumberingInv, SequenceOK, NoGaps, Consecutive, AllBelow, Below
  <1>3. ASSUME NEW v \in Workers PROVE SessionOK(v)'
    <2>1. CASE v = w
      <3>1. txn'[v] = t
        BY <2>1 DEF NumberingInv, NumberingTypeOK
      <3>2. ~Running(v, "save")' /\ ~Running(v, "saved")'
        BY <3>1 DEF Running
      <3> QED BY <3>2 DEF SessionOK
    <2>2. CASE v # w
      <3>1. txn'[v] = txn[v]
        BY <2>2 DEF NumberingInv, NumberingTypeOK
      <3>2. SessionOK(v)
        BY DEF NumberingInv
      <3>3. Running(v, "save") \/ Running(v, "saved") => lock' = lock
        BY <2>2, <3>2, NumberingAssumption DEF SessionOK
      <3> QED BY <3>1, <3>2, <3>3
              DEF SessionOK, Running, SaveOK, SavedOK, NoGaps, Consecutive, AllBelow, Below
    <2> QED BY <2>1, <2>2
  <1> QED BY <1>1, <1>2, <1>3 DEF NumberingInv

\* A draw from a row that the session holds from now on.
LEMMA DrawInd ==
  ASSUME NumberingInv, NEW w \in Workers, NEW r \in Row, NEW d \in Nat,
         NEW saved \in SUBSET Number,
         Draw(w, r, d, saved), lock' = w,
         \A v \in Workers \ {w} : ~Running(v, "save") /\ ~Running(v, "saved"),
         Consecutive(r, r.number, documents \cup saved), NoGaps(documents \cup saved),
         ~wentBack => AllBelow(documents \cup saved, r),
         UNCHANGED <<frequency, sequence, documents, today>>
  PROVE  NumberingInv'
  <1> DEFINE D == documents \cup saved
             next == Incremented(r, d)
             x == [label |-> Label(frequency, d), n |-> next.number]
             t == [op |-> "save", row |-> next, saved |-> saved, number |-> x]
  <1>0. NumberingTypeOK /\ frequency \in Frequencies /\ D \in SUBSET Number
    BY DEF NumberingInv, NumberingTypeOK
  <1>1. /\ txn' = [txn EXCEPT ![w] = t]
        /\ wentBack' = (wentBack \/ (r.date # None /\ next.date # r.date /\ d < r.date))
    BY DEF Draw, Continue
  <1>2. /\ next \in Row
        /\ Label(frequency, next.date) = Label(frequency, d)
        /\ Consecutive(next, next.number - 1, D)
    BY <1>0, DrawConsecutive
  <1>3. ~wentBack' => ~wentBack /\ AllBelow(D, next) /\ Below(x, next) /\ x \notin D
    <2> SUFFICES ASSUME ~wentBack'
                 PROVE  ~wentBack /\ AllBelow(D, next) /\ Below(x, next) /\ x \notin D
      OBVIOUS
    <2>1. ~wentBack /\ ~(r.date # None /\ next.date # r.date /\ d < r.date)
      BY <1>0, <1>1 DEF NumberingTypeOK
    <2>2. AllBelow(D, r)
      BY <2>1
    <2> HIDE DEF D
    <2> QED BY <1>0, <2>1, <2>2, DrawFresh
  <1>4. x \in Number
    <2>1. Label(frequency, d) \in Seq(Nat)
      BY <1>0, LabelType, NumberingAssumption
    <2>2. next.number \in Nat
      BY <1>2 DEF Row
    <2> QED BY <2>1, <2>2 DEF Number
  <1> HIDE DEF next, x
  <1>5. NumberingTypeOK'
    <2>1. t \in NumberingTxn
      BY <1>2, <1>4 DEF NumberingTxn
    <2>2. txn' \in [Workers -> NumberingTxn \cup {Idle}]
      BY <1>0, <1>1, <2>1 DEF NumberingTypeOK
    <2>3. wentBack' \in BOOLEAN
      BY <1>1
    <2> QED BY <1>0, <2>2, <2>3 DEF NumberingTypeOK
  <1>6. SequenceOK'
    BY <1>3 DEF NumberingInv, SequenceOK, NoGaps, Consecutive, AllBelow, Below
  <1>7. SessionOK(w)'
    <2>1. txn'[w] = t
      BY <1>0, <1>1 DEF NumberingTypeOK
    <2>2. ~Running(w, "saved")'
      BY <2>1 DEF Running
    <2>3. x = [label |-> Label(frequency, next.date), n |-> next.number]
      BY <1>2 DEF x
    <2>4. SaveOK(txn[w])'
      <3>1. /\ (documents \cup txn[w].saved)' = D
            /\ txn'[w].row = next /\ txn'[w].number = x
        BY <2>1
      <3> HIDE DEF D, t
      <3>2. NoGaps(D)
        BY DEF D
      <3>3. ~wentBack' => /\ AllBelow(documents \cup txn[w].saved, txn[w].row)'
                          /\ Below(txn[w].number, txn[w].row)'
                          /\ txn'[w].number \notin (documents \cup txn[w].saved)'
        BY <1>3, <3>1 DEF AllBelow, Below
      <3>4. NoGaps(documents \cup txn[w].saved)'
        BY <3>1, <3>2 DEF NoGaps
      <3>5. Consecutive(txn[w].row, txn[w].row.number - 1, documents \cup txn[w].saved)'
        BY <1>2, <3>1 DEF Consecutive
      <3> QED BY <2>3, <3>1, <3>3, <3>4, <3>5 DEF SaveOK
    <2> QED BY <2>2, <2>4 DEF SessionOK
  <1>8. ASSUME NEW v \in Workers \ {w} PROVE SessionOK(v)'
    <2>1. txn'[v] = txn[v]
      BY <1>0, <1>1 DEF NumberingTypeOK
    <2> QED BY <2>1 DEF SessionOK, Running
  <1> QED BY <1>5, <1>6, <1>7, <1>8 DEF NumberingInv

LEMMA NumberingInitInd == NumberingInit => NumberingInv
  <1> SUFFICES ASSUME NumberingInit PROVE NumberingInv
    OBVIOUS
  <1>1. txn = [w \in Workers |-> Idle]
    BY DEF NumberingInit, SessionsInit
  <1>2. \A w \in Workers : SessionOK(w)
    BY <1>1 DEF SessionOK, Running
  <1>3. NumberingTypeOK
    BY <1>1 DEF NumberingInit, NumberingTypeOK
  <1> QED BY <1>2, <1>3 DEF NumberingInit, NumberingInv, SequenceOK, NoGaps

LEMMA NumberingNextInd == NumberingInv /\ [NumberingNext]_numberingVars => NumberingInv'
  <1> SUFFICES ASSUME NumberingInv, [NumberingNext]_numberingVars PROVE NumberingInv'
    OBVIOUS
  <1>t. NumberingTypeOK /\ SequenceOK /\ today \in Nat
    BY DEF NumberingInv, NumberingTypeOK
  <1>1. ASSUME NEW w \in Workers, RequestNumber(w) PROVE NumberingInv'
    <2>1. PICK d \in 0 .. today : txn' = [txn EXCEPT ![w] = [op |-> "draw", date |-> d]]
      BY <1>1 DEF RequestNumber, Begin
    <2>2. d \in Nat
      BY <1>t
    <2> QED BY <1>1, <2>1, <2>2, RowlessInd DEF RequestNumber
  <1>2. ASSUME NEW w \in Workers, LockSequence(w) PROVE NumberingInv'
    <2>1. sequence # None /\ sequence \in Row
      BY <1>2, <1>t DEF LockSequence, NumberingTypeOK
    <2>2. txn[w].date \in Nat
      BY <1>2, <1>t, SessionTypes DEF LockSequence
    <2>3. \A v \in Workers \ {w} : ~Running(v, "save") /\ ~Running(v, "saved")
      BY <1>2, OthersWait DEF LockSequence
    <2>4. documents \cup {} = documents
      OBVIOUS
    <2>5. /\ Consecutive(sequence, sequence.number, documents \cup {})
          /\ NoGaps(documents \cup {})
          /\ ~wentBack => AllBelow(documents \cup {}, sequence)
      BY <1>t, <2>1, <2>4 DEF SequenceOK
    <2> QED BY <1>2, <2>1, <2>2, <2>3, <2>5, DrawInd DEF LockSequence
  <1>3. ASSUME NEW w \in Workers, FindNoSequence(w) PROVE NumberingInv'
    <2>1. txn[w].date \in Nat
      BY <1>3, <1>t, SessionTypes DEF FindNoSequence
    <2> QED BY <1>3, <2>1, RowlessInd DEF FindNoSequence, Continue
  <1>4. ASSUME NEW w \in Workers, InsertSequence(w) PROVE NumberingInv'
    <2>1. documents \cup {} = {}
      BY <1>4, <1>t DEF InsertSequence, SequenceOK
    <2>2. DefaultSequence \in Row /\ DefaultSequence.number = 0
      BY DEF DefaultSequence, Row
    <2>3. txn[w].date \in Nat
      BY <1>4, <1>t, SessionTypes DEF InsertSequence
    <2>4. \A v \in Workers \ {w} : ~Running(v, "save") /\ ~Running(v, "saved")
      BY <1>4, OthersWait DEF InsertSequence
    <2>5. /\ Consecutive(DefaultSequence, DefaultSequence.number, documents \cup {})
          /\ NoGaps(documents \cup {})
          /\ AllBelow(documents \cup {}, DefaultSequence)
      BY <2>1, <2>2 DEF Consecutive, NoGaps, AllBelow
    <2> QED BY <1>4, <2>2, <2>3, <2>4, <2>5, DrawInd DEF InsertSequence
  <1>5. ASSUME NEW w \in Workers, InsertRefused(w) PROVE NumberingInv'
    BY <1>5, RowlessInd DEF InsertRefused, End
  <1>6. ASSUME NEW w \in Workers, SaveDocument(w) PROVE NumberingInv'
    <2> DEFINE t == [op |-> "saved", row |-> txn[w].row,
                     saved |-> txn[w].saved \cup {txn[w].number}]
               D == documents \cup txn[w].saved
               E == documents \cup (txn[w].saved \cup {txn[w].number})
    <2>1. /\ Running(w, "save") /\ lock = w /\ SaveOK(txn[w])
          /\ txn' = [txn EXCEPT ![w] = t]
          /\ UNCHANGED <<frequency, sequence, lock, documents, today, wentBack>>
      BY <1>6 DEF SaveDocument, NumberingInv, SessionOK, Continue
    <2>2. txn[w] \in [op : {"save"}, row : Row, saved : SUBSET Number, number : Number]
      BY <1>t, <2>1, SessionTypes
    <2>3. t \in NumberingTxn
      BY <2>2 DEF NumberingTxn
    <2>4. NumberingTypeOK'
      <3>1. txn' \in [Workers -> NumberingTxn \cup {Idle}]
        BY <1>t, <2>1, <2>3 DEF NumberingTypeOK
      <3> QED BY <1>t, <2>1, <3>1 DEF NumberingTypeOK
    <2>5. SequenceOK'
      BY <1>t, <2>1 DEF SequenceOK, NoGaps, Consecutive, AllBelow, Below
    <2>6. txn[w].row \in Row /\ txn[w].row.number \in Nat
      BY <2>2 DEF Row
    <2>7. Consecutive(txn[w].row, txn[w].row.number, E)
      <3> SUFFICES ASSUME NEW k \in 1 .. txn[w].row.number
                   PROVE  [label |-> Label(frequency, txn[w].row.date), n |-> k] \in E
        BY DEF Consecutive
      <3>1. CASE k = txn[w].row.number
        BY <2>1, <3>1 DEF SaveOK
      <3>2. CASE k \in 1 .. txn[w].row.number - 1
        BY <2>1, <3>2 DEF SaveOK, Consecutive
      <3> QED BY <2>6, <3>1, <3>2
    <2>8. NoGaps(E)
      <3> SUFFICES ASSUME NEW x \in E, NEW k \in 1 .. x.n
                   PROVE  [x EXCEPT !.n = k] \in E
        BY DEF NoGaps
      <3>1. CASE x \in D
        BY <2>1, <3>1 DEF SaveOK, NoGaps
      <3>2. CASE x = txn[w].number
        <4>1. x = [label |-> Label(frequency, txn[w].row.date), n |-> txn[w].row.number]
          BY <2>1, <3>2 DEF SaveOK
        <4>2. [x EXCEPT !.n = k] = [label |-> Label(frequency, txn[w].row.date), n |-> k]
          BY <4>1
        <4>3. k \in 1 .. txn[w].row.number
          BY <4>1
        <4> QED BY <2>7, <4>2, <4>3 DEF Consecutive
      <3> QED BY <3>1, <3>2
    <2>9. ~wentBack => AllBelow(E, txn[w].row)
      BY <2>1 DEF SaveOK, AllBelow
    <2>10. SessionOK(w)'
      <3>1. txn'[w] = t
        BY <1>t, <2>1 DEF NumberingTypeOK
      <3>2. ~Running(w, "save")'
        BY <3>1 DEF Running
      <3>3. (documents \cup txn[w].saved)' = E /\ txn'[w].row = txn[w].row
        BY <2>1, <3>1
      <3> HIDE DEF E, t
      <3>4. SavedOK(txn[w])'
        BY <2>1, <2>7, <2>8, <2>9, <3>3
           DEF SavedOK, Consecutive, NoGaps, AllBelow, Below
      <3> QED BY <2>1, <3>2, <3>4 DEF SessionOK
    <2>11. ASSUME NEW v \in Workers \ {w} PROVE SessionOK(v)'
      <3>1. ~Running(v, "save") /\ ~Running(v, "saved")
        BY <2>1, OthersWait
      <3>2. txn'[v] = txn[v]
        BY <1>t, <2>1 DEF NumberingTypeOK
      <3> QED BY <3>1, <3>2 DEF SessionOK, Running
    <2> QED BY <2>4, <2>5, <2>10, <2>11 DEF NumberingInv
  <1>7. ASSUME NEW w \in Workers, DrawAgain(w) PROVE NumberingInv'
    <2>1. Running(w, "saved") /\ lock = w /\ SavedOK(txn[w])
      BY <1>7 DEF DrawAgain, NumberingInv, SessionOK
    <2>2. PICK d \in 0 .. today : Draw(w, txn[w].row, d, txn[w].saved)
      BY <1>7 DEF DrawAgain
    <2>3. txn[w].row \in Row /\ txn[w].saved \in SUBSET Number /\ d \in Nat
      BY <1>t, <2>1, SessionTypes
    <2>4. \A v \in Workers \ {w} : ~Running(v, "save") /\ ~Running(v, "saved")
      BY <2>1, OthersWait
    <2>5. lock' = w /\ UNCHANGED <<frequency, sequence, documents, today>>
      BY <1>7, <2>1 DEF DrawAgain
    <2> QED BY <2>1, <2>2, <2>3, <2>4, <2>5, DrawInd DEF SavedOK
  <1>8. ASSUME NEW w \in Workers, Commit(w) PROVE NumberingInv'
    <2> DEFINE D == documents \cup txn[w].saved
    <2>1. /\ Running(w, "saved") /\ lock = w /\ SavedOK(txn[w])
          /\ sequence' = txn[w].row /\ documents' = D
          /\ txn' = [txn EXCEPT ![w] = Idle] /\ lock' = None
          /\ UNCHANGED <<frequency, today, wentBack>>
      BY <1>8 DEF Commit, NumberingInv, SessionOK, End
    <2>2. txn[w].row \in Row /\ txn[w].saved \in SUBSET Number
      BY <1>t, <2>1, SessionTypes
    <2>3. NumberingTypeOK'
      <3>1. txn' \in [Workers -> NumberingTxn \cup {Idle}]
        BY <1>t, <2>1 DEF NumberingTypeOK
      <3> QED BY <1>t, <2>1, <2>2, <3>1 DEF NumberingTypeOK
    <2>4. SequenceOK'
      <3>1. sequence' # None
        BY <2>1, <2>2, NullRowAssumption
      <3> QED BY <2>1, <3>1
              DEF SequenceOK, SavedOK, NoGaps, Consecutive, AllBelow, Below
    <2>5. ASSUME NEW v \in Workers PROVE SessionOK(v)'
      <3>1. v = w => ~Running(v, "save")' /\ ~Running(v, "saved")'
        BY <1>t, <2>1 DEF Running, NumberingTypeOK
      <3>2. v # w => ~Running(v, "save") /\ ~Running(v, "saved") /\ txn'[v] = txn[v]
        BY <1>t, <2>1, OthersWait DEF NumberingTypeOK
      <3> QED BY <3>1, <3>2 DEF SessionOK, Running
    <2> QED BY <2>3, <2>4, <2>5 DEF NumberingInv
  <1>9. ASSUME NEW w \in Workers, Rollback(w) PROVE NumberingInv'
    BY <1>9, RowlessInd DEF Rollback, End
  <1>10. CASE NextMonth
    <2>1. today' \in Nat /\ UNCHANGED <<txn, frequency, sequence, lock, documents, wentBack>>
      BY <1>10, <1>t DEF NextMonth
    <2>2. NumberingTypeOK' /\ SequenceOK'
      BY <1>t, <2>1 DEF NumberingTypeOK, SequenceOK, NoGaps, Consecutive, AllBelow, Below
    <2>3. ASSUME NEW v \in Workers PROVE SessionOK(v)'
      BY <2>1 DEF NumberingInv, SessionOK, Running, SaveOK, SavedOK, NoGaps, Consecutive,
                  AllBelow, Below
    <2> QED BY <2>2, <2>3 DEF NumberingInv
  <1>11. CASE UNCHANGED numberingVars
    <2>1. NumberingTypeOK' /\ SequenceOK'
      BY <1>t, <1>11 DEF numberingVars, NumberingTypeOK, SequenceOK, NoGaps, Consecutive, AllBelow, Below
    <2>2. ASSUME NEW v \in Workers PROVE SessionOK(v)'
      BY <1>11 DEF numberingVars, NumberingInv, SessionOK, Running, SaveOK, SavedOK, NoGaps, Consecutive,
                   AllBelow, Below
    <2> QED BY <2>1, <2>2 DEF NumberingInv
  <1> QED BY <1>1, <1>2, <1>3, <1>4, <1>5, <1>6, <1>7, <1>8, <1>9, <1>10, <1>11 DEF NumberingNext

-----------------------------------------------------------------------------
(* The theorems *)

LEMMA NumberingInductive == NumberingSpec => []NumberingInv
  BY NumberingInitInd, NumberingNextInd, PTL DEF NumberingSpec

\* The rows and open requests have the columns and value sets of the models.
THEOREM NumberingTypes == NumberingSpec => []NumberingTypeOK
  <1>1. NumberingInv => NumberingTypeOK
    BY DEF NumberingInv
  <1> QED BY <1>1, NumberingInductive, PTL

\* generate_next_number hands out no number that a document has, as long as no
\* reset went back to an earlier period.
THEOREM NumbersAreFresh == NumberingSpec => []FreshNumbers
  <1>1. NumberingInv => FreshNumbers
    BY DEF NumberingInv, SessionOK, SaveOK, FreshNumbers
  <1> QED BY <1>1, NumberingInductive, PTL

\* It skips none, whatever the dates: a number is committed or rolled back with
\* its document.
THEOREM NumbersAreGapless == NumberingSpec => []Gapless
  <1>1. NumberingInv => Gapless
    BY DEF NumberingInv, SequenceOK, NoGaps, Gapless
  <1> QED BY <1>1, NumberingInductive, PTL

-----------------------------------------------------------------------------
(* Idempotency keys *)

\* A final response for body b that the operation bears out.
Real(response, b) ==
  response \in Responses =>
    /\ response.body = b
    /\ response = Success(b) => effects > 0

RealAnswers == \A a \in answers : Real(a.response, a.to)

\* Until a key expires under a request, a request that is executed has a valid
\* record of its own body, and what the record and the answers say is borne out.
Kept ==
  /\ Usable => Real(record.response, record.hash)
  /\ RealAnswers
  /\ \A w \in Workers : Running(w, "run") => Usable /\ record.hash = txn[w].body

IndInv == TypeOK /\ (~outlived => Kept)

Txn == [op : {"reserve", "run"}, body : Bodies]

-----------------------------------------------------------------------------

LEMMA NeutralAnswers ==
  ASSUME NEW b
  PROVE  /\ Real(InProgress, b) /\ Real(Conflict, b) /\ Real(Failure, b)
         /\ Real(Error(b), b)
         /\ effects > 0 => Real(Success(b), b)
  BY DEF Real, Responses, Success, Error, InProgress, Conflict, Failure

LEMMA InProgressIsNoResponse == InProgress \notin Responses
  BY DEF Responses, Success, Error, InProgress

LEMMA ResponseTypes ==
  ASSUME NEW b \in Bodies
  PROVE  Success(b) \in Responses /\ Error(b) \in Responses
  BY DEF Responses

LEMMA RunningTxn ==
  ASSUME TypeOK, NEW w \in Workers, NEW op \in {"reserve", "run"}, Running(w, op)
  PROVE  txn[w] \in Txn /\ txn[w].op = op /\ txn[w].body \in Bodies
  BY DEF TypeOK, Running, Txn

\* A request ends or begins; no other becomes one that is executed.
LEMMA TxnStep ==
  ASSUME TypeOK, NEW w \in Workers, NEW t \in {Idle} \cup Txn,
         txn' = [txn EXCEPT ![w] = t]
  PROVE  /\ txn' \in [Workers -> {Idle} \cup Txn]
         /\ txn'[w] = t
         /\ \A v \in Workers \ {w} : txn'[v] = txn[v]
         /\ t = Idle \/ t.op = "reserve" =>
              \A v \in Workers : Running(v, "run")' => Running(v, "run") /\ txn'[v] = txn[v]
  BY DEF TypeOK, Running, Txn

LEMMA InitInd == Init => IndInv
  <1> SUFFICES ASSUME Init PROVE IndInv
    OBVIOUS
  <1>1. txn = [w \in Workers |-> Idle]
    BY DEF Init, SessionsInit
  <1>2. MaxEffects \in Nat
    BY IdempotentRequestsAssumption
  <1>3. TypeOK
    <2>1. txn \in [Workers -> {Idle} \cup Txn]
      BY <1>1
    <2>2. effects \in 0 .. MaxEffects
      BY <1>2 DEF Init
    <2> QED BY <2>1, <2>2 DEF Init, TypeOK, Txn
  <1>4. Kept
    BY <1>1 DEF Init, Kept, RealAnswers, Usable, Running
  <1> QED BY <1>3, <1>4 DEF IndInv

\* Steps that add an answer and leave the rest, but for a request that ends.
LEMMA AnswerInd ==
  ASSUME IndInv, NEW w \in Workers, NEW b \in Bodies,
         NEW r \in Responses \cup {InProgress, Conflict, Failure},
         ~outlived => Real(r, b), Answer(b, r),
         txn' = txn \/ txn' = [txn EXCEPT ![w] = Idle],
         UNCHANGED <<record, effects, raced, outlived>>
  PROVE  IndInv'
  <1>1. /\ txn' \in [Workers -> {Idle} \cup Txn]
        /\ \A v \in Workers : Running(v, "run")' => Running(v, "run") /\ txn'[v] = txn[v]
    <2>1. CASE txn' = txn
      BY <2>1 DEF IndInv, TypeOK, Txn, Running
    <2>2. CASE txn' = [txn EXCEPT ![w] = Idle]
      BY <2>2, TxnStep DEF IndInv
    <2> QED BY <2>1, <2>2
  <1>2. answers' = answers \cup {[to |-> b, response |-> r]}
    BY DEF Answer
  <1>3. TypeOK'
    BY <1>1, <1>2 DEF IndInv, TypeOK, Txn
  <1>4. ASSUME ~outlived PROVE Kept'
    <2>1. RealAnswers'
      BY <1>2, <1>4 DEF IndInv, Kept, RealAnswers, Real
    <2> QED BY <1>1, <1>4, <2>1 DEF IndInv, Kept, Usable, Real
  <1> QED BY <1>3, <1>4 DEF IndInv

\* Steps that store the response of an executed request and send it.
LEMMA ExecutedInd ==
  ASSUME IndInv, NEW w \in Workers, Running(w, "run"),
         NEW b, b = txn[w].body, NEW r \in {Success(b), Error(b)},
         effects' \in 0 .. MaxEffects, effects <= effects',
         r = Success(b) => effects' > 0,
         txn' = [txn EXCEPT ![w] = Idle],
         UpdateResponse(r), Answer(b, r), UNCHANGED <<raced, outlived>>
  PROVE  IndInv'
  <1>1. b \in Bodies
    BY RunningTxn DEF IndInv
  <1>2. r \in Responses
    BY <1>1, ResponseTypes
  <1>3. /\ txn' \in [Workers -> {Idle} \cup Txn]
        /\ \A v \in Workers : Running(v, "run")' => Running(v, "run") /\ txn'[v] = txn[v]
    BY TxnStep DEF IndInv
  <1>4. answers' = answers \cup {[to |-> b, response |-> r]}
    BY DEF Answer
  <1>5. record' \in Record
    <2>1. CASE record = NULL
      BY <1>2, <2>1 DEF UpdateResponse, Record
    <2>2. CASE record # NULL
      <3>1. record \in Record
        BY <2>2 DEF IndInv, TypeOK
      <3> QED BY <1>2, <2>2, <3>1 DEF UpdateResponse, Record
    <2> QED BY <2>1, <2>2
  <1>6. TypeOK'
    BY <1>1, <1>2, <1>3, <1>4, <1>5 DEF IndInv, TypeOK, Txn
  <1>7. r.body = b
    BY DEF Success, Error
  <1>8. ASSUME ~outlived PROVE Kept'
    <2>1. record \in Record /\ ~record.expired /\ record.hash = b
      BY <1>8 DEF IndInv, TypeOK, Kept, Usable
    <2>2. record' = [record EXCEPT !.response = r]
      BY <2>1, NullRecordAssumption DEF UpdateResponse
    <2>3. record'.response = r /\ record'.hash = b /\ Usable'
      BY <2>1, <2>2, <1>5, NullRecordAssumption DEF Record, Usable
    <2>4. Real(r, b)'
      BY <1>7 DEF Real, Success
    <2>5. RealAnswers'
      <3>1. ASSUME NEW a \in answers PROVE Real(a.response, a.to)'
        <4>1. Real(a.response, a.to)
          BY <1>8 DEF IndInv, Kept, RealAnswers
        <4>2. effects \in Nat /\ effects' \in Nat
          BY IdempotentRequestsAssumption DEF IndInv, TypeOK
        <4> QED BY <4>1, <4>2 DEF Real, Responses, Success, Error
      <3>2. Real([to |-> b, response |-> r].response, [to |-> b, response |-> r].to)'
        BY <1>7 DEF Real, Success
      <3> QED BY <1>4, <3>1, <3>2 DEF RealAnswers
    <2>6. \A v \in Workers : Running(v, "run")' => record'.hash = txn'[v].body
      BY <1>3, <1>8, <2>1, <2>3 DEF IndInv, Kept
    <2>7. Real(record.response, record.hash)'
      BY <1>7, <2>3 DEF Real, Success
    <2> QED BY <2>3, <2>5, <2>6, <2>7 DEF Kept
  <1> QED BY <1>6, <1>8 DEF IndInv

LEMMA NextInd == IndInv /\ [Next]_vars => IndInv'
  <1> SUFFICES ASSUME IndInv, [Next]_vars PROVE IndInv'
    OBVIOUS
  <1> USE DEF history
  <1>t. TypeOK /\ effects \in Nat
    BY IdempotentRequestsAssumption DEF IndInv, TypeOK
  <1>1. ASSUME NEW w \in Workers, NEW b \in Bodies, NewRequest(w, b) PROVE IndInv'
    <2> DEFINE t == [op |-> "reserve", body |-> b]
    <2>1. /\ ~Usable /\ record' = NULL /\ UNCHANGED <<effects, answers, outlived>>
          /\ txn' = [txn EXCEPT ![w] = t] /\ raced' = (raced \/ Busy)
      BY <1>1 DEF NewRequest, Begin
    <2>2. t \in Txn
      BY DEF Txn
    <2>3. /\ txn' \in [Workers -> {Idle} \cup Txn]
          /\ \A v \in Workers : Running(v, "run")' => Running(v, "run")
      <3>1. t = Idle \/ t.op = "reserve"
        OBVIOUS
      <3> HIDE DEF t
      <3> QED BY <1>t, <2>1, <2>2, <3>1, TxnStep
    <2>4. TypeOK'
      BY <1>t, <2>1, <2>3 DEF TypeOK, Txn
    <2>5. ~outlived => Kept'
      BY <2>1, <2>3 DEF IndInv, Kept, RealAnswers, Real, Usable
    <2> QED BY <2>1, <2>4, <2>5 DEF IndInv
  <1>2. ASSUME NEW w \in Workers, NEW b \in Bodies, Replay(w, b) PROVE IndInv'
    <2>1. record \in Record /\ Usable /\ record.hash = b
      BY <1>2, <1>t DEF Replay, Usable, TypeOK
    <2>2. record.response \in Responses \cup {InProgress, Conflict, Failure}
      BY <2>1 DEF Record
    <2>3. ~outlived => Real(record.response, b)
      BY <2>1 DEF IndInv, Kept
    <2> QED BY <1>2, <2>2, <2>3, AnswerInd DEF Replay
  <1>3. ASSUME NEW w \in Workers, NEW b \in Bodies, Refused(w, b) PROVE IndInv'
    BY <1>3, NeutralAnswers, AnswerInd DEF Refused
  <1>4. ASSUME NEW w \in Workers, Reserve(w) PROVE IndInv'
    <2> DEFINE b == txn[w].body
               t == [op |-> "run", body |-> b]
    <2>1. /\ Running(w, "reserve") /\ record = NULL
          /\ txn' = [txn EXCEPT ![w] = [txn[w] EXCEPT !.op = "run"]]
          /\ record' = Reserved(b) /\ UNCHANGED <<effects, answers, raced, outlived>>
      BY <1>4 DEF Reserve, Continue
    <2>2. txn[w] \in Txn /\ b \in Bodies
      BY <1>t, <2>1, RunningTxn
    <2>3. [txn[w] EXCEPT !.op = "run"] = t
      BY <2>2 DEF Txn
    <2>4. t \in Txn /\ Reserved(b) \in Record
      BY <2>2 DEF Txn, Reserved, Record
    <2>5. /\ txn' \in [Workers -> {Idle} \cup Txn] /\ txn'[w] = t
          /\ \A v \in Workers \ {w} : txn'[v] = txn[v]
      BY <1>t, <2>1, <2>3, <2>4, TxnStep
    <2>6. TypeOK'
      BY <1>t, <2>1, <2>4, <2>5 DEF TypeOK, Txn
    <2>7. ASSUME ~outlived PROVE Kept'
      <3>1. \A v \in Workers : ~Running(v, "run")
        BY <2>1, <2>7 DEF IndInv, Kept, Usable
      <3>2. record'.response = InProgress /\ record'.hash = b /\ Usable'
        BY <2>1, <2>4, NullRecordAssumption DEF Reserved, Usable
      <3>3. \A v \in Workers : Running(v, "run")' => v = w
        BY <2>5, <3>1 DEF Running
      <3>4. RealAnswers'
        BY <2>1, <2>7 DEF IndInv, Kept, RealAnswers, Real
      <3>5. Real(record.response, record.hash)'
        BY <3>2, InProgressIsNoResponse DEF Real
      <3> QED BY <2>5, <3>2, <3>3, <3>4, <3>5 DEF Kept
    <2> QED BY <2>1, <2>6, <2>7 DEF IndInv
  <1>5. ASSUME NEW w \in Workers, ReserveTaken(w) PROVE IndInv'
    <2> DEFINE b == txn[w].body
               t == [op |-> "run", body |-> b]
    <2>1. /\ Running(w, "reserve") /\ Usable /\ record.hash = b
          /\ txn' = [txn EXCEPT ![w] = [txn[w] EXCEPT !.op = "run"]]
          /\ UNCHANGED <<record, effects, answers, raced, outlived>>
      BY <1>5 DEF ReserveTaken, Continue
    <2>2. txn[w] \in Txn /\ b \in Bodies
      BY <1>t, <2>1, RunningTxn
    <2>3. [txn[w] EXCEPT !.op = "run"] = t
      BY <2>2 DEF Txn
    <2>4. t \in Txn
      BY <2>2 DEF Txn
    <2>5. /\ txn' \in [Workers -> {Idle} \cup Txn] /\ txn'[w] = t
          /\ \A v \in Workers \ {w} : txn'[v] = txn[v]
      BY <1>t, <2>1, <2>3, <2>4, TxnStep
    <2>6. TypeOK'
      BY <1>t, <2>1, <2>5 DEF TypeOK, Txn
    <2>7. ASSUME ~outlived PROVE Kept'
      <3>1. Usable' /\ record' = record
        BY <2>1 DEF Usable
      <3>2. \A v \in Workers : Running(v, "run")' => record'.hash = txn'[v].body
        BY <2>1, <2>5, <2>7 DEF IndInv, Kept, Running
      <3> QED BY <2>1, <2>7, <3>1, <3>2 DEF IndInv, Kept, RealAnswers, Real, Usable
    <2> QED BY <2>1, <2>6, <2>7 DEF IndInv
  <1>6. ASSUME NEW w \in Workers, ReserveRefused(w) PROVE IndInv'
    <2>1. txn[w].body \in Bodies
      BY <1>6, <1>t, RunningTxn DEF ReserveRefused
    <2> QED BY <1>6, <2>1, NeutralAnswers, AnswerInd DEF ReserveRefused, End
  <1>7. ASSUME NEW w \in Workers, ReserveExpired(w) PROVE IndInv'
    <2> DEFINE b == txn[w].body
    <2>1. /\ Running(w, "reserve") /\ ~Usable /\ record' = NULL
          /\ txn' = [txn EXCEPT ![w] = Idle]
          /\ answers' = answers \cup {[to |-> b, response |-> Failure]}
          /\ UNCHANGED <<effects, raced, outlived>>
      BY <1>7 DEF ReserveExpired, End, Answer
    <2>2. b \in Bodies
      BY <1>t, <2>1, RunningTxn
    <2>3. /\ txn' \in [Workers -> {Idle} \cup Txn]
          /\ \A v \in Workers : Running(v, "run")' => Running(v, "run")
      BY <1>t, <2>1, TxnStep
    <2>4. TypeOK'
      BY <1>t, <2>1, <2>2, <2>3 DEF TypeOK, Txn
    <2>5. ~outlived => Kept'
      BY <2>1, <2>3, NeutralAnswers DEF IndInv, Kept, RealAnswers, Real, Usable
    <2> QED BY <2>1, <2>4, <2>5 DEF IndInv
  <1>8. ASSUME NEW w \in Workers, Succeed(w) PROVE IndInv'
    <2>1. effects' \in 0 .. MaxEffects /\ effects <= effects' /\ effects' > 0
      BY <1>8, <1>t, IdempotentRequestsAssumption DEF Succeed
    <2>2. PICK b : b = txn[w].body
      OBVIOUS
    <2> QED BY <1>8, <2>1, <2>2, ExecutedInd DEF Succeed, End
  <1>9. ASSUME NEW w \in Workers, Raise(w) PROVE IndInv'
    <2>1. effects' \in 0 .. MaxEffects /\ effects <= effects'
      BY <1>9, <1>t, IdempotentRequestsAssumption DEF Raise, TypeOK
    <2>2. Error(txn[w].body) # Success(txn[w].body)
      BY DEF Error, Success
    <2>3. PICK b : b = txn[w].body
      OBVIOUS
    <2> QED BY <1>9, <2>1, <2>2, <2>3, ExecutedInd DEF Raise, End
  <1>10. ASSUME NEW w \in Workers, Crash(w) PROVE IndInv'
    <2>1. txn' = [txn EXCEPT ![w] = Idle]
          /\ UNCHANGED <<record, effects, answers, raced, outlived>>
      BY <1>10 DEF Crash, End
    <2>2. /\ txn' \in [Workers -> {Idle} \cup Txn]
          /\ \A v \in Workers : Running(v, "run")' => Running(v, "run") /\ txn'[v] = txn[v]
      BY <1>t, <2>1, TxnStep
    <2>3. TypeOK'
      BY <1>t, <2>1, <2>2 DEF TypeOK, Txn
    <2> QED BY <2>1, <2>2, <2>3 DEF IndInv, Kept, RealAnswers, Real, Usable
  <1>11. CASE Expire
    <2>1. /\ record # NULL /\ record' = [record EXCEPT !.expired = TRUE]
          /\ effects' = 0 /\ answers' = {} /\ outlived' = (outlived \/ Busy)
          /\ UNCHANGED <<txn, raced>>
      BY <1>11 DEF Expire, Usable
    <2>2. record' \in Record /\ record'.expired
      BY <1>t, <2>1 DEF TypeOK, Record
    <2>3. TypeOK'
      BY <1>t, <2>1, <2>2, IdempotentRequestsAssumption DEF TypeOK
    <2>4. ~outlived' => Kept'
      BY <2>1, <2>2 DEF Kept, RealAnswers, Usable, Busy, Running
    <2> QED BY <2>3, <2>4 DEF IndInv
  <1>12. CASE CleanupExpired
    <2>1. /\ ~Usable /\ record' = NULL /\ UNCHANGED <<txn, effects, answers, raced, outlived>>
      BY <1>12 DEF CleanupExpired, Usable
    <2> QED BY <1>t, <2>1 DEF IndInv, TypeOK, Kept, RealAnswers, Real, Usable, Running
  <1>13. CASE UNCHANGED vars
    BY <1>13 DEF vars, IndInv, TypeOK, Kept, RealAnswers, Real, Usable, Running
  <1> QED BY <1>1, <1>2, <1>3, <1>4, <1>5, <1>6, <1>7, <1>8, <1>9, <1>10, <1>11, <1>12,
             <1>13
          DEF Next, Request, Proceed

LEMMA Inductive == Spec => []IndInv
  BY InitInd, NextInd, PTL DEF Spec

\* The record, the requests at work and the answers keep their types, for any number
\* of requests with the key at once, crashes, expiry and cleanup included.
THEOREM RequestTypes == Spec => []TypeOK
  <1>1. IndInv => TypeOK
    BY DEF IndInv
  <1> QED BY <1>1, Inductive, PTL

\* Whoever was told of success can rely on it: the operation was executed, for its
\* own body, however many requests with the key are on their way at once.
THEOREM SuccessCanBeReliedOn == Spec => []SuccessIsReal
  <1>1. IndInv => SuccessIsReal
    BY DEF IndInv, Kept, RealAnswers, Real, SuccessIsReal
  <1> QED BY <1>1, Inductive, PTL

-----------------------------------------------------------------------------

Alone(w) == \A v \in Workers : txn[v] # Idle => v = w

\* While requests take turns, the one that is processed comes before any effect,
\* and an effect leaves a valid record behind.
Turns ==
  /\ \A w \in Workers : txn[w] # Idle => Alone(w) /\ effects = 0
  /\ \A w \in Workers : Running(w, "reserve") => record = NULL
  /\ ~Usable => effects = 0
  /\ effects <= 1

OnceInv == raced \/ outlived \/ Turns

\* A request that ends leaves nobody at work.
LEMMA EndsTurn ==
  ASSUME NEW w \in Workers, Alone(w), txn' = [txn EXCEPT ![w] = Idle], TypeOK
  PROVE  \A v \in Workers : txn'[v] = Idle
  BY DEF Alone, TypeOK

\* A request that is processed further stays the only one.
LEMMA KeepsTurn ==
  ASSUME NEW w \in Workers, Alone(w), NEW t, txn' = [txn EXCEPT ![w] = t], TypeOK
  PROVE  /\ txn'[w] = t
         /\ \A v \in Workers : txn'[v] # Idle => v = w
  BY DEF Alone, TypeOK

LEMMA InitOnce == Init => OnceInv
  <1> SUFFICES ASSUME Init PROVE Turns
    BY DEF OnceInv
  <1>1. \A w \in Workers : txn[w] = Idle
    BY DEF Init, SessionsInit
  <1> QED BY <1>1 DEF Init, Turns, Running

LEMMA NextOnce == IndInv /\ OnceInv /\ [Next]_vars => OnceInv'
  <1> SUFFICES ASSUME IndInv, OnceInv, [Next]_vars, ~raced', ~outlived' PROVE Turns'
    BY DEF OnceInv
  <1> USE DEF history
  <1>t. TypeOK /\ effects \in Nat
    BY IdempotentRequestsAssumption DEF IndInv, TypeOK
  <1>h. Turns
    <2>1. ASSUME NEW w \in Workers, NEW b \in Bodies, NewRequest(w, b)
          PROVE ~raced /\ ~outlived
      BY <2>1 DEF NewRequest
    <2>2. CASE Expire
      <3>1. outlived' = (outlived \/ Busy) /\ raced' = raced
        BY <2>2 DEF Expire
      <3> QED BY <3>1 DEF OnceInv
    <2>3. CASE UNCHANGED <<raced, outlived>>
      <3>1. raced' = raced /\ outlived' = outlived
        BY <2>3
      <3> QED BY <3>1 DEF OnceInv
    <2>4. \/ \E w \in Workers, b \in Bodies : NewRequest(w, b)
          \/ Expire
          \/ UNCHANGED <<raced, outlived>>
      BY DEF Next, Request, Proceed, Replay, Refused, Reserve, ReserveTaken,
             ReserveRefused, ReserveExpired, Succeed, Raise, Crash, CleanupExpired, vars
    <2> QED BY <2>1, <2>2, <2>3, <2>4 DEF OnceInv
  <1>1. ASSUME NEW w \in Workers, NEW b \in Bodies, NewRequest(w, b) PROVE Turns'
    <2> DEFINE t == [op |-> "reserve", body |-> b]
    <2>1. txn' = [txn EXCEPT ![w] = t] /\ record' = NULL /\ effects' = effects /\ ~Usable
      BY <1>1 DEF NewRequest, Begin
    <2>2. \A v \in Workers : txn[v] = Idle
      BY <1>1 DEF NewRequest, Busy
    <2>3. \A v \in Workers : txn'[v] # Idle => v = w
      BY <1>t, <2>1, <2>2 DEF TypeOK
    <2>4. effects' = 0
      BY <1>h, <2>1 DEF Turns
    <2> QED BY <2>1, <2>3, <2>4 DEF Turns, Alone, Usable
  <1>2. ASSUME NEW w \in Workers, NEW b \in Bodies, Replay(w, b) \/ Refused(w, b)
        PROVE Turns'
    BY <1>2, <1>h DEF Replay, Refused, Turns, Alone, Usable, Running
  <1>3. ASSUME NEW w \in Workers, Reserve(w) PROVE Turns'
    <2>1. /\ Running(w, "reserve") /\ record' = Reserved(txn[w].body) /\ effects' = effects
          /\ txn' = [txn EXCEPT ![w] = [txn[w] EXCEPT !.op = "run"]]
      BY <1>3 DEF Reserve, Continue
    <2>2. Alone(w) /\ effects = 0
      BY <1>h, <2>1 DEF Turns, Running
    <2>3. txn[w] \in Txn /\ txn[w].body \in Bodies
      BY <1>t, <2>1, RunningTxn
    <2>4. PICK t : t = [txn[w] EXCEPT !.op = "run"]
      OBVIOUS
    <2>5. t.op = "run"
      BY <2>3, <2>4 DEF Txn
    <2>6. txn'[w] = t /\ \A v \in Workers : txn'[v] # Idle => v = w
      BY <1>t, <2>1, <2>2, <2>4, KeepsTurn
    <2>7. Reserved(txn[w].body) \in Record
      BY <2>3 DEF Reserved, Record
    <2>8. Usable'
      BY <2>1, <2>7, NullRecordAssumption DEF Usable, Reserved
    <2> QED BY <2>1, <2>2, <2>5, <2>6, <2>8 DEF Turns, Running, Alone
  <1>4. ASSUME NEW w \in Workers, ReserveTaken(w) \/ ReserveRefused(w) PROVE FALSE
    BY <1>4, <1>h DEF ReserveTaken, ReserveRefused, Turns, Usable
  <1>5. ASSUME NEW w \in Workers, ReserveExpired(w) PROVE FALSE
    BY <1>5, <1>h DEF ReserveExpired, Turns
  <1>6. ASSUME NEW w \in Workers, Succeed(w) \/ Raise(w) PROVE Turns'
    <2>1. /\ Running(w, "run") /\ txn' = [txn EXCEPT ![w] = Idle]
          /\ effects' \in {effects, effects + 1}
      BY <1>6 DEF Succeed, Raise, End
    <2>2. Alone(w) /\ effects = 0 /\ ~outlived
      BY <1>6, <1>h, <2>1 DEF Turns, Running, Succeed, Raise
    <2>3. \A v \in Workers : txn'[v] = Idle
      BY <1>t, <2>1, <2>2, EndsTurn
    <2>4. record \in Record /\ ~record.expired
      BY <1>t, <2>1, <2>2 DEF IndInv, Kept, Usable, TypeOK
    <2>5. PICK r \in Responses : UpdateResponse(r)
      <3>1. txn[w].body \in Bodies
        BY <1>t, <2>1, RunningTxn
      <3> QED BY <1>6, <3>1, ResponseTypes DEF Succeed, Raise
    <2>6. record' = [record EXCEPT !.response = r]
      BY <2>4, <2>5, NullRecordAssumption DEF UpdateResponse
    <2>7. record' \in Record /\ ~record'.expired
      BY <2>4, <2>6 DEF Record
    <2>8. Usable'
      BY <2>7, NullRecordAssumption DEF Usable
    <2> QED BY <2>1, <2>2, <2>3, <2>8 DEF Turns, Running
  <1>7. ASSUME NEW w \in Workers, Crash(w) PROVE Turns'
    <2>1. /\ txn' = [txn EXCEPT ![w] = Idle] /\ UNCHANGED <<record, effects>>
          /\ Alone(w) /\ effects = 0
      BY <1>7, <1>h DEF Crash, End, Turns
    <2>2. \A v \in Workers : txn'[v] = Idle
      BY <1>t, <2>1, EndsTurn
    <2> QED BY <2>1, <2>2 DEF Turns, Running
  <1>8. CASE Expire
    <2>1. effects' = 0 /\ UNCHANGED txn /\ \A v \in Workers : txn[v] = Idle
      BY <1>8 DEF Expire, Busy
    <2> QED BY <2>1 DEF Turns, Running
  <1>9. CASE CleanupExpired
    BY <1>9, <1>h DEF CleanupExpired, Turns, Usable, Running, Alone
  <1>10. CASE UNCHANGED vars
    BY <1>10, <1>h DEF vars, Turns, Usable, Running, Alone
  <1> QED BY <1>1, <1>2, <1>3, <1>4, <1>5, <1>6, <1>7, <1>8, <1>9, <1>10
          DEF Next, Request, Proceed

\* A key whose requests take turns executes its operation at most once, also when
\* a request raised, crashed or was answered again.
THEOREM ExecutedAtMostOnce == Spec => []AtMostOnce
  <1>1. Spec => []OnceInv
    BY InitOnce, NextOnce, Inductive, PTL DEF Spec
  <1>2. OnceInv => AtMostOnce
    BY DEF OnceInv, Turns, AtMostOnce
  <1> QED BY <1>1, <1>2, PTL

-----------------------------------------------------------------------------
(* The nightly repairs. *)

\* Rows, committed or pending, in which status and ledger agree.
Coherent(r) ==
  /\ r.invoice \in [Invoices -> {"SUBMITTED", "APPROVED", "POSTED"}]
  /\ r.ledger \subseteq Invoices
  /\ \A i \in Invoices : r.invoice[i] = "POSTED" <=> i \in r.ledger

Rows == [invoice : [Invoices -> {"SUBMITTED", "APPROVED", "POSTED"}],
         ledger : SUBSET Invoices,
         journal : [Journals -> {"POSTED", "REVERSED"}],
         reversal : [Journals -> {"NONE", "APPROVED"}]]

PostTask == [op : {"post"}, pending : Rows, posted : Nat, todo : SUBSET Invoices]

FixTask == [op : {"fix"}, pending : Rows, dryRun : BOOLEAN, todo : SUBSET Journals]

\* What a running auto_post_approved_invoices has counted, against what it would
\* commit: an invoice it has yet to post is not posted in its copy either.
Counting(t) ==
  /\ \A i \in t.todo : i \notin t.pending.ledger
  /\ \A i \in t.todo : i \notin rows.ledger
  /\ Cardinality(t.pending.ledger \ rows.ledger) <= t.posted
  /\ refused = {} => Cardinality(t.pending.ledger \ rows.ledger) = t.posted
  /\ t.posted + Cardinality(t.todo) <= Cardinality(Invoices)

RepairsInv ==
  /\ rows \in Rows /\ Coherent(rows)
  /\ report \in [posted : 0 .. Cardinality(Invoices),
                 actual : 0 .. Cardinality(Invoices)]
  /\ ReportIsBound
  /\ task # NoTask =>
       /\ task \in PostTask \cup FixTask
       /\ Coherent(task.pending)
       /\ TaskRuns("post") => Counting(task)

LEMMA RunningTask ==
  ASSUME RepairsInv, NEW op \in {"post", "fix"}, TaskRuns(op)
  PROVE  /\ Coherent(task.pending) /\ task.pending \in Rows
         /\ op = "post" => task \in PostTask /\ Counting(task)
         /\ op = "fix" => task \in FixTask
  BY DEF RepairsInv, TaskRuns, PostTask, FixTask

\* Posting one more invoice keeps a copy of the rows coherent.
LEMMA PostedCoherent ==
  ASSUME NEW r \in Rows, Coherent(r), NEW i \in Invoices
  PROVE  Posted(r, i) \in Rows /\ Coherent(Posted(r, i))
         /\ Posted(r, i).ledger = r.ledger \cup {i}
  BY DEF Rows, Coherent, Posted

LEMMA NewlyPostedFinite ==
  ASSUME NEW S \in SUBSET Invoices, NEW T
  PROVE  IsFiniteSet(S \ T) /\ Cardinality(S \ T) \in Nat
  <1>1. IsFiniteSet(S \ T)
    BY FS_Subset, InvoicesAssumption
  <1> QED BY <1>1, FS_CardinalityType

\* There are at most as many invoices to post as there are invoices.
LEMMA InvoicesBound ==
  ASSUME NEW S \in SUBSET Invoices
  PROVE  /\ IsFiniteSet(S) /\ Cardinality(S) \in Nat
         /\ Cardinality(Invoices) \in Nat /\ Cardinality(S) <= Cardinality(Invoices)
  <1>1. IsFiniteSet(S) /\ Cardinality(S) <= Cardinality(Invoices)
    BY FS_Subset, InvoicesAssumption
  <1> QED BY <1>1, FS_CardinalityType, InvoicesAssumption

LEMMA RepairsInitInd == RepairsInit => RepairsInv
  BY FS_CardinalityType, InvoicesAssumption DEF RepairsInit, RepairsInv, Rows, Coherent, ReportIsBound, TaskRuns

LEMMA RepairsNextInd == RepairsInv /\ [RepairsNext]_repairVars => RepairsInv'
  <1> SUFFICES ASSUME RepairsInv, [RepairsNext]_repairVars PROVE RepairsInv'
    OBVIOUS
  <1>1. ASSUME NEW i \in Invoices, Approve(i) PROVE RepairsInv'
    BY <1>1 DEF Approve, RepairsInv, Rows, Coherent, ReportIsBound, TaskRuns
  <1>2. CASE StartAutoPost
    <2> DEFINE t == [op |-> "post", pending |-> rows, posted |-> 0,
                     todo |-> {i \in Invoices : rows.invoice[i] = "APPROVED"}]
    <2>1. task' = t /\ UNCHANGED <<rows, report, refused>>
      BY <1>2 DEF StartAutoPost
    <2>2. t \in PostTask /\ Coherent(t.pending)
      BY DEF RepairsInv, PostTask
    <2>3. Cardinality(t.pending.ledger \ rows.ledger) = 0
      <3>1. t.pending.ledger \ rows.ledger = {}
        OBVIOUS
      <3> QED BY <3>1, FS_EmptySet, Zenon
    <2>4. Counting(t)
      <3>1. t.todo \in SUBSET Invoices
        OBVIOUS
      <3>2. /\ Cardinality(t.todo) \in Nat
            /\ Cardinality(t.todo) <= Cardinality(Invoices)
        BY <3>1, InvoicesBound
      <3>3. \A i \in t.todo : i \notin rows.ledger
        BY DEF RepairsInv, Coherent
      <3>4. t.pending = rows /\ t.posted = 0
        OBVIOUS
      <3>5. t.posted + Cardinality(t.todo) <= Cardinality(Invoices)
        BY <3>2, <3>4
      <3> HIDE DEF t
      <3> QED BY <2>3, <3>3, <3>4, <3>5 DEF Counting
    <2>5. Counting(task)'
      BY <2>1, <2>4 DEF Counting
    <2>6. (task \in PostTask /\ Coherent(task.pending))'
      BY <2>1, <2>2 DEF PostTask, Rows, Coherent
    <2> QED BY <2>1, <2>5, <2>6 DEF RepairsInv, Coherent, ReportIsBound
  <1>3. ASSUME NEW i \in Invoices, PostOne(i) PROVE RepairsInv'
    <2> DEFINE new == task.pending.ledger \ rows.ledger
    <2>1. /\ TaskRuns("post") /\ i \in task.todo \ refused
          /\ task' = [task EXCEPT !.todo = @ \ {i}, !.pending = Posted(@, i),
                                  !.posted = @ + 1]
          /\ UNCHANGED <<rows, report, refused>>
      BY <1>3 DEF PostOne
    <2>2. task \in PostTask /\ Counting(task) /\ Coherent(task.pending)
          /\ task.pending \in Rows
      BY <2>1, RunningTask
    <2>3. /\ Posted(task.pending, i) \in Rows /\ Coherent(Posted(task.pending, i))
          /\ Posted(task.pending, i).ledger = task.pending.ledger \cup {i}
      BY <2>2, PostedCoherent
    <2>4. task' \in PostTask /\ task'.pending = Posted(task.pending, i)
          /\ task'.todo = task.todo \ {i} /\ task'.posted = task.posted + 1
      <3>1. PICK p : p = Posted(task.pending, i)
        OBVIOUS
      <3>2. task' = [task EXCEPT !.todo = @ \ {i}, !.pending = p, !.posted = @ + 1]
        BY <2>1, <3>1
      <3>3. p \in Rows
        BY <2>3, <3>1
      <3>4. task \in PostTask
        BY <2>2
      <3>5. task' = [op |-> "post", pending |-> p, posted |-> task.posted + 1,
                     todo |-> task.todo \ {i}]
        BY <3>2, <3>4, Zenon DEF PostTask
      <3>6. task.posted + 1 \in Nat /\ task.todo \ {i} \in SUBSET Invoices
        BY <3>4 DEF PostTask
      <3>7. task' \in PostTask
        BY <3>3, <3>5, <3>6 DEF PostTask
      <3> QED BY <3>1, <3>5, <3>7
    <2>5. i \notin new /\ task'.pending.ledger \ rows.ledger = new \cup {i}
      BY <2>1, <2>2, <2>3, <2>4 DEF Counting
    <2>6. IsFiniteSet(new) /\ Cardinality(new) \in Nat
      BY <2>2, NewlyPostedFinite DEF Rows
    <2>7. Cardinality(new \cup {i}) = Cardinality(new) + 1
      BY <2>5, <2>6, FS_AddElement
    <2>8. Counting(task)'
      <3>1. \A k \in task'.todo : k \notin task'.pending.ledger /\ k \notin rows'.ledger
        BY <2>1, <2>2, <2>3, <2>4 DEF Counting
      <3>2. task'.pending.ledger \ rows'.ledger = new \cup {i}
        BY <2>1, <2>5
      <3>3. Cardinality(new) <= task.posted
            /\ (refused = {} => Cardinality(new) = task.posted)
        BY <2>2 DEF Counting
      <3>4. task.posted \in Nat
        BY <2>2 DEF PostTask
      <3>5. Cardinality(task'.pending.ledger \ rows'.ledger) = Cardinality(new) + 1
        BY <2>7, <3>2
      <3> HIDE DEF new
      <3>6. /\ Cardinality(task'.pending.ledger \ rows'.ledger) <= task'.posted
            /\ refused' = {} => Cardinality(task'.pending.ledger \ rows'.ledger)
                                  = task'.posted
        BY <2>1, <2>4, <2>6, <3>3, <3>4, <3>5
      <3>7. /\ Cardinality(task.todo) \in Nat
            /\ Cardinality(task'.todo) = Cardinality(task.todo) - 1
            /\ Cardinality(Invoices) \in Nat
        BY <2>1, <2>2, <2>4, InvoicesBound, FS_RemoveElement DEF PostTask
      <3>8. task'.posted + Cardinality(task'.todo) <= Cardinality(Invoices)
        BY <2>2, <2>4, <3>4, <3>7 DEF Counting
      <3> QED BY <2>1, <3>1, <3>6, <3>8 DEF Counting
    <2>9. Coherent(task'.pending)
      BY <2>3, <2>4
    <2> QED BY <2>1, <2>4, <2>8, <2>9 DEF RepairsInv, Coherent, ReportIsBound
  <1>4. ASSUME NEW i \in Invoices, PostRefused(i) PROVE RepairsInv'
    <2>1. /\ TaskRuns("post") /\ i \in task.todo \cap refused
          /\ task' = [task EXCEPT !.todo = @ \ {i}, !.pending = rows]
          /\ UNCHANGED <<rows, report, refused>>
      BY <1>4 DEF PostRefused
    <2>2. task \in PostTask /\ Counting(task)
      BY <2>1, RunningTask
    <2>3. task' \in PostTask /\ task'.pending = rows /\ task'.posted \in Nat
          /\ task'.todo = task.todo \ {i}
      BY <2>1, <2>2 DEF PostTask, RepairsInv
    <2>4. task'.pending.ledger \ rows'.ledger = {}
      BY <2>1, <2>3
    <2>5. Counting(task)'
      <3>1. /\ Cardinality(task.todo) \in Nat
            /\ Cardinality(task'.todo) = Cardinality(task.todo) - 1
            /\ Cardinality(Invoices) \in Nat
        BY <2>1, <2>2, <2>3, InvoicesBound, FS_RemoveElement DEF PostTask
      <3>2. task'.posted = task.posted /\ task.posted \in Nat
        BY <2>1, <2>2 DEF PostTask
      <3>3. task'.posted + Cardinality(task'.todo) <= Cardinality(Invoices)
        BY <2>2, <3>1, <3>2 DEF Counting
      <3> QED BY <2>1, <2>2, <2>3, <2>4, <3>3, FS_EmptySet DEF Counting
    <2> QED BY <2>1, <2>3, <2>5 DEF RepairsInv, Coherent, ReportIsBound
  <1>5. CASE FinishAutoPost
    <2>1. TaskRuns("post") /\ task' = NoTask /\ rows' = task.pending /\ UNCHANGED refused
          /\ report' = [posted |-> task.posted,
                        actual |-> Cardinality(task.pending.ledger \ rows.ledger)]
      BY <1>5 DEF FinishAutoPost
    <2>2. task \in PostTask /\ Counting(task) /\ Coherent(task.pending)
          /\ task.pending \in Rows
      BY <2>1, RunningTask
    <2>3. Cardinality(task.pending.ledger \ rows.ledger) \in Nat
      BY <2>2, NewlyPostedFinite DEF Rows
    <2>4. report' \in [posted : 0 .. Cardinality(Invoices),
                       actual : 0 .. Cardinality(Invoices)] /\ ReportIsBound'
      <3>1. Cardinality(task.todo) \in Nat /\ Cardinality(Invoices) \in Nat
        BY <2>2, InvoicesBound DEF PostTask
      <3>2. task.posted \in Nat
        BY <2>2 DEF PostTask
      <3>3. task.posted + Cardinality(task.todo) <= Cardinality(Invoices)
        BY <2>2 DEF Counting
      <3>4. task.posted \in 0 .. Cardinality(Invoices)
        BY <3>1, <3>2, <3>3
      <3>5. Cardinality(task.pending.ledger \ rows.ledger) \in 0 .. Cardinality(Invoices)
        BY <2>2, <2>3, <3>1, <3>4 DEF Counting
      <3> QED BY <2>1, <2>2, <3>4, <3>5 DEF Counting, ReportIsBound
    <2>5. (rows \in Rows /\ Coherent(rows))'
      BY <2>1, <2>2 DEF Coherent, Rows
    <2> QED BY <2>1, <2>4, <2>5 DEF RepairsInv
  <1>6. ASSUME NEW dryRun \in BOOLEAN, StartFix(dryRun) PROVE RepairsInv'
    BY <1>6 DEF StartFix, RepairsInv, FixTask, Coherent, ReportIsBound, TaskRuns
  <1>7. ASSUME NEW j \in Journals, FixNothing(j) PROVE RepairsInv'
    <2>1. task \in FixTask /\ Coherent(task.pending) /\ TaskRuns("fix")
          /\ task' = [task EXCEPT !.todo = @ \ {j}] /\ UNCHANGED <<rows, report, refused>>
      BY <1>7, RunningTask DEF FixNothing
    <2>2. task' \in FixTask /\ task'.pending = task.pending
      BY <2>1 DEF FixTask
    <2> QED BY <2>1, <2>2 DEF RepairsInv, Coherent, ReportIsBound, TaskRuns, FixTask
  <1>8. ASSUME NEW j \in Journals, FixUnposted(j) PROVE RepairsInv'
    <2> DEFINE p == [task.pending EXCEPT !.journal[j] = "REVERSED",
                                         !.reversal[j] = "APPROVED"]
    <2>1. task \in FixTask /\ Coherent(task.pending) /\ TaskRuns("fix")
          /\ task' = [task EXCEPT !.todo = @ \ {j},
                                  !.pending.journal[j] = "REVERSED",
                                  !.pending.reversal[j] = "APPROVED"]
          /\ UNCHANGED <<rows, report, refused>>
      BY <1>8, RunningTask DEF FixUnposted
    <2>2. p \in Rows /\ Coherent(p)
      BY <2>1 DEF FixTask, Rows, Coherent
    <2>3. task'.pending = p /\ task' \in FixTask
      BY <2>1, <2>2 DEF FixTask
    <2> HIDE DEF p
    <2> QED BY <2>1, <2>2, <2>3 DEF RepairsInv, Coherent, ReportIsBound, TaskRuns, FixTask
  <1>9. CASE FinishFix
    <2>1. task \in FixTask /\ Coherent(task.pending) /\ task.pending \in Rows
          /\ task' = NoTask /\ UNCHANGED <<report, refused>>
          /\ rows' = IF task.dryRun THEN rows ELSE task.pending
      BY <1>9, RunningTask DEF FinishFix
    <2> QED BY <2>1 DEF RepairsInv, Coherent, ReportIsBound
  <1>10. CASE UNCHANGED repairVars
    BY <1>10 DEF repairVars, RepairsInv, Coherent, ReportIsBound, TaskRuns, Counting
  <1> QED BY <1>1, <1>2, <1>3, <1>4, <1>5, <1>6, <1>7, <1>8, <1>9, <1>10
          DEF RepairsNext, AutoPost, Fix

LEMMA RepairsInductive == RepairsSpec => []RepairsInv
  BY RepairsInitInd, RepairsNextInd, PTL DEF RepairsSpec

\* The rows, the running task and its report keep their values: a report counts at
\* most every invoice once, and what a task commits are rows of the code.
THEOREM RepairsTypes == RepairsSpec => []RepairsTypeOK
  <1>1. RepairsInv => RepairsTypeOK
    BY DEF RepairsInv, Rows, RepairsTypeOK
  <1> QED BY <1>1, RepairsInductive, PTL

\* auto_post_approved_invoices never leaves an invoice POSTED without its entries,
\* nor entries without the status, however many invoices it handles and whichever
\* are refused.
THEOREM RepairsKeepPosted == RepairsSpec => []PostedIsInLedger
  <1>1. RepairsInv => PostedIsInLedger
    BY DEF RepairsInv, Coherent, PostedIsInLedger
  <1> QED BY <1>1, RepairsInductive, PTL

\* Its report counts at least what it committed, and exactly that when no invoice
\* was refused.
THEOREM ReportCounts == RepairsSpec => []ReportIsBound
  <1>1. RepairsInv => ReportIsBound
    BY DEF RepairsInv
  <1> QED BY <1>1, RepairsInductive, PTL

-----------------------------------------------------------------------------
(* The outbox. *)

\* An event is made by its posting; a delivery makes it no longer PENDING, so that
\* what is PENDING has never been retried.
Unretried ==
  \A b \in Batches :
    /\ b \notin posted => event[b].status = "NONE"
    /\ event[b].status \in {"NONE", "PENDING"} => event[b].retries = 0

\* A task works on events that were posted, the recovery on ones that it found
\* PENDING.
Handles(t) ==
  /\ t.op \in {"relay", "apply"} => t.todo \subseteq posted
  /\ t.op = "apply" => t.b \in posted
  /\ t.op = "stuck" => \A b \in t.events : b \in posted /\ t.found[b] = 0

OutboxInv ==
  /\ CacheTypeOK /\ Unretried /\ NoStrandedEvent
  /\ \A w \in Workers : txn[w] # Idle => Handles(txn[w])

\* What a running task carries.
LEMMA TaskTypes ==
  ASSUME CacheTypeOK, NEW w \in Workers, txn[w] # Idle
  PROVE  /\ txn[w].op = "relay" => txn[w] \in [op : {"relay"}, todo : SUBSET Batches]
         /\ txn[w].op = "apply" =>
              txn[w] \in [op : {"apply"}, todo : SUBSET Batches, b : Batches,
                          found : [BalanceKeys -> BalanceRow]]
         /\ txn[w].op = "stuck" =>
              txn[w] \in [op : {"stuck"}, events : SUBSET Batches, found : [Batches -> Nat]]
         /\ txn[w].op = "refresh" =>
              txn[w] \in [op : {"refresh"}, keys : SUBSET BalanceKeys,
                          lines : SUBSET Batches, found : [BalanceKeys -> BalanceRow]]
         /\ txn[w].op = "rebuild" =>
              txn[w] \in [op : {"rebuild"}, lines : SUBSET Batches,
                          found : [BalanceKeys -> BalanceRow]]
<1>1. txn[w] \in CacheTxn
  BY DEF CacheTypeOK
<1> QED
  BY <1>1 DEF CacheTxn

LEMMA SumsAreCounts == \A k, bs : SumOf(k, bs) \in Counts
BY DEF SumOf, Counts

\* A balance written back has the columns of one.
LEMMA UpdatedRow ==
  ASSUME CacheTypeOK, NEW k \in BalanceKeys, NEW found \in BalanceRow, NEW counted \in Counts
  PROVE  Updated(k, found, counted) \in BalanceRow
<1>1. balance[k] \in BalanceRow
  BY DEF CacheTypeOK
<1> QED
  BY <1>1 DEF Updated, Written, BalanceRow

\* A task begins, goes on, ends or dies without touching an event.
LEMMA TaskGoesOn ==
  ASSUME OutboxInv, NEW w \in Workers, NEW t \in CacheTxn \cup {Idle},
         t # Idle => Handles(t),
         txn' = [txn EXCEPT ![w] = t], UNCHANGED <<posted, event>>,
         pending' \in [BalanceKeys -> BOOLEAN], balance' \in [BalanceKeys -> BalanceRow],
         crashes' \in Nat
  PROVE  OutboxInv'
<1>1. CacheTypeOK'
  BY DEF OutboxInv, CacheTypeOK
<1>2. Unretried' /\ NoStrandedEvent'
  BY DEF OutboxInv, Unretried, NoStrandedEvent
<1>3. \A v \in Workers : txn'[v] # Idle => Handles(txn'[v])
  BY DEF OutboxInv, CacheTypeOK
<1>4. (\A v \in Workers : txn[v] # Idle => Handles(txn[v]))'
  BY <1>3 DEF Handles
<1> QED
  BY <1>1, <1>2, <1>4 DEF OutboxInv

\* A task writes to events that were posted and goes on.
LEMMA EventsWritten ==
  ASSUME OutboxInv, NEW w \in Workers, NEW t \in CacheTxn \cup {Idle},
         t # Idle => Handles(t),
         txn' = [txn EXCEPT ![w] = t], UNCHANGED <<posted, pending, crashes>>,
         balance' \in [BalanceKeys -> BalanceRow], event' \in [Batches -> EventRow],
         \A b \in Batches :
           event'[b] # event[b] =>
             /\ b \in posted
             /\ event'[b].status \in {"PUBLISHED", "FAILED", "DEAD"}
             /\ event'[b].status = "FAILED" => event'[b].retries < MAX_RETRY_COUNT
  PROVE  OutboxInv'
<1>1. CacheTypeOK'
  BY DEF OutboxInv, CacheTypeOK
<1>2. Unretried' /\ NoStrandedEvent'
  BY DEF OutboxInv, Unretried, NoStrandedEvent
<1>3. \A v \in Workers : txn'[v] # Idle => Handles(txn'[v])
  BY DEF OutboxInv, CacheTypeOK
<1>4. (\A v \in Workers : txn[v] # Idle => Handles(txn[v]))'
  BY <1>3 DEF Handles
<1> QED
  BY <1>1, <1>2, <1>4 DEF OutboxInv

LEMMA PostBatchInd ==
  ASSUME OutboxInv, NEW b \in Batches, PostBatch(b)
  PROVE  OutboxInv'
<1>1. /\ posted' = posted \cup {b} /\ b \notin posted /\ UNCHANGED <<txn, crashes>>
      /\ event' = [event EXCEPT ![b].status = "PENDING"]
  BY DEF PostBatch
<1>2. /\ pending' \in [BalanceKeys -> BOOLEAN] /\ balance' \in [BalanceKeys -> BalanceRow]
  BY DEF PostBatch, OutboxInv, CacheTypeOK, BalanceRow
<1>3. event' \in [Batches -> EventRow]
  BY <1>1 DEF OutboxInv, CacheTypeOK, EventRow, EventStatus
<1>4. CacheTypeOK'
  BY <1>1, <1>2, <1>3 DEF OutboxInv, CacheTypeOK
<1>5. event'[b].retries = 0 /\ \A c \in Batches : c # b => event'[c] = event[c]
  BY <1>1 DEF OutboxInv, CacheTypeOK, Unretried, EventRow
<1>6. Unretried' /\ NoStrandedEvent'
  BY <1>1, <1>5, BalanceCacheAssumption DEF OutboxInv, Unretried, NoStrandedEvent
<1>7. (\A w \in Workers : txn[w] # Idle => Handles(txn[w]))'
  BY <1>1 DEF OutboxInv, Handles
<1> QED
  BY <1>4, <1>6, <1>7 DEF OutboxInv

LEMMA RetryDueInd ==
  ASSUME OutboxInv, NEW b \in Batches, RetryDue(b)
  PROVE  OutboxInv'
<1>1. /\ event' = [event EXCEPT ![b].due = TRUE]
      /\ UNCHANGED <<txn, posted, pending, balance, crashes>>
  BY DEF RetryDue
<1>2. event' \in [Batches -> EventRow]
      /\ \A c \in Batches : event'[c].status = event[c].status
                            /\ event'[c].retries = event[c].retries
  BY <1>1 DEF OutboxInv, CacheTypeOK, EventRow
<1>3. CacheTypeOK'
  BY <1>1, <1>2 DEF OutboxInv, CacheTypeOK
<1>4. Unretried' /\ NoStrandedEvent'
  BY <1>1, <1>2 DEF OutboxInv, Unretried, NoStrandedEvent
<1>5. (\A w \in Workers : txn[w] # Idle => Handles(txn[w]))'
  BY <1>1 DEF OutboxInv, Handles
<1> QED
  BY <1>3, <1>4, <1>5 DEF OutboxInv

LEMMA TypedRows ==
  ASSUME OutboxInv
  PROVE  /\ pending \in [BalanceKeys -> BOOLEAN] /\ balance \in [BalanceKeys -> BalanceRow]
         /\ crashes \in Nat /\ posted \subseteq Batches
         /\ event \in [Batches -> EventRow]
BY DEF OutboxInv, CacheTypeOK

LEMMA RelayPollInd ==
  ASSUME OutboxInv, NEW w \in Workers, RelayPoll(w)
  PROVE  OutboxInv'
<1> DEFINE t == [op |-> "relay", todo |-> {b \in Batches : Pollable(b)}]
<1>1. txn' = [txn EXCEPT ![w] = t] /\ UNCHANGED <<posted, cacheRows, crashes>>
  BY DEF RelayPoll, Begin
<1>2. t \in CacheTxn
  BY DEF CacheTxn
<1>3. Handles(t)
  BY DEF Handles, Pollable, OutboxInv, Unretried
<1> HIDE DEF t
<1> QED
  BY <1>1, <1>2, <1>3, TypedRows, TaskGoesOn DEF cacheRows

LEMMA RelayHandleInd ==
  ASSUME OutboxInv, NEW w \in Workers, RelayHandle(w)
  PROVE  OutboxInv'
<1>1. /\ txn[w] # Idle /\ txn[w].op = "relay"
      /\ UNCHANGED <<posted, cacheRows, crashes>>
  BY DEF RelayHandle, Running
<1>2. PICK b \in txn[w].todo :
        txn' = [txn EXCEPT ![w] = [op |-> "apply", todo |-> txn[w].todo \ {b}, b |-> b,
                                   found |-> balance]]
  BY DEF RelayHandle
<1> DEFINE t == [op |-> "apply", todo |-> txn[w].todo \ {b}, b |-> b, found |-> balance]
<1>3. txn[w].todo \subseteq posted /\ txn[w].todo \subseteq Batches
  BY <1>1, TypedRows DEF OutboxInv, Handles
<1>4. t \in CacheTxn
  BY <1>2, <1>3, TypedRows DEF CacheTxn
<1>5. Handles(t)
  BY <1>2, <1>3 DEF Handles
<1>6. txn' = [txn EXCEPT ![w] = t]
  BY <1>2
<1> HIDE DEF t
<1> QED
  BY <1>1, <1>4, <1>5, <1>6, TypedRows, TaskGoesOn DEF cacheRows

\* The relay goes on to the next event or ends.
LEMMA RelayGoesOn ==
  ASSUME OutboxInv, NEW w \in Workers, Running(w, "apply"), RelayContinue(w)
  PROVE  \E t \in CacheTxn \cup {Idle} :
           txn' = [txn EXCEPT ![w] = t] /\ (t # Idle => Handles(t))
<1> DEFINE t == IF txn[w].todo = {} THEN Idle ELSE [op |-> "relay", todo |-> txn[w].todo]
<1>1. txn[w].todo \subseteq posted
  BY DEF OutboxInv, Running, Handles
<1>2. t \in CacheTxn \cup {Idle}
  BY <1>1, TypedRows DEF CacheTxn
<1>3. t # Idle => Handles(t)
  BY <1>1 DEF Handles
<1>4. txn' = [txn EXCEPT ![w] = t]
  BY DEF RelayContinue, Continue
<1> HIDE DEF t
<1> QED
  BY <1>2, <1>3, <1>4

LEMMA RelayPublishInd ==
  ASSUME OutboxInv, NEW w \in Workers, RelayPublish(w)
  PROVE  OutboxInv'
<1>1. /\ Running(w, "apply") /\ RelayContinue(w) /\ UNCHANGED <<posted, pending, crashes>>
  BY DEF RelayPublish
<1>2. PICK b : b = txn[w].b
  OBVIOUS
<1>3. b \in Batches /\ b \in posted /\ txn[w].found \in [BalanceKeys -> BalanceRow]
  BY <1>1, <1>2, TaskTypes DEF OutboxInv, Handles, Running
<1>4. PICK applied \in SUBSET Touches[b] :
        balance' = [k \in BalanceKeys |->
          IF k \in applied
          THEN Updated(k, txn[w].found[k], [txn[w].found[k].counted EXCEPT ![b] = @ + 1])
          ELSE balance[k]]
  BY <1>2 DEF RelayPublish
<1>5. event' = [event EXCEPT ![b].status = "PUBLISHED"]
  BY <1>2 DEF RelayPublish
<1>6. \A k \in BalanceKeys :
        [txn[w].found[k].counted EXCEPT ![b] = @ + 1] \in Counts
  BY <1>3 DEF BalanceRow, Counts
<1>7. balance' \in [BalanceKeys -> BalanceRow]
  <2>1. \A k \in BalanceKeys :
          Updated(k, txn[w].found[k], [txn[w].found[k].counted EXCEPT ![b] = @ + 1])
            \in BalanceRow
    BY <1>3, <1>6, UpdatedRow DEF OutboxInv
  <2> QED
    BY <1>4, <2>1, TypedRows
<1>8. event' \in [Batches -> EventRow] /\ event'[b].status = "PUBLISHED"
      /\ \A c \in Batches : c # b => event'[c] = event[c]
  BY <1>3, <1>5, TypedRows DEF EventRow, EventStatus
<1>9. PICK t \in CacheTxn \cup {Idle} :
        txn' = [txn EXCEPT ![w] = t] /\ (t # Idle => Handles(t))
  BY <1>1, RelayGoesOn
<1> QED
  BY <1>1, <1>3, <1>7, <1>8, <1>9, EventsWritten

LEMMA RelayFailInd ==
  ASSUME OutboxInv, NEW w \in Workers, RelayFail(w)
  PROVE  OutboxInv'
<1>1. /\ Running(w, "apply") /\ RelayContinue(w)
      /\ UNCHANGED <<posted, pending, balance, crashes>>
  BY DEF RelayFail
<1>2. PICK b : b = txn[w].b
  OBVIOUS
<1>3. b \in Batches /\ b \in posted
  BY <1>1, <1>2, TaskTypes DEF OutboxInv, Handles, Running
<1>4. PICK n : n = event[b].retries + 1
  OBVIOUS
<1>5. event' = [event EXCEPT ![b] =
                  IF n >= MAX_RETRY_COUNT
                  THEN [status |-> "DEAD", retries |-> n, due |-> @.due]
                  ELSE [status |-> "FAILED", retries |-> n, due |-> FALSE]]
  BY <1>2, <1>4 DEF RelayFail
<1>6. event[b] \in EventRow /\ n \in Nat
  BY <1>3, <1>4, TypedRows DEF EventRow
<1>7. /\ event'[b] = IF n >= MAX_RETRY_COUNT
                     THEN [status |-> "DEAD", retries |-> n, due |-> event[b].due]
                     ELSE [status |-> "FAILED", retries |-> n, due |-> FALSE]
      /\ \A c \in Batches : c # b => event'[c] = event[c]
  BY <1>3, <1>5, TypedRows
<1>8. /\ event'[b] \in EventRow
      /\ event'[b].status \in {"FAILED", "DEAD"}
      /\ event'[b].status = "FAILED" => event'[b].retries < MAX_RETRY_COUNT
  BY <1>6, <1>7, BalanceCacheAssumption DEF EventRow, EventStatus
<1>9. event' \in [Batches -> EventRow]
  BY <1>5, <1>7, <1>8, TypedRows
<1>10. PICK t \in CacheTxn \cup {Idle} :
         txn' = [txn EXCEPT ![w] = t] /\ (t # Idle => Handles(t))
  BY <1>1, RelayGoesOn
<1> QED
  BY <1>1, <1>3, <1>7, <1>8, <1>9, <1>10, TypedRows, EventsWritten

LEMMA StuckLoadInd ==
  ASSUME OutboxInv, NEW w \in Workers, StuckLoad(w)
  PROVE  OutboxInv'
<1>1. PICK S \in SUBSET {b \in Batches : event[b].status = "PENDING"} :
        txn' = [txn EXCEPT ![w] = [op |-> "stuck", events |-> S,
                                   found |-> [b \in Batches |-> event[b].retries]]]
  BY DEF StuckLoad, Begin
<1> DEFINE t == [op |-> "stuck", events |-> S, found |-> [b \in Batches |-> event[b].retries]]
<1>2. t \in CacheTxn
  BY TypedRows DEF CacheTxn, EventRow
<1>3. Handles(t)
  BY DEF Handles, OutboxInv, Unretried
<1>4. txn' = [txn EXCEPT ![w] = t] /\ UNCHANGED <<posted, cacheRows, crashes>>
  BY <1>1 DEF StuckLoad
<1> HIDE DEF t
<1> QED
  BY <1>2, <1>3, <1>4, TypedRows, TaskGoesOn DEF cacheRows

\* Whatever the relay did with an event meanwhile, one retry is below the limit.
LEMMA StuckCommitInd ==
  ASSUME OutboxInv, NEW w \in Workers, StuckCommit(w)
  PROVE  OutboxInv'
<1>1. /\ txn[w] # Idle /\ txn[w].op = "stuck" /\ txn' = [txn EXCEPT ![w] = Idle]
      /\ UNCHANGED <<posted, pending, balance, crashes>>
  BY DEF StuckCommit, Running, End
<1>2. PICK t : t = txn[w]
  OBVIOUS
<1>3. /\ t.events \subseteq Batches
      /\ \A b \in t.events : b \in posted /\ t.found[b] = 0
  BY <1>1, <1>2, TaskTypes DEF OutboxInv, Handles
<1>4. event' = [b \in Batches |->
        IF b \notin t.events THEN event[b]
        ELSE IF t.found[b] >= MAX_RETRY_COUNT
             THEN [event[b] EXCEPT !.status = "DEAD"]
             ELSE [status |-> "FAILED", retries |-> t.found[b] + 1, due |-> TRUE]]
  BY <1>2 DEF StuckCommit
<1>5. \A b \in Batches :
        event'[b] = IF b \notin t.events THEN event[b]
                    ELSE [status |-> "FAILED", retries |-> 1, due |-> TRUE]
  <2>1. \A b \in t.events : ~(t.found[b] >= MAX_RETRY_COUNT) /\ t.found[b] + 1 = 1
    BY <1>3, BalanceCacheAssumption
  <2> QED
    BY <1>4, <2>1
<1>6. event' \in [Batches -> EventRow]
  BY <1>4, <1>5, TypedRows DEF EventRow, EventStatus
<1>7. \A b \in Batches :
        event'[b] # event[b] =>
          /\ b \in posted
          /\ event'[b].status \in {"PUBLISHED", "FAILED", "DEAD"}
          /\ event'[b].status = "FAILED" => event'[b].retries < MAX_RETRY_COUNT
  BY <1>3, <1>5, BalanceCacheAssumption
<1> QED
  BY <1>1, <1>6, <1>7, TypedRows, EventsWritten

LEMMA RefreshLoadInd ==
  ASSUME OutboxInv, NEW w \in Workers, RefreshLoad(w)
  PROVE  OutboxInv'
<1>1. PICK keys \in SUBSET BalanceKeys :
        txn' = [txn EXCEPT ![w] = [op |-> "refresh", keys |-> keys, lines |-> posted,
                                   found |-> balance]]
  BY DEF RefreshLoad, Begin
<1> DEFINE t == [op |-> "refresh", keys |-> keys, lines |-> posted, found |-> balance]
<1>2. t \in CacheTxn /\ Handles(t)
  BY TypedRows DEF CacheTxn, Handles
<1>3. txn' = [txn EXCEPT ![w] = t] /\ UNCHANGED <<posted, cacheRows, crashes>>
  BY <1>1 DEF RefreshLoad
<1> HIDE DEF t
<1> QED
  BY <1>2, <1>3, TypedRows, TaskGoesOn DEF cacheRows

LEMMA RefreshCommitInd ==
  ASSUME OutboxInv, NEW w \in Workers, RefreshCommit(w)
  PROVE  OutboxInv'
<1>1. /\ txn[w] # Idle /\ txn[w].op = "refresh" /\ txn' = [txn EXCEPT ![w] = Idle]
      /\ UNCHANGED <<posted, event, crashes>>
  BY DEF RefreshCommit, Running, End
<1>2. PICK t : t = txn[w]
  OBVIOUS
<1>3. t.found \in [BalanceKeys -> BalanceRow]
  BY <1>1, <1>2, TaskTypes DEF OutboxInv
<1>4. /\ balance' = [k \in BalanceKeys |->
                       IF k \in t.keys
                       THEN Updated(k, t.found[k], SumOf(k, t.lines)) ELSE balance[k]]
      /\ pending' = [k \in BalanceKeys |-> pending[k] /\ k \notin t.keys]
  BY <1>2 DEF RefreshCommit
<1>5. \A k \in BalanceKeys : Updated(k, t.found[k], SumOf(k, t.lines)) \in BalanceRow
  BY <1>3, SumsAreCounts, UpdatedRow DEF OutboxInv
<1>6. pending' \in [BalanceKeys -> BOOLEAN] /\ balance' \in [BalanceKeys -> BalanceRow]
  BY <1>4, <1>5, TypedRows
<1> QED
  BY <1>1, <1>6, TypedRows, TaskGoesOn

LEMMA RebuildLoadInd ==
  ASSUME OutboxInv, NEW w \in Workers, RebuildLoad(w)
  PROVE  OutboxInv'
<1> DEFINE t == [op |-> "rebuild", lines |-> posted, found |-> balance]
<1>1. t \in CacheTxn /\ Handles(t)
  BY TypedRows DEF CacheTxn, Handles
<1>2. txn' = [txn EXCEPT ![w] = t] /\ UNCHANGED <<posted, cacheRows, crashes>>
  BY DEF RebuildLoad, Begin
<1> HIDE DEF t
<1> QED
  BY <1>1, <1>2, TypedRows, TaskGoesOn DEF cacheRows

LEMMA RebuildCommitInd ==
  ASSUME OutboxInv, NEW w \in Workers, RebuildCommit(w)
  PROVE  OutboxInv'
<1>1. /\ txn[w] # Idle /\ txn[w].op = "rebuild" /\ txn' = [txn EXCEPT ![w] = Idle]
      /\ UNCHANGED <<posted, event, pending, crashes>>
  BY DEF RebuildCommit, Running, End
<1>2. PICK t : t = txn[w]
  OBVIOUS
<1>3. balance' = [k \in BalanceKeys |->
                   IF \E b \in t.lines : k \in Touches[b]
                   THEN [balance[k] EXCEPT !.counted =
                           Written(t.found[k].counted, SumOf(k, t.lines), @)]
                   ELSE balance[k]]
  BY <1>2 DEF RebuildCommit
<1>4. \A k \in BalanceKeys :
        [balance[k] EXCEPT !.counted =
           Written(t.found[k].counted, SumOf(k, t.lines), @)] \in BalanceRow
  BY SumsAreCounts, TypedRows DEF Written, BalanceRow
<1>5. balance' \in [BalanceKeys -> BalanceRow]
  BY <1>3, <1>4, TypedRows
<1> QED
  BY <1>1, <1>5, TypedRows, TaskGoesOn

LEMMA CrashInd ==
  ASSUME OutboxInv, NEW w \in Workers, CrashTask(w)
  PROVE  OutboxInv'
<1>1. /\ txn' = [txn EXCEPT ![w] = Idle] /\ crashes' = crashes + 1
      /\ UNCHANGED <<posted, event, pending, balance>>
  BY DEF CrashTask, End, cacheRows
<1>2. crashes' \in Nat
  BY <1>1, TypedRows
<1> QED
  BY <1>1, <1>2, TypedRows, TaskGoesOn

LEMMA OutboxInitInd == CacheInit => OutboxInv
<1> SUFFICES ASSUME CacheInit PROVE OutboxInv
  OBVIOUS
<1>1. \A k \in BalanceKeys : [counted |-> SumOf(k, {}), stale |-> FALSE] \in BalanceRow
  BY SumsAreCounts DEF BalanceRow
<1>2. CacheTypeOK
  BY <1>1 DEF CacheInit, SessionsInit, CacheTypeOK, EventRow, EventStatus
<1> QED
  BY <1>2 DEF CacheInit, SessionsInit, OutboxInv, Unretried, NoStrandedEvent

LEMMA OutboxNextInd == OutboxInv /\ [CacheNext]_cacheVars => OutboxInv'
<1> SUFFICES ASSUME OutboxInv, [CacheNext]_cacheVars PROVE OutboxInv'
  OBVIOUS
<1>1. CASE UNCHANGED cacheVars
  BY <1>1 DEF cacheVars, cacheRows, OutboxInv, CacheTypeOK, Unretried, NoStrandedEvent, Handles
<1>2. ASSUME NEW w \in Workers, Step(w) PROVE OutboxInv'
  BY <1>2, RelayHandleInd, RelayPublishInd, RelayFailInd, StuckCommitInd,
     RefreshCommitInd, RebuildCommitInd DEF Step
<1>3. CASE CacheNext
  BY <1>2, <1>3, RelayPollInd, StuckLoadInd, RefreshLoadInd, RebuildLoadInd, CrashInd,
     PostBatchInd, RetryDueInd DEF CacheNext
<1> QED
  BY <1>1, <1>3

LEMMA OutboxInductive == CacheSpec => []OutboxInv
BY OutboxInitInd, OutboxNextInd, PTL DEF CacheSpec

\* The rows of the outbox and of the balances keep their columns through every
\* interleaving of the relay, the refresh, the rebuild and the recovery.
THEOREM CacheTypes == CacheSpec => []CacheTypeOK
<1>1. OutboxInv => CacheTypeOK
  BY DEF OutboxInv
<1> QED
  BY <1>1, OutboxInductive, PTL

\* No event is left FAILED with its retries used up, where the relay would not poll
\* it again: handle_retry declares it dead in time, and the recovery of stuck events
\* writes a retry count back that is below the limit.
THEOREM EventsAreNotStranded == CacheSpec => []NoStrandedEvent
<1>1. OutboxInv => NoStrandedEvent
  BY DEF OutboxInv
<1> QED
  BY <1>1, OutboxInductive, PTL
=============================================================================
