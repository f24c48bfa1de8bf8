--------------------------- MODULE PayablesProofs ---------------------------
(***************************************************************************)
(* Theorems about Payables for any bills, payments, sessions and amounts.  *)
(***************************************************************************)
EXTENDS Payables, SumTheorems

-----------------------------------------------------------------------------
(* The inductive invariant. *)

\* gl_impacting()
Impacting == {"POSTED", "PARTIALLY_PAID", "PAID"}

Journal == [entry : {"NONE", "LIVE", "REVERSED"},
            vat : {"NONE", "DRAFT", "LIVE", "REVERSED"},
            stray : BOOLEAN]

Rows == {p \in Payments : payments[p] # NULL}

Session == BillSession \cup PaymentSession

PaymentOps == {"approve", "post", "apiPost", "void"}

Types ==
  /\ scenario \in Scenarios
  /\ txn = [w \in Workers |-> txn[w]]
  /\ \A w \in Workers : txn[w] # Idle => txn[w] \in Session
  /\ bills \in [Bills -> BillRow]
  /\ payments \in [Payments -> {NULL} \cup PaymentRow]
  /\ gl \in [Payments -> Journal]
  /\ batch \in {"NONE", "DRAFT", "APPROVED", "COMPLETED", "FAILED"}
  /\ overlapped \in BOOLEAN /\ apiUsed \in BOOLEAN

LoadedFor(op) ==
  CASE op = "approve" -> {"DRAFT"}
    [] op = "post" -> {"APPROVED"}
    [] op = "apiPost" -> {"APPROVED", "SENT", "CLEARED"}
    [] op = "void" -> {"DRAFT", "APPROVED", "SENT", "REJECTED"}

\* A session has loaded a bill, or a payment, in a status its operation is for; the
\* bill of a payment never changes.
Fits(t) ==
  /\ t.op \in PaymentOps =>
       /\ t.was.status \in LoadedFor(t.op)
       /\ payments[t.pay] # NULL
       /\ payments[t.pay].bill = t.was.bill
  /\ t.op \in {"approveBill", "postBill", "voidBill"} => t.found.status \notin Impacting

Loaded == \A w \in Workers : txn[w] # Idle => Fits(txn[w])

\* A bill whose status says so has a journal in the ledger, and none is left DRAFT.
Journaled(bill) ==
  /\ bill.journal \in {"NONE", "POSTED"}
  /\ bill.status \in Impacting => bill.journal = "POSTED"

Journals == \A i \in Bills : Journaled(bills[i])

\* Bills that have payments have a journal in the ledger, whatever became of their
\* status.
Owed == \A p \in Rows : bills[payments[p].bill].journal = "POSTED"

\* A bill in the ledger is neither void nor to be posted again.
Stands(bill) == bill.journal = "POSTED" => bill.status \in Impacting

AllStand == \A i \in Bills : Stands(bills[i])

\* One session at a time works on the rows as they are.
Fresh(t) ==
  IF t.op \in PaymentOps
  THEN /\ payments[t.pay] = t.was
       /\ t.found # NULL => bills[t.was.bill] = t.found
  ELSE bills[t.inv] = t.found

Alone ==
  /\ \A v, w \in Workers : v # w => txn[v] = Idle \/ txn[w] = Idle
  /\ \A w \in Workers : txn[w] # Idle => Fresh(txn[w])

PaidUp(bill, effective) ==
  /\ bill.paid = effective
  /\ bill.status = "PAID" => bill.paid >= Total
  /\ bill.status \in {"PARTIALLY_PAID", "PAID"} <=> bill.paid > 0

AllPaidUp == \A i \in Bills : PaidUp(bills[i], Amount(Effective(i)))

\* What a payment may be while the batch is in a status.
Suits(row, stage) ==
  /\ stage \in {"NONE", "DRAFT", "APPROVED"} => row.status # "REJECTED"
  /\ row.batched /\ row.status # "DELETED" =>
       /\ stage # "NONE"
       /\ stage = "APPROVED" => row.status \in {"APPROVED", "SENT", "CLEARED", "VOID"}
       /\ stage = "COMPLETED" => row.status \in {"SENT", "CLEARED", "VOID"}

AllSuit == \A p \in Rows : Suits(payments[p], batch)

\* What is in the ledger for a payment.
Backed(row, g) ==
  /\ row = NULL \/ row.status \in {"DRAFT", "APPROVED"} => g.entry = "NONE" /\ ~g.stray
  /\ row # NULL /\ row.status \in {"SENT", "CLEARED"} =>
       g.entry = "LIVE" /\ row.link = "entry" /\ ~g.stray

AllBacked == \A p \in Payments : Backed(payments[p], gl[p])

IndInv ==
  /\ Types /\ IsFiniteSet(Rows) /\ Loaded
  /\ ~apiUsed => Journals /\ Owed
  /\ ~overlapped => Alone /\ AllPaidUp /\ AllSuit
  /\ ~overlapped /\ ~apiUsed => AllBacked /\ AllStand

-----------------------------------------------------------------------------
(* Sums of amounts. *)

\* The sum of the amounts of the payments S, as rows has them.
Worth(rows, S) == Sum([x \in S |-> rows[x].amount], S)

\* The sum as Amount folds it
Folded(rows, S) == MapThenSumSet(LAMBDA p : rows[p].amount, S)

LEMMA FoldedIsWorth ==
  ASSUME NEW rows, NEW S
  PROVE  Folded(rows, S) = Worth(rows, S)
<1> DEFINE f == [x \in S |-> rows[x].amount]
           Iter(g) == g = [s \in SUBSET S |->
                             IF s = {} THEN 0
                             ELSE rows[Pick(s)].amount + g[s \ {Pick(s)}]]
<1>1. ASSUME NEW s \in SUBSET S, s # {}
      PROVE  f[Pick(s)] = rows[Pick(s)].amount
  BY <1>1, PickSmaller
<1>2. \A g : Iter(g) <=> SumsUp(f, g, S)
  <2> HIDE DEF f
  <2> QED
    BY <1>1 DEF SumsUp
<1>3. Folded(rows, S) = (CHOOSE g : Iter(g))[S]
  BY DEF Folded, MapThenSumSet, MapThenFoldSet, Pick
<1>4. (CHOOSE g : Iter(g)) = (CHOOSE g : SumsUp(f, g, S))
  <2> HIDE DEF f, Iter
  <2> QED
    BY <1>2
<1> QED
  BY <1>3, <1>4 DEF Worth, Sum, Partial

\* Amount is that sum.
LEMMA AmountIsWorth == \A S : Amount(S) = Worth(payments, S)
BY FoldedIsWorth DEF Amount, Folded

\* Rows with the same amounts have the same worth, which is a natural number.
LEMMA WorthSame ==
  ASSUME NEW S, IsFiniteSet(S), NEW f, NEW g,
         \A x \in S : f[x].amount \in Nat /\ f[x].amount = g[x].amount
  PROVE  Worth(f, S) \in Nat /\ Worth(f, S) = Worth(g, S)
BY SumSame DEF Worth

LEMMA NothingIsWorthNothing == \A rows : Worth(rows, {}) = 0
BY SumRecursion, FS_EmptySet DEF Worth

\* Any payment may be taken out first.
LEMMA WorthWithout ==
  ASSUME NEW S, IsFiniteSet(S), NEW f, \A x \in S : f[x].amount \in Nat, NEW y \in S
  PROVE  Worth(f, S) = f[y].amount + Worth(f, S \ {y})
<1> DEFINE g == [x \in S |-> f[x].amount]
           h == [x \in S \ {y} |-> f[x].amount]
<1>1. Sum(g, S) = g[y] + Sum(g, S \ {y})
  BY SumWithout
<1>2. Sum(g, S \ {y}) = Sum(h, S \ {y})
  <2>1. IsFiniteSet(S \ {y})
    BY FS_Subset
  <2>2. \A x \in S \ {y} : g[x] \in Nat /\ g[x] = h[x]
    OBVIOUS
  <2> HIDE DEF g, h
  <2> QED
    BY <2>1, <2>2, SumSame
<1> QED
  BY <1>1, <1>2 DEF Worth

\* Two sets without a common payment.
LEMMA WorthUnion ==
  ASSUME NEW A, NEW B, IsFiniteSet(A), IsFiniteSet(B), A \cap B = {},
         NEW f, \A x \in A \cup B : f[x].amount \in Nat
  PROVE  Worth(f, A \cup B) = Worth(f, A) + Worth(f, B)
<1> DEFINE g == [x \in A \cup B |-> f[x].amount]
           a == [x \in A |-> f[x].amount]
           b == [x \in B |-> f[x].amount]
<1>1. /\ \A x \in A \cup B : g[x] \in Nat
      /\ \A x \in A : g[x] = a[x]
      /\ \A x \in B : g[x] = b[x]
  OBVIOUS
<1>2. Sum(g, A \cup B) = Sum(a, A) + Sum(b, B)
  <2> HIDE DEF a, b, g
  <2>1. Sum(g, A \cup B) = Sum(g, A) + Sum(g, B)
    BY <1>1, SumUnion
  <2>2. Sum(g, A) = Sum(a, A) /\ Sum(g, B) = Sum(b, B)
    BY <1>1, SumSame
  <2> QED
    BY <2>1, <2>2
<1> QED
  BY <1>2 DEF Worth

\* The worth of payments that have positive amounts.
LEMMA WorthPositive ==
  ASSUME NEW S, IsFiniteSet(S), S # {}, NEW f, \A x \in S : f[x].amount \in Nat \ {0}
  PROVE  Worth(f, S) > 0
BY SumPositive DEF Worth

-----------------------------------------------------------------------------
(* What was paid of a bill. *)

Effects(row) == row # NULL /\ row.status \in {"SENT", "CLEARED"}

EffectiveIn(rows, i) == {p \in Payments : Effects(rows[p]) /\ rows[p].bill = i}

PaidBy(rows, i) == Worth(rows, EffectiveIn(rows, i))

\* What a payment reduces the balance by
Value(row) == IF Effects(row) THEN row.amount ELSE 0

LEMMA PaidByIs == \A i : Amount(Effective(i)) = PaidBy(payments, i)
BY AmountIsWorth DEF Effective, Is, EffectiveIn, Effects, PaidBy

LEMMA PaidByWillBe == \A i : Amount(Effective(i))' = PaidBy(payments', i)
<1>1. \A S : Amount(S)' = Worth(payments', S')
  <2>1. \A rows, S : Folded(rows, S) = Worth(rows, S)
    BY FoldedIsWorth
  <2>2. \A S : Amount(S)' = Folded(payments', S')
    BY DEF Amount, Folded, MapThenSumSet, MapThenFoldSet
  <2> QED
    BY <2>1, <2>2
<1>2. \A i : Effective(i)' = EffectiveIn(payments', i)
  BY DEF Effective, Is, EffectiveIn, Effects
<1> QED
  BY <1>1, <1>2 DEF PaidBy

RowsOf(rows) == {p \in Payments : rows[p] # NULL}

LEMMA EffectiveType ==
  ASSUME NEW rows \in [Payments -> {NULL} \cup PaymentRow], IsFiniteSet(RowsOf(rows)), NEW i
  PROVE  /\ IsFiniteSet(EffectiveIn(rows, i))
         /\ \A p \in EffectiveIn(rows, i) : rows[p].amount \in Nat \ {0}
         /\ PaidBy(rows, i) \in Nat
<1>1. EffectiveIn(rows, i) \subseteq RowsOf(rows)
  BY DEF EffectiveIn, Effects, RowsOf
<1>2. IsFiniteSet(EffectiveIn(rows, i))
  BY <1>1, FS_Subset
<1>3. \A p \in EffectiveIn(rows, i) : rows[p].amount \in Nat \ {0}
  BY PayablesAssumption DEF EffectiveIn, Effects, PaymentRow
<1>4. PaidBy(rows, i) \in Nat
  BY <1>2, <1>3, WorthSame DEF PaidBy
<1> QED
  BY <1>2, <1>3, <1>4

\* One payment changes, or is made.
LEMMA OneChanges ==
  ASSUME NEW rows \in [Payments -> {NULL} \cup PaymentRow], IsFiniteSet(RowsOf(rows)),
         NEW p \in Payments, NEW row \in PaymentRow,
         rows[p] # NULL => rows[p].bill = row.bill /\ rows[p].amount = row.amount,
         NEW new \in [Payments -> {NULL} \cup PaymentRow], new[p] = row,
         \A q \in Payments : q # p => new[q] = rows[q]
  PROVE  /\ IsFiniteSet(RowsOf(new))
         /\ \A i : i # row.bill => PaidBy(new, i) = PaidBy(rows, i)
         /\ PaidBy(new, row.bill) = PaidBy(rows, row.bill) + Value(row) - Value(rows[p])
<1>1. /\ new \in [Payments -> {NULL} \cup PaymentRow] /\ new[p] = row
      /\ \A q \in Payments : q # p => new[q] = rows[q]
  OBVIOUS
<1>2. IsFiniteSet(RowsOf(new))
  <2>1. RowsOf(new) \subseteq RowsOf(rows) \cup {p}
    BY <1>1 DEF RowsOf
  <2> QED
    BY <2>1, FS_AddElement, FS_Subset
<1>3. row # NULL /\ row.amount \in Nat
  BY NullAssumption, PayablesAssumption DEF PaymentRow
<1>4. ASSUME NEW i, i # row.bill
      PROVE  PaidBy(new, i) = PaidBy(rows, i)
  <2>1. EffectiveIn(new, i) = EffectiveIn(rows, i) /\ p \notin EffectiveIn(rows, i)
    BY <1>1, <1>4 DEF EffectiveIn, Effects
  <2>2. PICK S : S = EffectiveIn(rows, i)
    OBVIOUS
  <2>3. IsFiniteSet(S) /\ \A q \in S : rows[q].amount \in Nat /\ rows[q].amount = new[q].amount
    <3>1. \A q \in S : q \in Payments /\ q # p
      BY <2>1, <2>2 DEF EffectiveIn
    <3> QED
      BY <1>1, <2>2, <3>1, EffectiveType
  <2>4. Worth(rows, S) = Worth(new, S)
    BY <2>3, WorthSame
  <2> QED
    BY <2>1, <2>2, <2>4 DEF PaidBy
<1>5. PaidBy(new, row.bill) = PaidBy(rows, row.bill) + Value(row) - Value(rows[p])
  <2>1. PICK S, N : S = EffectiveIn(rows, row.bill) /\ N = EffectiveIn(new, row.bill)
    OBVIOUS
  <2>2. PICK D : D = S \ {p} /\ D = N \ {p}
    <3>1. \A q : q \in S \ {p} <=> q \in N \ {p}
      BY <1>1, <2>1 DEF EffectiveIn
    <3> QED
      BY <3>1
  <2>3. /\ IsFiniteSet(S) /\ IsFiniteSet(N) /\ IsFiniteSet(D)
        /\ \A q \in S : rows[q].amount \in Nat
        /\ \A q \in N : new[q].amount \in Nat
    BY <1>1, <1>2, <2>1, <2>2, EffectiveType, FS_Subset
  <2>4. Worth(rows, D) \in Nat /\ Worth(rows, D) = Worth(new, D)
    <3>1. \A q \in D : rows[q].amount \in Nat /\ rows[q].amount = new[q].amount
      BY <1>1, <2>1, <2>2, <2>3 DEF EffectiveIn
    <3> QED
      BY <2>3, <3>1, WorthSame
  <2>5. Worth(rows, S) = Worth(rows, D) + Value(rows[p])
    <3>1. CASE p \in S
      <4>1. Worth(rows, S) = rows[p].amount + Worth(rows, S \ {p})
        BY <2>3, <3>1, WorthWithout
      <4>2. Value(rows[p]) = rows[p].amount /\ rows[p].amount \in Nat
        BY <2>1, <2>3, <3>1 DEF EffectiveIn, Value
      <4> QED
        BY <2>2, <2>4, <4>1, <4>2
    <3>2. CASE p \notin S
      <4>1. D = S /\ Value(rows[p]) = 0
        BY <2>1, <2>2, <3>2 DEF EffectiveIn, Value, Effects
      <4> QED
        BY <2>4, <4>1
    <3> QED
      BY <3>1, <3>2
  <2>6. Worth(new, N) = Worth(new, D) + Value(row)
    <3>1. CASE p \in N
      <4>1. Worth(new, N) = new[p].amount + Worth(new, N \ {p})
        BY <2>3, <3>1, WorthWithout
      <4>2. Value(row) = new[p].amount /\ new[p].amount \in Nat
        BY <1>1, <2>1, <2>3, <3>1 DEF EffectiveIn, Value
      <4>3. Worth(new, N \ {p}) = Worth(new, D) /\ Worth(new, D) \in Nat
        BY <2>2, <2>4
      <4> QED
        BY <4>1, <4>2, <4>3
    <3>2. CASE p \notin N
      <4>1. D = N /\ Value(row) = 0
        BY <1>1, <2>1, <2>2, <3>2 DEF EffectiveIn, Value
      <4> QED
        BY <2>4, <4>1
    <3> QED
      BY <3>1, <3>2
  <2>7. Value(row) \in Nat /\ Value(rows[p]) \in Nat
    BY <1>3, PayablesAssumption DEF Value, Effects, PaymentRow
  <2> QED
    BY <2>1, <2>4, <2>5, <2>6, <2>7 DEF PaidBy
<1> QED
  BY <1>1, <1>2, <1>4, <1>5

-----------------------------------------------------------------------------
(* Steps. *)

\* What At and AtApi say: other sessions are closed unless the step overlaps.
Noted(w) ==
  /\ overlapped' = (overlapped \/ \E v \in Workers \ {w} : txn[v] # Idle)
  /\ apiUsed' \in BOOLEAN /\ (apiUsed => apiUsed')
  /\ UNCHANGED scenario

LEMMA AtNoted ==
  ASSUME Types, NEW w
  PROVE  /\ At(w) => Noted(w) /\ apiUsed' = apiUsed
         /\ AtApi(w) => Noted(w) /\ apiUsed'
BY DEF At, AtApi, Noted, Types

LEMMA SessionGoesOn ==
  ASSUME Types, NEW w \in scenario.sessions, NEW t, txn' = [txn EXCEPT ![w] = t], Noted(w)
  PROVE  /\ w \in Workers
         /\ txn' = [v \in Workers |-> txn'[v]] /\ txn'[w] = t
         /\ \A v \in Workers : v # w => txn'[v] = txn[v]
         /\ overlapped' \in BOOLEAN
         /\ ~overlapped' =>
              ~overlapped /\ \A v \in Workers : v # w => txn[v] = Idle /\ txn'[v] = Idle
<1>1. w \in Workers
  BY PayablesAssumption DEF Types
<1>2. txn = [v \in Workers |-> txn[v]] /\ overlapped \in BOOLEAN
  BY DEF Types
<1>3. txn' = [v \in Workers |-> txn'[v]] /\ txn'[w] = t
      /\ \A v \in Workers : v # w => txn'[v] = txn[v]
  BY <1>1, <1>2
<1> QED
  BY <1>1, <1>2, <1>3 DEF Noted

\* A session with nothing open may be taken to end.
LEMMA NothingOpen ==
  ASSUME Types, NEW w \in scenario.sessions, txn[w] = Idle, UNCHANGED txn
  PROVE  txn' = [txn EXCEPT ![w] = Idle]
<1>1. w \in Workers /\ txn = [v \in Workers |-> txn[v]]
  BY PayablesAssumption DEF Types
<1> QED
  BY <1>1

\* A session goes on, knowing t, and writes nothing.
LEMMA ReadStep ==
  ASSUME IndInv, NEW w \in scenario.sessions, NEW t, txn' = [txn EXCEPT ![w] = t],
         At(w), UNCHANGED <<bills, payments, gl, batch>>,
         t # Idle => t \in Session /\ Fits(t) /\ (~overlapped' => Fresh(t))
  PROVE  IndInv'
<1>1. Noted(w) /\ UNCHANGED <<scenario, apiUsed>>
  BY AtNoted DEF IndInv, Noted
<1>2. /\ w \in Workers
      /\ txn' = [v \in Workers |-> txn'[v]] /\ txn'[w] = t
      /\ \A v \in Workers : v # w => txn'[v] = txn[v]
      /\ overlapped' \in BOOLEAN
      /\ ~overlapped' =>
           ~overlapped /\ \A v \in Workers : v # w => txn[v] = Idle /\ txn'[v] = Idle
  BY <1>1, SessionGoesOn DEF IndInv
<1>3. Types'
  BY <1>1, <1>2 DEF IndInv, Types
<1>4. IsFiniteSet(Rows)'
  BY DEF IndInv, Rows
<1>5. Loaded'
  BY <1>2 DEF IndInv, Loaded, Fits
<1>6. (~apiUsed => Journals /\ Owed)'
  BY <1>1 DEF IndInv, Journals, Owed, Rows
<1>7. ~overlapped' => Alone'
  BY <1>2 DEF Alone, Fresh
<1>8. ~overlapped' => AllPaidUp' /\ AllSuit'
  <2>1. AllPaidUp => AllPaidUp'
    BY PaidByIs, PaidByWillBe DEF AllPaidUp, PaidUp
  <2>2. AllSuit => AllSuit'
    BY DEF AllSuit, Suits, Rows
  <2> QED
    BY <1>2, <2>1, <2>2 DEF IndInv
<1>9. (~overlapped /\ ~apiUsed => AllBacked /\ AllStand)'
  BY <1>1, <1>2 DEF IndInv, AllBacked, AllStand
<1> QED
  BY <1>3, <1>4, <1>5, <1>6, <1>7, <1>8, <1>9 DEF IndInv

\* A session writes and ends.
LEMMA WriteStep ==
  ASSUME IndInv, NEW w \in scenario.sessions, txn' = [txn EXCEPT ![w] = Idle], Noted(w),
         bills' \in [Bills -> BillRow], payments' \in [Payments -> {NULL} \cup PaymentRow],
         gl' \in [Payments -> Journal],
         batch' \in {"NONE", "DRAFT", "APPROVED", "COMPLETED", "FAILED"},
         \A p \in Rows : payments'[p] # NULL /\ payments'[p].bill = payments[p].bill,
         IsFiniteSet(Rows'),
         ~apiUsed' =>
           /\ Journals'
           /\ \A i \in Bills : bills[i].journal = "POSTED" => bills'[i].journal = "POSTED"
           /\ \A p \in Rows' : p \notin Rows => bills'[payments'[p].bill].journal = "POSTED",
         ~overlapped' => (\A i \in Bills : PaidUp(bills'[i], PaidBy(payments', i))) /\ AllSuit',
         ~overlapped' /\ ~apiUsed' => AllBacked' /\ AllStand'
  PROVE  IndInv'
<1>1. /\ w \in Workers
      /\ txn' = [v \in Workers |-> txn'[v]] /\ txn'[w] = Idle
      /\ \A v \in Workers : v # w => txn'[v] = txn[v]
      /\ overlapped' \in BOOLEAN
      /\ ~overlapped' =>
           ~overlapped /\ \A v \in Workers : v # w => txn[v] = Idle /\ txn'[v] = Idle
  BY SessionGoesOn DEF IndInv
<1>2. Types'
  BY <1>1 DEF IndInv, Types, Noted
<1>3. ~apiUsed' => Owed'
  <2>1. ASSUME ~apiUsed', NEW p \in Rows'
        PROVE  bills'[payments'[p].bill].journal = "POSTED"
    <3>1. CASE p \in Rows
      <4>1. payments[p] \in PaymentRow
        BY <3>1 DEF IndInv, Types, Rows
      <4>2. payments[p].bill \in Bills
        BY <4>1 DEF PaymentRow
      <4>3. Owed
        BY <2>1 DEF IndInv, Types, Noted
      <4> QED
        BY <2>1, <3>1, <4>2, <4>3 DEF Owed
    <3>2. CASE p \notin Rows
      BY <2>1, <3>2
    <3> QED
      BY <3>1, <3>2
  <2> QED
    BY <2>1 DEF Owed
<1>4. Loaded'
  <2>1. ASSUME NEW v \in Workers, txn'[v] # Idle
        PROVE  Fits(txn[v])'
    <3>1. txn'[v] = txn[v] /\ txn[v] \in Session /\ Fits(txn[v])
      BY <1>1, <2>1 DEF IndInv, Loaded, Types
    <3>2. txn[v].op \in PaymentOps => txn[v].pay \in Payments
      BY <3>1 DEF Session, BillSession, PaymentSession, PaymentOps
    <3> QED
      BY <3>1, <3>2 DEF Fits, Rows
  <2> QED
    BY <2>1 DEF Loaded, Fits
<1>5. ~overlapped' => Alone'
  BY <1>1 DEF Alone
<1>6. ~overlapped' => AllPaidUp'
  BY PaidByWillBe DEF AllPaidUp, PaidUp
<1> QED
  BY <1>2, <1>3, <1>4, <1>5, <1>6 DEF IndInv

\* One payment is written, with its bill and its journals.
LEMMA RowStep ==
  ASSUME IndInv, NEW w \in scenario.sessions, txn' = [txn EXCEPT ![w] = Idle], Noted(w),
         NEW p \in Payments, NEW row \in PaymentRow,
         payments' \in [Payments -> {NULL} \cup PaymentRow], payments'[p] = row,
         \A q \in Payments : q # p => payments'[q] = payments[q],
         payments[p] # NULL =>
           payments[p].bill = row.bill /\ payments[p].amount = row.amount,
         NEW i \in Bills, i = row.bill, NEW bill \in BillRow,
         bills' \in [Bills -> BillRow], bills'[i] = bill,
         \A k \in Bills : k # i => bills'[k] = bills[k],
         payments[p] = NULL => bills[i].status \in Impacting,
         bill.status \in Impacting \cup {bills[i].status},
         bill.journal = bills[i].journal,
         NEW g \in Journal, gl' \in [Payments -> Journal], gl'[p] = g,
         \A q \in Payments : q # p => gl'[q] = gl[q],
         batch' = batch \/ (batch = "NONE" /\ batch' = "DRAFT"),
         ~overlapped' =>
           /\ PaidUp(bill, bills[i].paid + Value(row) - Value(payments[p]))
           /\ Suits(row, batch'),
         ~overlapped' /\ ~apiUsed' => Backed(row, g)
  PROVE  IndInv'
<1>1. ~overlapped' => ~overlapped
  BY SessionGoesOn DEF IndInv
<1>2. /\ bills'[i] = bill
      /\ \A k \in Bills : k # i => bills'[k] = bills[k]
  OBVIOUS
<1>3. /\ payments'[p] = row
      /\ \A q \in Payments : q # p => payments'[q] = payments[q]
  OBVIOUS
<1>4. /\ gl'[p] = g
      /\ \A q \in Payments : q # p => gl'[q] = gl[q]
  OBVIOUS
<1>5. row # NULL
  BY NullAssumption
<1>6. batch' \in {"NONE", "DRAFT", "APPROVED", "COMPLETED", "FAILED"}
  BY DEF IndInv, Types
<1>7. \A q \in Rows : payments'[q] # NULL /\ payments'[q].bill = payments[q].bill
  BY <1>3, <1>5 DEF Rows
<1>8. ~apiUsed' => bill.journal = "POSTED"
  <2> SUFFICES ASSUME ~apiUsed' PROVE bill.journal = "POSTED"
    OBVIOUS
  <2>1. Journals /\ Owed
    BY DEF IndInv, Noted, Types
  <2>2. CASE payments[p] = NULL
    BY <2>1, <2>2 DEF Journals, Journaled
  <2>3. CASE payments[p] # NULL
    BY <2>1, <2>3 DEF Owed, Rows
  <2> QED
    BY <2>2, <2>3
<1>9. /\ IsFiniteSet(RowsOf(payments'))
      /\ \A k : k # i => PaidBy(payments', k) = PaidBy(payments, k)
      /\ PaidBy(payments', i) = PaidBy(payments, i) + Value(row) - Value(payments[p])
  <2>1. payments \in [Payments -> {NULL} \cup PaymentRow] /\ IsFiniteSet(RowsOf(payments))
    BY DEF IndInv, Types, Rows, RowsOf
  <2> QED
    BY <2>1, OneChanges
<1>10. IsFiniteSet(Rows')
  BY <1>9 DEF Rows, RowsOf
<1>11. ~apiUsed' =>
         /\ Journals'
         /\ \A k \in Bills : bills[k].journal = "POSTED" => bills'[k].journal = "POSTED"
         /\ \A q \in Rows' : q \notin Rows => bills'[payments'[q].bill].journal = "POSTED"
  <2> SUFFICES ASSUME ~apiUsed'
               PROVE  /\ Journals'
                      /\ \A k \in Bills : bills[k].journal = "POSTED" => bills'[k].journal = "POSTED"
                      /\ \A q \in Rows' : q \notin Rows => bills'[payments'[q].bill].journal = "POSTED"
    OBVIOUS
  <2>1. Journals
    BY DEF IndInv, Noted, Types
  <2>2. Journals'
    BY <1>2, <1>8, <2>1 DEF Journals, Journaled
  <2>3. \A q \in Rows' : q \notin Rows => q = p
    BY <1>3 DEF Rows
  <2> QED
    BY <1>2, <1>3, <1>8, <2>2, <2>3
<1>12. ~overlapped' => \A k \in Bills : PaidUp(bills'[k], PaidBy(payments', k))
  <2> SUFFICES ASSUME ~overlapped', NEW k \in Bills
               PROVE  PaidUp(bills'[k], PaidBy(payments', k))
    OBVIOUS
  <2>1. \A n \in Bills : PaidUp(bills[n], PaidBy(payments, n))
    BY <1>1, PaidByIs DEF IndInv, AllPaidUp
  <2>2. CASE k # i
    BY <1>2, <1>9, <2>1, <2>2
  <2>3. CASE k = i
    <3>1. bills[i].paid = PaidBy(payments, i)
      BY <2>1 DEF PaidUp
    <3>2. PaidBy(payments', i) = bills[i].paid + Value(row) - Value(payments[p])
      BY <1>9, <3>1
    <3> QED
      BY <1>2, <2>3, <3>2
  <2> QED
    BY <2>2, <2>3
<1>13. ~overlapped' => AllSuit'
  <2> SUFFICES ASSUME ~overlapped', NEW q \in Rows'
               PROVE  Suits(payments'[q], batch')
    BY DEF AllSuit, Suits
  <2>1. CASE q = p
    BY <1>3, <2>1
  <2>2. CASE q # p
    <3>1. q \in Rows /\ payments'[q] = payments[q]
      BY <1>3, <2>2 DEF Rows
    <3>2. Suits(payments[q], batch)
      BY <1>1, <3>1 DEF IndInv, AllSuit
    <3> QED
      BY <3>1, <3>2 DEF Suits
  <2> QED
    BY <2>1, <2>2
<1>14. ASSUME ~overlapped', ~apiUsed' PROVE AllBacked' /\ AllStand'
  <2>1. AllBacked /\ AllStand
    BY <1>1, <1>14 DEF IndInv, Noted, Types
  <2>2. AllBacked'
    BY <1>3, <1>4, <1>14, <2>1 DEF AllBacked
  <2>3. AllStand'
    BY <1>2, <2>1 DEF AllStand, Stands
  <2> QED
    BY <2>2, <2>3
<1> QED
  BY <1>3, <1>4, <1>6, <1>7, <1>10, <1>11, <1>12, <1>13, <1>14, WriteStep

LEMMA NowPaidUp ==
  ASSUME IndInv, ~overlapped, NEW i \in Bills
  PROVE  PaidUp(bills[i], bills[i].paid) /\ bills[i].paid \in Nat
<1>1. PaidUp(bills[i], PaidBy(payments, i))
  BY PaidByIs DEF IndInv, AllPaidUp
<1>2. PaidBy(payments, i) \in Nat
  BY EffectiveType DEF IndInv, Types, Rows, RowsOf
<1> QED
  BY <1>1, <1>2 DEF PaidUp

\* Only the row of a payment is written.
LEMMA RowOnlyStep ==
  ASSUME IndInv, NEW w \in scenario.sessions, txn' = [txn EXCEPT ![w] = Idle], Noted(w),
         UNCHANGED <<bills, gl>>,
         NEW p \in Payments, NEW row \in PaymentRow,
         payments' \in [Payments -> {NULL} \cup PaymentRow], payments'[p] = row,
         \A q \in Payments : q # p => payments'[q] = payments[q],
         payments[p] # NULL =>
           payments[p].bill = row.bill /\ payments[p].amount = row.amount,
         payments[p] = NULL => bills[row.bill].status \in Impacting,
         ~overlapped' => Value(row) = Value(payments[p]),
         batch' = batch \/ (batch = "NONE" /\ batch' = "DRAFT"),
         ~overlapped' => Suits(row, batch'),
         ~overlapped' /\ ~apiUsed' => Backed(row, gl[p])
  PROVE  IndInv'
<1>1. PICK i \in Bills : i = row.bill
  BY DEF PaymentRow
<1>2. payments[p] = NULL => bills[i].status \in Impacting
  BY <1>1
<1>3. bills[i] \in BillRow /\ bills' \in [Bills -> BillRow]
  BY DEF IndInv, Types
<1>4. gl[p] \in Journal /\ gl' \in [Payments -> Journal]
  BY DEF IndInv, Types
<1>5. ASSUME ~overlapped'
      PROVE  PaidUp(bills[i], bills[i].paid + Value(row) - Value(payments[p]))
  <2>1. ~overlapped
    BY <1>5, SessionGoesOn DEF IndInv
  <2>2. PaidUp(bills[i], bills[i].paid) /\ bills[i].paid \in Nat
    BY <2>1, NowPaidUp
  <2>3. Value(row) \in Nat
    BY PayablesAssumption DEF Value, PaymentRow
  <2>4. bills[i].paid + Value(row) - Value(payments[p]) = bills[i].paid
    BY <1>5, <2>2, <2>3
  <2> QED
    BY <2>2, <2>4
<1> QED
  BY <1>1, <1>2, <1>3, <1>4, <1>5, RowStep

-----------------------------------------------------------------------------
(* Posting. *)

Outcome == [gl : Journal, ok : BOOLEAN, link : {"NONE", "entry", "stray"}]

\* The first journal of a payment, when it is accepted, is live and linked.
First(g, r) ==
  g.entry = "NONE" /\ r.ok => r.gl.entry = "LIVE" /\ r.link = "entry" /\ r.gl.stray = g.stray

LEMMA MainOutcome ==
  ASSUME NEW g \in Journal, NEW r \in MainPosted(g)
  PROVE  r \in Outcome /\ First(g, r)
<1>1. CASE g.entry # "NONE"
  <2>1. r = [gl |-> [g EXCEPT !.stray = TRUE], ok |-> TRUE, link |-> "stray"]
    BY <1>1 DEF MainPosted
  <2> QED
    BY <1>1, <2>1 DEF Outcome, First, Journal
<1>2. CASE g.entry = "NONE"
  <2>1. \/ r = [gl |-> [g EXCEPT !.entry = "LIVE"], ok |-> TRUE, link |-> "entry"]
        \/ r = [gl |-> g, ok |-> FALSE, link |-> "NONE"]
    BY <1>2 DEF MainPosted, IfRefused
  <2>2. CASE r = [gl |-> [g EXCEPT !.entry = "LIVE"], ok |-> TRUE, link |-> "entry"]
    <3>1. /\ [g EXCEPT !.entry = "LIVE"] \in Journal
          /\ [g EXCEPT !.entry = "LIVE"].entry = "LIVE"
          /\ [g EXCEPT !.entry = "LIVE"].stray = g.stray
      BY DEF Journal
    <3> QED
      BY <2>2, <3>1 DEF Outcome, First
  <2>3. CASE r = [gl |-> g, ok |-> FALSE, link |-> "NONE"]
    BY <2>3 DEF Outcome, First
  <2> QED
    BY <2>1, <2>2, <2>3
<1> QED
  BY <1>1, <1>2

LEMMA AdapterOutcome ==
  ASSUME NEW g \in Journal, NEW r \in AdapterPosted(g)
  PROVE  r \in Outcome /\ First(g, r)
<1>1. PICK m \in MainPosted(g) : r \in VatPosted(m)
  BY DEF AdapterPosted
<1>2. m \in Outcome /\ First(g, m)
  BY <1>1, MainOutcome
<1>3. \/ r = m
      \/ r = [m EXCEPT !.gl.vat = "LIVE"]
      \/ r = [m EXCEPT !.gl.vat = "DRAFT", !.ok = FALSE]
  BY <1>1 DEF VatPosted, IfRefused
<1>4. m.gl \in Journal
  BY <1>2 DEF Outcome
<1>5. CASE r = m
  BY <1>2, <1>5
<1>6. ASSUME NEW vat \in {"LIVE", "DRAFT"}, NEW ok \in BOOLEAN, ok => m.ok,
             r = [gl |-> [m.gl EXCEPT !.vat = vat], ok |-> ok, link |-> m.link]
      PROVE  r \in Outcome /\ First(g, r)
  <2>1. PICK j : j = [m.gl EXCEPT !.vat = vat]
    OBVIOUS
  <2>2. j \in Journal /\ j.entry = m.gl.entry /\ j.stray = m.gl.stray
    BY <1>4, <2>1 DEF Journal
  <2>3. r.gl = j /\ r.ok = ok /\ r.link = m.link /\ r = [gl |-> j, ok |-> ok, link |-> m.link]
    BY <1>6, <2>1
  <2>4. r \in Outcome
    BY <1>2, <2>2, <2>3 DEF Outcome
  <2>5. First(g, r)
    BY <1>2, <1>6, <2>2, <2>3 DEF First
  <2> QED
    BY <2>4, <2>5
<1>7. CASE r = [m EXCEPT !.gl.vat = "LIVE"]
  <2>1. r = [gl |-> [m.gl EXCEPT !.vat = "LIVE"], ok |-> m.ok, link |-> m.link]
    BY <1>2, <1>7 DEF Outcome
  <2>2. m.ok \in BOOLEAN
    BY <1>2 DEF Outcome
  <2> QED
    BY <1>6, <2>1, <2>2
<1>8. CASE r = [m EXCEPT !.gl.vat = "DRAFT", !.ok = FALSE]
  <2>1. r = [gl |-> [m.gl EXCEPT !.vat = "DRAFT"], ok |-> FALSE, link |-> m.link]
    BY <1>2, <1>8 DEF Outcome
  <2> QED
    BY <1>6, <2>1
<1> QED
  BY <1>3, <1>5, <1>7, <1>8

-----------------------------------------------------------------------------
(* The operations on bills. *)

LEMMA BillType ==
  ASSUME IndInv, NEW i \in Bills
  PROVE  bills[i] \in BillRow
BY DEF IndInv, Types

LEMMA BillReplaced ==
  ASSUME IndInv, NEW i \in Bills, NEW bill \in BillRow, bills' = [bills EXCEPT ![i] = bill]
  PROVE  /\ bills' \in [Bills -> BillRow] /\ bills'[i] = bill
         /\ \A k \in Bills : k # i => bills'[k] = bills[k]
BY DEF IndInv, Types

\* A session writes the status and the journal of a bill, and ends.
LEMMA BillStep ==
  ASSUME IndInv, NEW w \in scenario.sessions, txn' = [txn EXCEPT ![w] = Idle], Noted(w),
         UNCHANGED <<payments, gl, batch>>,
         NEW i \in Bills, NEW bill \in BillRow, bills' = [bills EXCEPT ![i] = bill],
         bill.paid = bills[i].paid,
         ~apiUsed' =>
           Journaled(bill) /\ (bills[i].journal = "POSTED" => bill.journal = "POSTED"),
         ~overlapped' =>
           \/ bill.status = bills[i].status
           \/ bills[i].status \notin Impacting /\ bill.status \notin {"PARTIALLY_PAID", "PAID"},
         ~overlapped' /\ ~apiUsed' => Stands(bill)
  PROVE  IndInv'
<1>1. /\ bills' \in [Bills -> BillRow] /\ bills'[i] = bill
      /\ \A k \in Bills : k # i => bills'[k] = bills[k]
  BY BillReplaced
<1>2. ~overlapped' => ~overlapped
  BY SessionGoesOn DEF IndInv
<1>3. ~apiUsed' => ~apiUsed
  BY DEF IndInv, Types, Noted
<1>4. /\ payments' \in [Payments -> {NULL} \cup PaymentRow] /\ gl' \in [Payments -> Journal]
      /\ batch' \in {"NONE", "DRAFT", "APPROVED", "COMPLETED", "FAILED"}
  BY DEF IndInv, Types
<1>5. \A p \in Rows : payments'[p] # NULL /\ payments'[p].bill = payments[p].bill
  BY DEF Rows
<1>6. Rows' = Rows /\ IsFiniteSet(Rows')
  BY DEF IndInv, Rows
<1>7. ~apiUsed' =>
        /\ Journals'
        /\ \A k \in Bills : bills[k].journal = "POSTED" => bills'[k].journal = "POSTED"
        /\ \A p \in Rows' : p \notin Rows => bills'[payments'[p].bill].journal = "POSTED"
  BY <1>1, <1>3, <1>6 DEF IndInv, Journals
<1>8. ~overlapped' => \A k \in Bills : PaidUp(bills'[k], PaidBy(payments', k))
  <2> SUFFICES ASSUME ~overlapped', NEW k \in Bills
               PROVE  PaidUp(bills'[k], PaidBy(payments', k))
    OBVIOUS
  <2>1. PaidUp(bills[k], PaidBy(payments, k)) /\ payments' = payments
    BY <1>2, PaidByIs DEF IndInv, AllPaidUp
  <2>2. CASE k # i
    BY <1>1, <2>1, <2>2
  <2>3. CASE k = i
    BY <1>1, <2>1, <2>3 DEF PaidUp, Impacting
  <2> QED
    BY <2>2, <2>3
<1>9. ~overlapped' => AllSuit'
  <2>1. AllSuit => AllSuit'
    BY DEF AllSuit, Suits, Rows
  <2> QED
    BY <1>2, <2>1 DEF IndInv
<1>10. ~overlapped' /\ ~apiUsed' => AllBacked' /\ AllStand'
  BY <1>1, <1>2, <1>3 DEF IndInv, AllBacked, AllStand
<1> QED
  BY <1>1, <1>4, <1>5, <1>6, <1>7, <1>8, <1>9, <1>10, WriteStep

\* What a session knows when it writes a bill.
LEMMA BillOpened ==
  ASSUME IndInv, NEW w \in scenario.sessions, txn[w] # Idle, txn[w].op \notin PaymentOps
  PROVE  /\ txn[w].inv \in Bills /\ txn[w].found \in BillRow /\ Fits(txn[w])
         /\ ~overlapped => bills[txn[w].inv] = txn[w].found
<1>1. w \in Workers
  BY PayablesAssumption DEF IndInv, Types
<1>2. PICK t : t = txn[w]
  OBVIOUS
<1>3. t \in Session /\ Fits(t) /\ (~overlapped => Fresh(t)) /\ t.op \notin PaymentOps
  BY <1>1, <1>2 DEF IndInv, Types, Loaded, Alone
<1>4. t \in BillSession
  BY <1>3 DEF Session, PaymentSession, PaymentOps
<1> QED
  BY <1>2, <1>3, <1>4 DEF BillSession, Fresh

LEMMA OpenBillInd ==
  ASSUME IndInv, NEW w \in scenario.sessions, NEW i \in Bills, NEW statuses,
         NEW op \in {"approveBill", "postBill", "apiPostBill", "voidBill"},
         op # "apiPostBill" => statuses \cap Impacting = {},
         OpenBill(w, i, op, statuses)
  PROVE  IndInv'
<1>1. PICK t : t = [op |-> op, inv |-> i, found |-> bills[i]]
  OBVIOUS
<1>2. bills[i] \in BillRow /\ bills[i].status \in statuses
  BY BillType DEF OpenBill
<1>3. t \in Session
  BY <1>1, <1>2 DEF Session, BillSession
<1>4. Fits(t) /\ Fresh(t)
  BY <1>1, <1>2 DEF Fits, Fresh, PaymentOps
<1>5. txn' = [txn EXCEPT ![w] = t]
  BY <1>1 DEF OpenBill, Begin
<1> QED
  BY <1>3, <1>4, <1>5, ReadStep DEF OpenBill

\* The status a session writes over what it is by now.
LEMMA StatusWritten ==
  ASSUME IndInv, NEW w \in scenario.sessions, txn[w] # Idle, txn[w].op \notin PaymentOps,
         NEW new \in {"APPROVED", "VOID", "POSTED"}
  PROVE  \E bill \in BillRow :
           /\ WriteBillStatus(w, new) = [bills EXCEPT ![txn[w].inv] = bill]
           /\ bill.status = Written(txn[w].found.status, new, bills[txn[w].inv].status)
           /\ bill.paid = bills[txn[w].inv].paid /\ bill.journal = bills[txn[w].inv].journal
<1>1. PICK i \in Bills : i = txn[w].inv
  BY BillOpened
<1>2. PICK now \in BillRow : now = bills[i]
  BY BillType
<1>3. PICK status : status = Written(txn[w].found.status, new, now.status)
  OBVIOUS
<1>4. status \in {"APPROVED", "VOID", "POSTED", now.status}
  BY <1>3 DEF Written
<1>5. PICK bill : bill = [now EXCEPT !.status = status]
  OBVIOUS
<1>6. /\ bill \in BillRow /\ bill.status = status
      /\ bill.paid = now.paid /\ bill.journal = now.journal
  BY <1>4, <1>5 DEF BillRow
<1>7. WriteBillStatus(w, new) = [bills EXCEPT ![i] = bill]
  BY <1>1, <1>2, <1>3, <1>5 DEF WriteBillStatus, IndInv, Types
<1> QED
  BY <1>1, <1>2, <1>3, <1>6, <1>7

\* Approval and void write a status that says nothing of the ledger.
LEMMA OnlyStatusInd ==
  ASSUME IndInv, NEW w \in scenario.sessions, txn[w] # Idle,
         txn[w].op \in {"approveBill", "voidBill"}, NEW new \in {"APPROVED", "VOID"},
         End(w), bills' = WriteBillStatus(w, new), At(w), UNCHANGED <<payments, gl, batch>>
  PROVE  IndInv'
<1>1. txn[w].op \notin PaymentOps
  BY DEF PaymentOps
<1>2. PICK i \in Bills : i = txn[w].inv
  BY <1>1, BillOpened
<1>3. PICK bill \in BillRow :
        /\ bills' = [bills EXCEPT ![i] = bill]
        /\ bill.status = Written(txn[w].found.status, new, bills[i].status)
        /\ bill.paid = bills[i].paid /\ bill.journal = bills[i].journal
  BY <1>1, <1>2, StatusWritten
<1>4. Noted(w) /\ apiUsed' = apiUsed /\ txn' = [txn EXCEPT ![w] = Idle]
  BY AtNoted DEF IndInv, End
<1>5. ~overlapped' => ~overlapped
  BY <1>4, SessionGoesOn DEF IndInv
<1>6. bill.status \in {new, bills[i].status} /\ new \notin Impacting
  BY <1>3 DEF Written, Impacting
<1>7. ~apiUsed' =>
        Journaled(bill) /\ (bills[i].journal = "POSTED" => bill.journal = "POSTED")
  BY <1>3, <1>4, <1>6 DEF IndInv, Journals, Journaled
<1>8. ~overlapped' => bills[i].status \notin Impacting
  BY <1>1, <1>2, <1>5, BillOpened DEF Fits
<1>9. ~overlapped' =>
        \/ bill.status = bills[i].status
        \/ bills[i].status \notin Impacting /\ bill.status \notin {"PARTIALLY_PAID", "PAID"}
  BY <1>6, <1>8 DEF Impacting
<1>10. ~overlapped' /\ ~apiUsed' => Stands(bill)
  BY <1>3, <1>4, <1>5, <1>8 DEF IndInv, AllStand, Stands
<1> QED
  BY <1>3, <1>4, <1>7, <1>9, <1>10, BillStep

LEMMA ApproveBillInd ==
  ASSUME IndInv, NEW w \in scenario.sessions, ApproveBill(w)
  PROVE  IndInv'
BY OnlyStatusInd DEF ApproveBill, Running

LEMMA VoidBillInd ==
  ASSUME IndInv, NEW w \in scenario.sessions, VoidBill(w)
  PROVE  IndInv'
BY OnlyStatusInd DEF VoidBill, Running

\* A posting that is ok leaves a journal in the ledger, when none is left DRAFT.
LEMMA PostBillInd ==
  ASSUME IndInv, NEW w \in scenario.sessions, PostBill(w)
  PROVE  IndInv'
<1>1. txn[w] # Idle /\ txn[w].op = "postBill" /\ txn[w].op \notin PaymentOps
  BY DEF PostBill, Running, PaymentOps
<1>2. PICK i \in Bills : i = txn[w].inv
  BY <1>1, BillOpened
<1>3. PICK journal \in {"DRAFT", "POSTED"} :
        /\ BillPosted(txn[w].found.journal, bills[i].journal, journal, TRUE)
        /\ bills' = [WriteBillStatus(w, "POSTED") EXCEPT ![i].journal = journal]
  BY <1>2 DEF PostBill
<1>4. PICK written \in BillRow :
        /\ WriteBillStatus(w, "POSTED") = [bills EXCEPT ![i] = written]
        /\ written.status = Written(txn[w].found.status, "POSTED", bills[i].status)
        /\ written.paid = bills[i].paid
  BY <1>1, <1>2, StatusWritten
<1>5. written.status = "POSTED"
  BY <1>1, <1>4, BillOpened DEF Fits, Written, Impacting
<1>6. PICK bill : bill = [written EXCEPT !.journal = journal]
  OBVIOUS
<1>7. /\ bill \in BillRow /\ bill.status = "POSTED" /\ bill.paid = bills[i].paid
      /\ bill.journal = journal
  BY <1>4, <1>5, <1>6 DEF BillRow
<1>8. bills' = [bills EXCEPT ![i] = bill]
  BY <1>3, <1>4, <1>6 DEF IndInv, Types
<1>9. Noted(w) /\ apiUsed' = apiUsed /\ txn' = [txn EXCEPT ![w] = Idle]
      /\ UNCHANGED <<payments, gl, batch>>
  BY AtNoted DEF IndInv, PostBill, End
<1>10. ~overlapped' => ~overlapped
  BY <1>9, SessionGoesOn DEF IndInv
<1>11. ~apiUsed' =>
         Journaled(bill) /\ (bills[i].journal = "POSTED" => bill.journal = "POSTED")
  <2>1. ~apiUsed' => bills[i].journal \in {"NONE", "POSTED"}
    BY <1>9 DEF IndInv, Journals, Journaled
  <2>2. ~apiUsed' => journal = "POSTED"
    BY <1>3, <2>1 DEF BillPosted
  <2> QED
    BY <1>7, <2>2 DEF Journaled
<1>12. ~overlapped' =>
         bills[i].status \notin Impacting /\ bill.status \notin {"PARTIALLY_PAID", "PAID"}
  BY <1>1, <1>2, <1>7, <1>10, BillOpened DEF Fits
<1>13. Stands(bill)
  BY <1>7 DEF Stands, Impacting
<1> QED
  BY <1>7, <1>8, <1>9, <1>11, <1>12, <1>13, BillStep

LEMMA ApiPostBillInd ==
  ASSUME IndInv, NEW w \in scenario.sessions, ApiPostBill(w)
  PROVE  IndInv'
<1>1. txn[w] # Idle /\ txn[w].op \notin PaymentOps
  BY DEF ApiPostBill, Running, PaymentOps
<1>2. PICK i \in Bills : i = txn[w].inv
  BY <1>1, BillOpened
<1>3. PICK journal \in {"DRAFT", "POSTED"} : bills' = [bills EXCEPT ![i].journal = journal]
  BY <1>2 DEF ApiPostBill
<1>4. PICK bill : bill = [bills[i] EXCEPT !.journal = journal]
  OBVIOUS
<1>5. bill \in BillRow /\ bill.status = bills[i].status /\ bill.paid = bills[i].paid
  BY <1>4, BillType DEF BillRow
<1>6. bills' = [bills EXCEPT ![i] = bill]
  BY <1>3, <1>4 DEF IndInv, Types
<1>7. Noted(w) /\ apiUsed' /\ txn' = [txn EXCEPT ![w] = Idle]
      /\ UNCHANGED <<payments, gl, batch>>
  BY AtNoted DEF IndInv, ApiPostBill, End
<1> QED
  BY <1>5, <1>6, <1>7, BillStep

-----------------------------------------------------------------------------
(* The operations that read. *)

LEMMA LoadInd ==
  ASSUME IndInv, NEW w \in scenario.sessions, NEW p \in Payments,
         NEW op \in {"approve", "post", "apiPost", "void"}, Load(w, p, op, LoadedFor(op))
  PROVE  IndInv'
<1>1. PICK t : t = [op |-> op, pay |-> p, was |-> payments[p], found |-> NULL]
  OBVIOUS
<1>2. payments[p] \in PaymentRow /\ payments[p] # NULL /\ payments[p].status \in LoadedFor(op)
  BY DEF Load, Is, IndInv, Types
<1>3. t \in Session
  BY <1>1, <1>2 DEF Session, PaymentSession
<1>4. Fits(t) /\ Fresh(t)
  BY <1>1, <1>2 DEF Fits, Fresh, PaymentOps
<1>5. txn' = [txn EXCEPT ![w] = t]
  BY <1>1 DEF Load, Begin
<1> QED
  BY <1>3, <1>4, <1>5, ReadStep DEF Load

LEMMA LoadBillInd ==
  ASSUME IndInv, NEW w \in scenario.sessions, LoadBill(w)
  PROVE  IndInv'
<1>1. w \in Workers /\ txn[w] # Idle
  BY PayablesAssumption DEF IndInv, Types, LoadBill
<1>2. PICK s : s = txn[w]
  OBVIOUS
<1>3. s \in Session /\ Fits(s) /\ s.op \in {"post", "void"}
  BY <1>1, <1>2 DEF IndInv, Types, Loaded, LoadBill
<1>4. s \in PaymentSession
  BY <1>3 DEF Session, BillSession
<1>5. bills[s.was.bill] \in BillRow
  BY <1>4, BillType DEF PaymentSession, PaymentRow
<1>6. PICK t : t = [s EXCEPT !.found = bills[s.was.bill]]
  OBVIOUS
<1>7. /\ t \in PaymentSession /\ t.op = s.op /\ t.pay = s.pay /\ t.was = s.was
      /\ t.found = bills[t.was.bill]
  BY <1>4, <1>5, <1>6 DEF PaymentSession
<1>8. t \in Session /\ t.op \in PaymentOps /\ t.op \notin {"approveBill", "postBill", "voidBill"}
  BY <1>3, <1>7 DEF Session, PaymentOps
<1>9. Fits(t)
  BY <1>3, <1>7, <1>8 DEF Fits
<1>10. txn' = [txn EXCEPT ![w] = t]
  BY <1>2, <1>6 DEF LoadBill, Continue
<1>11. ~overlapped' => Fresh(t)
  <2>1. ~overlapped' => ~overlapped
    BY AtNoted, <1>10, SessionGoesOn DEF IndInv, LoadBill
  <2>2. ~overlapped => Fresh(s)
    BY <1>1, <1>2 DEF IndInv, Alone
  <2> QED
    BY <1>7, <1>8, <2>1, <2>2 DEF Fresh
<1> QED
  BY <1>8, <1>9, <1>10, <1>11, ReadStep DEF LoadBill

LEMMA RollbackInd ==
  ASSUME IndInv, NEW w \in scenario.sessions, Rollback(w)
  PROVE  IndInv'
BY ReadStep DEF Rollback, End

-----------------------------------------------------------------------------
(* The operations on payments. *)

LEMMA RowReplaced ==
  ASSUME IndInv, NEW p \in Payments, NEW row \in PaymentRow,
         payments' = [payments EXCEPT ![p] = row]
  PROVE  /\ payments' \in [Payments -> {NULL} \cup PaymentRow] /\ payments'[p] = row
         /\ \A q \in Payments : q # p => payments'[q] = payments[q]
BY DEF IndInv, Types

LEMMA RowType ==
  ASSUME IndInv, NEW p \in Payments, payments[p] # NULL
  PROVE  payments[p] \in PaymentRow
BY DEF IndInv, Types

\* A session with nothing open writes one payment.
LEMMA DirectRow ==
  ASSUME IndInv, NEW w \in scenario.sessions, txn[w] = Idle, UNCHANGED txn, At(w),
         UNCHANGED <<bills, gl>>,
         NEW p \in Payments, NEW row \in PaymentRow, payments' = [payments EXCEPT ![p] = row],
         payments[p] # NULL =>
           payments[p].bill = row.bill /\ payments[p].amount = row.amount,
         payments[p] = NULL => bills[row.bill].status \in Impacting,
         Value(row) = Value(payments[p]),
         batch' = batch \/ (batch = "NONE" /\ batch' = "DRAFT"),
         payments[p] # NULL /\ Suits(payments[p], batch) => Suits(row, batch'),
         payments[p] = NULL => Suits(row, batch'),
         Backed(payments[p], gl[p]) => Backed(row, gl[p])
  PROVE  IndInv'
<1>1. Noted(w) /\ apiUsed' = apiUsed
  BY AtNoted DEF IndInv
<1>2. txn' = [txn EXCEPT ![w] = Idle]
  BY NothingOpen DEF IndInv
<1>3. ~overlapped' => ~overlapped
  BY <1>1, <1>2, SessionGoesOn DEF IndInv
<1>4. /\ payments' \in [Payments -> {NULL} \cup PaymentRow] /\ payments'[p] = row
      /\ \A q \in Payments : q # p => payments'[q] = payments[q]
  BY RowReplaced
<1>5. ~overlapped' => Suits(row, batch')
  BY <1>3 DEF IndInv, AllSuit, Rows
<1>6. ~overlapped' /\ ~apiUsed' => Backed(row, gl[p])
  BY <1>1, <1>3 DEF IndInv, AllBacked
<1> QED
  BY <1>1, <1>2, <1>4, <1>5, <1>6, RowOnlyStep

LEMMA CreatedRow ==
  ASSUME NEW i \in Bills, NEW amount \in 1 .. Total, NEW batched \in BOOLEAN
  PROVE  /\ Payment(i, amount, batched) \in PaymentRow
         /\ Payment(i, amount, batched).status = "DRAFT"
         /\ Payment(i, amount, batched).bill = i
         /\ Payment(i, amount, batched).batched = batched
         /\ Payment(i, amount, batched) # NULL
<1>1. Payment(i, amount, batched) \in PaymentRow
  BY DEF Payment, PaymentRow, PaymentStatuses
<1> QED
  BY <1>1, NullAssumption DEF Payment

LEMMA CreatePaymentInd ==
  ASSUME IndInv, NEW w \in scenario.sessions, NEW p \in Payments, NEW i \in Bills,
         NEW amount \in 1 .. Total, CreatePayment(w, p, i, amount)
  PROVE  IndInv'
<1>1. PICK row \in PaymentRow : /\ row = Payment(i, amount, FALSE)
                                /\ row.status = "DRAFT" /\ row.bill = i /\ ~row.batched
                                /\ row # NULL
  BY CreatedRow
<1>2. payments' = [payments EXCEPT ![p] = row] /\ payments[p] = NULL /\ At(w)
      /\ txn[w] = Idle /\ UNCHANGED <<txn, bills, gl, batch>>
  BY <1>1 DEF CreatePayment
<1>3. bills[row.bill].status \in Impacting
  BY <1>1 DEF CreatePayment, Payable, Impacting
<1>4. Value(row) = Value(payments[p])
  BY <1>1, <1>2 DEF Value, Effects
<1>5. Suits(row, batch')
  BY <1>1 DEF Suits
<1>6. Backed(payments[p], gl[p]) => Backed(row, gl[p])
  BY <1>1, <1>2 DEF Backed
<1> QED
  BY <1>2, <1>3, <1>4, <1>5, <1>6, DirectRow

LEMMA CreateBatchInd ==
  ASSUME IndInv, NEW w \in scenario.sessions, NEW p \in Payments, NEW i \in Bills,
         NEW amount \in 1 .. Total, CreateBatch(w, p, i, amount)
  PROVE  IndInv'
<1>1. PICK row \in PaymentRow : /\ row = Payment(i, amount, TRUE)
                                /\ row.status = "DRAFT" /\ row.bill = i /\ row # NULL
  BY CreatedRow
<1>2. payments' = [payments EXCEPT ![p] = row] /\ payments[p] = NULL /\ At(w)
      /\ txn[w] = Idle /\ UNCHANGED <<txn, bills, gl>> /\ batch = "NONE" /\ batch' = "DRAFT"
  BY <1>1 DEF CreateBatch
<1>3. bills[row.bill].status \in Impacting
  BY <1>1 DEF CreateBatch, Payable, Impacting
<1>4. Value(row) = Value(payments[p])
  BY <1>1, <1>2 DEF Value, Effects
<1>5. Suits(row, batch')
  BY <1>1, <1>2 DEF Suits
<1>6. Backed(payments[p], gl[p]) => Backed(row, gl[p])
  BY <1>1, <1>2 DEF Backed
<1> QED
  BY <1>2, <1>3, <1>4, <1>5, <1>6, DirectRow

\* The status of a payment is written.
LEMMA WithStatus ==
  ASSUME NEW old \in PaymentRow, NEW status \in PaymentStatuses
  PROVE  LET row == [old EXCEPT !.status = status]
         IN  /\ row \in PaymentRow /\ row # NULL
             /\ row.status = status /\ row.bill = old.bill /\ row.amount = old.amount
             /\ row.link = old.link /\ row.batched = old.batched
<1>1. [old EXCEPT !.status = status] \in PaymentRow
  BY DEF PaymentRow
<1>2. PICK row : row = [old EXCEPT !.status = status]
  OBVIOUS
<1>3. /\ row.status = status /\ row.bill = old.bill /\ row.amount = old.amount
      /\ row.link = old.link /\ row.batched = old.batched
  BY <1>2 DEF PaymentRow
<1> QED
  BY <1>1, <1>2, <1>3, NullAssumption

LEMMA DeletePaymentInd ==
  ASSUME IndInv, NEW w \in scenario.sessions, NEW p \in Payments, DeletePayment(w, p)
  PROVE  IndInv'
<1>1. PICK old \in PaymentRow : old = payments[p] /\ old # NULL /\ old.status = "DRAFT"
  BY RowType DEF DeletePayment, Is
<1>2. PICK row \in PaymentRow :
        /\ row = [old EXCEPT !.status = "DELETED"] /\ row # NULL
        /\ row.status = "DELETED" /\ row.bill = old.bill /\ row.amount = old.amount
  <2>1. "DELETED" \in PaymentStatuses
    BY DEF PaymentStatuses
  <2> QED
    BY <2>1, WithStatus
<1>3. payments' = [payments EXCEPT ![p] = row] /\ At(w)
      /\ txn[w] = Idle /\ UNCHANGED <<txn, bills, gl, batch>>
  BY <1>1, <1>2 DEF DeletePayment
<1>4. Value(row) = Value(old) /\ Suits(row, batch') /\ Backed(row, gl[p])
  BY <1>1, <1>2 DEF Value, Effects, Suits, Backed
<1> QED
  BY <1>1, <1>2, <1>3, <1>4, DirectRow

LEMMA ClearPaymentInd ==
  ASSUME IndInv, NEW w \in scenario.sessions, NEW p \in Payments, ClearPayment(w, p)
  PROVE  IndInv'
<1>1. PICK old \in PaymentRow : old = payments[p] /\ old # NULL /\ old.status = "SENT"
  BY RowType DEF ClearPayment, Is
<1>2. PICK row \in PaymentRow :
        /\ row = [old EXCEPT !.status = "CLEARED"] /\ row # NULL
        /\ row.status = "CLEARED" /\ row.bill = old.bill /\ row.amount = old.amount
        /\ row.link = old.link /\ row.batched = old.batched
  <2>1. "CLEARED" \in PaymentStatuses
    BY DEF PaymentStatuses
  <2> QED
    BY <2>1, WithStatus
<1>3. payments' = [payments EXCEPT ![p] = row] /\ At(w)
      /\ txn[w] = Idle /\ UNCHANGED <<txn, bills, gl, batch>>
  BY <1>1, <1>2 DEF ClearPayment
<1>4. Value(row) = Value(old) /\ (Suits(old, batch) => Suits(row, batch'))
      /\ (Backed(old, gl[p]) => Backed(row, gl[p]))
  BY <1>1, <1>2, <1>3 DEF Value, Effects, Suits, Backed
<1> QED
  BY <1>1, <1>2, <1>3, <1>4, DirectRow

LEMMA AddToBatchInd ==
  ASSUME IndInv, NEW w \in scenario.sessions, NEW p \in Payments, AddToBatch(w, p)
  PROVE  IndInv'
<1>1. PICK old \in PaymentRow : old = payments[p] /\ old # NULL /\ old.status = "DRAFT"
  BY RowType DEF AddToBatch, Is
<1>2. PICK row : row = [old EXCEPT !.batched = TRUE]
  OBVIOUS
<1>3. /\ row \in PaymentRow
      /\ row.status = "DRAFT" /\ row.bill = old.bill /\ row.amount = old.amount
  BY <1>1, <1>2 DEF PaymentRow
<1>4. row # NULL
  BY <1>3, NullAssumption
<1>5. payments' = [payments EXCEPT ![p] = row] /\ At(w) /\ batch = "DRAFT"
      /\ txn[w] = Idle /\ UNCHANGED <<txn, bills, gl, batch>>
  BY <1>1, <1>2 DEF AddToBatch
<1>6. Value(row) = Value(old) /\ Suits(row, batch') /\ (Backed(old, gl[p]) => Backed(row, gl[p]))
  BY <1>1, <1>3, <1>4, <1>5 DEF Value, Effects, Suits, Backed
<1> QED
  BY <1>1, <1>3, <1>4, <1>5, <1>6, DirectRow

\* What a session knows when it writes a payment.
LEMMA Opened ==
  ASSUME IndInv, NEW w \in scenario.sessions, txn[w] # Idle, txn[w].op \in PaymentOps
  PROVE  /\ w \in Workers /\ txn[w] \in PaymentSession /\ Fits(txn[w])
         /\ txn[w].pay \in Payments /\ txn[w].was \in PaymentRow
         /\ txn[w].was.bill \in Bills
         /\ txn[w].found # NULL => txn[w].found \in BillRow
         /\ payments[txn[w].pay] \in PaymentRow
         /\ payments[txn[w].pay].bill = txn[w].was.bill
         /\ ~overlapped => Fresh(txn[w])
<1>1. w \in Workers
  BY PayablesAssumption DEF IndInv, Types
<1>2. PICK t : t = txn[w]
  OBVIOUS
<1>3. t \in Session /\ Fits(t) /\ (~overlapped => Fresh(t)) /\ t.op \in PaymentOps
  BY <1>1, <1>2 DEF IndInv, Types, Loaded, Alone
<1>4. t \in PaymentSession
  BY <1>3 DEF Session, BillSession, PaymentOps
<1>5. t.pay \in Payments /\ t.was \in PaymentRow /\ (t.found # NULL => t.found \in BillRow)
  BY <1>4 DEF PaymentSession
<1>6. t.was.bill \in Bills
  BY <1>5 DEF PaymentRow
<1>7. payments[t.pay] \in PaymentRow /\ payments[t.pay].bill = t.was.bill
  BY <1>3, <1>5, RowType DEF Fits
<1> QED
  BY <1>1, <1>2, <1>3, <1>4, <1>5, <1>6, <1>7

LEMMA ApprovePaymentInd ==
  ASSUME IndInv, NEW w \in scenario.sessions, ApprovePayment(w)
  PROVE  IndInv'
<1>1. txn[w] # Idle /\ txn[w].op \in PaymentOps
  BY DEF ApprovePayment, Running, PaymentOps
<1>2. PICK t : t = txn[w]
  OBVIOUS
<1>3. PICK p \in Payments : p = t.pay
  BY <1>1, <1>2, Opened
<1>4. PICK old \in PaymentRow : old = payments[p]
  BY <1>1, <1>2, <1>3, Opened
<1>5. t.was.status = "DRAFT"
  BY <1>1, <1>2, Opened DEF ApprovePayment, Running, Fits, LoadedFor
<1>6. PICK row \in PaymentRow :
        /\ row = [old EXCEPT !.status = "APPROVED"] /\ row # NULL
        /\ row.status = "APPROVED" /\ row.bill = old.bill /\ row.amount = old.amount
        /\ row.link = old.link /\ row.batched = old.batched
  <2>1. "APPROVED" \in PaymentStatuses
    BY DEF PaymentStatuses
  <2> QED
    BY <2>1, WithStatus
<1>7. payments' = [payments EXCEPT ![p] = row]
  BY <1>2, <1>3, <1>4, <1>5, <1>6 DEF ApprovePayment, WriteStatus, Written
<1>8. Noted(w) /\ apiUsed' = apiUsed /\ txn' = [txn EXCEPT ![w] = Idle]
      /\ UNCHANGED <<bills, gl, batch>>
  BY AtNoted DEF IndInv, ApprovePayment, End
<1>9. ~overlapped' => ~overlapped
  BY <1>8, SessionGoesOn DEF IndInv
<1>10. ~overlapped' => old.status = "DRAFT"
  BY <1>1, <1>2, <1>3, <1>4, <1>5, <1>9, Opened DEF Fresh
<1>11. old # NULL
  BY NullAssumption
<1>12. ~overlapped' => Value(row) = Value(old)
  BY <1>6, <1>10 DEF Value, Effects
<1>13. ~overlapped' => Suits(row, batch')
  <2>1. ~overlapped' => Suits(old, batch)
    BY <1>4, <1>9, <1>11 DEF IndInv, AllSuit, Rows
  <2> QED
    BY <1>6, <1>8, <1>10, <2>1 DEF Suits
<1>14. ~overlapped' /\ ~apiUsed' => Backed(row, gl[p])
  <2>1. ~overlapped' /\ ~apiUsed' => Backed(old, gl[p])
    BY <1>4, <1>8, <1>9 DEF IndInv, AllBacked
  <2> QED
    BY <1>6, <1>10, <2>1 DEF Backed
<1>15. /\ payments' \in [Payments -> {NULL} \cup PaymentRow] /\ payments'[p] = row
       /\ \A q \in Payments : q # p => payments'[q] = payments[q]
  BY <1>7, RowReplaced
<1> QED
  BY <1>4, <1>6, <1>8, <1>11, <1>12, <1>13, <1>14, <1>15, RowOnlyStep

LEMMA ApiPostPaymentInd ==
  ASSUME IndInv, NEW w \in scenario.sessions, ApiPostPayment(w)
  PROVE  IndInv'
<1>1. txn[w] # Idle /\ txn[w].op \in PaymentOps
  BY DEF ApiPostPayment, Running, PaymentOps
<1>2. PICK p \in Payments : p = txn[w].pay
  BY <1>1, Opened
<1>3. PICK r \in AdapterPosted(gl[p]) : gl' = [gl EXCEPT ![p] = r.gl]
  BY <1>2 DEF ApiPostPayment
<1>4. gl \in [Payments -> Journal] /\ gl[p] \in Journal
  BY DEF IndInv, Types
<1>5. r.gl \in Journal
  BY <1>3, <1>4, AdapterOutcome DEF Outcome
<1>6. gl' \in [Payments -> Journal]
  BY <1>3, <1>4, <1>5
<1>7. Noted(w) /\ apiUsed' /\ txn' = [txn EXCEPT ![w] = Idle]
      /\ UNCHANGED <<bills, payments, batch>>
  BY AtNoted DEF IndInv, ApiPostPayment, End
<1>8. ~overlapped' => ~overlapped
  BY <1>7, SessionGoesOn DEF IndInv
<1>9. /\ bills' \in [Bills -> BillRow] /\ payments' \in [Payments -> {NULL} \cup PaymentRow]
      /\ batch' \in {"NONE", "DRAFT", "APPROVED", "COMPLETED", "FAILED"}
  BY <1>7 DEF IndInv, Types
<1>10. Rows' = Rows /\ IsFiniteSet(Rows')
  BY <1>7 DEF IndInv, Rows
<1>11. \A q \in Rows : payments'[q] # NULL /\ payments'[q].bill = payments[q].bill
  BY <1>7 DEF Rows
<1>12. ~overlapped' => (\A i \in Bills : PaidUp(bills'[i], PaidBy(payments', i))) /\ AllSuit'
  <2>1. AllPaidUp => \A i \in Bills : PaidUp(bills'[i], PaidBy(payments', i))
    BY <1>7, PaidByIs DEF AllPaidUp
  <2>2. AllSuit => AllSuit'
    BY <1>7 DEF AllSuit, Suits, Rows
  <2> QED
    BY <1>8, <2>1, <2>2 DEF IndInv
<1> QED
  BY <1>6, <1>7, <1>9, <1>10, <1>11, <1>12, WriteStep

\* The bill that a session writes.
LEMMA BillWritten ==
  ASSUME NEW found \in BillRow, NEW paid \in Int, NEW now \in BillRow,
         NEW status \in Impacting
  PROVE  LET bill == WriteBill(found, paid, status, now)
         IN  /\ bill \in BillRow /\ bill.status \in Impacting \cup {now.status}
             /\ bill.journal = now.journal
             /\ now = found => bill.paid = paid /\ bill.status = status
<1>1. PICK p : p = Written(found.paid, paid, now.paid)
  OBVIOUS
<1>2. PICK s : s = Written(found.status, status, now.status)
  OBVIOUS
<1>3. p \in Int /\ s \in Impacting \cup {now.status} /\ (now = found => p = paid /\ s = status)
  BY <1>1, <1>2 DEF Written, BillRow
<1>4. PICK bill : bill = [now EXCEPT !.paid = p, !.status = s]
  OBVIOUS
<1>5. WriteBill(found, paid, status, now) = bill
  BY <1>1, <1>2, <1>4 DEF WriteBill, BillRow
<1>6. bill \in BillRow /\ bill.paid = p /\ bill.status = s /\ bill.journal = now.journal
  BY <1>3, <1>4 DEF BillRow, Impacting
<1> QED
  BY <1>3, <1>5, <1>6

LEMMA JournalReplaced ==
  ASSUME IndInv, NEW p \in Payments, NEW g \in Journal, gl' = [gl EXCEPT ![p] = g]
  PROVE  /\ gl' \in [Payments -> Journal] /\ gl'[p] = g
         /\ \A q \in Payments : q # p => gl'[q] = gl[q]
BY DEF IndInv, Types

\* A payment of an amount that is positive leaves the bill paid in part or in full.
LEMMA PostPaymentInd ==
  ASSUME IndInv, NEW w \in scenario.sessions, PostPayment(w)
  PROVE  IndInv'
<1>1. txn[w] # Idle /\ txn[w].op \in PaymentOps
  BY DEF PostPayment, Running, PaymentOps
<1>2. PICK t : t = txn[w]
  OBVIOUS
<1>3. PICK p \in Payments : p = t.pay
  BY <1>1, <1>2, Opened
<1>4. PICK old \in PaymentRow : old = payments[p]
  BY <1>1, <1>2, <1>3, Opened
<1>5. PICK was \in PaymentRow : was = t.was /\ was.status = "APPROVED"
  BY <1>1, <1>2, Opened DEF PostPayment, Running, Fits, LoadedFor
<1>6. PICK found \in BillRow : found = t.found
  BY <1>1, <1>2, Opened DEF PostPayment
<1>7. PICK i \in Bills : i = was.bill
  BY DEF PaymentRow
<1>8. old.bill = i
  BY <1>1, <1>2, <1>3, <1>4, <1>5, <1>7, Opened
<1>9. PICK paid : paid = found.paid + was.amount
  OBVIOUS
<1>10. paid \in Int /\ found.paid \in Int /\ was.amount \in Nat \ {0}
  BY <1>9, PayablesAssumption DEF BillRow, PaymentRow
<1>11. PICK r \in AdapterPosted(gl[p]) :
         /\ r.ok
         /\ gl' = [gl EXCEPT ![p] = r.gl]
         /\ payments' = [payments EXCEPT ![p] =
                           [WriteStatus(w, "SENT") EXCEPT !.link = r.link]]
         /\ bills' = [bills EXCEPT ![i] =
                        WriteBill(found, paid, PaidStatus(paid), bills[i])]
  BY <1>2, <1>3, <1>5, <1>6, <1>7, <1>9 DEF PostPayment
<1>12. gl[p] \in Journal
  BY DEF IndInv, Types
<1>13. r \in Outcome /\ First(gl[p], r)
  BY <1>11, <1>12, AdapterOutcome
<1>14. PICK g \in Journal : g = r.gl
  BY <1>13 DEF Outcome
<1>15. PICK row : row = [WriteStatus(w, "SENT") EXCEPT !.link = r.link]
  OBVIOUS
<1>16. /\ row \in PaymentRow /\ row.status = "SENT" /\ row.bill = i
       /\ row.amount = old.amount /\ row.link = r.link /\ row.batched = old.batched
  <2>1. WriteStatus(w, "SENT") = [old EXCEPT !.status = "SENT"]
    BY <1>2, <1>3, <1>4, <1>5 DEF WriteStatus, Written
  <2>2. PICK sent : sent = [old EXCEPT !.status = "SENT"]
    OBVIOUS
  <2>3. /\ sent \in PaymentRow /\ sent.status = "SENT" /\ sent.bill = old.bill
        /\ sent.amount = old.amount /\ sent.batched = old.batched
    BY <2>2 DEF PaymentRow, PaymentStatuses
  <2>4. row = [sent EXCEPT !.link = r.link] /\ r.link \in {"NONE", "entry", "stray"}
    BY <1>13, <1>15, <2>1, <2>2 DEF Outcome
  <2> QED
    BY <1>8, <2>3, <2>4 DEF PaymentRow
<1>17. row # NULL /\ old # NULL
  BY <1>16, NullAssumption
<1>18. PICK bill : bill = WriteBill(found, paid, PaidStatus(paid), bills[i])
  OBVIOUS
<1>19. /\ bill \in BillRow /\ bill.status \in Impacting \cup {bills[i].status}
       /\ bill.journal = bills[i].journal
       /\ bills[i] = found => bill.paid = paid /\ bill.status = PaidStatus(paid)
  <2>1. PaidStatus(paid) \in Impacting
    BY DEF PaidStatus, Impacting
  <2>2. bills[i] \in BillRow
    BY BillType
  <2>3. PICK now \in BillRow, status \in Impacting :
          now = bills[i] /\ status = PaidStatus(paid)
    BY <2>1, <2>2
  <2>4. bill = WriteBill(found, paid, status, now)
    BY <1>18, <2>3
  <2>5. /\ bill \in BillRow /\ bill.status \in Impacting \cup {now.status}
        /\ bill.journal = now.journal
        /\ now = found => bill.paid = paid /\ bill.status = status
    BY <1>10, <2>4, BillWritten
  <2> QED
    BY <2>3, <2>5
<1>20. Noted(w) /\ apiUsed' = apiUsed /\ txn' = [txn EXCEPT ![w] = Idle] /\ batch' = batch
  BY AtNoted DEF IndInv, PostPayment, End
<1>21. ~overlapped' => ~overlapped
  BY <1>20, SessionGoesOn DEF IndInv
<1>22. ~overlapped' => old = was /\ bills[i] = found
  BY <1>1, <1>2, <1>3, <1>4, <1>5, <1>6, <1>7, <1>21, Opened DEF Fresh, PostPayment
<1>23. ASSUME ~overlapped'
       PROVE  PaidUp(bill, bills[i].paid + Value(row) - Value(old))
  <2>1. Value(row) = was.amount /\ Value(old) = 0
    BY <1>5, <1>16, <1>17, <1>22, <1>23 DEF Value, Effects
  <2>2. bills[i].paid \in Nat /\ bills[i].paid = found.paid
    BY <1>21, <1>22, <1>23, NowPaidUp
  <2>3. bill.paid = paid /\ bill.status = PaidStatus(paid) /\ paid > 0
    BY <1>9, <1>10, <1>19, <1>22, <1>23, <2>2
  <2>4. bills[i].paid + Value(row) - Value(old) = paid
    BY <1>9, <1>10, <2>1, <2>2
  <2> QED
    BY <2>3, <2>4, <1>10 DEF PaidUp, PaidStatus
<1>24. ~overlapped' => Suits(row, batch')
  <2>1. ~overlapped' => Suits(old, batch)
    BY <1>4, <1>17, <1>21 DEF IndInv, AllSuit, Rows
  <2> QED
    BY <1>5, <1>16, <1>20, <1>22, <2>1 DEF Suits
<1>25. ~overlapped' /\ ~apiUsed' => Backed(row, g)
  <2>1. ~overlapped' /\ ~apiUsed' => Backed(old, gl[p])
    BY <1>4, <1>20, <1>21 DEF IndInv, AllBacked
  <2> QED
    <3> SUFFICES ASSUME ~overlapped', ~apiUsed' PROVE Backed(row, g)
      OBVIOUS
    <3>1. gl[p].entry = "NONE" /\ ~gl[p].stray
      BY <1>5, <1>22, <2>1 DEF Backed
    <3>2. g.entry = "LIVE" /\ row.link = "entry" /\ g.stray = gl[p].stray
      BY <1>11, <1>13, <1>14, <1>16, <3>1 DEF First
    <3>3. ~g.stray
      BY <3>1, <3>2, Zenon
    <3> QED
      BY <1>16, <1>17, <3>2, <3>3 DEF Backed
<1>26. /\ payments' \in [Payments -> {NULL} \cup PaymentRow] /\ payments'[p] = row
       /\ \A q \in Payments : q # p => payments'[q] = payments[q]
  BY <1>11, <1>15, <1>16, RowReplaced
<1>27. /\ bills' \in [Bills -> BillRow] /\ bills'[i] = bill
       /\ \A k \in Bills : k # i => bills'[k] = bills[k]
  BY <1>11, <1>18, <1>19, BillReplaced
<1>28. /\ gl' \in [Payments -> Journal] /\ gl'[p] = g
       /\ \A q \in Payments : q # p => gl'[q] = gl[q]
  BY <1>11, <1>14, JournalReplaced
<1>29. payments[p] # NULL /\ payments[p].bill = row.bill /\ payments[p].amount = row.amount
       /\ i = row.bill
  BY <1>4, <1>8, <1>16, <1>17
<1>30. ~overlapped' =>
         /\ PaidUp(bill, bills[i].paid + Value(row) - Value(payments[p]))
         /\ Suits(row, batch')
  BY <1>4, <1>23, <1>24
<1> QED
  BY <1>8, <1>16, <1>19, <1>20, <1>25, <1>26, <1>27, <1>28, <1>29, <1>30, RowStep

\* The journals of a payment after their reversals.
LEMMA JournalReversed ==
  ASSUME IndInv, NEW p \in Payments, NEW link, NEW refused,
         gl' = [gl EXCEPT ![p].entry = IF link = "entry" THEN Reversed(@, refused) ELSE @,
                          ![p].vat = Reversed(@, refused)]
  PROVE  /\ gl' \in [Payments -> Journal]
         /\ \A q \in Payments : q # p => gl'[q] = gl[q]
<1>1. gl \in [Payments -> Journal] /\ gl[p] \in Journal
  BY DEF IndInv, Types
<1>2. \A j \in {"NONE", "DRAFT", "LIVE", "REVERSED"} :
        /\ Reversed(j, refused) \in {"NONE", "DRAFT", "LIVE", "REVERSED"}
        /\ j # "DRAFT" => Reversed(j, refused) # "DRAFT"
  BY DEF Reversed
<1>3. PICK g : g = [gl[p] EXCEPT !.entry = IF link = "entry" THEN Reversed(@, refused) ELSE @,
                                 !.vat = Reversed(@, refused)]
  OBVIOUS
<1>4. g \in Journal
  BY <1>1, <1>2, <1>3 DEF Journal
<1>5. gl' = [gl EXCEPT ![p] = g]
  BY <1>1, <1>3 DEF Journal
<1> QED
  BY <1>1, <1>4, <1>5

LEMMA VoidPaymentInd ==
  ASSUME IndInv, NEW w \in scenario.sessions, VoidPayment(w)
  PROVE  IndInv'
<1>1. txn[w] # Idle /\ txn[w].op \in PaymentOps
  BY DEF VoidPayment, Running, PaymentOps
<1>2. PICK t : t = txn[w]
  OBVIOUS
<1>3. PICK p \in Payments : p = t.pay
  BY <1>1, <1>2, Opened
<1>4. PICK old \in PaymentRow : old = payments[p]
  BY <1>1, <1>2, <1>3, Opened
<1>5. PICK was \in PaymentRow : was = t.was /\ was.status \in {"DRAFT", "APPROVED", "SENT", "REJECTED"}
  BY <1>1, <1>2, Opened DEF VoidPayment, Running, Fits, LoadedFor
<1>6. PICK found \in BillRow : found = t.found
  BY <1>1, <1>2, Opened DEF VoidPayment
<1>7. PICK i \in Bills : i = was.bill
  BY DEF PaymentRow
<1>8. old.bill = i
  BY <1>1, <1>2, <1>3, <1>4, <1>5, <1>7, Opened
<1>9. PICK row \in PaymentRow :
        /\ row = [old EXCEPT !.status = "VOID"] /\ row # NULL
        /\ row.status = "VOID" /\ row.bill = old.bill /\ row.amount = old.amount
        /\ row.batched = old.batched
  <2>1. "VOID" \in PaymentStatuses
    BY DEF PaymentStatuses
  <2> QED
    BY <2>1, WithStatus
<1>10. old # NULL
  BY NullAssumption
<1>11. payments' = [payments EXCEPT ![p] = row]
  BY <1>2, <1>3, <1>4, <1>5, <1>9 DEF VoidPayment, WriteStatus, Written
<1>12. /\ payments' \in [Payments -> {NULL} \cup PaymentRow] /\ payments'[p] = row
       /\ \A q \in Payments : q # p => payments'[q] = payments[q]
  BY <1>11, RowReplaced
<1>13. Noted(w) /\ apiUsed' = apiUsed /\ txn' = [txn EXCEPT ![w] = Idle] /\ batch' = batch
  BY AtNoted DEF IndInv, VoidPayment, End
<1>14. ~overlapped' => ~overlapped
  BY <1>13, SessionGoesOn DEF IndInv
<1>15. ~overlapped' => old = was /\ bills[i] = found
  BY <1>1, <1>2, <1>3, <1>4, <1>5, <1>6, <1>7, <1>14, Opened DEF Fresh, VoidPayment
<1>16. ~overlapped' => Suits(row, batch')
  <2>1. ~overlapped' => Suits(old, batch)
    BY <1>4, <1>10, <1>14 DEF IndInv, AllSuit, Rows
  <2>2. old.status # "DELETED"
    BY <1>2, <1>3, <1>4, <1>10 DEF VoidPayment, Is
  <2> QED
    BY <1>9, <1>13, <2>1, <2>2 DEF Suits
<1>17. \A g : Backed(row, g)
  BY <1>9 DEF Backed
<1>18. CASE was.status # "SENT"
  <2>1. UNCHANGED <<bills, gl>>
    BY <1>2, <1>5, <1>18 DEF VoidPayment
  <2>2. ~overlapped' => Value(row) = Value(old)
    BY <1>5, <1>9, <1>15, <1>18 DEF Value, Effects
  <2> QED
    BY <2>1, <2>2, <1>4, <1>8, <1>9, <1>10, <1>12, <1>13, <1>16, <1>17, RowOnlyStep
<1>19. CASE was.status = "SENT"
  <2>1. PICK paid : paid = found.paid - was.amount
    OBVIOUS
  <2>2. PICK refused : /\ gl' = [gl EXCEPT
                           ![p].entry = IF was.link = "entry" THEN Reversed(@, refused) ELSE @,
                           ![p].vat = Reversed(@, refused)]
                       /\ bills' = [bills EXCEPT ![i] =
                              WriteBill(found, paid, UnpaidStatus(paid), bills[i])]
    BY <2>1, <1>2, <1>3, <1>5, <1>6, <1>7, <1>19 DEF VoidPayment
  <2>3. paid \in Int /\ found.paid \in Int /\ was.amount \in Nat \ {0}
    BY <2>1, PayablesAssumption DEF BillRow, PaymentRow
  <2>4. gl' \in [Payments -> Journal] /\ \A q \in Payments : q # p => gl'[q] = gl[q]
    BY <2>2, JournalReversed
  <2>5. PICK g \in Journal : g = gl'[p]
    BY <2>4
  <2>7. PICK bill : bill = WriteBill(found, paid, UnpaidStatus(paid), bills[i])
    OBVIOUS
  <2>8. /\ bill \in BillRow /\ bill.status \in Impacting \cup {bills[i].status}
        /\ bill.journal = bills[i].journal
        /\ bills[i] = found => bill.paid = paid /\ bill.status = UnpaidStatus(paid)
    <3>1. UnpaidStatus(paid) \in Impacting
      BY DEF UnpaidStatus, Impacting
    <3>2. bills[i] \in BillRow
      BY BillType
    <3>3. PICK now \in BillRow, status \in Impacting :
            now = bills[i] /\ status = UnpaidStatus(paid)
      BY <3>1, <3>2
    <3>4. bill = WriteBill(found, paid, status, now)
      BY <2>7, <3>3
    <3>5. /\ bill \in BillRow /\ bill.status \in Impacting \cup {now.status}
          /\ bill.journal = now.journal
          /\ now = found => bill.paid = paid /\ bill.status = status
      BY <2>3, <3>4, BillWritten
    <3> QED
      BY <3>3, <3>5
  <2>9. /\ bills' \in [Bills -> BillRow] /\ bills'[i] = bill
        /\ \A k \in Bills : k # i => bills'[k] = bills[k]
    BY <2>2, <2>7, <2>8, BillReplaced
  <2>10. ASSUME ~overlapped'
         PROVE  PaidUp(bill, bills[i].paid + Value(row) - Value(old))
    <3>1. Value(row) = 0 /\ Value(old) = was.amount
      BY <1>9, <1>10, <1>15, <1>19, <2>10 DEF Value, Effects
    <3>2. bill.paid = paid /\ bill.status = UnpaidStatus(paid) /\ bills[i].paid = found.paid
      BY <1>15, <2>8, <2>10
    <3>3. bills[i].paid + Value(row) - Value(old) = paid
      BY <2>1, <2>3, <3>1, <3>2
    <3> QED
      BY <2>3, <3>2, <3>3 DEF PaidUp, UnpaidStatus
  <2>11. payments[p] # NULL /\ payments[p].bill = row.bill /\ payments[p].amount = row.amount
         /\ i = row.bill
    BY <1>4, <1>8, <1>9, <1>10
  <2>12. ~overlapped' =>
           /\ PaidUp(bill, bills[i].paid + Value(row) - Value(payments[p]))
           /\ Suits(row, batch')
    BY <1>4, <1>16, <2>10
  <2> QED
    BY <1>8, <1>12, <1>13, <1>17, <2>4, <2>5, <2>8, <2>9, <2>11, <2>12, RowStep
<1> QED
  BY <1>18, <1>19

-----------------------------------------------------------------------------
(* The operations on the batch. *)

\* Payments that keep their effect, bill and amount pay what they did.
LEMMA PaidBySame ==
  ASSUME NEW rows \in [Payments -> {NULL} \cup PaymentRow], IsFiniteSet(RowsOf(rows)),
         NEW new \in [Payments -> {NULL} \cup PaymentRow],
         \A p \in Payments :
           /\ Effects(new[p]) <=> Effects(rows[p])
           /\ Effects(rows[p]) =>
                new[p].bill = rows[p].bill /\ new[p].amount = rows[p].amount,
         NEW i
  PROVE  PaidBy(new, i) = PaidBy(rows, i)
<1>1. EffectiveIn(new, i) = EffectiveIn(rows, i)
  BY DEF EffectiveIn
<1>2. PICK S : S = EffectiveIn(rows, i)
  OBVIOUS
<1>3. IsFiniteSet(S) /\ \A q \in S : rows[q].amount \in Nat /\ rows[q].amount = new[q].amount
  BY <1>2, EffectiveType DEF EffectiveIn
<1>4. Worth(rows, S) = Worth(new, S)
  BY <1>3, WorthSame
<1> QED
  BY <1>1, <1>2, <1>4 DEF PaidBy

LEMMA ApproveBatchInd ==
  ASSUME IndInv, NEW w \in scenario.sessions, ApproveBatch(w)
  PROVE  IndInv'
<1>1. /\ payments \in [Payments -> {NULL} \cup PaymentRow] /\ IsFiniteSet(RowsOf(payments))
      /\ bills \in [Bills -> BillRow] /\ gl \in [Payments -> Journal]
  BY DEF IndInv, Types, Rows, RowsOf
<1>2. /\ Noted(w) /\ apiUsed' = apiUsed /\ txn' = [txn EXCEPT ![w] = Idle]
      /\ UNCHANGED <<bills, gl>> /\ batch = "DRAFT" /\ batch' = "APPROVED"
  BY AtNoted, NothingOpen DEF IndInv, ApproveBatch
<1>3. ~overlapped' => ~overlapped
  BY <1>2, SessionGoesOn DEF IndInv
<1>4. ASSUME NEW p \in Payments
      PROVE  /\ p \notin Batched \/ payments[p].status # "DRAFT" => payments'[p] = payments[p]
             /\ p \in Batched /\ payments[p].status = "DRAFT" =>
                  payments'[p] = [payments[p] EXCEPT !.status = "APPROVED"]
  BY DEF ApproveBatch
<1>5. ASSUME NEW p \in Payments, p \in Batched, payments[p].status = "DRAFT"
      PROVE  /\ payments[p] # NULL /\ payments'[p] # NULL /\ payments'[p] \in PaymentRow
             /\ payments'[p].status = "APPROVED" /\ payments'[p].bill = payments[p].bill
             /\ payments'[p].amount = payments[p].amount
             /\ payments'[p].batched = payments[p].batched
  <2>1. payments[p] # NULL /\ payments[p] \in PaymentRow
    BY <1>5, RowType DEF Batched, Is
  <2>2. PICK old \in PaymentRow : old = payments[p]
    BY <2>1
  <2>3. "APPROVED" \in PaymentStatuses
    BY DEF PaymentStatuses
  <2>4. payments'[p] = [old EXCEPT !.status = "APPROVED"]
    BY <1>4, <1>5, <2>2
  <2>5. PICK row \in PaymentRow :
          /\ row = [old EXCEPT !.status = "APPROVED"] /\ row # NULL
          /\ row.status = "APPROVED" /\ row.bill = old.bill /\ row.amount = old.amount
          /\ row.link = old.link /\ row.batched = old.batched
    BY <2>3, WithStatus
  <2>6. payments'[p] = row
    BY <2>4, <2>5
  <2> QED
    BY <2>1, <2>2, <2>5, <2>6
<1>6. payments' \in [Payments -> {NULL} \cup PaymentRow]
  <2>1. payments' = [p \in Payments |-> payments'[p]]
    BY DEF ApproveBatch
  <2>2. \A p \in Payments : payments'[p] \in {NULL} \cup PaymentRow
    BY <1>1, <1>4, <1>5
  <2> QED
    BY <2>1, <2>2
<1>7. Rows' = Rows
  <2>1. \A p \in Payments : payments'[p] # NULL <=> payments[p] # NULL
    BY <1>4, <1>5
  <2> QED
    BY <2>1 DEF Rows
<1>8. \A p \in Rows : payments'[p] # NULL /\ payments'[p].bill = payments[p].bill
  BY <1>4, <1>5 DEF Rows
<1>9. ~apiUsed' =>
        /\ Journals'
        /\ \A i \in Bills : bills[i].journal = "POSTED" => bills'[i].journal = "POSTED"
        /\ \A p \in Rows' : p \notin Rows => bills'[payments'[p].bill].journal = "POSTED"
  BY <1>2, <1>7 DEF IndInv, Journals
<1>10. ~overlapped' => \A i \in Bills : PaidUp(bills'[i], PaidBy(payments', i))
  <2>1. \A p \in Payments :
          /\ Effects(payments'[p]) <=> Effects(payments[p])
          /\ Effects(payments[p]) =>
               payments'[p].bill = payments[p].bill /\ payments'[p].amount = payments[p].amount
    BY <1>4, <1>5 DEF Effects
  <2>2. \A i : PaidBy(payments', i) = PaidBy(payments, i)
    BY <1>1, <1>6, <2>1, PaidBySame
  <2>3. AllPaidUp => \A i \in Bills : PaidUp(bills[i], PaidBy(payments, i))
    BY PaidByIs DEF AllPaidUp
  <2> QED
    BY <1>2, <1>3, <2>2, <2>3 DEF IndInv
<1>11. ASSUME ~overlapped' PROVE AllSuit'
  <2>1. AllSuit
    BY <1>3, <1>11 DEF IndInv
  <2>2. ASSUME NEW p \in Rows
        PROVE  Suits(payments'[p], "APPROVED")
    <3>1. p \in Payments /\ payments[p] # NULL /\ payments[p] \in PaymentRow
          /\ Suits(payments[p], "DRAFT")
      BY <1>2, <2>1, <2>2, RowType DEF AllSuit, Rows
    <3>2. CASE p \in Batched /\ payments[p].status = "DRAFT"
      BY <1>5, <3>1, <3>2 DEF Suits
    <3>3. CASE p \notin Batched
      <4>1. payments'[p] = payments[p]
        BY <1>4, <3>1, <3>3
      <4>2. payments[p].status # "REJECTED"
        BY <3>1 DEF Suits
      <4>3. ~payments[p].batched \/ payments[p].status = "DELETED"
        BY <3>1, <3>3 DEF Batched, Is, PaymentRow, PaymentStatuses
      <4> QED
        BY <4>1, <4>2, <4>3 DEF Suits
    <3>4. CASE p \in Batched /\ payments[p].status # "DRAFT"
      <4>1. payments'[p] = payments[p]
        BY <1>4, <3>1, <3>4
      <4>2. payments[p].status \in {"APPROVED", "SENT", "CLEARED", "VOID"}
        BY <3>1, <3>4 DEF Suits, Batched, Is
      <4> QED
        BY <4>1, <4>2 DEF Suits
    <3> QED
      BY <3>2, <3>3, <3>4
  <2> QED
    BY <1>2, <1>7, <2>2 DEF AllSuit, Suits
<1>12. ~overlapped' /\ ~apiUsed' => AllBacked' /\ AllStand'
  <2>1. \A p \in Payments : Backed(payments[p], gl[p]) => Backed(payments'[p], gl[p])
    BY <1>4, <1>5 DEF Backed
  <2> QED
    BY <1>2, <1>3, <2>1 DEF IndInv, AllBacked, Backed, AllStand
<1>13. IsFiniteSet(Rows')
  BY <1>7 DEF IndInv
<1>14. /\ bills' \in [Bills -> BillRow] /\ gl' \in [Payments -> Journal]
       /\ batch' \in {"NONE", "DRAFT", "APPROVED", "COMPLETED", "FAILED"}
  BY <1>1, <1>2
<1>15. ~overlapped' =>
         (\A i \in Bills : PaidUp(bills'[i], PaidBy(payments', i))) /\ AllSuit'
  BY <1>10, <1>11
<1> QED
  BY <1>2, <1>6, <1>8, <1>9, <1>12, <1>13, <1>14, <1>15, WriteStep

\* Some payments that had no effect take effect, and no others.
TakeEffect(rows, new, sent) ==
  /\ \A p \in sent : /\ rows[p] # NULL /\ ~Effects(rows[p])
                     /\ Effects(new[p]) /\ new[p].bill = rows[p].bill
                     /\ new[p].amount = rows[p].amount
  /\ \A p \in Payments \ sent :
       /\ Effects(new[p]) <=> Effects(rows[p])
       /\ Effects(rows[p]) =>
            new[p].bill = rows[p].bill /\ new[p].amount = rows[p].amount

AreOf(on, rows, sent, i) ==
  on \in SUBSET sent /\ \A p \in sent : p \in on <=> rows[p].bill = i

\* A batch adds to what was paid of a bill the payments of it that were posted.
LEMMA SomeSent ==
  ASSUME NEW rows \in [Payments -> {NULL} \cup PaymentRow], IsFiniteSet(RowsOf(rows)),
         NEW new \in [Payments -> {NULL} \cup PaymentRow],
         NEW sent \in SUBSET Payments, TakeEffect(rows, new, sent),
         NEW i, NEW on, AreOf(on, rows, sent, i)
  PROVE  /\ PaidBy(rows, i) \in Nat /\ Worth(rows, on) \in Nat
         /\ on # {} => Worth(rows, on) > 0
         /\ PaidBy(new, i) = PaidBy(rows, i) + Worth(rows, on)
<1> USE DEF TakeEffect, AreOf
<1>1. EffectiveIn(new, i) = EffectiveIn(rows, i) \cup on
  BY DEF EffectiveIn
<1>2. EffectiveIn(rows, i) \cap on = {}
  BY DEF EffectiveIn
<1>3. PICK S : S = EffectiveIn(rows, i)
  OBVIOUS
<1>4. /\ IsFiniteSet(S) /\ \A p \in S : rows[p].amount \in Nat
      /\ PaidBy(rows, i) \in Nat
  BY <1>3, EffectiveType
<1>5. IsFiniteSet(on) /\ \A p \in on : rows[p].amount \in Nat \ {0}
  <2>1. on \subseteq RowsOf(rows)
    BY DEF RowsOf
  <2>2. \A p \in on : rows[p] \in PaymentRow
    OBVIOUS
  <2> QED
    BY <2>1, <2>2, FS_Subset, PayablesAssumption DEF PaymentRow
<1>6. Worth(rows, on) \in Nat /\ (on # {} => Worth(rows, on) > 0)
  BY <1>5, WorthPositive, WorthSame
<1>7. PICK U : U = S \cup on
  OBVIOUS
<1>8. IsFiniteSet(U) /\ \A p \in U : rows[p].amount \in Nat /\ rows[p].amount = new[p].amount
  <2>1. IsFiniteSet(U)
    BY <1>4, <1>5, <1>7, FS_Union
  <2>2. \A p \in S : rows[p].amount = new[p].amount
    BY <1>2, <1>3 DEF EffectiveIn
  <2> QED
    BY <1>4, <1>5, <1>7, <2>1, <2>2
<1>9. Worth(new, U) = Worth(rows, U)
  BY <1>8, WorthSame
<1>10. Worth(rows, S \cup on) = Worth(rows, S) + Worth(rows, on)
  <2>1. \A p \in S \cup on : rows[p].amount \in Nat
    BY <1>4, <1>5
  <2> QED
    BY <1>2, <1>3, <1>4, <1>5, <2>1, WorthUnion
<1> QED
  BY <1>1, <1>3, <1>4, <1>6, <1>7, <1>9, <1>10 DEF PaidBy

LEMMA ProcessBatchInd ==
  ASSUME IndInv, NEW w \in scenario.sessions, ProcessBatch(w)
  PROVE  IndInv'
<1> DEFINE todo == {p \in Batched : payments[p].status = "APPROVED"}
           ok(o) == {p \in todo : o[p].ok}
           On(o, i) == {p \in ok(o) : payments[p].bill = i}
           Paid(o, i) == bills[i].paid + Amount(On(o, i))
<1>1. PICK o :
        /\ \A p \in todo : o[p] \in AdapterPosted(gl[p])
        /\ gl' = [p \in Payments |-> IF p \in todo THEN o[p].gl ELSE gl[p]]
        /\ payments' = [p \in Payments |->
             IF p \in ok(o)
             THEN [payments[p] EXCEPT !.status = "SENT", !.link = o[p].link]
             ELSE IF p \in todo
                  THEN [payments[p] EXCEPT !.status = "REJECTED"]
                  ELSE payments[p]]
        /\ bills' = [i \in Bills |->
             IF On(o, i) = {}
             THEN bills[i]
             ELSE [bills[i] EXCEPT !.paid = Paid(o, i),
                                   !.status = PaidStatus(Paid(o, i))]]
        /\ batch' = IF ok(o) = todo THEN "COMPLETED" ELSE "FAILED"
  BY DEF ProcessBatch
<1>2. PICK T, K : T = todo /\ K = ok(o)
  OBVIOUS
<1>3. /\ \A p \in Payments :
           p \in T <=> Is(p, {"APPROVED"}) /\ payments[p].batched
      /\ T \subseteq Payments /\ K = {p \in T : o[p].ok}
  BY <1>2 DEF Batched, Is
<1>4. /\ gl' = [p \in Payments |-> IF p \in T THEN o[p].gl ELSE gl[p]]
      /\ payments' = [p \in Payments |->
           IF p \in K
           THEN [payments[p] EXCEPT !.status = "SENT", !.link = o[p].link]
           ELSE IF p \in T
                THEN [payments[p] EXCEPT !.status = "REJECTED"]
                ELSE payments[p]]
      /\ batch' = IF K = T THEN "COMPLETED" ELSE "FAILED"
  BY <1>1, <1>2
<1>5. ASSUME NEW i \in Bills, NEW on \in SUBSET K, \A p \in K : p \in on <=> payments[p].bill = i,
             NEW paid, paid = bills[i].paid + Worth(payments, on)
      PROVE  bills'[i] = IF on = {} THEN bills[i]
                         ELSE [bills[i] EXCEPT !.paid = paid, !.status = PaidStatus(paid)]
  <2>1. on = On(o, i)
    BY <1>2, <1>5
  <2>2. paid = Paid(o, i)
    BY <1>5, <2>1, AmountIsWorth
  <2> HIDE DEF On, Paid
  <2> QED
    BY <1>1, <2>1, <2>2
<1>6. bills' = [i \in Bills |-> bills'[i]]
  BY <1>1
<1> HIDE DEF todo, ok, On, Paid
<1>7. /\ payments \in [Payments -> {NULL} \cup PaymentRow] /\ IsFiniteSet(RowsOf(payments))
      /\ bills \in [Bills -> BillRow] /\ gl \in [Payments -> Journal]
  BY DEF IndInv, Types, Rows, RowsOf
<1>8. Noted(w) /\ apiUsed' = apiUsed /\ txn' = [txn EXCEPT ![w] = Idle] /\ batch = "APPROVED"
  BY AtNoted, NothingOpen DEF IndInv, ProcessBatch
<1>9. ~overlapped' => ~overlapped
  BY <1>8, SessionGoesOn DEF IndInv
<1>10. ASSUME NEW p \in T
       PROVE  o[p] \in Outcome /\ First(gl[p], o[p]) /\ gl[p] \in Journal
  BY <1>1, <1>2, <1>3, <1>7, <1>10, AdapterOutcome
<1>11. ASSUME NEW p \in T
       PROVE  /\ payments[p] # NULL /\ payments[p] \in PaymentRow
              /\ payments[p].status = "APPROVED"
  BY <1>3, <1>11, RowType DEF Is
<1>12. ASSUME NEW p \in T, p \in K
       PROVE  /\ payments'[p] \in PaymentRow /\ payments'[p] # NULL
              /\ payments'[p].status = "SENT" /\ payments'[p].bill = payments[p].bill
              /\ payments'[p].amount = payments[p].amount
              /\ payments'[p].batched = payments[p].batched
              /\ payments'[p].link = o[p].link
  <2>1. PICK old \in PaymentRow : old = payments[p]
    BY <1>11, <1>12
  <2>2. payments'[p] = [old EXCEPT !.status = "SENT", !.link = o[p].link]
    BY <1>3, <1>4, <1>12, <2>1
  <2>3. o[p].link \in {"NONE", "entry", "stray"}
    BY <1>10, <1>12 DEF Outcome
  <2>4. PICK row : row = [old EXCEPT !.status = "SENT", !.link = o[p].link]
    OBVIOUS
  <2>5. /\ row \in PaymentRow /\ row.status = "SENT" /\ row.bill = old.bill
        /\ row.amount = old.amount /\ row.batched = old.batched /\ row.link = o[p].link
    BY <2>3, <2>4 DEF PaymentRow, PaymentStatuses
  <2>6. row # NULL
    BY <2>5, NullAssumption
  <2> QED
    BY <2>1, <2>2, <2>4, <2>5, <2>6
<1>13. ASSUME NEW p \in T, p \notin K
       PROVE  /\ payments'[p] \in PaymentRow /\ payments'[p] # NULL
              /\ payments'[p].status = "REJECTED" /\ payments'[p].bill = payments[p].bill
              /\ payments'[p].batched = payments[p].batched
  <2>1. PICK old \in PaymentRow : old = payments[p]
    BY <1>11, <1>13
  <2>2. payments'[p] = [old EXCEPT !.status = "REJECTED"]
    BY <1>3, <1>4, <1>13, <2>1
  <2>3. "REJECTED" \in PaymentStatuses
    BY DEF PaymentStatuses
  <2> QED
    BY <2>1, <2>2, <2>3, WithStatus
<1>14. ASSUME NEW p \in Payments, p \notin T
       PROVE  payments'[p] = payments[p] /\ gl'[p] = gl[p]
  BY <1>3, <1>4, <1>14
<1>15. payments' \in [Payments -> {NULL} \cup PaymentRow]
  <2>1. \A p \in Payments : payments'[p] \in {NULL} \cup PaymentRow
    BY <1>7, <1>12, <1>13, <1>14
  <2>2. payments' = [p \in Payments |-> payments'[p]]
    BY <1>4
  <2> QED
    BY <2>1, <2>2
<1>16. gl' \in [Payments -> Journal]
  <2>1. \A p \in Payments : p \in T => o[p].gl \in Journal
    BY <1>10 DEF Outcome
  <2> QED
    BY <1>4, <1>7, <2>1
<1>17. Rows' = Rows
  BY <1>3, <1>11, <1>12, <1>13, <1>14 DEF Rows
<1>18. \A p \in Rows : payments'[p] # NULL /\ payments'[p].bill = payments[p].bill
  BY <1>12, <1>13, <1>14 DEF Rows
<1>19. ASSUME NEW i \in Bills, NEW on \in SUBSET K, \A p \in K : p \in on <=> payments[p].bill = i
       PROVE  /\ PaidBy(payments, i) \in Nat /\ Worth(payments, on) \in Nat
              /\ on # {} => Worth(payments, on) > 0
              /\ PaidBy(payments', i) = PaidBy(payments, i) + Worth(payments, on)
  <2>1. K \in SUBSET Payments
    BY <1>3
  <2>2. \A p \in K : /\ payments[p] # NULL /\ ~Effects(payments[p])
                     /\ Effects(payments'[p]) /\ payments'[p].bill = payments[p].bill
                     /\ payments'[p].amount = payments[p].amount
    BY <1>3, <1>11, <1>12 DEF Effects
  <2>3. \A p \in Payments \ K :
          /\ Effects(payments'[p]) <=> Effects(payments[p])
          /\ Effects(payments[p]) =>
               payments'[p].bill = payments[p].bill /\ payments'[p].amount = payments[p].amount
    BY <1>11, <1>13, <1>14 DEF Effects
  <2>4. TakeEffect(payments, payments', K)
    BY <2>2, <2>3 DEF TakeEffect
  <2>5. AreOf(on, payments, K, i)
    BY <1>19 DEF AreOf
  <2> QED
    BY <1>7, <1>15, <2>1, <2>4, <2>5, SomeSent
<1>20. ASSUME NEW i \in Bills
       PROVE  /\ bills'[i] \in BillRow
              /\ bills'[i].journal = bills[i].journal
              /\ bills'[i].status \in Impacting \cup {bills[i].status}
              /\ ~apiUsed' => Journaled(bills'[i])
              /\ ~overlapped' => PaidUp(bills'[i], PaidBy(payments', i))
  <2>1. PICK on \in SUBSET K : \A p \in K : p \in on <=> payments[p].bill = i
    <3>1. {p \in K : payments[p].bill = i} \in SUBSET K
      OBVIOUS
    <3> QED
      BY <3>1
  <2>2. PICK paid : paid = bills[i].paid + Worth(payments, on)
    OBVIOUS
  <2>3. /\ PaidBy(payments, i) \in Nat /\ Worth(payments, on) \in Nat
        /\ on # {} => Worth(payments, on) > 0
        /\ PaidBy(payments', i) = PaidBy(payments, i) + Worth(payments, on)
    BY <1>19, <2>1
  <2>4. bills'[i] = IF on = {} THEN bills[i]
                    ELSE [bills[i] EXCEPT !.paid = paid, !.status = PaidStatus(paid)]
    BY <1>5, <2>1, <2>2
  <2>5. bills[i] \in BillRow
    BY BillType
  <2>6. ~overlapped' => PaidUp(bills[i], PaidBy(payments, i))
    BY <1>9, PaidByIs DEF IndInv, AllPaidUp
  <2>7. ~apiUsed' => Journaled(bills[i])
    BY <1>8 DEF IndInv, Journals
  <2>8. CASE on = {}
    <3>1. Worth(payments, on) = 0
      BY <2>8, NothingIsWorthNothing
    <3>2. PaidBy(payments', i) = PaidBy(payments, i) /\ bills'[i] = bills[i]
      BY <2>3, <2>4, <2>8, <3>1
    <3> QED
      BY <2>5, <2>6, <2>7, <3>2
  <2>9. CASE on # {}
    <3>1. ~apiUsed' => bills[i].journal = "POSTED"
      BY <1>3, <1>8, <1>11, <2>1, <2>9 DEF IndInv, Owed, Rows
    <3>2. PICK bill : bill = [bills[i] EXCEPT !.paid = paid, !.status = PaidStatus(paid)]
      OBVIOUS
    <3>3. paid \in Int
      BY <2>2, <2>3, <2>5 DEF BillRow
    <3>4. PaidStatus(paid) \in Impacting
      BY DEF PaidStatus, Impacting
    <3>5. /\ bill \in BillRow /\ bill.paid = paid /\ bill.status = PaidStatus(paid)
          /\ bill.journal = bills[i].journal
      BY <2>5, <3>2, <3>3, <3>4 DEF BillRow, Impacting
    <3>6. bills'[i] = bill
      BY <2>4, <2>9, <3>2
    <3>7. ~overlapped' => PaidUp(bill, PaidBy(payments', i))
      <4> SUFFICES ASSUME ~overlapped' PROVE PaidUp(bill, PaidBy(payments', i))
        OBVIOUS
      <4>1. bills[i].paid = PaidBy(payments, i)
        BY <2>6 DEF PaidUp
      <4>2. paid = PaidBy(payments', i) /\ paid > 0
        BY <2>2, <2>3, <2>9, <4>1
      <4> QED
        BY <3>5, <3>3, <4>2 DEF PaidUp, PaidStatus
    <3> QED
      BY <2>7, <3>1, <3>4, <3>5, <3>6, <3>7 DEF Journaled
  <2> QED
    BY <2>8, <2>9
<1>21. ASSUME ~overlapped' PROVE AllSuit'
  <2>1. AllSuit
    BY <1>9, <1>21 DEF IndInv
  <2>2. ASSUME NEW p \in Rows
        PROVE  Suits(payments'[p], batch')
    <3>1. p \in Payments /\ payments[p] # NULL /\ payments[p] \in PaymentRow
          /\ Suits(payments[p], "APPROVED")
      BY <1>8, <2>1, <2>2, RowType DEF AllSuit, Rows
    <3>2. batch' \in {"COMPLETED", "FAILED"} /\ (batch' = "COMPLETED" => K = T)
      BY <1>4
    <3>3. CASE p \in T /\ p \in K
      BY <1>12, <3>2, <3>3 DEF Suits
    <3>4. CASE p \in T /\ p \notin K
      BY <1>13, <3>2, <3>4 DEF Suits
    <3>5. CASE p \notin T
      <4>1. payments'[p] = payments[p]
        BY <1>14, <3>1, <3>5
      <4>2. payments[p].batched => payments[p].status # "APPROVED"
        BY <1>3, <3>1, <3>5 DEF Is
      <4>3. payments[p].batched /\ payments[p].status # "DELETED" =>
              payments[p].status \in {"SENT", "CLEARED", "VOID"}
        BY <3>1, <4>2 DEF Suits
      <4> QED
        BY <3>2, <4>1, <4>3 DEF Suits
    <3> QED
      BY <3>3, <3>4, <3>5
  <2> QED
    BY <1>17, <2>2 DEF AllSuit, Suits
<1>22. ASSUME ~overlapped', ~apiUsed' PROVE AllBacked' /\ AllStand'
  <2>1. \A p \in Payments : Backed(payments[p], gl[p])
    BY <1>8, <1>9, <1>22 DEF IndInv, AllBacked
  <2>2. ASSUME NEW p \in Payments
        PROVE  Backed(payments'[p], gl'[p])
    <3>1. CASE p \notin T
      BY <1>14, <2>1, <3>1
    <3>2. CASE p \in T /\ p \notin K
      BY <1>13, <3>2 DEF Backed
    <3>3. CASE p \in T /\ p \in K
      <4>1. gl[p].entry = "NONE" /\ ~gl[p].stray
        BY <1>11, <2>1, <3>3 DEF Backed
      <4>2. gl'[p] = o[p].gl
        BY <1>4, <3>3
      <4>3. gl'[p].entry = "LIVE" /\ o[p].link = "entry" /\ gl'[p].stray = gl[p].stray
        BY <1>3, <1>10, <3>3, <4>1, <4>2 DEF First
      <4>4. ~gl'[p].stray
        BY <4>1, <4>3, Zenon
      <4> QED
        BY <1>12, <3>3, <4>3, <4>4 DEF Backed
    <3> QED
      BY <3>1, <3>2, <3>3
  <2>3. AllStand'
    <3>1. AllStand
      BY <1>8, <1>9, <1>22 DEF IndInv
    <3> QED
      BY <1>20, <3>1 DEF AllStand, Stands
  <2> QED
    BY <2>2, <2>3 DEF AllBacked, Backed
<1>23. bills' \in [Bills -> BillRow]
  BY <1>6, <1>20
<1>24. ~apiUsed' =>
         /\ Journals'
         /\ \A i \in Bills : bills[i].journal = "POSTED" => bills'[i].journal = "POSTED"
         /\ \A p \in Rows' : p \notin Rows => bills'[payments'[p].bill].journal = "POSTED"
  BY <1>17, <1>20 DEF Journals
<1>25. ~overlapped' =>
         (\A i \in Bills : PaidUp(bills'[i], PaidBy(payments', i))) /\ AllSuit'
  BY <1>20, <1>21
<1>26. /\ batch' \in {"NONE", "DRAFT", "APPROVED", "COMPLETED", "FAILED"}
       /\ IsFiniteSet(Rows')
  BY <1>4, <1>17 DEF IndInv
<1> QED
  BY <1>8, <1>15, <1>16, <1>18, <1>22, <1>23, <1>24, <1>25, <1>26, WriteStep

-----------------------------------------------------------------------------
(* The theorems. *)

LEMMA InitInd == Init => IndInv
<1> SUFFICES ASSUME Init PROVE IndInv
  OBVIOUS
<1>1. /\ \A w \in Workers : txn[w] = Idle
      /\ txn = [w \in Workers |-> txn[w]]
      /\ \A p \in Payments : payments[p] = NULL
      /\ scenario \in Scenarios /\ batch = "NONE" /\ ~overlapped /\ ~apiUsed
      /\ overlapped \in BOOLEAN /\ apiUsed \in BOOLEAN
  BY DEF Init, SessionsInit
<1>2. \A i \in Bills : bills[i] \in BillRow
                       /\ bills[i].status = "SUBMITTED" /\ bills[i].paid = 0
                       /\ bills[i].journal = "NONE"
  BY DEF Init, BillRow
<1>3. \A p \in Payments : gl[p] \in Journal /\ gl[p].entry = "NONE" /\ ~gl[p].stray
  BY DEF Init, Journal
<1>4. Types
  <2>1. bills \in [Bills -> BillRow]
    BY <1>2 DEF Init
  <2>2. gl \in [Payments -> Journal]
    BY <1>3 DEF Init
  <2>3. payments \in [Payments -> {NULL} \cup PaymentRow]
    BY DEF Init
  <2> QED
    BY <1>1, <2>1, <2>2, <2>3 DEF Types
<1>5. Rows = {}
  BY <1>1 DEF Rows
<1>6. IsFiniteSet(Rows)
  BY <1>5, FS_EmptySet
<1>7. Loaded /\ Owed /\ Alone /\ AllSuit
  BY <1>1, <1>5 DEF Loaded, Owed, Alone, AllSuit
<1>8. Journals /\ AllStand
  BY <1>2 DEF Journals, Journaled, AllStand, Stands, Impacting
<1>9. AllPaidUp
  <2>1. \A i : EffectiveIn(payments, i) = {}
    BY <1>1 DEF EffectiveIn, Effects
  <2>2. Worth(payments, {}) = 0
    BY NothingIsWorthNothing
  <2>3. \A i : Amount(Effective(i)) = 0
    BY <2>1, <2>2, PaidByIs DEF PaidBy
  <2> QED
    BY <1>2, <2>3 DEF AllPaidUp, PaidUp
<1>10. AllBacked
  BY <1>1, <1>3 DEF AllBacked, Backed
<1> QED
  BY <1>4, <1>6, <1>7, <1>8, <1>9, <1>10 DEF IndInv

LEMMA StutterInd == IndInv /\ UNCHANGED vars => IndInv'
<1> SUFFICES ASSUME IndInv, UNCHANGED vars PROVE IndInv'
  OBVIOUS
<1>1. UNCHANGED <<txn, scenario, bills, payments, gl, batch, overlapped, apiUsed>>
  BY DEF vars
<1>2. Types' /\ IsFiniteSet(Rows)' /\ Loaded' /\ (~apiUsed => Journals /\ Owed)'
  BY <1>1 DEF IndInv, Types, Rows, Loaded, Fits, Owed, Journals
<1>3. AllPaidUp => AllPaidUp'
  BY <1>1, PaidByIs, PaidByWillBe DEF AllPaidUp, PaidUp
<1>4. (Alone => Alone') /\ (AllSuit => AllSuit') /\ (AllBacked => AllBacked')
      /\ (AllStand => AllStand')
  BY <1>1 DEF Alone, Fresh, AllSuit, Suits, Rows, AllBacked, Backed, AllStand
<1> QED
  BY <1>1, <1>2, <1>3, <1>4 DEF IndInv

LEMMA NextInd == IndInv /\ Next => IndInv'
<1> SUFFICES ASSUME IndInv, Next PROVE IndInv'
  OBVIOUS
<1>1. scenario.bills \subseteq Bills /\ scenario.payments \subseteq Payments
  BY PayablesAssumption DEF IndInv, Types
<1>2. PICK w \in scenario.sessions :
        BillOperation(w) \/ PaymentOperation(w) \/ BatchOperation(w)
  BY DEF Next
<1>3. CASE BillOperation(w)
  <2>1. CASE OpenABill(w)
    BY <1>1, <2>1, OpenBillInd DEF OpenABill, Impacting
  <2> QED
    BY <1>3, <2>1, ApproveBillInd, PostBillInd, ApiPostBillInd, VoidBillInd DEF BillOperation
<1>4. CASE LoadPayment(w)
  <2>1. PICK p \in Payments, op \in {"approve", "post", "apiPost", "void"} :
          Load(w, p, op, LoadedFor(op))
    BY <1>4 DEF LoadPayment, LoadedFor
  <2> QED
    BY <2>1, LoadInd
<1>5. CASE \E p \in scenario.payments, i \in scenario.bills, amount \in 1 .. Total :
             CreatePayment(w, p, i, amount) \/ CreateBatch(w, p, i, amount)
  BY <1>1, <1>5, CreatePaymentInd, CreateBatchInd
<1>6. CASE \E p \in Payments : DeletePayment(w, p) \/ ClearPayment(w, p) \/ AddToBatch(w, p)
  BY <1>6, DeletePaymentInd, ClearPaymentInd, AddToBatchInd
<1>7. CASE \/ LoadBill(w) \/ Rollback(w)
           \/ ApprovePayment(w) \/ PostPayment(w) \/ ApiPostPayment(w) \/ VoidPayment(w)
  BY <1>7, LoadBillInd, RollbackInd, ApprovePaymentInd, PostPaymentInd, ApiPostPaymentInd,
     VoidPaymentInd
<1>8. CASE ApproveBatch(w) \/ ProcessBatch(w)
  BY <1>8, ApproveBatchInd, ProcessBatchInd
<1> QED
  BY <1>2, <1>3, <1>4, <1>5, <1>6, <1>7, <1>8 DEF PaymentOperation, BatchOperation

\* The invariant is inductive: whatever the sessions, the bills, their payments and
\* the refusals, loaded payments keep their bill, bills that have payments or a
\* status that says so are in the ledger, and while sessions do not overlap the
\* amounts, the batch and the journals agree and no other bill is in the ledger.
THEOREM Inductive == Spec => []IndInv
<1>1. Init => IndInv
  BY InitInd
<1>2. IndInv /\ [Next]_vars => IndInv'
  BY NextInd, StutterInd
<1> QED
  BY <1>1, <1>2, PTL DEF Spec

\* The rows, the journals and the sessions have the values of the code.
THEOREM TypesHold == Spec => []TypeOK
<1>1. IndInv => TypeOK
  <2> SUFFICES ASSUME IndInv PROVE TypeOK
    OBVIOUS
  <2>1. txn \in [Workers -> {Idle} \cup BillSession \cup PaymentSession]
    <3>1. \A w \in Workers : txn[w] \in {Idle} \cup BillSession \cup PaymentSession
      BY DEF IndInv, Types, Session
    <3> QED
      BY <3>1 DEF IndInv, Types
  <2> QED
    BY <2>1 DEF IndInv, Types, TypeOK, Journal
<1> QED
  BY <1>1, Inductive, PTL

\* While sessions do not overlap, the amount paid of a bill is what its effective
\* payments add up to, whatever was posted, voided, refused or paid in a batch, and
\* its status says so.
THEOREM BillsArePaidByPayments == Spec => []PaidMatchesPayments
<1>1. IndInv => PaidMatchesPayments
  BY DEF IndInv, AllPaidUp, PaidUp, PaidMatchesPayments
<1> QED
  BY <1>1, Inductive, PTL

\* The bills whose status says so have a journal in the ledger, however sessions
\* overlap, and while they do not, no others have.
THEOREM BillsAreInLedger == Spec => []BillLedger
<1>1. IndInv => BillLedger
  BY DEF IndInv, Journals, Journaled, AllStand, Stands, Impacting, BillLedger
<1> QED
  BY <1>1, Inductive, PTL

\* A payment that reduces the supplier's balance is in the ledger once, and refers
\* to the journal that is.
THEOREM PaymentsAreInLedger == Spec => []EffectiveIsInLedger
<1>1. IndInv => EffectiveIsInLedger
  BY DEF IndInv, AllBacked, Backed, Is, EffectiveIsInLedger
<1> QED
  BY <1>1, Inductive, PTL

\* A batch that is completed has sent all of its payments.
THEOREM CompletedBatchesAreSent == Spec => []CompletedIsSent
<1>1. IndInv => CompletedIsSent
  <2> SUFFICES ASSUME IndInv, batch = "COMPLETED", ~overlapped, NEW p \in Batched
               PROVE  payments[p].status \in {"SENT", "CLEARED", "VOID"}
    BY DEF CompletedIsSent
  <2>1. p \in Rows /\ payments[p].batched /\ payments[p].status # "DELETED"
    BY DEF Batched, Is, Rows
  <2> QED
    BY <2>1 DEF IndInv, AllSuit, Suits
<1> QED
  BY <1>1, Inductive, PTL
=============================================================================
