------------------------ MODULE ExpenseClaimsProofs ------------------------
(***************************************************************************)
(* Theorems about ExpenseClaims for any items, amounts, chains of          *)
(* approvers and sessions.                                                 *)
(***************************************************************************)
EXTENDS ExpenseClaims, SumTheorems

-----------------------------------------------------------------------------
(* The inductive invariant. *)

Columns == {"status", "total", "approved", "net", "adjusted", "approver"}

IsClaim(c) == c = [k \in Columns |-> c[k]] /\ c.status \in Statuses

IsItems(is) == is \in [ItemIds -> {NULL} \cup Item]

Step == [approver : Approvers, decision : {NULL, "APPROVED", "REJECTED"}]

IsChain(h) ==
  /\ h = [steps |-> h.steps, all |-> h.all]
  /\ h.steps = [n \in DOMAIN h.steps |-> h.steps[n]]
  /\ \A n \in DOMAIN h.steps : h.steps[n] \in Step

Gone == {"NONE", "DELETED"}

MarkStates == {"NONE", "COMPLETED", "FAILED"}

Session(t) ==
  /\ t = [op |-> t.op, claim |-> t.claim, items |-> t.items, chain |-> t.chain,
          found |-> t.found]
  /\ t.found \in [MarkTypes -> MarkStates]
  /\ t.claim.status = "REJECTED" => t.found["MARK_PAID"] = "NONE"
  /\ IsClaim(t.claim) /\ t.claim.status \notin Gone
  /\ IsItems(t.items)
  /\ IsChain(t.chain)

Types ==
  /\ scenario \in Scenarios
  /\ txn = [w \in Workers |-> txn[w]]
  /\ \A w \in Workers : txn[w] # Idle => Session(txn[w])
  /\ IsClaim(claim) /\ IsItems(items) /\ IsChain(chain)
  /\ marks \in [MarkTypes -> MarkStates]
  /\ rounds \in Nat
  /\ overlapped \in BOOLEAN

\* Session t tries again a payment that was refused.
Retries(t) == t # Idle /\ t.found["MARK_PAID"] = "FAILED"

\* The marker says how often a claim was paid, as long as it exists, and at most
\* one of the sessions ts has found it FAILED, which it still is.
Paid(c, ms, times, ts) ==
  /\ times \in {0, 1}
  /\ c.status # "DELETED" =>
       /\ times = IF ms["MARK_PAID"] = "COMPLETED" THEN 1 ELSE 0
       /\ \A w \in Workers : Retries(ts[w]) => ms["MARK_PAID"] = "FAILED"
       /\ \A v, w \in Workers : Retries(ts[v]) /\ Retries(ts[w]) => v = w

\* One session at a time works on the rows as they are, and has found the markers
\* that there are.
Fresh(t) ==
  /\ t.claim = claim /\ t.items = items /\ t.chain = chain
  /\ \A m \in MarkTypes : t.found[m] # "NONE" => t.found[m] = marks[m]
  /\ t.claim.status = "REJECTED" /\ t.found # NoMarks =>
       \A m \in ResetMarks : t.found[m] = marks[m]

Alone ==
  /\ \A v, w \in Workers : v # w => txn[v] = Idle \/ txn[w] = Idle
  /\ \A w \in Workers : txn[w] # Idle => Fresh(txn[w])

\* Where the claim c is in the workflow, with the chain h, the markers and the
\* number of rounds.
Flow(c, h, ms, n) ==
  /\ n = 0 => h.steps = <<>> /\ c.status \in {"NONE", "DRAFT", "CANCELLED", "DELETED"}
  /\ c.approved # NULL => c.status \in {"APPROVED", "PAID"}
  /\ ms["APPROVE"] = "COMPLETED" => c.status \in {"APPROVED", "PAID"}
  /\ ms["REJECT"] = "COMPLETED" => c.status = "REJECTED"

Settled(c, is) ==
  c.status \notin Gone /\ c.approved # NULL =>
    /\ \A i \in Present(is) : is[i].approved # NULL
    /\ c.approved = SumOf([i \in Present(is) |-> is[i].approved])
    /\ c.net = c.approved - c.adjusted

Awaited(c, h, n) ==
  /\ c.status = "PENDING_APPROVAL"
  /\ n = 1 \/ \A k \in scenario.chains : k.steps # <<>>
  => Pending(h) # {}

Serial == /\ Flow(claim, chain, marks, rounds)
          /\ Settled(claim, items)
          /\ Awaited(claim, chain, rounds)

IndInv ==
  /\ Types
  /\ ~raced => Paid(claim, marks, payments, txn)
  /\ ~overlapped => Alone /\ Serial

-----------------------------------------------------------------------------
(* Sessions. *)

LEMMA Opened ==
  ASSUME IndInv, NEW w \in Workers, txn[w] # Idle
  PROVE  Session(txn[w]) /\ (~overlapped => Fresh(txn[w]))
BY DEF IndInv, Types, Alone

\* A session writes and ends.
LEMMA CommitStep ==
  ASSUME IndInv, NEW w \in Workers, txn[w] # Idle, txn' = [txn EXCEPT ![w] = Idle],
         UNCHANGED historyVars,
         IsClaim(claim'), IsItems(items'), IsChain(chain'),
         marks' \in [MarkTypes -> MarkStates], rounds' \in Nat,
         ~raced => Paid(claim', marks', payments', txn'),
         ~overlapped => /\ Flow(claim', chain', marks', rounds')
                        /\ Settled(claim', items')
                        /\ Awaited(claim', chain', rounds')
  PROVE  IndInv'
<1>1. /\ txn' = [v \in Workers |-> txn'[v]] /\ txn'[w] = Idle
      /\ \A v \in Workers : v # w => txn'[v] = txn[v]
      /\ UNCHANGED <<scenario, overlapped, raced>>
  BY DEF IndInv, Types, historyVars
<1>2. Types'
  BY <1>1 DEF IndInv, Types
<1>3. ~overlapped => Alone'
  <2>1. ~overlapped => \A v \in Workers : v # w => txn[v] = Idle \/ txn[w] = Idle
    BY DEF IndInv, Alone
  <2> QED
    BY <1>1, <2>1 DEF Alone
<1>4. ~overlapped => Serial'
  BY <1>1 DEF Serial, Awaited
<1> QED
  BY <1>1, <1>2, <1>3, <1>4 DEF IndInv

\* A session that ends without a word about the payment.
LEMMA PaidStep ==
  ASSUME IndInv, NEW w \in Workers, txn' = [txn EXCEPT ![w] = Idle], ~raced,
         claim.status # "DELETED" \/ claim'.status = "DELETED",
         UNCHANGED payments,
         marks'["MARK_PAID"] = marks["MARK_PAID"] \/ claim'.status = "DELETED"
  PROVE  Paid(claim', marks', payments', txn')
<1>1. Paid(claim, marks, payments, txn)
  BY DEF IndInv
<1>2. \A v \in Workers : Retries(txn'[v]) => Retries(txn[v])
  BY DEF IndInv, Types, Retries
<1> QED
  BY <1>1, <1>2 DEF Paid

\* What a session assigned is what the claim becomes, unless sessions overlapped.
LEMMA Updated ==
  ASSUME IndInv, NEW w \in Workers, Commit(w),
         NEW new, IsClaim(new), new.status \notin Gone, Update(w, new)
  PROVE  /\ IsClaim(claim') /\ claim'.status \notin Gone /\ claim.status \notin Gone
         /\ ~overlapped => claim' = new
<1>1. Session(txn[w]) /\ (~overlapped => txn[w].claim = claim)
  BY Opened DEF Commit, Running, Fresh
<1>2. IsClaim(claim) /\ claim.status \notin Gone
  BY DEF IndInv, Types, Commit, Exists, Gone
<1>3. PICK old : old = txn[w].claim
  OBVIOUS
<1>4. claim' = [k \in DOMAIN claim |-> Written(old[k], new[k], claim[k])]
  BY <1>3 DEF Update
<1>5. IsClaim(old)
  BY <1>1, <1>3 DEF Session
<1>6. claim' = [k \in Columns |-> claim'[k]]
      /\ \A k \in Columns : claim'[k] = Written(old[k], new[k], claim[k])
  BY <1>2, <1>4 DEF IsClaim
<1>7. claim'.status = Written(old.status, new.status, claim.status)
  BY <1>6 DEF Columns
<1>8. IsClaim(claim') /\ claim'.status \notin Gone
  BY <1>2, <1>6, <1>7 DEF IsClaim, Written
<1>9. ASSUME ~overlapped
      PROVE  claim' = new
  <2>1. \A k \in Columns : claim'[k] = new[k]
    BY <1>1, <1>3, <1>6, <1>9 DEF Written
  <2> QED
    BY <1>6, <2>1 DEF IsClaim
<1> QED
  BY <1>2, <1>8, <1>9

-----------------------------------------------------------------------------
(* Loading, refusing, failing. *)

LEMMA LoadInd ==
  ASSUME IndInv, NEW w \in Workers, Load(w)
  PROVE  IndInv'
<1>1. PICK t : t = [op |-> "loaded", claim |-> claim, items |-> items, chain |-> chain,
                    found |-> NoMarks]
  OBVIOUS
<1>2. /\ txn' = [v \in Workers |-> txn'[v]] /\ txn'[w] = t
      /\ \A v \in Workers : v # w => txn'[v] = txn[v]
  BY <1>1 DEF Load, Begin, IndInv, Types
<1>3. UNCHANGED <<scenario, claim, items, chain, marks, posted, payments, rounds, raced>>
  BY DEF Load, claimVars
<1>4. Session(t) /\ Fresh(t)
  <2>1. NoMarks \in [MarkTypes -> MarkStates] /\ \A m \in MarkTypes : NoMarks[m] = "NONE"
    BY DEF NoMarks, MarkStates
  <2> QED
    BY <1>1, <2>1 DEF Session, Fresh, IndInv, Types, Load, Exists, Gone, MarkTypes
<1>5. /\ overlapped' \in BOOLEAN
      /\ ~overlapped' => ~overlapped /\ \A v \in Workers : txn[v] = Idle
  BY DEF Load, IndInv, Types
<1>6. Types'
  BY <1>2, <1>3, <1>4, <1>5 DEF IndInv, Types
<1>7. ~overlapped' => Alone'
  <2>1. Fresh(t)'
    BY <1>1, <1>3, <1>4 DEF Fresh
  <2>2. (~overlapped') => \A v \in Workers : v # w => txn'[v] = Idle
    BY <1>2, <1>5
  <2>3. Fresh(txn[w])'
    BY <1>2, <2>1 DEF Fresh
  <2>4. ASSUME ~overlapped', NEW v \in Workers, txn'[v] # Idle
        PROVE  Fresh(txn[v])'
    <3>1. v = w
      BY <2>2, <2>4
    <3> QED
      BY <2>3, <3>1
  <2> QED
    BY <2>2, <2>4 DEF Alone
<1>8. ~overlapped' => Serial'
  BY <1>3, <1>5 DEF IndInv, Serial, Awaited
<1>9. ~raced' => Paid(claim', marks', payments', txn')
  <2>1. \A v \in Workers : Retries(txn'[v]) => Retries(txn[v])
    BY <1>1, <1>2 DEF Retries, NoMarks, MarkTypes
  <2>2. ~raced' => Paid(claim, marks, payments, txn)
    BY <1>3 DEF IndInv
  <2> QED
    BY <1>3, <2>1, <2>2 DEF Paid
<1> QED
  BY <1>6, <1>7, <1>8, <1>9 DEF IndInv

\* A session that finds markers goes on as it was.
LEMMA FoundStep ==
  ASSUME IndInv, NEW w \in Workers, NEW found \in [MarkTypes -> MarkStates], Found(w, found),
         UNCHANGED <<claim, items, chain, marks, posted, payments, rounds, scenario, overlapped>>,
         \A m \in MarkTypes : found[m] # "NONE" => found[m] = marks[m],
         txn[w].claim.status = "REJECTED" => /\ \A m \in ResetMarks : found[m] = marks[m]
                                             /\ found["MARK_PAID"] = "NONE",
         ~raced' => ~raced,
         found["MARK_PAID"] = "FAILED" /\ ~raced' =>
           \A v \in Workers : v # w => ~Retries(txn[v])
  PROVE  IndInv'
<1>1. PICK s : s = txn[w]
  OBVIOUS
<1>2. txn[w] # Idle /\ Session(s)
  BY <1>1, Opened DEF Found, Running
<1>3. PICK t : t = [s EXCEPT !.found = found]
  OBVIOUS
<1>4. /\ t = [op |-> t.op, claim |-> t.claim, items |-> t.items, chain |-> t.chain,
              found |-> t.found]
      /\ t.claim = s.claim /\ t.items = s.items /\ t.chain = s.chain /\ t.found = found
  BY <1>2, <1>3 DEF Session
<1>5. Session(t)
  BY <1>1, <1>2, <1>4 DEF Session
<1>6. /\ txn' = [v \in Workers |-> txn'[v]] /\ txn'[w] = t
      /\ \A v \in Workers : v # w => txn'[v] = txn[v]
  BY <1>1, <1>3 DEF Found, Continue, IndInv, Types
<1>7. Types'
  BY <1>2, <1>5, <1>6 DEF IndInv, Types
<1>8. ~overlapped' => Alone'
  <2>1. ASSUME ~overlapped
        PROVE  /\ Fresh(t)'
               /\ \A v \in Workers : v # w => txn'[v] = Idle
    <3>1. Fresh(s)
      BY <1>1, <1>2, <2>1, Opened
    <3>2. \A v \in Workers : v # w => txn[v] = Idle
      BY <1>2, <2>1 DEF IndInv, Alone
    <3>3. t.claim' = t.claim /\ t.found' = t.found
      OBVIOUS
    <3>4. Fresh(t)'
      BY <1>1, <1>4, <3>1 DEF Fresh
    <3> QED
      BY <1>6, <3>2, <3>4
  <2> QED
    BY <1>6, <2>1 DEF Alone, Fresh
<1>9. ~overlapped' => Serial'
  BY DEF IndInv, Serial, Awaited
<1>10. ~raced' => Paid(claim', marks', payments', txn')
  <2> SUFFICES ASSUME ~raced' PROVE Paid(claim', marks', payments', txn')
    OBVIOUS
  <2>1. Paid(claim, marks, payments, txn)
    BY DEF IndInv
  <2>2. \A v \in Workers : v # w => (Retries(txn'[v]) <=> Retries(txn[v]))
    BY <1>6 DEF Retries
  <2>3. Retries(txn'[w]) => found["MARK_PAID"] = "FAILED"
    BY <1>4, <1>6 DEF Retries
  <2>4. Retries(txn'[w]) => marks["MARK_PAID"] = "FAILED"
    BY <2>3 DEF MarkTypes
  <2>5. Retries(txn'[w]) => \A v \in Workers : v # w => ~Retries(txn'[v])
    BY <2>2, <2>3
  <2>6. \A u, v \in Workers : Retries(txn'[u]) /\ Retries(txn'[v]) => u = v \/ claim.status = "DELETED"
    BY <2>1, <2>2, <2>5 DEF Paid
  <2>7. \A v \in Workers : Retries(txn'[v]) => marks["MARK_PAID"] = "FAILED" \/ claim.status = "DELETED"
    BY <2>1, <2>2, <2>4 DEF Paid
  <2> QED
    BY <2>1, <2>6, <2>7 DEF Paid
<1> QED
  BY <1>7, <1>8, <1>9, <1>10 DEF IndInv

LEMMA FindMarkerInd ==
  ASSUME IndInv, NEW w \in Workers, NEW m \in MarkTypes, FindMarker(w, m)
  PROVE  IndInv'
<1>1. PICK found : found = [NoMarks EXCEPT ![m] = marks[m]]
  OBVIOUS
<1>2. /\ Found(w, found) /\ txn[w] # Idle
      /\ UNCHANGED <<claim, items, chain, marks, posted, payments, rounds, scenario, overlapped>>
      /\ txn[w].claim.status # "REJECTED"
  BY <1>1 DEF FindMarker, Found, Running, claimVars, AskedIn, MarkTypes
<1>3. /\ found \in [MarkTypes -> MarkStates]
      /\ \A k \in MarkTypes : found[k] = IF k = m THEN marks[m] ELSE "NONE"
  BY <1>1 DEF NoMarks, MarkStates, IndInv, Types
<1>4. ASSUME ~raced'
      PROVE  /\ ~raced
             /\ found["MARK_PAID"] = "FAILED" => \A v \in Workers : v # w => ~Retries(txn[v])
  <2>1. m # "MARK_PAID" => found["MARK_PAID"] = "NONE"
    BY <1>3 DEF MarkTypes
  <2> QED
    BY <1>3, <1>4, <2>1 DEF FindMarker, Retries
<1> QED
  BY <1>2, <1>3, <1>4, FoundStep

LEMMA FindMarkersInd ==
  ASSUME IndInv, NEW w \in Workers, FindMarkers(w)
  PROVE  IndInv'
<1>1. PICK found : found = [m \in MarkTypes |-> IF m \in ResetMarks THEN marks[m] ELSE "NONE"]
  OBVIOUS
<1>2. /\ Found(w, found)
      /\ UNCHANGED <<claim, items, chain, marks, posted, payments, rounds, historyVars>>
  BY <1>1 DEF FindMarkers, claimVars
<1>3. /\ found \in [MarkTypes -> MarkStates]
      /\ \A m \in MarkTypes : found[m] # "NONE" => found[m] = marks[m]
      /\ \A m \in ResetMarks : found[m] = marks[m]
      /\ found["MARK_PAID"] = "NONE"
  BY <1>1 DEF IndInv, Types, ResetMarks, MarkTypes, MarkStates
<1> QED
  BY <1>2, <1>3, FoundStep DEF historyVars

LEMMA RefuseInd ==
  ASSUME IndInv, NEW w \in Workers, Refuse(w)
  PROVE  IndInv'
<1>1. UNCHANGED <<claim, items, chain, marks, payments, rounds>>
      /\ txn' = [txn EXCEPT ![w] = Idle]
  BY DEF Refuse, claimVars, End
<1>2. ~overlapped => /\ Flow(claim', chain', marks', rounds')
                     /\ Settled(claim', items')
                     /\ Awaited(claim', chain', rounds')
  BY <1>1 DEF IndInv, Serial
<1>3. ~raced => Paid(claim', marks', payments', txn')
  BY <1>1, PaidStep
<1> QED
  BY <1>1, <1>2, <1>3, CommitStep DEF Refuse, Running, IndInv, Types

\* A marker is set.
LEMMA Marked ==
  ASSUME IndInv, NEW m \in MarkTypes, NEW s \in {"COMPLETED", "FAILED"}, Mark(m, s)
  PROVE  /\ marks' \in [MarkTypes -> MarkStates]
         /\ marks'[m] = s
         /\ \A k \in MarkTypes : k # m => marks'[k] = marks[k]
BY DEF IndInv, Types, Mark, MarkStates

\* The session that begins the payment is the only one that may.
LEMMA Unpaid ==
  ASSUME IndInv, NEW w \in Workers, Commit(w), Begun(w, "MARK_PAID"), ~raced
  PROVE  /\ payments = 0
         /\ \A v \in Workers : v # w => ~Retries(txn[v])
<1>1. Paid(claim, marks, payments, txn)
  BY DEF IndInv
<1>2. claim.status # "DELETED" /\ txn[w] # Idle
  BY DEF Commit, Exists, Running
<1>3. CASE marks["MARK_PAID"] = "NONE"
  BY <1>1, <1>2, <1>3 DEF Paid
<1>4. CASE txn[w].found["MARK_PAID"] = "FAILED"
  <2>1. Retries(txn[w])
    BY <1>2, <1>4 DEF Retries
  <2> QED
    BY <1>1, <1>2, <2>1 DEF Paid
<1> QED
  BY <1>3, <1>4 DEF Begun

LEMMA FailInd ==
  ASSUME IndInv, NEW w \in Workers, NEW m \in {"SUBMIT", "MARK_PAID"}, Fail(w, m)
  PROVE  IndInv'
<1>1. UNCHANGED <<claim, items, chain, payments, rounds, historyVars>>
      /\ txn[w] # Idle /\ txn' = [txn EXCEPT ![w] = Idle] /\ Commit(w) /\ Begun(w, m)
      /\ claim.status # "DELETED"
  BY DEF Fail, Commit, Running, End, Exists
<1>2. /\ marks' \in [MarkTypes -> MarkStates]
      /\ marks'[m] = "FAILED"
      /\ \A k \in MarkTypes : k # m => marks'[k] = marks[k]
  BY Marked DEF Fail, MarkTypes
<1>3. ASSUME ~raced PROVE Paid(claim', marks', payments', txn')
  <2>1. CASE m = "SUBMIT"
    BY <1>1, <1>2, <1>3, <2>1, PaidStep DEF MarkTypes
  <2>2. CASE m = "MARK_PAID"
    <3>1. payments = 0 /\ \A v \in Workers : v # w => ~Retries(txn[v])
      BY <1>1, <1>3, <2>2, Unpaid
    <3>2. \A v \in Workers : ~Retries(txn'[v])
      BY <1>1, <3>1 DEF IndInv, Types, Retries
    <3> QED
      BY <1>1, <1>2, <2>2, <3>1, <3>2 DEF Paid
  <2> QED
    BY <2>1, <2>2
<1>4. ~overlapped => /\ Flow(claim', chain', marks', rounds')
                     /\ Settled(claim', items')
                     /\ Awaited(claim', chain', rounds')
  BY <1>1, <1>2 DEF IndInv, Serial, Flow, MarkTypes
<1> QED
  BY <1>1, <1>2, <1>3, <1>4, CommitStep DEF IndInv, Types

\* A session assigns the claim "new" and nothing about its payment.
LEMMA UpdateStep ==
  ASSUME IndInv, NEW w \in Workers, Commit(w), UNCHANGED <<payments, historyVars>>,
         NEW new, IsClaim(new), new.status \notin Gone, Update(w, new),
         IsItems(items'), IsChain(chain'),
         marks' \in [MarkTypes -> MarkStates],
         marks'["MARK_PAID"] = marks["MARK_PAID"], rounds' \in Nat,
         ~overlapped => /\ Flow(new, chain', marks', rounds')
                        /\ Settled(new, items')
                        /\ Awaited(new, chain', rounds')
  PROVE  IndInv'
<1>1. txn[w] # Idle /\ txn' = [txn EXCEPT ![w] = Idle] /\ UNCHANGED historyVars
  BY DEF Commit, Running, End
<1>2. /\ IsClaim(claim') /\ claim'.status \notin Gone /\ claim.status \notin Gone
      /\ ~overlapped => claim' = new
  BY Updated
<1>3. ~raced => Paid(claim', marks', payments', txn')
  BY <1>1, <1>2, PaidStep DEF Gone
<1>4. ~overlapped => /\ Flow(claim', chain', marks', rounds')
                     /\ Settled(claim', items')
                     /\ Awaited(claim', chain', rounds')
  BY <1>2
<1> QED
  BY <1>1, <1>2, <1>3, <1>4, CommitStep

\* A session that alone has the claim loaded sees where it is in the workflow.
LEMMA Seen ==
  ASSUME IndInv, NEW w \in Workers, Commit(w), NEW l, l = txn[w]
  PROVE  /\ Session(l)
         /\ ~overlapped => /\ l.claim = claim /\ l.items = items /\ l.chain = chain
                           /\ Flow(l.claim, chain, marks, rounds)
                           /\ Settled(l.claim, items)
                           /\ \A m \in MarkTypes : l.found[m] # "NONE" => l.found[m] = marks[m]
BY Opened DEF Commit, Running, Fresh, IndInv, Serial

-----------------------------------------------------------------------------
(* The claim and its items. *)

\* A claim in DRAFT stays in DRAFT with another total.
LEMMA TotalStep ==
  ASSUME IndInv, NEW w \in Workers, Commit(w), txn[w].claim.status = "DRAFT",
         NEW d, UpdateTotal(w, d), IsItems(items'),
         UNCHANGED <<chain, marks, posted, payments, rounds, historyVars>>
  PROVE  IndInv'
<1>1. PICK l : l = txn[w]
  OBVIOUS
<1>2. /\ Session(l) /\ l.claim.status = "DRAFT"
      /\ ~overlapped => /\ l.claim = claim
                        /\ Flow(l.claim, chain, marks, rounds)
                        /\ Settled(l.claim, items)
  BY <1>1, Seen
<1>3. PICK new : new = [l.claim EXCEPT !.total = @ + d]
  OBVIOUS
<1>4. IsClaim(new) /\ new.status = "DRAFT" /\ new.approved = l.claim.approved
  BY <1>2, <1>3 DEF Session, IsClaim, Columns
<1>5. Update(w, new)
  BY <1>1, <1>3 DEF UpdateTotal
<1>6. ~overlapped => /\ Flow(new, chain', marks', rounds')
                     /\ Settled(new, items')
                     /\ Awaited(new, chain', rounds')
  BY <1>2, <1>4 DEF Flow, Settled, Awaited
<1> QED
  BY <1>4, <1>5, <1>6, UpdateStep DEF IndInv, Types, Gone

LEMMA AmountsType == IndInv => scenario.amounts \subseteq Nat \ {0}
                               /\ scenario.corrections \subseteq Nat
                               /\ scenario.items \subseteq ItemIds
                               /\ scenario.chains \subseteq [steps : Seq(Approvers), all : BOOLEAN]
BY ExpenseClaimsAssumption DEF IndInv, Types

LEMMA AddClaimItemInd ==
  ASSUME IndInv, NEW w \in Workers, AddClaimItem(w)
  PROVE  IndInv'
<1>1. PICK i \in scenario.items, a \in scenario.amounts :
        items' = [items EXCEPT ![i] = NewItem(a)] /\ UpdateTotal(w, a)
  BY DEF AddClaimItem
<1>2. NewItem(a) \in Item
  BY <1>1, AmountsType DEF NewItem, Item
<1>3. IsItems(items')
  BY <1>1, <1>2, AmountsType DEF IndInv, Types, IsItems
<1> QED
  BY <1>1, <1>3, TotalStep DEF AddClaimItem

LEMMA UpdateClaimItemInd ==
  ASSUME IndInv, NEW w \in Workers, UpdateClaimItem(w)
  PROVE  IndInv'
<1>1. PICK i \in Present(items), a \in scenario.amounts :
        /\ items' = [items EXCEPT ![i].claimed = a]
        /\ UpdateTotal(w, a - txn[w].items[i].claimed)
  BY DEF UpdateClaimItem
<1>2. IsItems(items')
  <2>1. items[i] \in Item /\ items \in [ItemIds -> {NULL} \cup Item]
    BY DEF IndInv, Types, IsItems, Present
  <2>2. [items[i] EXCEPT !.claimed = a] \in Item
    BY <2>1, AmountsType DEF Item
  <2> QED
    BY <1>1, <2>1, <2>2 DEF IsItems
<1> QED
  BY <1>1, <1>2, TotalStep DEF UpdateClaimItem

LEMMA RemoveClaimItemInd ==
  ASSUME IndInv, NEW w \in Workers, RemoveClaimItem(w)
  PROVE  IndInv'
<1>1. PICK i \in Present(items) :
        items' = [items EXCEPT ![i] = NULL] /\ UpdateTotal(w, -txn[w].items[i].claimed)
  BY DEF RemoveClaimItem
<1>2. IsItems(items')
  BY <1>1 DEF IndInv, Types, IsItems, Present
<1> QED
  BY <1>1, <1>2, TotalStep DEF RemoveClaimItem

LEMMA NoChainType == IsChain(NoChain) /\ NoChain.steps = <<>>
BY DEF IsChain, NoChain

LEMMA CreateClaimInd ==
  ASSUME IndInv, CreateClaim
  PROVE  IndInv'
<1>1. /\ items' \in [ItemIds -> {NULL} \cup {NewItem(a) : a \in scenario.amounts}]
      /\ \E total : claim' = [NoClaim EXCEPT !.status = "DRAFT", !.total = total]
  BY DEF CreateClaim
<1>2. UNCHANGED <<txn, chain, marks, posted, payments, rounds, scenario, overlapped, raced>>
  BY DEF CreateClaim, historyVars
<1>3. IsClaim(claim') /\ claim'.status = "DRAFT" /\ claim'.approved = NULL
  BY <1>1 DEF IsClaim, Columns, NoClaim, Statuses
<1>4. IsItems(items')
  <2>1. \A a \in scenario.amounts : NewItem(a) \in Item
    BY AmountsType DEF NewItem, Item
  <2> QED
    BY <1>1, <2>1 DEF IsItems
<1>5. Types'
  BY <1>2, <1>3, <1>4 DEF IndInv, Types
<1>6. claim.status = "NONE"
  BY DEF CreateClaim
<1>7. ~raced' => Paid(claim', marks', payments', txn')
  BY <1>2, <1>3, <1>6 DEF IndInv, Paid
<1>8. ~overlapped' => Alone'
  <2>1. ~overlapped => \A w \in Workers : txn[w] = Idle
    BY <1>6 DEF IndInv, Types, Session, Alone, Fresh, Gone
  <2> QED
    BY <1>2, <2>1 DEF Alone
<1>9. ~overlapped' => Serial'
  BY <1>2, <1>3, <1>6 DEF IndInv, Serial, Flow, Settled, Awaited
<1> QED
  BY <1>5, <1>7, <1>8, <1>9 DEF IndInv

LEMMA DeleteClaimInd ==
  ASSUME IndInv, NEW w \in Workers, DeleteClaim(w)
  PROVE  IndInv'
<1>1. claim' = [claim EXCEPT !.status = "DELETED"] /\ chain' = NoChain
      /\ items' = [i \in ItemIds |-> NULL] /\ marks' = NoMarks
      /\ UNCHANGED <<payments, rounds, historyVars>>
      /\ txn[w] # Idle /\ txn' = [txn EXCEPT ![w] = Idle]
      /\ Commit(w) /\ txn[w].claim.status = "DRAFT"
  BY DEF DeleteClaim, Commit, Running, End
<1>2. IsClaim(claim') /\ claim'.status = "DELETED" /\ claim'.approved = claim.approved
  BY <1>1 DEF IndInv, Types, IsClaim, Columns, Statuses
<1>3. IsItems(items') /\ IsChain(chain') /\ chain'.steps = <<>>
  BY <1>1, NoChainType DEF IsItems
<1>4. marks' \in [MarkTypes -> MarkStates]
      /\ marks'["APPROVE"] = "NONE" /\ marks'["REJECT"] = "NONE"
  BY <1>1 DEF MarkTypes, NoMarks, MarkStates
<1>5. ~raced => Paid(claim', marks', payments', txn')
  BY <1>1, <1>2, PaidStep
<1>6. ~overlapped => claim.approved = NULL
  BY <1>1, Seen DEF Flow
<1>7. ~overlapped => /\ Flow(claim', chain', marks', rounds')
                     /\ Settled(claim', items')
                     /\ Awaited(claim', chain', rounds')
  BY <1>2, <1>3, <1>4, <1>6 DEF Flow, Settled, Awaited, Gone
<1> QED
  BY <1>1, <1>2, <1>3, <1>4, <1>5, <1>7, CommitStep DEF IndInv, Types

-----------------------------------------------------------------------------
(* The approval chain. *)

\* A new round of approval has steps that are all undecided.
LEMMA InitializedIs ==
  ASSUME NEW now, IsChain(now), NEW c \in [steps : Seq(Approvers), all : BOOLEAN]
  PROVE  /\ IsChain(Initialized(now, c))
         /\ c.steps = <<>> => Initialized(now, c) = now
         /\ c.steps # <<>> => Pending(Initialized(now, c)) # {}
<1>1. CASE c.steps = <<>>
  BY <1>1 DEF Initialized
<1>2. CASE c.steps # <<>>
  <2>1. PICK steps : steps = c.steps
    OBVIOUS
  <2>2. /\ steps \in Seq(Approvers) /\ steps # <<>> /\ 1 \in DOMAIN steps
        /\ \A n \in DOMAIN steps : steps[n] \in Approvers
    BY <1>2, <2>1
  <2>3. PICK h : h = [steps |-> [n \in DOMAIN steps |-> Undecided(steps[n])], all |-> c.all]
    OBVIOUS
  <2>4. Initialized(now, c) = h
    BY <1>2, <2>1, <2>3 DEF Initialized
  <2>5. \A n \in DOMAIN steps : Undecided(steps[n]) \in Step /\ Undecided(steps[n]).decision = NULL
    BY <2>2 DEF Undecided, Step
  <2>6. /\ h.steps = [n \in DOMAIN steps |-> Undecided(steps[n])] /\ DOMAIN h.steps = DOMAIN steps
        /\ h = [steps |-> h.steps, all |-> h.all]
    BY <2>3
  <2>7. IsChain(h)
    BY <2>5, <2>6 DEF IsChain
  <2>8. 1 \in Pending(h)
    BY <2>2, <2>5, <2>6 DEF Pending
  <2> QED
    BY <1>2, <2>4, <2>7, <2>8
<1> QED
  BY <1>1, <1>2

LEMMA ChainsType ==
  ASSUME IndInv, NEW w \in Workers, Commit(w), NEW c \in ChainsFor(w)
  PROVE  IsChain(c)
<1>1. IsChain(txn[w].chain)
  BY Seen DEF Session
<1>2. CASE c = txn[w].chain
  BY <1>1, <1>2
<1>3. CASE \E k \in scenario.chains : c = Initialized(NoChain, k)
  BY <1>3, NoChainType, InitializedIs, AmountsType
<1> QED
  BY <1>2, <1>3 DEF ChainsFor

\* Only the step that was decided changes.
LEMMA DecidedIs ==
  ASSUME NEW h, IsChain(h), NEW n, NEW d \in {"APPROVED", "REJECTED"}
  PROVE  LET new == [h EXCEPT !.steps[n].decision = d]
         IN  /\ IsChain(new) /\ DOMAIN new.steps = DOMAIN h.steps
             /\ \A m \in DOMAIN h.steps :
                  new.steps[m].decision = IF m = n THEN d ELSE h.steps[m].decision
<1>1. PICK f : f = h.steps
  OBVIOUS
<1>2. f = [m \in DOMAIN f |-> f[m]] /\ \A m \in DOMAIN f : f[m] \in Step
  BY <1>1 DEF IsChain
<1>3. PICK g : g = [f EXCEPT ![n].decision = d]
  OBVIOUS
<1>4. \A m \in DOMAIN f : g[m] = IF m = n THEN [f[m] EXCEPT !.decision = d] ELSE f[m]
  BY <1>2, <1>3
<1>5. \A s \in Step : [s EXCEPT !.decision = d] \in Step /\ [s EXCEPT !.decision = d].decision = d
  BY DEF Step
<1>6. /\ DOMAIN g = DOMAIN f /\ g = [m \in DOMAIN g |-> g[m]]
      /\ \A m \in DOMAIN f : g[m] \in Step
      /\ \A m \in DOMAIN f : g[m].decision = IF m = n THEN d ELSE f[m].decision
  BY <1>2, <1>3, <1>4, <1>5
<1>7. PICK new : new = [h EXCEPT !.steps[n].decision = d]
  OBVIOUS
<1>8. h = [steps |-> f, all |-> h.all]
  BY <1>1 DEF IsChain
<1>9. new = [steps |-> g, all |-> h.all]
  BY <1>3, <1>7, <1>8
<1>10. new.steps = g /\ new = [steps |-> new.steps, all |-> new.all]
  BY <1>9
<1>11. IsChain(new)
  BY <1>6, <1>10 DEF IsChain
<1> QED
  BY <1>1, <1>6, <1>7, <1>10, <1>11

LEMMA DecisionSaved ==
  ASSUME IndInv, NEW w \in Workers, Commit(w), NEW c \in ChainsFor(w), NEW n,
         NEW d \in {"APPROVED", "REJECTED"}, SaveDecision(w, c, n, d)
  PROVE  IsChain(chain') /\ (~overlapped => chain' = Decided(c, n, d))
<1>1. IsChain(c) /\ IsChain(chain)
  BY ChainsType DEF IndInv, Types
<1>2. CASE txn[w].chain.steps = <<>>
  <2>1. chain' = [c EXCEPT !.steps[n].decision = d]
    BY <1>2 DEF SaveDecision, Decided
  <2> QED
    BY <1>1, <2>1, DecidedIs DEF Decided
<1>3. CASE txn[w].chain.steps # <<>>
  <2>1. chain' = [chain EXCEPT !.steps[n].decision = d]
    BY <1>3 DEF SaveDecision
  <2>2. ~overlapped => c = chain
    BY <1>3, Seen DEF ChainsFor
  <2> QED
    BY <1>1, <2>1, <2>2, DecidedIs DEF Decided
<1> QED
  BY <1>2, <1>3

\* An approval that does not complete the chain leaves a step to decide.
LEMMA StillPending ==
  ASSUME NEW c, IsChain(c), NEW n \in DOMAIN c.steps, ~Complete(Decided(c, n, "APPROVED"))
  PROVE  Pending(Decided(c, n, "APPROVED")) # {}
<1>1. PICK h : h = Decided(c, n, "APPROVED")
  OBVIOUS
<1>2. IsChain(h) /\ DOMAIN h.steps = DOMAIN c.steps
  BY <1>1, DecidedIs DEF Decided
<1>3. h.steps # <<>>
  BY <1>2
<1>4. /\ \A m \in DOMAIN h.steps : h.steps[m].decision # "REJECTED"
      /\ \E m \in DOMAIN h.steps : h.steps[m].decision # "APPROVED"
  BY <1>1, <1>3 DEF Complete
<1>5. PICK m \in DOMAIN h.steps : h.steps[m].decision # "APPROVED"
  BY <1>4
<1>6. h.steps[m].decision = NULL
  BY <1>2, <1>4, <1>5 DEF IsChain, Step
<1> QED
  BY <1>1, <1>5, <1>6 DEF Pending

-----------------------------------------------------------------------------
(* The workflow. *)

LEMMA SubmitClaimInd ==
  ASSUME IndInv, NEW w \in Workers, SubmitClaim(w)
  PROVE  IndInv'
<1>1. PICK l : l = txn[w]
  OBVIOUS
<1>2. Commit(w) /\ l.claim.status = "DRAFT"
      /\ Mark("SUBMIT", "COMPLETED") /\ rounds' = rounds + 1
      /\ UNCHANGED <<items, posted, payments, historyVars>>
  BY <1>1 DEF SubmitClaim
<1>3. /\ Session(l)
      /\ ~overlapped => /\ l.claim = claim /\ l.chain = chain
                        /\ Flow(l.claim, chain, marks, rounds)
  BY <1>1, <1>2, Seen
<1>4. PICK c \in scenario.chains :
        /\ chain' = Initialized(chain, c)
        /\ Update(w, [l.claim EXCEPT !.status = IF chain'.steps = <<>> THEN "SUBMITTED"
                                                ELSE "PENDING_APPROVAL"])
  BY <1>1 DEF SubmitClaim
<1>5. PICK s : s = IF chain'.steps = <<>> THEN "SUBMITTED" ELSE "PENDING_APPROVAL"
  OBVIOUS
<1>6. PICK new : new = [l.claim EXCEPT !.status = s]
  OBVIOUS
<1>7. IsClaim(new) /\ new.status = s /\ new.approved = l.claim.approved
  BY <1>3, <1>5, <1>6 DEF Session, IsClaim, Columns, Statuses
<1>8. Update(w, new)
  BY <1>4, <1>5, <1>6
<1>9. /\ IsChain(chain')
      /\ c.steps = <<>> => chain' = chain
      /\ c.steps # <<>> => Pending(chain') # {}
  BY <1>4, AmountsType, InitializedIs DEF IndInv, Types
<1>10. /\ marks' \in [MarkTypes -> MarkStates]
       /\ \A k \in MarkTypes : k # "SUBMIT" => marks'[k] = marks[k]
  BY <1>2, Marked DEF MarkTypes
<1>11. rounds \in Nat /\ rounds' \in Nat /\ rounds' # 0 /\ (rounds' = 1 => rounds = 0)
  BY <1>2 DEF IndInv, Types
<1>12. ~overlapped => Flow(new, chain', marks', rounds')
  BY <1>2, <1>3, <1>7, <1>10, <1>11 DEF Flow, MarkTypes
<1>13. ~overlapped => Settled(new, items')
  BY <1>2, <1>3, <1>7 DEF Settled, Flow
<1>14. ~overlapped => Awaited(new, chain', rounds')
  <2>1. s = "PENDING_APPROVAL" => chain'.steps # <<>>
    BY <1>5
  <2>2. ~overlapped /\ rounds = 0 => chain.steps = <<>>
    BY <1>3 DEF Flow
  <2> QED
    BY <1>4, <1>7, <1>9, <1>11, <2>1, <2>2 DEF Awaited
<1>15. new.status \notin Gone
  BY <1>5, <1>7 DEF Gone
<1>16. marks'["MARK_PAID"] = marks["MARK_PAID"]
  BY <1>10 DEF MarkTypes
<1>17. IsItems(items')
  BY <1>2 DEF IndInv, Types
<1> QED
  BY <1>2, <1>7, <1>8, <1>9, <1>10, <1>11, <1>12, <1>13, <1>14, <1>15, <1>16, <1>17, UpdateStep

LEMMA SubmitBlockedInd ==
  ASSUME IndInv, NEW w \in Workers, SubmitBlocked(w)
  PROVE  IndInv'
BY FailInd DEF SubmitBlocked

\* What the amounts of the last approval are.
LEMMA AmountedIs ==
  ASSUME IndInv, NEW is, IsItems(is), NEW f \in Amounted(is)
  PROVE  f = [i \in Present(is) |-> f[i]] /\ \A i \in Present(is) : f[i] \in Nat
BY AmountsType DEF Amounted

LEMMA ApprovedItems ==
  ASSUME NEW item \in Item, NEW amount \in Nat \cup {NULL}
  PROVE  /\ [item EXCEPT !.approved = amount] \in Item
         /\ [item EXCEPT !.approved = amount].approved = amount
         /\ [item EXCEPT !.approved = amount] # NULL
<1>1. /\ [item EXCEPT !.approved = amount] \in Item
      /\ [item EXCEPT !.approved = amount].approved = amount
  BY DEF Item
<1> QED
  BY <1>1, NullAssumption

\* The last approval settles the claim.
LEMMA ApproveStep ==
  ASSUME IndInv, NEW w \in Workers, Commit(w),
         txn[w].claim.status \in {"SUBMITTED", "PENDING_APPROVAL"},
         NEW a, Approve(w, a), Mark("APPROVE", "COMPLETED"), IsChain(chain'),
         UNCHANGED <<posted, payments, rounds, historyVars>>
  PROVE  IndInv'
<1>1. PICK l : l = txn[w]
  OBVIOUS
<1>2. /\ Session(l) /\ l.claim.status \in {"SUBMITTED", "PENDING_APPROVAL"}
      /\ ~overlapped => /\ l.claim = claim /\ l.items = items
                        /\ Flow(l.claim, chain, marks, rounds)
  BY <1>1, Seen
<1>3. PICK amount \in Amounted(l.items) :
        /\ items' = [i \in ItemIds |->
                       IF items[i] = NULL \/ l.items[i] = NULL THEN items[i]
                       ELSE [items[i] EXCEPT !.approved = amount[i]]]
        /\ Update(w, [l.claim EXCEPT !.status = "APPROVED",
                                     !.approver = a,
                                     !.approved = SumOf(amount),
                                     !.net = SumOf(amount) - l.claim.adjusted])
  BY <1>1 DEF Approve
<1>4. /\ amount = [i \in Present(l.items) |-> amount[i]]
      /\ \A i \in Present(l.items) : amount[i] \in Nat
  BY <1>2, AmountedIs DEF Session
<1>5. items \in [ItemIds -> {NULL} \cup Item]
  BY DEF IndInv, Types, IsItems
<1>6. ASSUME NEW i \in ItemIds, items[i] # NULL, l.items[i] # NULL
      PROVE  items'[i] \in Item /\ items'[i].approved = amount[i] /\ items'[i] # NULL
             /\ amount[i] \in Nat
  <2>1. amount[i] \in Nat /\ items[i] \in Item
    BY <1>4, <1>5, <1>6 DEF Present
  <2>2. PICK item \in Item : item = items[i]
    BY <2>1
  <2>3. items'[i] = [item EXCEPT !.approved = amount[i]]
    BY <1>3, <1>6, <2>2
  <2> QED
    BY <2>1, <2>3, ApprovedItems
<1>7. ASSUME NEW i \in ItemIds, items[i] = NULL \/ l.items[i] = NULL
      PROVE  items'[i] = items[i]
  BY <1>3, <1>7
<1>8. IsItems(items')
  <2>1. \A i \in ItemIds : items'[i] \in {NULL} \cup Item
    BY <1>5, <1>6, <1>7
  <2>2. items' = [i \in ItemIds |-> items'[i]]
    BY <1>3
  <2> QED
    BY <2>1, <2>2 DEF IsItems
<1>9. PICK sum, new :
        /\ sum = SumOf(amount)
        /\ new = [l.claim EXCEPT !.status = "APPROVED", !.approver = a, !.approved = sum,
                                 !.net = sum - l.claim.adjusted]
  OBVIOUS
<1>10. /\ IsClaim(new) /\ new.status = "APPROVED" /\ new.approved = sum
       /\ new.net = new.approved - new.adjusted
  BY <1>2, <1>9 DEF Session, IsClaim, Columns, Statuses
<1>11. Update(w, new)
  BY <1>3, <1>9
<1>12. /\ marks' \in [MarkTypes -> MarkStates]
       /\ \A k \in MarkTypes : k # "APPROVE" => marks'[k] = marks[k]
  BY Marked DEF MarkTypes
<1>13. rounds' \in Nat /\ new.status \notin Gone /\ marks'["MARK_PAID"] = marks["MARK_PAID"]
  BY <1>10, <1>12 DEF IndInv, Types, Gone, MarkTypes
<1>14. ~overlapped => Flow(new, chain', marks', rounds')
  BY <1>2, <1>10, <1>12 DEF Flow, MarkTypes
<1>15. ASSUME ~overlapped PROVE Settled(new, items')
  <2>1. \A i \in ItemIds : items'[i] # NULL <=> items[i] # NULL
    BY <1>2, <1>6, <1>7, <1>15
  <2>2. Present(items') = Present(l.items)
    BY <1>2, <1>15, <2>1 DEF Present
  <2>3. \A i \in Present(items') : items'[i].approved = amount[i] /\ amount[i] \in Nat
    BY <1>2, <1>6, <1>15, <2>1 DEF Present
  <2>4. [i \in Present(items') |-> items'[i].approved] = amount
    BY <1>4, <2>2, <2>3
  <2>5. \A i \in Present(items') : items'[i].approved # NULL
    BY <2>3, NullAssumption
  <2> QED
    BY <1>9, <1>10, <2>4, <2>5 DEF Settled
<1>16. Awaited(new, chain', rounds')
  BY <1>10 DEF Awaited
<1> QED
  BY <1>8, <1>10, <1>11, <1>12, <1>13, <1>14, <1>15, <1>16, UpdateStep

LEMMA ApproveDirectlyInd ==
  ASSUME IndInv, NEW w \in Workers, ApproveDirectly(w)
  PROVE  IndInv'
BY ApproveStep DEF ApproveDirectly, IndInv, Types

\* A decision that is saved but changes nothing else, since the marker of its
\* action is there already: only sessions that overlap come to this.
LEMMA DecisionOnly ==
  ASSUME IndInv, NEW w \in Workers, Commit(w), overlapped, IsChain(chain'),
         UNCHANGED <<claim, items, marks, posted, payments, rounds, historyVars>>
  PROVE  IndInv'
<1>1. txn[w] # Idle /\ txn' = [txn EXCEPT ![w] = Idle]
  BY DEF Commit, Running, End
<1>2. ~raced => Paid(claim', marks', payments', txn')
  BY <1>1, PaidStep
<1> QED
  BY <1>1, <1>2, CommitStep DEF IndInv, Types

LEMMA ApproveClaimInd ==
  ASSUME IndInv, NEW w \in Workers, ApproveClaim(w)
  PROVE  IndInv'
<1>1. PICK l : l = txn[w]
  OBVIOUS
<1>2. /\ Commit(w) /\ l.claim.status \in {"SUBMITTED", "PENDING_APPROVAL"}
      /\ UNCHANGED <<posted, payments, rounds, historyVars>>
  BY <1>1 DEF ApproveClaim
<1>3. /\ Session(l)
      /\ ~overlapped => /\ l.claim = claim /\ Flow(l.claim, chain, marks, rounds)
                        /\ \A m \in MarkTypes : l.found[m] # "NONE" => l.found[m] = marks[m]
  BY <1>1, <1>2, Seen
<1>4. PICK a, c, n :
        /\ c \in ChainsFor(w) /\ n \in DOMAIN c.steps
        /\ SaveDecision(w, c, n, "APPROVED")
        /\ \/ /\ ~Complete(Decided(c, n, "APPROVED"))
              /\ Update(w, [l.claim EXCEPT !.status = "PENDING_APPROVAL"])
              /\ UNCHANGED <<items, marks>>
           \/ /\ Begun(w, "APPROVE")
              /\ Approve(w, a)
              /\ Mark("APPROVE", "COMPLETED")
           \/ /\ NotBegun(w, "APPROVE")
              /\ UNCHANGED <<claim, items, marks>>
  BY <1>1 DEF ApproveClaim, Decidable, Pending
<1>5. IsChain(c) /\ IsChain(chain') /\ (~overlapped => chain' = Decided(c, n, "APPROVED"))
  BY <1>2, <1>4, ChainsType, DecisionSaved
<1>6. CASE /\ ~Complete(Decided(c, n, "APPROVED"))
           /\ Update(w, [l.claim EXCEPT !.status = "PENDING_APPROVAL"])
           /\ UNCHANGED <<items, marks>>
  <2>1. PICK new : new = [l.claim EXCEPT !.status = "PENDING_APPROVAL"]
    OBVIOUS
  <2>2. IsClaim(new) /\ new.status = "PENDING_APPROVAL" /\ new.approved = l.claim.approved
    BY <1>3, <2>1 DEF Session, IsClaim, Columns, Statuses
  <2>3. ~overlapped => Flow(new, chain', marks', rounds') /\ Settled(new, items')
    BY <1>2, <1>3, <1>6, <2>2 DEF Flow, Settled
  <2>4. ~overlapped => Awaited(new, chain', rounds')
    BY <1>4, <1>5, <1>6, StillPending DEF Awaited
  <2>5. Update(w, new) /\ new.status \notin Gone
    BY <1>6, <2>1, <2>2 DEF Gone
  <2> QED
    BY <1>2, <1>5, <1>6, <2>2, <2>3, <2>4, <2>5, UpdateStep DEF IndInv, Types
<1>7. CASE Approve(w, a) /\ Mark("APPROVE", "COMPLETED")
  BY <1>1, <1>2, <1>5, <1>7, ApproveStep
<1>8. CASE NotBegun(w, "APPROVE") /\ UNCHANGED <<claim, items, marks>>
  <2>1. overlapped
    BY <1>1, <1>2, <1>3, <1>8 DEF Flow, NotBegun, MarkTypes
  <2> QED
    BY <1>2, <1>5, <1>8, <2>1, DecisionOnly
<1> QED
  BY <1>4, <1>6, <1>7, <1>8

LEMMA RejectClaimInd ==
  ASSUME IndInv, NEW w \in Workers, RejectClaim(w)
  PROVE  IndInv'
<1>1. PICK l : l = txn[w]
  OBVIOUS
<1>2. /\ Commit(w) /\ l.claim.status \in {"SUBMITTED", "PENDING_APPROVAL"}
      /\ UNCHANGED <<items, posted, payments, rounds, historyVars>>
  BY <1>1 DEF RejectClaim
<1>3. /\ Session(l)
      /\ ~overlapped => /\ l.claim = claim /\ Flow(l.claim, chain, marks, rounds)
                        /\ \A m \in MarkTypes : l.found[m] # "NONE" => l.found[m] = marks[m]
  BY <1>1, <1>2, Seen
<1>4. PICK a, c, n :
        /\ c \in ChainsFor(w)
        /\ SaveDecision(w, c, n, "REJECTED")
        /\ \/ /\ Begun(w, "REJECT")
              /\ Update(w, [l.claim EXCEPT !.status = "REJECTED", !.approver = a])
              /\ Mark("REJECT", "COMPLETED")
           \/ /\ NotBegun(w, "REJECT")
              /\ UNCHANGED <<claim, marks>>
  BY <1>1 DEF RejectClaim
<1>5. IsChain(chain')
  BY <1>2, <1>4, DecisionSaved
<1>6. CASE /\ Update(w, [l.claim EXCEPT !.status = "REJECTED", !.approver = a])
           /\ Mark("REJECT", "COMPLETED")
  <2>1. PICK new : new = [l.claim EXCEPT !.status = "REJECTED", !.approver = a]
    OBVIOUS
  <2>2. IsClaim(new) /\ new.status = "REJECTED" /\ new.approved = l.claim.approved
    BY <1>3, <2>1 DEF Session, IsClaim, Columns, Statuses
  <2>3. /\ marks' \in [MarkTypes -> MarkStates]
        /\ \A k \in MarkTypes : k # "REJECT" => marks'[k] = marks[k]
    BY <1>6, Marked DEF MarkTypes
  <2>4. ~overlapped => Flow(new, chain', marks', rounds') /\ Settled(new, items')
    BY <1>2, <1>3, <2>2, <2>3 DEF Flow, Settled, MarkTypes
  <2>5. Awaited(new, chain', rounds') /\ Update(w, new) /\ new.status \notin Gone
        /\ marks'["MARK_PAID"] = marks["MARK_PAID"]
    BY <1>6, <2>1, <2>2, <2>3 DEF Awaited, Gone, MarkTypes
  <2> QED
    BY <1>2, <1>5, <2>2, <2>3, <2>4, <2>5, UpdateStep DEF IndInv, Types
<1>7. CASE NotBegun(w, "REJECT") /\ UNCHANGED <<claim, marks>>
  <2>1. overlapped
    BY <1>1, <1>2, <1>3, <1>7 DEF Flow, NotBegun, MarkTypes
  <2> QED
    BY <1>2, <1>5, <1>7, <2>1, DecisionOnly
<1> QED
  BY <1>4, <1>6, <1>7

LEMMA CancelClaimInd ==
  ASSUME IndInv, NEW w \in Workers, CancelClaim(w)
  PROVE  IndInv'
<1>1. PICK l : l = txn[w]
  OBVIOUS
<1>2. /\ Commit(w) /\ l.claim.status \in {"DRAFT", "SUBMITTED", "PENDING_APPROVAL"}
      /\ Mark("CANCEL", "COMPLETED")
      /\ UNCHANGED <<items, chain, posted, payments, rounds, historyVars>>
  BY <1>1 DEF CancelClaim
<1>3. /\ Session(l)
      /\ ~overlapped => l.claim = claim /\ Flow(l.claim, chain, marks, rounds)
  BY <1>1, <1>2, Seen
<1>4. PICK new : new = [l.claim EXCEPT !.status = "CANCELLED"]
  OBVIOUS
<1>5. IsClaim(new) /\ new.status = "CANCELLED" /\ new.approved = l.claim.approved
  BY <1>3, <1>4 DEF Session, IsClaim, Columns, Statuses
<1>6. /\ marks' \in [MarkTypes -> MarkStates]
      /\ \A k \in MarkTypes : k # "CANCEL" => marks'[k] = marks[k]
  BY <1>2, Marked DEF MarkTypes
<1>7. ~overlapped => Flow(new, chain', marks', rounds') /\ Settled(new, items')
  BY <1>2, <1>3, <1>5, <1>6 DEF Flow, Settled, MarkTypes
<1>8. Awaited(new, chain', rounds') /\ Update(w, new) /\ new.status \notin Gone
      /\ marks'["MARK_PAID"] = marks["MARK_PAID"]
  BY <1>1, <1>4, <1>5, <1>6 DEF CancelClaim, Awaited, Gone, MarkTypes
<1> QED
  BY <1>2, <1>5, <1>6, <1>7, <1>8, UpdateStep DEF IndInv, Types

LEMMA ResubmitClaimInd ==
  ASSUME IndInv, NEW w \in Workers, ResubmitClaim(w)
  PROVE  IndInv'
<1>1. PICK l : l = txn[w]
  OBVIOUS
<1>2. /\ Commit(w) /\ l.claim.status = "REJECTED"
      /\ l.found # NoMarks
      /\ marks' = [m \in MarkTypes |-> IF l.found[m] = "NONE" THEN marks[m]
                                      ELSE Written(l.found[m], "FAILED", marks[m])]
      /\ UNCHANGED <<chain, posted, payments, rounds, historyVars>>
  BY <1>1 DEF ResubmitClaim
<1>3. /\ Session(l)
      /\ ~overlapped => /\ l.claim = claim /\ Flow(l.claim, chain, marks, rounds)
                        /\ \A m \in ResetMarks : l.found[m] = marks[m]
  BY <1>1, <1>2, Seen, Opened DEF Fresh, Commit, Running
<1>4. PICK new : new = [l.claim EXCEPT !.status = "DRAFT", !.approver = NULL,
                                       !.approved = NULL, !.net = NULL]
  OBVIOUS
<1>5. IsClaim(new) /\ new.status = "DRAFT" /\ new.approved = NULL
  BY <1>3, <1>4 DEF Session, IsClaim, Columns, Statuses
<1>6. /\ marks' \in [MarkTypes -> MarkStates]
      /\ ~overlapped => \A k \in ResetMarks : marks'[k] # "COMPLETED"
      /\ marks'["MARK_PAID"] = marks["MARK_PAID"]
  <2>1. \A m \in MarkTypes : marks[m] \in MarkStates /\ l.found[m] \in MarkStates
    BY <1>3 DEF IndInv, Types, Session
  <2>2. ResetMarks \subseteq MarkTypes
    BY DEF ResetMarks, MarkTypes
  <2>3. marks' \in [MarkTypes -> MarkStates]
    BY <1>2, <2>1 DEF Written, MarkStates
  <2>4. marks'["MARK_PAID"] = marks["MARK_PAID"]
    BY <1>2, <1>3 DEF Session, MarkTypes
  <2>5. ~overlapped => \A k \in ResetMarks : marks'[k] # "COMPLETED"
    BY <1>2, <1>3, <2>1, <2>2 DEF Written, MarkStates
  <2> QED
    BY <2>3, <2>4, <2>5
<1>7. IsItems(items')
  <2>1. items' = [i \in ItemIds |->
                    IF items[i] = NULL \/ l.items[i] = NULL THEN items[i]
                    ELSE [items[i] EXCEPT !.approved =
                            Written(l.items[i].approved, NULL, @)]]
    BY <1>1 DEF ResubmitClaim
  <2>2. \A item \in Item : \A found : [item EXCEPT !.approved = Written(found, NULL, @)] \in Item
    BY DEF Item, Written
  <2>3. \A i \in ItemIds : items[i] # NULL => items[i] \in Item
    BY DEF IndInv, Types, IsItems
  <2>4. \A i \in ItemIds : items'[i] \in {NULL} \cup Item
    BY <2>1, <2>2, <2>3
  <2> QED
    BY <2>1, <2>4 DEF IsItems
<1>8. ~overlapped => Flow(new, chain', marks', rounds') /\ Settled(new, items')
  BY <1>2, <1>3, <1>5, <1>6 DEF Flow, Settled, ResetMarks
<1>9. Awaited(new, chain', rounds') /\ Update(w, new) /\ new.status \notin Gone
  BY <1>1, <1>4, <1>5 DEF ResubmitClaim, Awaited, Gone
<1> QED
  BY <1>2, <1>5, <1>6, <1>7, <1>8, <1>9, UpdateStep DEF IndInv, Types

LEMMA LinkAdvanceInd ==
  ASSUME IndInv, NEW w \in Workers, LinkAdvance(w)
  PROVE  IndInv'
<1>1. PICK l : l = txn[w]
  OBVIOUS
<1>2. /\ Commit(w) /\ l.claim.status \in {"DRAFT", "SUBMITTED"}
      /\ Mark("LINK_ADVANCE", "COMPLETED")
      /\ UNCHANGED <<items, chain, posted, payments, rounds, historyVars>>
  BY <1>1 DEF LinkAdvance
<1>3. /\ Session(l)
      /\ ~overlapped => l.claim = claim /\ Flow(l.claim, chain, marks, rounds)
  BY <1>1, <1>2, Seen
<1>4. PICK a, net : Update(w, [l.claim EXCEPT !.adjusted = a, !.net = net])
  BY <1>1 DEF LinkAdvance
<1>5. PICK new : new = [l.claim EXCEPT !.adjusted = a, !.net = net]
  OBVIOUS
<1>6. IsClaim(new) /\ new.status = l.claim.status /\ new.approved = l.claim.approved
  BY <1>3, <1>5 DEF Session, IsClaim, Columns
<1>7. /\ marks' \in [MarkTypes -> MarkStates]
      /\ \A k \in MarkTypes : k # "LINK_ADVANCE" => marks'[k] = marks[k]
  BY <1>2, Marked DEF MarkTypes
<1>8. ~overlapped => Flow(new, chain', marks', rounds') /\ Settled(new, items')
  BY <1>2, <1>3, <1>6, <1>7 DEF Flow, Settled, MarkTypes
<1>9. Awaited(new, chain', rounds') /\ Update(w, new) /\ new.status \notin Gone
      /\ marks'["MARK_PAID"] = marks["MARK_PAID"]
  BY <1>2, <1>4, <1>5, <1>6, <1>7 DEF Awaited, Gone, MarkTypes
<1> QED
  BY <1>2, <1>6, <1>7, <1>8, <1>9, UpdateStep DEF IndInv, Types

\* The marker, which a claim that was paid has, keeps it from being paid again.
LEMMA MarkPaidInd ==
  ASSUME IndInv, NEW w \in Workers, MarkPaid(w)
  PROVE  IndInv'
<1>1. PICK l : l = txn[w]
  OBVIOUS
<1>2. /\ Commit(w) /\ l.claim.status = "APPROVED" /\ Payable(l.claim) > 0
      /\ Begun(w, "MARK_PAID") /\ Mark("MARK_PAID", "COMPLETED")
      /\ payments' = payments + 1
      /\ UNCHANGED <<items, chain, posted, rounds, historyVars>>
  BY <1>1 DEF MarkPaid
<1>3. /\ Session(l)
      /\ ~overlapped => /\ l.claim = claim /\ Flow(l.claim, chain, marks, rounds)
                        /\ Settled(l.claim, items)
  BY <1>1, <1>2, Seen
<1>4. PICK new : new = [l.claim EXCEPT !.status = "PAID", !.net = Payable(l.claim)]
  OBVIOUS
<1>5. /\ IsClaim(new) /\ new.status = "PAID" /\ new.approved = l.claim.approved
      /\ new.adjusted = l.claim.adjusted /\ new.net = Payable(l.claim)
  BY <1>3, <1>4 DEF Session, IsClaim, Columns, Statuses
<1>6. Update(w, new) /\ new.status \notin Gone
  BY <1>1, <1>4, <1>5 DEF MarkPaid, Gone
<1>7. /\ IsClaim(claim') /\ claim'.status \notin Gone /\ claim.status \notin Gone
      /\ ~overlapped => claim' = new
  BY <1>2, <1>5, <1>6, Updated
<1>8. /\ marks' \in [MarkTypes -> MarkStates]
      /\ marks'["MARK_PAID"] = "COMPLETED"
      /\ \A k \in MarkTypes : k # "MARK_PAID" => marks'[k] = marks[k]
  BY <1>2, Marked DEF MarkTypes
<1>9. ASSUME ~raced PROVE Paid(claim', marks', payments', txn')
  <2>1. payments = 0 /\ \A v \in Workers : v # w => ~Retries(txn[v])
    BY <1>2, <1>9, Unpaid
  <2>2. \A v \in Workers : ~Retries(txn'[v])
    BY <1>2, <2>1 DEF Commit, End, IndInv, Types, Retries
  <2> QED
    BY <1>2, <1>8, <2>1, <2>2 DEF Paid
<1>10. ~overlapped => Flow(claim', chain', marks', rounds')
  BY <1>2, <1>3, <1>5, <1>7, <1>8 DEF Flow, MarkTypes
<1>11. ASSUME ~overlapped PROVE Settled(claim', items')
  <2>1. SUFFICES ASSUME new.approved # NULL PROVE Settled(new, items)
    BY <1>2, <1>7, <1>11 DEF Settled
  <2>2. l.claim.net = l.claim.approved - l.claim.adjusted
    BY <1>2, <1>3, <1>5, <1>11, <2>1 DEF Settled, Gone
  <2>3. Payable(l.claim) = l.claim.approved - l.claim.adjusted
    <3>1. CASE l.claim.net # NULL
      BY <2>2, <3>1 DEF Payable
    <3>2. CASE l.claim.net = NULL
      BY <1>2, <3>2 DEF Payable
    <3> QED
      BY <3>1, <3>2
  <2> QED
    BY <1>2, <1>3, <1>5, <1>11, <2>3 DEF Settled, Gone
<1>12. ~overlapped => Awaited(claim', chain', rounds')
  BY <1>5, <1>7 DEF Awaited
<1>13. txn[w] # Idle /\ txn' = [txn EXCEPT ![w] = Idle]
  BY <1>2 DEF Commit, Running, End
<1> QED
  BY <1>2, <1>7, <1>8, <1>9, <1>10, <1>11, <1>12, <1>13, CommitStep DEF IndInv, Types

LEMMA PostExpenseClaimInd ==
  ASSUME IndInv, NEW w \in Workers, PostExpenseClaim(w)
  PROVE  IndInv'
<1>1. /\ txn[w] # Idle /\ txn' = [txn EXCEPT ![w] = Idle] /\ Mark("POST_GL", "COMPLETED")
      /\ UNCHANGED <<claim, items, chain, payments, rounds, historyVars>>
  BY DEF PostExpenseClaim, Commit, Running, End
<1>2. /\ marks' \in [MarkTypes -> MarkStates]
      /\ \A k \in MarkTypes : k # "POST_GL" => marks'[k] = marks[k]
  BY <1>1, Marked DEF MarkTypes
<1>3. ~raced => Paid(claim', marks', payments', txn')
  BY <1>1, <1>2, PaidStep DEF MarkTypes, PostExpenseClaim, Commit, Exists
<1>4. ~overlapped => /\ Flow(claim', chain', marks', rounds')
                     /\ Settled(claim', items')
                     /\ Awaited(claim', chain', rounds')
  BY <1>1, <1>2 DEF IndInv, Serial, Flow, MarkTypes
<1> QED
  BY <1>1, <1>2, <1>3, <1>4, CommitStep DEF IndInv, Types

-----------------------------------------------------------------------------
(* The theorems. *)

LEMMA InitInd == Init => IndInv
<1> SUFFICES ASSUME Init PROVE IndInv
  OBVIOUS
<1>1. IsClaim(NoClaim) /\ NoClaim.status = "NONE" /\ NoClaim.approved = NULL
  BY DEF NoClaim, IsClaim, Columns, Statuses
<1>2. /\ claim = NoClaim /\ chain = NoChain /\ rounds = 0 /\ payments = 0 /\ overlapped = FALSE
      /\ marks = [m \in MarkTypes |-> "NONE"] /\ items = [i \in ItemIds |-> NULL]
      /\ txn = [w \in Workers |-> Idle] /\ scenario \in Scenarios
  BY DEF Init, SessionsInit, NoMarks
<1>3. Types
  BY <1>1, <1>2, NoChainType DEF Types, IsItems, MarkStates
<1>4. Paid(claim, marks, payments, txn)
  BY <1>1, <1>2 DEF Paid, MarkTypes, Retries
<1>5. Alone /\ Serial
  BY <1>1, <1>2, NoChainType DEF Alone, Serial, Flow, Settled, Awaited, Gone, MarkTypes
<1> QED
  BY <1>3, <1>4, <1>5 DEF IndInv

LEMMA NextInd == IndInv /\ [Next]_vars => IndInv'
<1> SUFFICES ASSUME IndInv, [Next]_vars PROVE IndInv'
  OBVIOUS
<1>1. CASE UNCHANGED vars
  <2>1. UNCHANGED <<scenario, txn, claim, items, chain, marks, payments, rounds, overlapped, raced>>
    BY <1>1 DEF vars, claimVars, historyVars
  <2> QED
    BY <2>1 DEF IndInv, Types, Alone, Fresh, Serial, Awaited
<1>2. CASE CreateClaim
  BY <1>2, CreateClaimInd
<1>3. ASSUME NEW w \in Workers,
             \/ Load(w) \/ Refuse(w)
             \/ \E m \in MarkTypes : FindMarker(w, m)
             \/ FindMarkers(w)
             \/ AddClaimItem(w) \/ UpdateClaimItem(w) \/ RemoveClaimItem(w)
             \/ DeleteClaim(w)
      PROVE  IndInv'
  BY <1>3, LoadInd, RefuseInd, FindMarkerInd, FindMarkersInd, AddClaimItemInd, UpdateClaimItemInd, RemoveClaimItemInd,
     DeleteClaimInd
<1>4. ASSUME NEW w \in Workers,
             \/ SubmitClaim(w) \/ SubmitBlocked(w)
             \/ ApproveDirectly(w) \/ ApproveClaim(w) \/ RejectClaim(w)
             \/ CancelClaim(w) \/ ResubmitClaim(w)
      PROVE  IndInv'
  BY <1>4, SubmitClaimInd, SubmitBlockedInd, ApproveDirectlyInd, ApproveClaimInd,
     RejectClaimInd, CancelClaimInd, ResubmitClaimInd
<1>5. ASSUME NEW w \in Workers,
             \/ LinkAdvance(w)
             \/ MarkPaid(w) \/ MarkPaidRefused(w)
             \/ PostExpenseClaim(w)
      PROVE  IndInv'
  <2>1. MarkPaidRefused(w) => Fail(w, "MARK_PAID")
    BY DEF MarkPaidRefused
  <2> QED
    BY <1>5, <2>1, LinkAdvanceInd, MarkPaidInd, FailInd, PostExpenseClaimInd
<1> QED
  BY <1>1, <1>2, <1>3, <1>4, <1>5 DEF Next

\* The invariant is inductive: until two sessions have both found the marker of the
\* payment FAILED it says how often the claim was paid, and while sessions do not
\* overlap the markers, the chain, the status and the amounts agree.
THEOREM Inductive == Spec => []IndInv
<1>1. Init => IndInv
  BY InitInd
<1>2. IndInv /\ [Next]_vars => IndInv'
  BY NextInd
<1> QED
  BY <1>1, <1>2, PTL DEF Spec

\* A claim is paid at most once, whatever stale sessions write and however often its
\* payment is refused, until two sessions have both found the marker that a refusal
\* left.  From then on the code pays it twice.
THEOREM ClaimsArePaidOnce == Spec => []PaidOnce
<1>1. IndInv => PaidOnce
  BY DEF IndInv, Paid, PaidOnce
<1> QED
  BY <1>1, Inductive, PTL

\* While sessions do not overlap, what is approved is the sum of what is approved
\* of the items, and what is payable is that less the advance.
THEOREM ApprovalsAddUp == Spec => []ApprovedMatchesItems
<1>1. IndInv => ApprovedMatchesItems
  BY DEF IndInv, Serial, Settled, Gone, Exists, ApprovedMatchesItems
<1> QED
  BY <1>1, Inductive, PTL

\* While sessions do not overlap, a claim that waits for approval waits for
\* somebody, with the exception that the property names.
THEOREM PendingIsDecidable == Spec => []PendingHasApprover
<1>1. IndInv => PendingHasApprover
  BY DEF IndInv, Serial, Awaited, PendingHasApprover
<1> QED
  BY <1>1, Inductive, PTL

-----------------------------------------------------------------------------
(* Amounts, however sessions overlap. *)

HasAmounts(c) ==
  /\ c.total \in Int
  /\ c.approved \in Nat \cup {NULL}
  /\ c.net \in Int \cup {NULL}
  /\ c.adjusted \in Nat
  /\ c.approver \in Approvers \cup {NULL}

\* The claim, and the claim as every session has loaded it, has amounts.
AmountsInv ==
  /\ HasAmounts(claim)
  /\ \A w \in Workers : txn[w] # Idle => HasAmounts(txn[w].claim)
  /\ posted \in Nat \cup {NULL}

\* A sum over some of the items.
LEMMA SumOfItems ==
  ASSUME NEW S \in SUBSET ItemIds, NEW f, f = [i \in S |-> f[i]], \A i \in S : f[i] \in Nat
  PROVE  SumOf(f) \in Nat
<1>1. SumOf(f) = Sum(f, DOMAIN f)
  BY DEF SumOf, MapThenSumSet, MapThenFoldSet, Partial, Sum, SumsUp, Pick
<1>2. DOMAIN f = S
  OBVIOUS
<1>3. IsFiniteSet(S)
  BY ExpenseClaimsAssumption, FS_Subset
<1>4. Sum(f, S) \in Nat
  BY <1>3, SumSame
<1> QED
  BY <1>1, <1>2, <1>4

\* A session that ends leaves the others what they have loaded.
LEMMA AmountsEnd ==
  ASSUME IndInv, AmountsInv, NEW w \in Workers, txn' = [txn EXCEPT ![w] = Idle],
         HasAmounts(claim'), posted' \in Nat \cup {NULL}
  PROVE  AmountsInv'
<1>1. \A v \in Workers : txn'[v] # Idle => txn'[v] = txn[v]
  BY DEF IndInv, Types
<1>2. ASSUME NEW v \in Workers, txn'[v] # Idle
      PROVE  HasAmounts(txn'[v].claim)
  <2>1. txn'[v] = txn[v] /\ txn[v] # Idle
    BY <1>1, <1>2
  <2>2. HasAmounts(txn[v].claim)
    BY <2>1 DEF AmountsInv
  <2> QED
    BY <2>1, <2>2
<1>3. HasAmounts(claim)'
  BY DEF HasAmounts
<1>4. \A v \in Workers : txn'[v] # Idle => HasAmounts(txn[v].claim)'
  BY <1>2 DEF HasAmounts
<1> QED
  BY <1>3, <1>4 DEF AmountsInv

\* The columns of the claim are those that a session assigned or those that others
\* have committed.
LEMMA AmountsUpdated ==
  ASSUME IndInv, AmountsInv, NEW w \in Workers, Commit(w), UNCHANGED posted,
         NEW new, HasAmounts(new), Update(w, new)
  PROVE  AmountsInv'
<1>1. txn' = [txn EXCEPT ![w] = Idle]
  BY DEF Commit, End
<1>2. PICK old : old = txn[w].claim
  OBVIOUS
<1>3. claim' = [k \in DOMAIN claim |-> Written(old[k], new[k], claim[k])]
  BY <1>2 DEF Update
<1>4. DOMAIN claim = Columns
  BY DEF IndInv, Types, IsClaim
<1>5. \A k \in Columns : claim'[k] \in {new[k], claim[k]}
  BY <1>3, <1>4 DEF Written
<1>6. /\ claim'.total \in {new.total, claim.total}
      /\ claim'.approved \in {new.approved, claim.approved}
      /\ claim'.net \in {new.net, claim.net}
      /\ claim'.adjusted \in {new.adjusted, claim.adjusted}
      /\ claim'.approver \in {new.approver, claim.approver}
  BY <1>5 DEF Columns
<1>7. HasAmounts(claim')
  BY <1>6 DEF AmountsInv, HasAmounts
<1> QED
  BY <1>1, <1>7, AmountsEnd DEF AmountsInv

\* What a session that commits has loaded.
LEMMA LoadedAmounts ==
  ASSUME IndInv, AmountsInv, NEW w \in Workers, txn[w] # Idle, NEW l, l = txn[w]
  PROVE  /\ l.claim = [k \in Columns |-> l.claim[k]]
         /\ HasAmounts(l.claim) /\ IsItems(l.items)
BY Opened DEF Session, IsClaim, AmountsInv

LEMMA AmountsWorkflow ==
  ASSUME IndInv, AmountsInv, NEW w \in Workers, Commit(w), UNCHANGED posted,
         NEW s, Update(w, [txn[w].claim EXCEPT !.status = s])
  PROVE  AmountsInv'
<1>1. PICK l : l = txn[w]
  OBVIOUS
<1>2. l.claim = [k \in Columns |-> l.claim[k]] /\ HasAmounts(l.claim)
  BY <1>1, LoadedAmounts DEF Commit, Running
<1>3. HasAmounts([l.claim EXCEPT !.status = s])
  BY <1>2 DEF HasAmounts, Columns
<1> QED
  BY <1>1, <1>3, AmountsUpdated

LEMMA AmountsTotal ==
  ASSUME IndInv, AmountsInv, NEW w \in Workers, Commit(w), UNCHANGED posted,
         NEW d, UpdateTotal(w, d)
  PROVE  AmountsInv'
<1>1. PICK l : l = txn[w]
  OBVIOUS
<1>2. l.claim = [k \in Columns |-> l.claim[k]] /\ HasAmounts(l.claim)
  BY <1>1, LoadedAmounts DEF Commit, Running
<1>3. l.claim.total + d \in Int
  <2>1. scenario.total \in Nat
    BY ExpenseClaimsAssumption DEF IndInv, Types
  <2> QED
    BY <1>1, <2>1 DEF UpdateTotal
<1>4. HasAmounts([l.claim EXCEPT !.total = @ + d])
  BY <1>2, <1>3 DEF HasAmounts, Columns
<1> QED
  BY <1>1, <1>4, AmountsUpdated DEF UpdateTotal

LEMMA AmountsApproved ==
  ASSUME IndInv, AmountsInv, NEW w \in Workers, Commit(w), UNCHANGED posted,
         NEW a \in Approvers \cup {NULL}, Approve(w, a)
  PROVE  AmountsInv'
<1>1. PICK l : l = txn[w]
  OBVIOUS
<1>2. l.claim = [k \in Columns |-> l.claim[k]] /\ HasAmounts(l.claim) /\ IsItems(l.items)
  BY <1>1, LoadedAmounts DEF Commit, Running
<1>3. PICK amount \in Amounted(l.items) :
        Update(w, [l.claim EXCEPT !.status = "APPROVED",
                                  !.approver = a,
                                  !.approved = SumOf(amount),
                                  !.net = SumOf(amount) - l.claim.adjusted])
  BY <1>1 DEF Approve
<1>4. PICK sum \in Nat : sum = SumOf(amount)
  <2>1. /\ amount = [i \in Present(l.items) |-> amount[i]]
        /\ \A i \in Present(l.items) : amount[i] \in Nat
    BY <1>2, AmountedIs
  <2>2. Present(l.items) \in SUBSET ItemIds
    BY DEF Present
  <2> QED
    BY <2>1, <2>2, SumOfItems
<1>5. PICK new : new = [l.claim EXCEPT !.status = "APPROVED", !.approver = a,
                                       !.approved = sum, !.net = sum - l.claim.adjusted]
  OBVIOUS
<1>6. sum - l.claim.adjusted \in Int
  BY <1>2 DEF HasAmounts
<1>7. HasAmounts(new)
  BY <1>2, <1>5, <1>6 DEF HasAmounts, Columns
<1> QED
  BY <1>3, <1>4, <1>5, <1>7, AmountsUpdated

LEMMA AmountsDecided ==
  ASSUME IndInv, AmountsInv, NEW w \in Workers,
         ApproveDirectly(w) \/ ApproveClaim(w) \/ RejectClaim(w)
  PROVE  AmountsInv'
<1>1. Commit(w) /\ UNCHANGED posted /\ txn' = [txn EXCEPT ![w] = Idle]
  BY DEF ApproveDirectly, ApproveClaim, RejectClaim, Commit, End
<1>2. CASE ApproveDirectly(w)
  BY <1>1, <1>2, AmountsApproved DEF ApproveDirectly
<1>3. CASE UNCHANGED claim
  BY <1>1, <1>3, AmountsEnd DEF AmountsInv
<1>4. CASE ApproveClaim(w)
  <2>1. PICK a \in Approvers :
          \/ Update(w, [txn[w].claim EXCEPT !.status = "PENDING_APPROVAL"])
          \/ Approve(w, a)
          \/ UNCHANGED claim
    BY <1>4 DEF ApproveClaim
  <2> QED
    BY <1>1, <1>3, <2>1, AmountsWorkflow, AmountsApproved
<1>5. CASE RejectClaim(w)
  <2>1. PICK l : l = txn[w]
    OBVIOUS
  <2>2. l.claim = [k \in Columns |-> l.claim[k]] /\ HasAmounts(l.claim)
    BY <1>1, <2>1, LoadedAmounts DEF Commit, Running
  <2>3. PICK a \in Approvers :
          \/ Update(w, [l.claim EXCEPT !.status = "REJECTED", !.approver = a])
          \/ UNCHANGED claim
    BY <1>5, <2>1 DEF RejectClaim
  <2>4. HasAmounts([l.claim EXCEPT !.status = "REJECTED", !.approver = a])
    BY <2>2 DEF HasAmounts, Columns
  <2> QED
    BY <1>1, <1>3, <2>3, <2>4, AmountsUpdated
<1> QED
  BY <1>2, <1>4, <1>5

LEMMA AmountsPaid ==
  ASSUME IndInv, AmountsInv, NEW w \in Workers,
         ResubmitClaim(w) \/ LinkAdvance(w) \/ MarkPaid(w)
  PROVE  AmountsInv'
<1>1. PICK l : l = txn[w]
  OBVIOUS
<1>2. Commit(w) /\ UNCHANGED posted
  BY DEF ResubmitClaim, LinkAdvance, MarkPaid
<1>3. l.claim = [k \in Columns |-> l.claim[k]] /\ HasAmounts(l.claim)
  BY <1>1, <1>2, LoadedAmounts DEF Commit, Running
<1>4. CASE ResubmitClaim(w)
  <2>1. HasAmounts([l.claim EXCEPT !.status = "DRAFT", !.approver = NULL,
                                   !.approved = NULL, !.net = NULL])
    BY <1>3 DEF HasAmounts, Columns
  <2> QED
    BY <1>1, <1>2, <1>4, <2>1, AmountsUpdated DEF ResubmitClaim
<1>5. CASE LinkAdvance(w)
  <2>1. PICK a \in scenario.amounts :
          Update(w, [l.claim EXCEPT !.adjusted = a,
                       !.net = IF l.claim.approved \in {NULL, 0} THEN @
                               ELSE l.claim.approved - a])
    BY <1>1, <1>5 DEF LinkAdvance
  <2>2. PICK net : net = IF l.claim.approved \in {NULL, 0} THEN l.claim.net
                         ELSE l.claim.approved - a
    OBVIOUS
  <2>3. a \in Nat
    BY AmountsType
  <2>4. net \in Int \cup {NULL}
    BY <1>3, <2>2, <2>3 DEF HasAmounts
  <2>5. PICK new : new = [l.claim EXCEPT !.adjusted = a, !.net = net]
    OBVIOUS
  <2>6. HasAmounts(new)
    BY <1>3, <2>3, <2>4, <2>5 DEF HasAmounts, Columns
  <2>7. Update(w, new)
    <3>1. [l.claim EXCEPT !.adjusted = a,
             !.net = IF l.claim.approved \in {NULL, 0} THEN @
                     ELSE l.claim.approved - a] = new
      BY <1>3, <2>2, <2>5 DEF Columns
    <3> QED
      BY <2>1, <3>1
  <2> QED
    BY <1>2, <2>6, <2>7, AmountsUpdated
<1>6. CASE MarkPaid(w)
  <2>1. Payable(l.claim) \in Int
    BY <1>3 DEF Payable, HasAmounts
  <2>2. PICK net \in Int : net = Payable(l.claim)
    BY <2>1
  <2>3. HasAmounts([l.claim EXCEPT !.status = "PAID", !.net = net])
    BY <1>3 DEF HasAmounts, Columns
  <2> QED
    BY <1>1, <1>2, <1>6, <2>2, <2>3, AmountsUpdated DEF MarkPaid
<1> QED
  BY <1>4, <1>5, <1>6

LEMMA AmountsCreated ==
  ASSUME IndInv, AmountsInv, CreateClaim
  PROVE  AmountsInv'
<1>1. PICK is \in [ItemIds -> {NULL} \cup {NewItem(a) : a \in scenario.amounts}],
           refused \in BOOLEAN :
        claim' = [NoClaim EXCEPT !.status = "DRAFT",
                                 !.total = IF refused THEN 0 ELSE Claimed(is)]
  BY DEF CreateClaim
<1>2. Claimed(is) \in Nat
  <2>1. \A i \in Present(is) : is[i].claimed \in Nat
    <3>1. \A a \in scenario.amounts : NewItem(a).claimed \in Nat
      BY AmountsType DEF NewItem
    <3> QED
      BY <1>1, <3>1 DEF Present
  <2>2. Present(is) \in SUBSET ItemIds
    BY DEF Present
  <2>3. PICK f : f = [i \in Present(is) |-> is[i].claimed]
    OBVIOUS
  <2>4. SumOf(f) \in Nat
    BY <2>1, <2>2, <2>3, SumOfItems
  <2> QED
    BY <2>3, <2>4 DEF Claimed
<1>3. PICK total : total = IF refused THEN 0 ELSE Claimed(is)
  OBVIOUS
<1>4. total \in Int
  BY <1>2, <1>3
<1>5. claim' = [NoClaim EXCEPT !.status = "DRAFT", !.total = total]
  BY <1>1, <1>3, Zenon
<1>6. HasAmounts(claim)'
  BY <1>4, <1>5 DEF HasAmounts, NoClaim
<1> QED
  BY <1>6 DEF CreateClaim, AmountsInv, HasAmounts

LEMMA AmountsPosted ==
  ASSUME IndInv, AmountsInv, NEW w \in Workers, PostExpenseClaim(w)
  PROVE  AmountsInv'
<1>1. PICK f : f = [i \in Present(items) |-> PostedAmount(items[i])]
  OBVIOUS
<1>2. \A i \in Present(items) : f[i] \in Nat
  <2>1. \A item \in Item : PostedAmount(item) \in Nat
    BY DEF Item, PostedAmount
  <2>2. \A i \in Present(items) : items[i] \in Item
    BY DEF IndInv, Types, IsItems, Present
  <2> QED
    BY <1>1, <2>1, <2>2
<1>3. posted' \in Nat
  <2>1. Present(items) \in SUBSET ItemIds
    BY DEF Present
  <2>2. SumOf(f) \in Nat
    BY <1>1, <1>2, <2>1, SumOfItems
  <2> QED
    BY <1>1, <2>2 DEF PostExpenseClaim
<1>4. txn' = [txn EXCEPT ![w] = Idle] /\ claim' = claim
  BY DEF PostExpenseClaim, Commit, End
<1> QED
  BY <1>3, <1>4, AmountsEnd DEF AmountsInv

LEMMA AmountsLoaded ==
  ASSUME IndInv, AmountsInv, NEW w \in Workers, Load(w)
  PROVE  AmountsInv'
<1>1. PICK t : t = [op |-> "loaded", claim |-> claim, items |-> items, chain |-> chain,
                    found |-> NoMarks]
  OBVIOUS
<1>2. \A v \in Workers : txn'[v] = IF v = w THEN t ELSE txn[v]
  BY <1>1 DEF Load, Begin, IndInv, Types
<1>3. HasAmounts(t.claim)
  BY <1>1 DEF AmountsInv
<1>4. \A v \in Workers : txn'[v] # Idle => HasAmounts(txn'[v].claim)
  <2> SUFFICES ASSUME NEW v \in Workers, txn'[v] # Idle
               PROVE  HasAmounts(txn'[v].claim)
    OBVIOUS
  <2>1. CASE v = w
    BY <1>2, <1>3, <2>1
  <2>2. CASE v # w
    <3>1. txn'[v] = txn[v]
      BY <1>2, <2>2
    <3>2. HasAmounts(txn[v].claim)
      BY <3>1 DEF AmountsInv
    <3> QED
      BY <3>1, <3>2
  <2> QED
    BY <2>1, <2>2
<1>5. UNCHANGED <<claim, posted>>
  BY DEF Load, claimVars
<1> QED
  BY <1>4, <1>5 DEF AmountsInv, HasAmounts

\* What a session has found is no amount.
LEMMA AmountsFound ==
  ASSUME IndInv, AmountsInv, NEW w \in Workers,
         FindMarkers(w) \/ \E m \in MarkTypes : FindMarker(w, m)
  PROVE  AmountsInv'
<1>1. PICK found : Found(w, found) /\ UNCHANGED <<claim, posted>>
  BY DEF FindMarkers, FindMarker, claimVars
<1>2. PICK s : s = txn[w]
  OBVIOUS
<1>3. txn[w] # Idle /\ Session(s) /\ HasAmounts(s.claim)
  BY <1>1, <1>2, Opened DEF Found, Running, AmountsInv
<1>4. PICK t : t = [s EXCEPT !.found = found]
  OBVIOUS
<1>5. t.claim = s.claim
  BY <1>3, <1>4 DEF Session
<1>6. \A v \in Workers : txn'[v] = IF v = w THEN t ELSE txn[v]
  BY <1>1, <1>2, <1>4 DEF Found, Continue, IndInv, Types
<1>7. ASSUME NEW v \in Workers, txn'[v] # Idle
      PROVE  HasAmounts(txn'[v].claim)
  <2>1. CASE v = w
    BY <1>3, <1>5, <1>6, <2>1
  <2>2. CASE v # w
    <3>1. txn'[v] = txn[v]
      BY <1>6, <2>2
    <3>2. HasAmounts(txn[v].claim)
      BY <1>7, <3>1 DEF AmountsInv
    <3> QED
      BY <3>1, <3>2
  <2> QED
    BY <2>1, <2>2
<1> QED
  BY <1>1, <1>7 DEF AmountsInv, HasAmounts

LEMMA AmountsQuiet ==
  ASSUME IndInv, AmountsInv, NEW w \in Workers,
         Refuse(w) \/ SubmitBlocked(w) \/ MarkPaidRefused(w) \/ DeleteClaim(w)
  PROVE  AmountsInv'
<1>1. txn' = [txn EXCEPT ![w] = Idle] /\ UNCHANGED posted
  BY DEF Refuse, SubmitBlocked, MarkPaidRefused, DeleteClaim, Fail, Commit, End
<1>2. claim' = claim \/ claim' = [claim EXCEPT !.status = "DELETED"]
  BY DEF Refuse, SubmitBlocked, MarkPaidRefused, DeleteClaim, Fail, claimVars
<1>3. claim = [k \in Columns |-> claim[k]]
  BY DEF IndInv, Types, IsClaim
<1>4. HasAmounts(claim')
  BY <1>2, <1>3 DEF AmountsInv, HasAmounts, Columns
<1> QED
  BY <1>1, <1>4, AmountsEnd DEF AmountsInv

LEMMA AmountsInvariant == Spec => []AmountsInv
<1>1. Init => AmountsInv
  BY DEF Init, SessionsInit, AmountsInv, HasAmounts, NoClaim
<1>2. IndInv /\ AmountsInv /\ [Next]_vars => AmountsInv'
  <2> SUFFICES ASSUME IndInv, AmountsInv, [Next]_vars
               PROVE  AmountsInv'
    OBVIOUS
  <2>1. CASE UNCHANGED vars
    BY <2>1 DEF vars, claimVars, AmountsInv, HasAmounts
  <2>2. ASSUME NEW w \in Workers,
               AddClaimItem(w) \/ UpdateClaimItem(w) \/ RemoveClaimItem(w)
        PROVE  AmountsInv'
    BY <2>2, AmountsTotal DEF AddClaimItem, UpdateClaimItem, RemoveClaimItem
  <2>3. ASSUME NEW w \in Workers, SubmitClaim(w) \/ CancelClaim(w)
        PROVE  AmountsInv'
    BY <2>3, AmountsWorkflow DEF SubmitClaim, CancelClaim
  <2>4. CASE Next
    BY <2>2, <2>3, <2>4, AmountsCreated, AmountsLoaded, AmountsFound, AmountsQuiet, AmountsDecided,
       AmountsPaid, AmountsPosted DEF Next
  <2> QED
    BY <2>1, <2>4
<1> QED
  BY <1>1, <1>2, Inductive, PTL DEF Spec

\* Whatever sessions overlap, with columns written by some and left by others, the
\* amounts stay amounts: approved and posted sums are natural numbers, and no amount
\* is worked out from a column that is NULL.
THEOREM TypesHold == Spec => []TypeOK
<1>1. IndInv /\ AmountsInv => TypeOK
  BY DEF IndInv, Types, IsClaim, IsItems, AmountsInv, HasAmounts, TypeOK, MarkStates
<1> QED
  BY <1>1, Inductive, AmountsInvariant, PTL
=============================================================================
