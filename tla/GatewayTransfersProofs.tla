----------------------- MODULE GatewayTransfersProofs -----------------------
(***************************************************************************)
(* Theorems about GatewayTransfers for any number of sessions and intents, *)
(* any limit of polls and any set of scenarios.                            *)
(***************************************************************************)
EXTENDS GatewayTransfers, TLAPS, FiniteSetTheorems

-----------------------------------------------------------------------------
(* The inductive invariant. *)

ActiveStatus == {"PENDING", "PROCESSING"}

ClaimRow == [status : {"APPROVED", "PAID"}, marked : BOOLEAN]
Entries == [posted : BOOLEAN, reversed : BOOLEAN]
Answers == {NULL, "error", "expired"} \cup TransferStates

Session ==
  [op : {"create", "initiate", "webhook", "expire", "poll", "reset"},
   intent : Intents, was : {NULL} \cup IntentRow, answer : Answers]

\* The gateway moved the money.
Moved(i) == gateway[i] \in {"success", "reversed"}

\* What an answer says of a transfer still holds: its states are never left for
\* another but the reversal.
Holds(i, answer) ==
  /\ answer = "pending" => gateway[i] # "NONE"
  /\ answer = "success" => Moved(i)
  /\ answer = "failed" => gateway[i] = "failed"
  /\ answer = "reversed" => gateway[i] = "reversed"

\* The session loaded an intent that its operation is for.
Sought(t) ==
  CASE t.op = "create" ->
         /\ t.answer \in {NULL, "expired"}
         /\ t.answer = "expired" =>
              t.was \in IntentRow /\ t.was.status \in ActiveStatus /\ t.was.due
    [] t.op = "initiate" ->
         /\ t.was \in IntentRow /\ t.was.status = "PENDING"
         /\ t.answer \in {NULL, "pending", "success", "failed", "reversed"}
    [] t.op = "webhook" -> t.was \in IntentRow /\ t.answer \in WebhookEvents
    [] t.op = "expire" ->
         t.was \in IntentRow /\ t.was.status = "PENDING" /\ t.was.due
    [] t.op = "poll" ->
         /\ t.was \in IntentRow /\ t.was.status \in ActiveStatus
         /\ t.was.polls < scenario.polls
         /\ t.answer \in {NULL, "error", "pending", "success", "failed", "reversed"}
         /\ t.answer = "error" => May("pollError")
    [] t.op = "reset" ->
         /\ t.was \in IntentRow
         /\ \/ t.was.status \in {"ABANDONED", "FAILED", "EXPIRED"}
            \/ May("force") /\ t.was.status \in ActiveStatus

Fits(t) ==
  /\ t \in Session
  /\ Sought(t)
  /\ Holds(t.intent, t.answer)
  /\ t.was # NULL => intents[t.intent] # NULL /\ (t.was.due => May("expiry"))
  /\ t.op = "poll" => gateway[t.intent] # "NONE"

Fit == \A w \in Workers : txn[w] # Idle => Fits(txn[w])

Types ==
  /\ scenario \in Scenarios
  /\ txn = [w \in Workers |-> txn[w]]
  /\ \A w \in Workers \ scenario.sessions : txn[w] = Idle
  /\ claim \in ClaimRow
  /\ intents \in [Intents -> {NULL} \cup IntentRow]
  /\ gateway \in [Intents -> TransferStates]
  /\ hooks \in [Intents -> [WebhookEvents -> {"NONE", "PROCESSED", "FAILED", "DUPLICATE"}]]
  /\ books \in Entries

Rows ==
  \A i \in Intents :
    /\ gateway[i] = "failed" => May("failure")
    /\ gateway[i] = "reversed" => May("reversal")
    /\ intents[i] # NULL =>
         /\ intents[i].due => May("expiry")
         /\ intents[i].code => gateway[i] # "NONE"
         /\ intents[i].status = "COMPLETED" => Moved(i)

\* A single session finds its intent as it was.
Alone == \E w \in Workers : scenario.sessions = {w}

Unchanged ==
  \A w \in Workers :
    txn[w] # Idle /\ txn[w].was # NULL =>
      intents[txn[w].intent].status = txn[w].was.status

\* Without payments outside the gateway a PAID claim has a completed transfer.
Backed == claim.status = "PAID" => Having({"COMPLETED"}) # {}

\* Nothing fails, expires or is reset: there is one intent at most.
Single ==
  /\ claim.marked => claim.status = "PAID"
  /\ \A i \in Intents :
       /\ gateway[i] # "NONE" => i = 1
       /\ intents[i] # NULL =>
            /\ i = 1
            /\ intents[i].status \in {"PENDING", "PROCESSING", "COMPLETED"}
            /\ intents[i].status = "COMPLETED" => claim.status = "PAID"
  /\ \A w \in Workers :
       txn[w] # Idle /\ txn[w].op = "create" => Active = {}

\* The claim and the books agree with the status of the only intent.
Agree(row, c, b) ==
  /\ row = NULL \/ row.status \in ActiveStatus =>
       c.status = "APPROVED" /\ ~c.marked /\ ~b.posted /\ ~b.reversed
  /\ row # NULL /\ row.status = "COMPLETED" => b.posted /\ ~b.reversed
  /\ row = NULL \/ row.status # "COMPLETED" => ~(b.posted /\ ~b.reversed)

NoManual == Alone /\ ~May("manual")
Quiet == Alone /\ scenario.events \subseteq {"lost", "refused"}
OneTransfer ==
  /\ Alone /\ scenario.intents = 1
  /\ scenario.events \subseteq {"failure", "lost", "reversal"}

IndInv ==
  /\ Types /\ Rows /\ Fit
  /\ Alone => Unchanged
  /\ NoManual => Backed
  /\ Quiet => Single
  /\ OneTransfer => Agree(intents[1], claim, books)

-----------------------------------------------------------------------------
(* Lemmas. *)

\* Session w goes on as t.
LEMMA GoesOn ==
  ASSUME Types, NEW w \in scenario.sessions, NEW t, txn' = [txn EXCEPT ![w] = t],
         UNCHANGED scenario
  PROVE  /\ w \in Workers
         /\ txn' = [v \in Workers |-> txn'[v]] /\ txn'[w] = t
         /\ \A v \in Workers : v # w => txn'[v] = txn[v]
         /\ \A v \in Workers \ scenario.sessions : txn'[v] = Idle
         /\ Alone => \A v \in Workers : v # w => txn[v] = Idle /\ txn'[v] = Idle
<1>1. w \in Workers
  BY TransfersAssumption DEF Types
<1>2. txn = [v \in Workers |-> txn[v]]
  BY DEF Types
<1>3. txn' = [v \in Workers |-> txn'[v]] /\ txn'[w] = t
      /\ \A v \in Workers : v # w => txn'[v] = txn[v]
  BY <1>1, <1>2
<1> QED
  BY <1>1, <1>3 DEF Types, Alone

LEMMA OneIntent == Types => 1 \in Intents /\ (scenario.intents = 1 => Intents = {1})
BY TransfersAssumption DEF Types, Intents

\* What a transfer may do while the gateway has it.
GatewayGoesOn ==
  \A i \in Intents :
    /\ gateway[i] = "failed" => gateway'[i] = "failed"
    /\ gateway[i] = "reversed" => gateway'[i] = "reversed"
    /\ gateway[i] = "success" => gateway'[i] \in {"success", "reversed"}
    /\ gateway[i] # "NONE" => gateway'[i] # "NONE"

\* What a session knows stays true.
LEMMA FitsStay ==
  ASSUME UNCHANGED scenario, GatewayGoesOn,
         \A i \in Intents : intents[i] # NULL => intents'[i] # NULL,
         NEW t, Fits(t)
  PROVE  Fits(t)'
<1>1. t \in Session /\ t.intent \in Intents /\ t.answer \in Answers
  BY DEF Fits, Session
<1>2. (t \in Session)'
  BY <1>1 DEF Session, IntentRow, Intents
<1>3. Sought(t)'
  <2>1. Sought(t)' <=> Sought(t)
    BY DEF Sought, IntentRow, May
  <2> QED
    BY <2>1 DEF Fits
<1>4. Holds(t.intent, t.answer)'
  BY <1>1 DEF Fits, Holds, GatewayGoesOn, Moved
<1>5. t.was # NULL => intents'[t.intent] # NULL /\ (t.was.due => May("expiry")')
  BY <1>1 DEF Fits, May
<1>6. t.op = "poll" => gateway'[t.intent] # "NONE"
  BY <1>1 DEF Fits, GatewayGoesOn
<1> QED
  BY <1>2, <1>3, <1>4, <1>5, <1>6 DEF Fits

\* The session that runs.
LEMMA Runs ==
  ASSUME IndInv, NEW w \in scenario.sessions, txn[w] # Idle
  PROVE  /\ w \in Workers /\ Fits(txn[w]) /\ txn[w] \in Session /\ txn[w].intent \in Intents
         /\ txn[w].was # NULL => intents[txn[w].intent] \in IntentRow
         /\ Alone /\ txn[w].was # NULL =>
              intents[txn[w].intent].status = txn[w].was.status
         /\ Alone => \A v \in Workers : v # w => txn[v] = Idle
<1>1. w \in Workers
  BY TransfersAssumption DEF IndInv, Types
<1>2. Fits(txn[w]) /\ txn[w] \in Session /\ txn[w].intent \in Intents
  BY <1>1 DEF IndInv, Fit, Fits, Session
<1>3. txn[w].was # NULL => intents[txn[w].intent] \in IntentRow
  BY <1>2 DEF IndInv, Fits, Types
<1> QED
  BY <1>1, <1>2, <1>3 DEF IndInv, Unchanged, Alone, Types

-----------------------------------------------------------------------------
(* Steps of a session that change no row. *)

\* A session goes on, knowing t.
LEMMA QuietStep ==
  ASSUME IndInv, NEW w \in scenario.sessions, NEW t, txn' = [txn EXCEPT ![w] = t],
         UNCHANGED <<scenario, claim, intents, hooks, books>>,
         gateway' \in [Intents -> TransferStates], GatewayGoesOn,
         \A i \in Intents : /\ gateway'[i] = "failed" => May("failure")
                            /\ gateway'[i] = "reversed" => May("reversal")
                            /\ Quiet /\ gateway'[i] # "NONE" => i = 1,
         t # Idle =>
           /\ Fits(t)'
           /\ Alone /\ t.was # NULL => intents[t.intent].status = t.was.status
           /\ Quiet /\ t.op = "create" => Active = {}
  PROVE  IndInv'
<1>1. /\ w \in Workers
      /\ txn' = [v \in Workers |-> txn'[v]] /\ txn'[w] = t
      /\ \A v \in Workers : v # w => txn'[v] = txn[v]
      /\ \A v \in Workers \ scenario.sessions : txn'[v] = Idle
      /\ Alone => \A v \in Workers : v # w => txn[v] = Idle /\ txn'[v] = Idle
  BY GoesOn DEF IndInv
<1>2. Types'
  BY <1>1 DEF IndInv, Types, Intents, IntentRow, WebhookEvents
<1>3. Rows'
  BY DEF IndInv, Rows, Intents, May, Moved, GatewayGoesOn
<1>4. Fit'
  <2>1. ASSUME NEW v \in Workers, txn'[v] # Idle
        PROVE  Fits(txn[v])'
    <3>1. CASE v = w
      <4>1. Fits(t)'
        BY <1>1, <2>1, <3>1
      <4> QED
        BY <1>1, <3>1, <4>1
    <3>2. CASE v # w
      <4>1. PICK u : u = txn[v]
        OBVIOUS
      <4>2. txn'[v] = u /\ u # Idle /\ Fits(u)
        BY <1>1, <2>1, <3>2, <4>1 DEF IndInv, Fit
      <4>3. Fits(u)'
        BY <4>2, FitsStay
      <4> QED
        BY <4>2, <4>3
    <3> QED
      BY <3>1, <3>2
  <2> QED
    BY <2>1 DEF Fit
<1>5. (Alone => Unchanged)'
  BY <1>1 DEF IndInv, Alone, Unchanged
<1>6. (NoManual => Backed)'
  BY DEF IndInv, NoManual, Alone, May, Backed, Having, Created, Intents
<1>7. (Quiet => Single)'
  BY <1>1 DEF IndInv, Quiet, Alone, Single, Active, Created, Intents
<1>8. (OneTransfer => Agree(intents[1], claim, books))'
  BY DEF IndInv, OneTransfer, Alone
<1> QED
  BY <1>2, <1>3, <1>4, <1>5, <1>6, <1>7, <1>8 DEF IndInv

LEMMA LoadInd ==
  ASSUME IndInv, NEW w \in scenario.sessions, UNCHANGED scenario,
         NEW i \in Intents, NEW op, NEW answer, Load(w, op, i, answer),
         op \in {"create", "initiate", "webhook", "expire", "poll", "reset"},
         answer \in Answers, Holds(i, answer), op = "poll" => gateway[i] # "NONE",
         Sought([op |-> op, intent |-> i, was |-> intents[i], answer |-> answer]),
         Quiet /\ op = "create" => Active = {}
  PROVE  IndInv'
<1>1. PICK t : t = [op |-> op, intent |-> i, was |-> intents[i], answer |-> answer]
  OBVIOUS
<1>2. /\ txn' = [txn EXCEPT ![w] = t]
      /\ UNCHANGED <<claim, intents, gateway, hooks, books>>
  BY <1>1 DEF Load, Begin
<1>3. t \in Session
  BY <1>1 DEF IndInv, Types, Session
<1>4. Fits(t)
  BY <1>1, <1>3 DEF Fits, IndInv, Rows
<1>5. GatewayGoesOn
  BY <1>2 DEF GatewayGoesOn
<1>6. Fits(t)'
  BY <1>2, <1>4, <1>5, FitsStay
<1>7. gateway' \in [Intents -> TransferStates]
      /\ \A k \in Intents : /\ gateway'[k] = "failed" => May("failure")
                            /\ gateway'[k] = "reversed" => May("reversal")
                            /\ Quiet /\ gateway'[k] # "NONE" => k = 1
  BY <1>2 DEF IndInv, Types, Rows, Single
<1> QED
  BY <1>1, <1>2, <1>5, <1>6, <1>7, QuietStep

LEMMA NothingKnown == \A i : Holds(i, NULL) /\ Holds(i, "expired") /\ Holds(i, "error")
BY NullAssumption DEF Holds, TransferStates

LEMMA FindActiveInd ==
  ASSUME IndInv, NEW w \in scenario.sessions, UNCHANGED scenario, FindActive(w)
  PROVE  IndInv'
<1>1. CASE Active = {} /\ Load(w, "create", 1, NULL)
  <2>1. Sought([op |-> "create", intent |-> 1, was |-> intents[1], answer |-> NULL])
    BY NullAssumption DEF Sought
  <2> QED
    BY <1>1, <2>1, NothingKnown, OneIntent, LoadInd DEF Answers, IndInv
<1>2. ASSUME NEW i \in Active, intents[i].due, Load(w, "create", i, "expired")
      PROVE  IndInv'
  <2>1. i \in Intents /\ intents[i] \in IntentRow /\ intents[i].status \in ActiveStatus
    BY <1>2 DEF IndInv, Types, Active, Created, ActiveStatus
  <2>2. Sought([op |-> "create", intent |-> i, was |-> intents[i], answer |-> "expired"])
    BY <1>2, <2>1 DEF Sought
  <2>3. ~Quiet
    BY <1>2, <2>1 DEF IndInv, Rows, Quiet, May, Active, Created
  <2> QED
    BY <1>2, <2>1, <2>2, <2>3, NothingKnown, LoadInd DEF Answers
<1> QED
  BY <1>1, <1>2 DEF FindActive

LEMMA ReceiveWebhookInd ==
  ASSUME IndInv, NEW w \in scenario.sessions, UNCHANGED scenario, NEW i \in Intents,
         ReceiveWebhook(w, i)
  PROVE  IndInv'
<1>1. PICK e \in Sent(i) : i \in Created /\ Load(w, "webhook", i, e)
  BY DEF ReceiveWebhook
<1>2. intents[i] \in IntentRow
  BY <1>1 DEF IndInv, Types, Created
<1>3. gateway[i] \in TransferStates
  BY DEF IndInv, Types
<1>4. e \in WebhookEvents /\ Holds(i, e)
  BY <1>1, <1>3 DEF Sent, WebhookEvents, Holds, Moved, TransferStates
<1>5. Sought([op |-> "webhook", intent |-> i, was |-> intents[i], answer |-> e])
  BY <1>2, <1>4 DEF Sought
<1> QED
  BY <1>1, <1>4, <1>5, LoadInd DEF Answers, WebhookEvents, TransferStates

LEMMA FindStaleInd ==
  ASSUME IndInv, NEW w \in scenario.sessions, UNCHANGED scenario, NEW i \in Intents,
         FindStale(w, i)
  PROVE  IndInv'
<1>1. intents[i] \in IntentRow
  BY DEF FindStale, IndInv, Types, Created
<1>2. Sought([op |-> "expire", intent |-> i, was |-> intents[i], answer |-> NULL])
  BY <1>1 DEF Sought, FindStale
<1> QED
  BY <1>2, NothingKnown, LoadInd DEF FindStale, Answers

LEMMA FindStuckInd ==
  ASSUME IndInv, NEW w \in scenario.sessions, UNCHANGED scenario, NEW i \in Intents,
         FindStuck(w, i)
  PROVE  IndInv'
<1>1. i \in Active /\ intents[i].code /\ intents[i].polls < scenario.polls
      /\ Load(w, "poll", i, NULL)
  BY DEF FindStuck
<1>2. intents[i] \in IntentRow /\ intents[i].status \in ActiveStatus /\ gateway[i] # "NONE"
  BY <1>1 DEF IndInv, Types, Rows, Active, Created, ActiveStatus
<1>3. Sought([op |-> "poll", intent |-> i, was |-> intents[i], answer |-> NULL])
  BY <1>1, <1>2, NullAssumption DEF Sought
<1> QED
  BY <1>1, <1>2, <1>3, NothingKnown, LoadInd DEF Answers

LEMMA FindLatestInd ==
  ASSUME IndInv, NEW w \in scenario.sessions, UNCHANGED scenario, NEW i \in Intents,
         FindLatest(w, i)
  PROVE  IndInv'
<1>1. intents[i] \in IntentRow
  BY DEF FindLatest, IndInv, Types, Created
<1>2. Sought([op |-> "reset", intent |-> i, was |-> intents[i], answer |-> NULL])
  BY <1>1 DEF Sought, FindLatest, ActiveStatus
<1> QED
  BY <1>2, NothingKnown, LoadInd DEF FindLatest, Answers

LEMMA RollbackInd ==
  ASSUME IndInv, NEW w \in scenario.sessions, UNCHANGED scenario, Rollback(w)
  PROVE  IndInv'
<1>1. txn' = [txn EXCEPT ![w] = Idle] /\ UNCHANGED <<claim, intents, gateway, hooks, books>>
  BY DEF Rollback, End
<1>2. GatewayGoesOn /\ gateway' \in [Intents -> TransferStates]
      /\ \A k \in Intents : /\ gateway'[k] = "failed" => May("failure")
                            /\ gateway'[k] = "reversed" => May("reversal")
                            /\ Quiet /\ gateway'[k] # "NONE" => k = 1
  BY <1>1 DEF IndInv, Types, Rows, Single, GatewayGoesOn
<1> QED
  BY <1>1, <1>2, QuietStep

LEMMA VerifyInd ==
  ASSUME IndInv, NEW w \in scenario.sessions, UNCHANGED scenario, Verify(w)
  PROVE  IndInv'
<1>1. PICK r : r = txn[w]
  OBVIOUS
<1>2. /\ r # Idle /\ r.op = "poll" /\ r \in Session /\ Fits(r) /\ r.intent \in Intents
      /\ Alone => intents[r.intent].status = r.was.status
  <2>1. r # Idle /\ r.op = "poll"
    BY <1>1 DEF Verify, Running
  <2>2. Fits(r) /\ r.was # NULL
    BY <1>1, <2>1, Runs, NullAssumption DEF Fits, Sought, IntentRow, IndInv, Types
  <2> QED
    BY <1>1, <2>1, <2>2, Runs
<1>3. PICK s \in {gateway[r.intent], "error"} :
        /\ txn' = [txn EXCEPT ![w] = [r EXCEPT !.answer = s]]
        /\ s = gateway[r.intent] \/ May("pollError")
  BY <1>1 DEF Verify, Continue
<1>4. PICK t : t = [r EXCEPT !.answer = s]
  OBVIOUS
<1>5. /\ gateway[r.intent] \in TransferStates /\ gateway[r.intent] # "NONE"
      /\ UNCHANGED <<claim, intents, gateway, hooks, books>>
  BY <1>2 DEF Verify, Fits, IndInv, Types
<1>6. s \in {"error", "pending", "success", "failed", "reversed"} /\ Holds(r.intent, s)
  BY <1>3, <1>5 DEF Holds, Moved, TransferStates
<1>7. /\ t \in Session /\ t.op = "poll" /\ t.intent = r.intent /\ t.was = r.was
      /\ t.answer = s
  BY <1>2, <1>4, <1>6 DEF Session, Answers, TransferStates
<1>8. Fits(t)
  BY <1>2, <1>3, <1>5, <1>6, <1>7 DEF Fits, Sought, TransferStates
<1>9. GatewayGoesOn /\ gateway' \in [Intents -> TransferStates]
      /\ \A k \in Intents : /\ gateway'[k] = "failed" => May("failure")
                            /\ gateway'[k] = "reversed" => May("reversal")
                            /\ Quiet /\ gateway'[k] # "NONE" => k = 1
  BY <1>5 DEF IndInv, Types, Rows, Single, GatewayGoesOn
<1>10. Fits(t)'
  BY <1>5, <1>8, <1>9, FitsStay
<1> QED
  BY <1>2, <1>3, <1>4, <1>5, <1>7, <1>9, <1>10, QuietStep

LEMMA SendTransferInd ==
  ASSUME IndInv, NEW w \in scenario.sessions, UNCHANGED scenario, SendTransfer(w)
  PROVE  IndInv'
<1>1. PICK r : r = txn[w]
  OBVIOUS
<1>2. /\ r # Idle /\ r.op = "initiate" /\ r \in Session /\ Fits(r) /\ r.intent \in Intents
      /\ r.was \in IntentRow /\ intents[r.intent] # NULL
      /\ Alone => intents[r.intent].status = r.was.status
  <2>1. r # Idle /\ r.op = "initiate"
    BY <1>1 DEF SendTransfer, Running
  <2>2. Fits(r) /\ r.was \in IntentRow /\ r.was # NULL
    BY <1>1, <2>1, Runs, NullAssumption DEF Fits, Sought, IntentRow, IndInv, Types
  <2> QED
    BY <1>1, <2>1, <2>2, Runs DEF Fits
<1>3. PICK i \in Intents : i = r.intent
  BY <1>2
<1>4. PICK s \in Initiated(i) :
        /\ gateway' = [gateway EXCEPT ![i] = s]
        /\ \/ txn' = [txn EXCEPT ![w] = [r EXCEPT !.answer = s]]
           \/ txn' = [txn EXCEPT ![w] = Idle]
  BY <1>1, <1>3 DEF SendTransfer, Continue, End
<1>5. UNCHANGED <<claim, intents, hooks, books>>
  BY DEF SendTransfer
<1>6. /\ s \in {"pending", "success", "failed", "reversed"}
      /\ gateway[i] # "NONE" => s = gateway[i]
      /\ gateway[i] = "NONE" => (s = "failed" => May("failure")) /\ s # "reversed"
  BY <1>4 DEF Initiated, Outcomes, IndInv, Types, TransferStates
<1>7. gateway' \in [Intents -> TransferStates] /\ gateway'[i] = s
      /\ \A k \in Intents : k # i => gateway'[k] = gateway[k]
  BY <1>4, <1>6 DEF IndInv, Types, TransferStates
<1>8. GatewayGoesOn
  BY <1>6, <1>7 DEF GatewayGoesOn
<1>9. \A k \in Intents : /\ gateway'[k] = "failed" => May("failure")
                         /\ gateway'[k] = "reversed" => May("reversal")
                         /\ Quiet /\ gateway'[k] # "NONE" => k = 1
  BY <1>2, <1>3, <1>6, <1>7 DEF IndInv, Rows, Single
<1>10. PICK t : t = [r EXCEPT !.answer = s]
  OBVIOUS
<1>11. /\ t \in Session /\ t.op = "initiate" /\ t.intent = i /\ t.was = r.was
       /\ t.answer = s
  BY <1>2, <1>3, <1>6, <1>10 DEF Session, Answers, TransferStates
<1>12. Fits(t)'
  <2>1. Fits(r)'
    BY <1>2, <1>5, <1>8, FitsStay
  <2>2. (t \in Session)'
    BY <1>11 DEF Session, IntentRow, Intents
  <2>3. Sought(t)'
    <3>1. r.was.status = "PENDING"
      BY <1>2 DEF Fits, Sought
    <3> QED
      BY <1>2, <1>6, <1>11, <3>1 DEF Sought, IntentRow
  <2>4. Holds(i, s)'
    BY <1>7 DEF Holds, Moved
  <2> QED
    BY <1>2, <1>3, <1>11, <2>1, <2>2, <2>3, <2>4 DEF Fits
<1>13. CASE txn' = [txn EXCEPT ![w] = t]
  BY <1>2, <1>3, <1>5, <1>7, <1>8, <1>9, <1>11, <1>12, <1>13, QuietStep
<1>14. CASE txn' = [txn EXCEPT ![w] = Idle]
  BY <1>5, <1>7, <1>8, <1>9, <1>14, QuietStep
<1> QED
  BY <1>4, <1>10, <1>13, <1>14

-----------------------------------------------------------------------------
(* The outcome of a transfer. *)

\* What outcome r of intent i keeps.
Good(i, r) ==
  /\ r.row \in IntentRow /\ r.claim \in ClaimRow /\ r.books \in Entries
  /\ r.row.due => May("expiry")
  /\ r.row.code => gateway[i] # "NONE"
  /\ r.row.status = "COMPLETED" => Moved(i)
  /\ NoManual /\ r.claim.status = "PAID" =>
       \/ r.row.status = "COMPLETED"
       \/ claim.status = "PAID" /\ intents[i].status # "COMPLETED"
  /\ Quiet =>
       /\ r.row.status \in {"PENDING", "PROCESSING", "COMPLETED"}
       /\ r.row.status = "COMPLETED" => r.claim.status = "PAID"
       /\ r.claim.marked => r.claim.status = "PAID"
  /\ OneTransfer => Agree(r.row, r.claim, r.books)

LEMMA RowsAreNotNull == Types => NULL \notin IntentRow
BY NullAssumption DEF Types, IntentRow

LEMMA Applies ==
  ASSUME IndInv, NEW w \in scenario.sessions, txn' = [txn EXCEPT ![w] = Idle],
         UNCHANGED <<scenario, gateway>>,
         NEW i \in Created, NEW r, Good(i, r),
         intents' = [intents EXCEPT ![i] = r.row], claim' = r.claim, books' = r.books,
         hooks' \in [Intents -> [WebhookEvents -> {"NONE", "PROCESSED", "FAILED", "DUPLICATE"}]]
  PROVE  IndInv'
<1>1. /\ w \in Workers
      /\ txn' = [v \in Workers |-> txn'[v]] /\ txn'[w] = Idle
      /\ \A v \in Workers : v # w => txn'[v] = txn[v]
      /\ \A v \in Workers \ scenario.sessions : txn'[v] = Idle
      /\ Alone => \A v \in Workers : txn'[v] = Idle
  BY GoesOn DEF IndInv
<1>2. i \in Intents /\ intents[i] # NULL /\ Intents' = Intents
  BY DEF Created, Intents
<1>3. /\ intents' \in [Intents -> {NULL} \cup IntentRow] /\ intents'[i] = r.row
      /\ \A k \in Intents : k # i => intents'[k] = intents[k]
  BY <1>2 DEF Good, IndInv, Types
<1>4. r.row # NULL
  BY RowsAreNotNull DEF Good, IndInv
<1>5. Types'
  BY <1>1, <1>2, <1>3 DEF Good, IndInv, Types, IntentRow
<1>6. Rows'
  BY <1>2, <1>3 DEF Good, IndInv, Rows, May, Moved
<1>7. Fit'
  <2>1. GatewayGoesOn
    BY DEF GatewayGoesOn
  <2>2. \A k \in Intents : intents[k] # NULL => intents'[k] # NULL
    BY <1>3, <1>4
  <2>3. ASSUME NEW v \in Workers, txn'[v] # Idle
        PROVE  Fits(txn[v])'
    <3>1. PICK u : u = txn[v]
      OBVIOUS
    <3>2. txn'[v] = u /\ u # Idle /\ Fits(u)
      BY <1>1, <2>3, <3>1 DEF IndInv, Fit
    <3>3. Fits(u)'
      BY <2>1, <2>2, <3>2, FitsStay
    <3> QED
      BY <3>2, <3>3
  <2> QED
    BY <2>3 DEF Fit
<1>8. (Alone => Unchanged)'
  BY <1>1 DEF Alone, Unchanged
<1>9. (NoManual => Backed)'
  <2> SUFFICES ASSUME NoManual, r.claim.status = "PAID"
               PROVE  Having({"COMPLETED"})' # {}
    BY DEF NoManual, Alone, May, Backed
  <2>1. CASE r.row.status = "COMPLETED"
    <3>1. i \in Having({"COMPLETED"})'
      BY <1>2, <1>3, <1>4, <2>1 DEF Having, Created
    <3> QED
      BY <3>1
  <2>2. CASE claim.status = "PAID" /\ intents[i].status # "COMPLETED"
    <3>1. PICK k : k \in Having({"COMPLETED"})
      BY <2>2 DEF IndInv, Backed
    <3>2. k \in Having({"COMPLETED"})'
      BY <1>2, <1>3, <2>2, <3>1 DEF Having, Created
    <3> QED
      BY <3>2
  <2> QED
    BY <2>1, <2>2 DEF Good
<1>10. (Quiet => Single)'
  <2> SUFFICES ASSUME Quiet
               PROVE  Single'
    BY DEF Quiet, Alone
  <2>1. Single /\ i = 1
    BY <1>2 DEF IndInv, Single
  <2>2. \A v \in Workers : txn'[v] = Idle
    BY <1>1 DEF Quiet
  <2> QED
    BY <1>2, <1>3, <2>1, <2>2 DEF Good, Single
<1>11. (OneTransfer => Agree(intents[1], claim, books))'
  <2> SUFFICES ASSUME OneTransfer
               PROVE  Agree(intents'[1], claim', books')
    BY DEF OneTransfer, Alone
  <2>1. i = 1
    BY <1>2, OneIntent DEF IndInv, OneTransfer
  <2> QED
    BY <1>3, <2>1 DEF Good
<1> QED
  BY <1>5, <1>6, <1>7, <1>8, <1>9, <1>10, <1>11 DEF IndInv

\* The row of intent i that an operation works on, with the status it has seen.
WorksOn(i, row, seen) ==
  /\ i \in Intents /\ intents[i] \in IntentRow
  /\ row \in IntentRow
  /\ row.due = intents[i].due /\ row.status = intents[i].status
  /\ gateway[i] # "NONE"
  /\ Alone => \/ seen = row.status
              \/ seen = "PROCESSING" /\ row.status \in ActiveStatus

LEMMA MarkPaidIs ==
  ASSUME NEW c \in ClaimRow
  PROVE  /\ MarkPaid(c) \in ClaimRow
         /\ c.status = "PAID" => MarkPaid(c) = c
         /\ c.status = "APPROVED" /\ ~c.marked =>
              MarkPaid(c).status = "PAID" /\ MarkPaid(c).marked
         /\ c.status = "APPROVED" /\ c.marked => MarkPaid(c) = c
BY DEF MarkPaid, ClaimRow

LEMMA RevertedIs ==
  ASSUME NEW c \in ClaimRow
  PROVE  Reverted(c) \in ClaimRow /\ Reverted(c).status = "APPROVED"
         /\ Reverted(c).marked = c.marked /\ (c.status = "APPROVED" => Reverted(c) = c)
BY DEF Reverted, ClaimRow

\* process_successful_transfer
LEMMA SucceededGood ==
  ASSUME IndInv, NEW i, NEW row, NEW seen, WorksOn(i, row, seen), Moved(i),
         NEW fee, NEW r \in Succeeded(row, seen, fee)
  PROVE  Good(i, r)
<1>1. /\ claim \in ClaimRow /\ books \in Entries /\ row \in IntentRow /\ i \in Intents
      /\ intents[i] \in IntentRow /\ intents[i] # NULL /\ gateway[i] # "NONE"
      /\ row.due = intents[i].due /\ row.status = intents[i].status
      /\ row.due => May("expiry")
  BY RowsAreNotNull DEF IndInv, Types, Rows, WorksOn
<1>2. OneTransfer => i = 1
  BY <1>1, OneIntent DEF IndInv, OneTransfer
<1>3. CASE seen \in ActiveStatus
  <2>1. PICK f \in Charged(row, fee), b \in Reimbursed(MarkPaid(claim)) :
          r = Outcome([row EXCEPT !.status = "COMPLETED", !.fee = f], MarkPaid(claim), b, TRUE)
    <3>1. r \in Completed(row, fee)
      BY <1>3 DEF Succeeded, ActiveStatus
    <3>2. PICK x \in Charged(row, fee) \X Reimbursed(MarkPaid(claim)) :
            r = Outcome([row EXCEPT !.status = "COMPLETED", !.fee = x[1]],
                        MarkPaid(claim), x[2], TRUE)
      BY <3>1 DEF Completed
    <3> QED
      BY <3>2
  <2>2. f \in {"NONE", "POSTED", "REVERSED"}
    BY <1>1 DEF Charged, Posted, IntentRow, PolledUpTo
  <2>3. b \in Entries
    BY <1>1 DEF Reimbursed, Posted, Entries
  <2>4. /\ r.row = [row EXCEPT !.status = "COMPLETED", !.fee = f]
        /\ r.claim = MarkPaid(claim) /\ r.books = b
    BY <2>1 DEF Outcome
  <2>5. /\ r.row \in IntentRow /\ r.row.status = "COMPLETED" /\ r.row.due = row.due
    BY <1>1, <2>2, <2>4 DEF IntentRow, PolledUpTo
  <2>6. r.claim \in ClaimRow
    BY <1>1, <2>4, MarkPaidIs
  <2>7. Quiet => r.claim.status = "PAID"
    BY <1>1, <2>4, MarkPaidIs DEF IndInv, Single, ClaimRow
  <2>8. OneTransfer => Agree(r.row, r.claim, r.books)
    <3> SUFFICES ASSUME OneTransfer
                 PROVE  Agree(r.row, r.claim, r.books)
      OBVIOUS
    <3>1. row.status \in ActiveStatus
      BY <1>3 DEF OneTransfer, WorksOn
    <3>2. claim.status = "APPROVED" /\ ~claim.marked /\ ~books.posted /\ ~books.reversed
      BY <1>1, <1>2, <3>1 DEF IndInv, Agree
    <3>3. MarkPaid(claim).status = "PAID"
      BY <1>1, <3>2, MarkPaidIs
    <3>4. b = [books EXCEPT !.posted = TRUE]
      BY <3>3 DEF Reimbursed, Posted, OneTransfer, May
    <3>5. b.posted /\ ~b.reversed
      BY <1>1, <3>2, <3>4 DEF Entries
    <3> QED
      BY <2>4, <2>5, <3>5, RowsAreNotNull DEF Agree, ActiveStatus, IndInv
  <2> QED
    BY <1>1, <2>3, <2>4, <2>5, <2>6, <2>7, <2>8 DEF Good
<1>4. CASE seen \notin ActiveStatus
  <2>1. r.row = row /\ r.claim = claim /\ r.books = books
    BY <1>4 DEF Succeeded, Outcome, ActiveStatus
  <2>2. NoManual /\ claim.status = "PAID" =>
          \/ row.status = "COMPLETED"
          \/ claim.status = "PAID" /\ intents[i].status # "COMPLETED"
    BY <1>1
  <2>3. OneTransfer => Agree(row, claim, books)
    BY <1>1, <1>2, RowsAreNotNull DEF IndInv, Agree
  <2>4. Quiet => /\ row.status \in {"PENDING", "PROCESSING", "COMPLETED"}
                 /\ row.status = "COMPLETED" => claim.status = "PAID"
                 /\ claim.marked => claim.status = "PAID"
    BY <1>1 DEF IndInv, Single
  <2> QED
    BY <1>1, <2>1, <2>2, <2>3, <2>4 DEF Good
<1> QED
  BY <1>3, <1>4

\* mark_transfer_failed
LEMMA FailedGood ==
  ASSUME IndInv, NEW i, NEW row, NEW seen, WorksOn(i, row, seen),
         gateway[i] = "failed", NEW r \in Failed(row, seen)
  PROVE  Good(i, r)
<1>1. /\ claim \in ClaimRow /\ books \in Entries /\ row \in IntentRow /\ i \in Intents
      /\ intents[i] \in IntentRow /\ intents[i] # NULL
      /\ row.due = intents[i].due /\ row.status = intents[i].status
      /\ row.due => May("expiry")
      /\ May("failure") /\ row.status # "COMPLETED"
  BY RowsAreNotNull DEF IndInv, Types, Rows, WorksOn, Moved
<1>2. PICK s : s = Written(seen, "FAILED", row.status)
  OBVIOUS
<1>3. /\ r.row = [row EXCEPT !.status = s] /\ r.claim = Reverted(claim) /\ r.books = books
      /\ s = "FAILED" \/ (s = row.status /\ seen = "FAILED")
  BY <1>2 DEF Failed, Outcome, Written
<1>4. /\ r.row \in IntentRow /\ r.row.status = s /\ r.row.due = row.due /\ s # "COMPLETED"
  BY <1>1, <1>3 DEF IntentRow, PolledUpTo
<1>5. r.claim \in ClaimRow /\ r.claim.status = "APPROVED"
  BY <1>1, <1>3, RevertedIs
<1>6. ~Quiet
  BY <1>1 DEF Quiet, May
<1>7. OneTransfer => Agree(r.row, r.claim, r.books)
  <2> SUFFICES ASSUME OneTransfer
               PROVE  Agree(r.row, r.claim, r.books)
    OBVIOUS
  <2>1. i = 1 /\ Agree(intents[i], claim, books)
    BY <1>1, OneIntent DEF IndInv, OneTransfer
  <2>2. s = "FAILED"
    BY <1>1, <1>3 DEF OneTransfer, WorksOn, ActiveStatus
  <2>3. ~(books.posted /\ ~books.reversed)
    BY <1>1, <2>1 DEF Agree
  <2> QED
    BY <1>3, <1>4, <2>2, <2>3, RowsAreNotNull DEF Agree, ActiveStatus, IndInv
<1> QED
  BY <1>1, <1>3, <1>4, <1>5, <1>6, <1>7 DEF Good, WorksOn

\* process_transfer_reversal
LEMMA ReversedGood ==
  ASSUME IndInv, NEW i, NEW row, NEW seen, WorksOn(i, row, seen),
         gateway[i] = "reversed", NEW r \in TransferReversed(row, seen)
  PROVE  Good(i, r)
<1>1. /\ claim \in ClaimRow /\ books \in Entries /\ row \in IntentRow /\ i \in Intents
      /\ intents[i] \in IntentRow /\ intents[i] # NULL
      /\ row.due = intents[i].due /\ row.status = intents[i].status
      /\ row.due => May("expiry")
      /\ May("reversal") /\ Moved(i)
  BY RowsAreNotNull DEF IndInv, Types, Rows, WorksOn, Moved
<1>2. ~Quiet /\ (OneTransfer => i = 1 /\ Agree(intents[i], claim, books))
  BY <1>1, OneIntent DEF Quiet, May, IndInv, OneTransfer
<1>3. Reverted(claim) \in ClaimRow /\ Reverted(claim).status = "APPROVED"
      /\ (claim.status = "APPROVED" => Reverted(claim) = claim)
  BY <1>1, RevertedIs
<1>4. ASSUME seen = "COMPLETED"
      PROVE  Good(i, r)
  <2>1. PICK x \in Refunded(row) \X Returned :
          r = Outcome([row EXCEPT !.status = "REVERSED", !.fee = x[1]],
                      Reverted(claim), x[2], TRUE)
    BY <1>4 DEF TransferReversed
  <2>2. x[1] \in {"NONE", "POSTED", "REVERSED"}
    BY <1>1, <2>1 DEF Refunded, Posted, IntentRow, PolledUpTo
  <2>3. x[2] \in Entries
    BY <1>1, <2>1 DEF Returned, Posted, Entries
  <2>4. /\ r.row = [row EXCEPT !.status = "REVERSED", !.fee = x[1]]
        /\ r.claim = Reverted(claim) /\ r.books = x[2]
    BY <2>1 DEF Outcome
  <2>5. /\ r.row \in IntentRow /\ r.row.status = "REVERSED" /\ r.row.due = row.due
    BY <1>1, <2>2, <2>4 DEF IntentRow, PolledUpTo
  <2>6. OneTransfer => Agree(r.row, r.claim, r.books)
    <3> SUFFICES ASSUME OneTransfer
                 PROVE  Agree(r.row, r.claim, r.books)
      OBVIOUS
    <3>1. row.status = "COMPLETED"
      BY <1>4 DEF OneTransfer, WorksOn
    <3>2. books.posted
      BY <1>1, <1>2, <3>1 DEF Agree
    <3>3. x[2] = [books EXCEPT !.reversed = TRUE]
      BY <2>1, <3>2 DEF Returned, Posted, OneTransfer, May
    <3>4. x[2].reversed
      BY <1>1, <3>3 DEF Entries
    <3> QED
      BY <2>4, <2>5, <3>4, RowsAreNotNull DEF Agree, ActiveStatus, IndInv
  <2> QED
    BY <1>1, <1>2, <1>3, <2>3, <2>4, <2>5, <2>6 DEF Good, Moved
<1>5. ASSUME seen = "PROCESSING"
      PROVE  Good(i, r)
  <2>1. /\ r.row = [row EXCEPT !.status = "REVERSED"]
        /\ r.claim = Reverted(claim) /\ r.books = books
    BY <1>5 DEF TransferReversed, Outcome
  <2>2. /\ r.row \in IntentRow /\ r.row.status = "REVERSED" /\ r.row.due = row.due
    BY <1>1, <2>1 DEF IntentRow, PolledUpTo
  <2>3. OneTransfer => Agree(r.row, r.claim, r.books)
    <3> SUFFICES ASSUME OneTransfer
                 PROVE  Agree(r.row, r.claim, r.books)
      OBVIOUS
    <3>1. row.status \in ActiveStatus
      BY <1>5 DEF OneTransfer, WorksOn, ActiveStatus
    <3>2. ~books.posted
      BY <1>1, <1>2, <3>1 DEF Agree
    <3> QED
      BY <2>1, <2>2, <3>2, RowsAreNotNull DEF Agree, ActiveStatus, IndInv
  <2> QED
    BY <1>1, <1>2, <1>3, <2>1, <2>2, <2>3 DEF Good, Moved
<1>6. ASSUME seen \notin {"COMPLETED", "PROCESSING"}
      PROVE  Good(i, r)
  <2>1. r.row = row /\ r.claim = claim /\ r.books = books
    <3>1. TransferReversed(row, seen) = {Outcome(row, claim, books, TRUE)}
      BY <1>6 DEF TransferReversed
    <3> QED
      BY <3>1 DEF Outcome
  <2>2. OneTransfer => Agree(row, claim, books)
    BY <1>1, <1>2, RowsAreNotNull DEF IndInv, Agree
  <2> QED
    BY <1>1, <1>2, <2>1, <2>2 DEF Good, Moved
<1> QED
  BY <1>4, <1>5, <1>6

\* Only the status is written, and not to or from COMPLETED.
LEMMA StatusGood ==
  ASSUME IndInv, NEW i \in Intents, intents[i] \in IntentRow, NEW r,
         r.row \in IntentRow, r.claim = claim, r.books = books,
         r.row.due = intents[i].due, r.row.code => gateway[i] # "NONE",
         r.row.status = "COMPLETED" => intents[i].status = "COMPLETED",
         Alone => intents[i].status # "COMPLETED",
         Quiet => r.row.status \in ActiveStatus,
         OneTransfer => (r.row.status \in ActiveStatus => intents[i].status \in ActiveStatus)
  PROVE  Good(i, r)
<1>1. /\ claim \in ClaimRow /\ books \in Entries /\ intents[i] # NULL /\ r.row # NULL
      /\ intents[i].due => May("expiry")
      /\ intents[i].status = "COMPLETED" => Moved(i)
  BY RowsAreNotNull DEF IndInv, Types, Rows
<1>2. Quiet => (claim.marked => claim.status = "PAID") /\ r.row.status # "COMPLETED"
  BY DEF IndInv, Single, ActiveStatus
<1>3. OneTransfer => Agree(r.row, r.claim, r.books)
  <2> SUFFICES ASSUME OneTransfer
               PROVE  Agree(r.row, r.claim, r.books)
    OBVIOUS
  <2>1. Agree(intents[i], claim, books)
    BY OneIntent DEF IndInv, OneTransfer
  <2>2. r.row.status # "COMPLETED" /\ intents[i].status # "COMPLETED"
    BY DEF OneTransfer
  <2> QED
    BY <1>1, <2>1, <2>2 DEF Agree
<1>4. NoManual => intents[i].status # "COMPLETED"
  BY DEF NoManual
<1> QED
  BY <1>1, <1>2, <1>3, <1>4 DEF Good, ActiveStatus

\* What a stored event means for an intent.
LEMMA HandledGood ==
  ASSUME IndInv, NEW i, NEW row, NEW seen, WorksOn(i, row, seen),
         NEW e \in WebhookEvents, Holds(i, e), NEW r \in Handled(e, row, seen)
  PROVE  Good(i, r)
<1>1. CASE e = "success"
  BY <1>1, SucceededGood DEF Handled, Holds
<1>2. CASE e = "failed"
  BY <1>2, FailedGood DEF Handled, Holds
<1>3. CASE e = "reversed"
  BY <1>3, ReversedGood DEF Handled, Holds
<1> QED
  BY <1>1, <1>2, <1>3 DEF WebhookEvents

LEMMA ProcessWebhookInd ==
  ASSUME IndInv, NEW w \in scenario.sessions, UNCHANGED scenario, ProcessWebhook(w)
  PROVE  IndInv'
<1>1. PICK t : t = txn[w]
  OBVIOUS
<1>2. t # Idle /\ t.op = "webhook"
  BY <1>1 DEF ProcessWebhook, Running
<1>3. Fits(t) /\ t.intent \in Intents /\ t.was \in IntentRow /\ t.answer \in WebhookEvents
  BY <1>1, <1>2, Runs DEF Fits, Sought
<1>4. t.was # NULL
  BY <1>3, RowsAreNotNull DEF IndInv
<1>5. PICK i \in Intents, e \in WebhookEvents : i = t.intent /\ e = t.answer
  BY <1>3
<1>6. /\ intents[i] \in IntentRow /\ intents[i] # NULL /\ Holds(i, e) /\ i \in Created
      /\ Alone => intents[i].status = t.was.status
  BY <1>1, <1>2, <1>3, <1>4, <1>5, Runs, RowsAreNotNull DEF Fits, IndInv, Created
<1>7. /\ UNCHANGED gateway /\ txn' = [txn EXCEPT ![w] = Idle]
      /\ \/ /\ hooks' = [hooks EXCEPT ![i][e] = "DUPLICATE"]
            /\ UNCHANGED <<claim, intents, books>>
         \/ \E r \in Handled(e, intents[i], t.was.status) :
              /\ intents' = [intents EXCEPT ![i] = r.row]
              /\ claim' = r.claim /\ books' = r.books
              /\ hooks' = [hooks EXCEPT ![i][e] = IF r.ok THEN "PROCESSED" ELSE "FAILED"]
  BY <1>1, <1>5 DEF ProcessWebhook, Apply, End
<1>8. hooks' \in [Intents -> [WebhookEvents -> {"NONE", "PROCESSED", "FAILED", "DUPLICATE"}]]
  <2>1. PICK Values : Values = {"NONE", "PROCESSED", "FAILED", "DUPLICATE"}
    OBVIOUS
  <2>2. hooks \in [Intents -> [WebhookEvents -> Values]]
    BY <2>1 DEF IndInv, Types
  <2>3. PICK v \in Values : hooks' = [hooks EXCEPT ![i][e] = v]
    <3>1. \A ok : (IF ok THEN "PROCESSED" ELSE "FAILED") \in Values
      BY <2>1
    <3> QED
      BY <1>7, <2>1, <3>1
  <2>4. [hooks[i] EXCEPT ![e] = v] \in [WebhookEvents -> Values]
    BY <2>2
  <2> QED
    BY <2>1, <2>2, <2>3, <2>4
<1>9. CASE /\ hooks' = [hooks EXCEPT ![i][e] = "DUPLICATE"]
           /\ UNCHANGED <<claim, intents, books>>
  <2>1. PICK r : r = Outcome(intents[i], claim, books, TRUE)
    OBVIOUS
  <2>2. r.row = intents[i] /\ r.claim = claim /\ r.books = books
    BY <2>1 DEF Outcome
  <2>3. Good(i, r)
    <3>1. Quiet => /\ intents[i].status \in {"PENDING", "PROCESSING", "COMPLETED"}
                   /\ intents[i].status = "COMPLETED" => claim.status = "PAID"
                   /\ claim.marked => claim.status = "PAID"
      BY <1>6 DEF IndInv, Single
    <3>2. OneTransfer => Agree(intents[i], claim, books)
      BY OneIntent DEF IndInv, OneTransfer
    <3> QED
      BY <1>6, <2>2, <3>1, <3>2 DEF Good, IndInv, Types, Rows
  <2>4. intents' = [intents EXCEPT ![i] = r.row]
    BY <1>9, <2>2 DEF IndInv, Types
  <2> QED
    BY <1>6, <1>7, <1>8, <1>9, <2>2, <2>3, <2>4, Applies
<1>10. ASSUME NEW r \in Handled(e, intents[i], t.was.status),
              intents' = [intents EXCEPT ![i] = r.row], claim' = r.claim, books' = r.books
       PROVE  IndInv'
  <2>1. gateway[i] # "NONE"
    BY <1>6 DEF Holds, Moved, WebhookEvents
  <2>2. WorksOn(i, intents[i], t.was.status)
    BY <1>6, <2>1 DEF WorksOn
  <2>3. Good(i, r)
    BY <1>6, <1>10, <2>2, HandledGood
  <2> QED
    BY <1>6, <1>7, <1>8, <1>10, <2>3, Applies
<1> QED
  BY <1>7, <1>9, <1>10

LEMMA CommitTransferInd ==
  ASSUME IndInv, NEW w \in scenario.sessions, UNCHANGED scenario, CommitTransfer(w)
  PROVE  IndInv'
<1>1. PICK t : t = txn[w]
  OBVIOUS
<1>2. t # Idle /\ t.op = "initiate" /\ t.answer # NULL
  BY <1>1 DEF CommitTransfer, Running
<1>3. /\ Fits(t) /\ t.intent \in Intents /\ t.was \in IntentRow /\ t.was.status = "PENDING"
      /\ t.answer \in {"pending", "success", "failed", "reversed"}
  BY <1>1, <1>2, Runs DEF Fits, Sought
<1>4. t.was # NULL
  BY <1>3, RowsAreNotNull DEF IndInv
<1>5. PICK i \in Intents : i = t.intent
  BY <1>3
<1>6. /\ intents[i] \in IntentRow /\ intents[i] # NULL /\ Holds(i, t.answer) /\ i \in Created
      /\ Alone => intents[i].status = "PENDING"
  BY <1>1, <1>2, <1>3, <1>4, <1>5, Runs, RowsAreNotNull DEF Fits, IndInv, Created
<1>7. gateway[i] # "NONE"
  BY <1>3, <1>6 DEF Holds, Moved
<1>8. PICK row : row = [intents[i] EXCEPT !.code = TRUE]
  OBVIOUS
<1>9. row \in IntentRow /\ row.due = intents[i].due /\ row.status = intents[i].status
  BY <1>6, <1>8 DEF IntentRow, PolledUpTo
<1>10. PICK r : /\ \/ t.answer = "success" /\ r \in Succeeded(row, "PROCESSING", FALSE)
                   \/ /\ t.answer = "failed"
                      /\ r = Outcome([row EXCEPT !.status = "FAILED"], claim, books, TRUE)
                   \/ /\ t.answer \notin {"success", "failed"}
                      /\ r = Outcome([row EXCEPT !.status = "PROCESSING"], claim, books, TRUE)
                /\ txn' = [txn EXCEPT ![w] = Idle]
                /\ intents' = [intents EXCEPT ![i] = r.row]
                /\ claim' = r.claim /\ books' = r.books
  <2>1. CASE t.answer = "success"
    BY <1>1, <1>5, <1>8, <2>1 DEF CommitTransfer, Apply, End
  <2>2. CASE t.answer = "failed"
    BY <1>1, <1>5, <1>8, <2>2 DEF CommitTransfer, Apply, End
  <2>3. CASE t.answer \notin {"success", "failed"}
    BY <1>1, <1>5, <1>8, <2>3 DEF CommitTransfer, Apply, End
  <2> QED
    BY <2>1, <2>2, <2>3
<1>11. UNCHANGED <<gateway, hooks>>
  BY DEF CommitTransfer
<1>12. Good(i, r)
  <2>1. CASE t.answer = "success"
    <3>1. WorksOn(i, row, "PROCESSING") /\ Moved(i)
      BY <1>6, <1>7, <1>9, <2>1 DEF WorksOn, ActiveStatus, Holds
    <3> QED
      BY <1>10, <2>1, <3>1, SucceededGood
  <2>2. CASE t.answer # "success"
    <3>1. PICK s \in {"FAILED", "PROCESSING"} :
            /\ r.row = [row EXCEPT !.status = s] /\ r.claim = claim /\ r.books = books
            /\ s = "FAILED" => t.answer = "failed"
      <4>1. CASE r = Outcome([row EXCEPT !.status = "FAILED"], claim, books, TRUE)
                 /\ t.answer = "failed"
        BY <4>1 DEF Outcome
      <4>2. CASE r = Outcome([row EXCEPT !.status = "PROCESSING"], claim, books, TRUE)
        BY <4>2 DEF Outcome
      <4> QED
        BY <1>10, <2>2, <4>1, <4>2
    <3>2. r.row \in IntentRow /\ r.row.status = s /\ r.row.due = intents[i].due
      BY <1>9, <3>1 DEF IntentRow, PolledUpTo
    <3>3. Quiet => s \in ActiveStatus
      BY <1>6, <3>1 DEF IndInv, Rows, Holds, Quiet, May, ActiveStatus
    <3> QED
      BY <1>6, <1>7, <3>1, <3>2, <3>3, StatusGood DEF OneTransfer, ActiveStatus
  <2> QED
    BY <2>1, <2>2
<1>13. hooks' \in [Intents -> [WebhookEvents -> {"NONE", "PROCESSED", "FAILED", "DUPLICATE"}]]
  BY <1>11 DEF IndInv, Types
<1> QED
  BY <1>6, <1>10, <1>11, <1>12, <1>13, Applies

LEMMA ApplyPollInd ==
  ASSUME IndInv, NEW w \in scenario.sessions, UNCHANGED scenario, ApplyPoll(w)
  PROVE  IndInv'
<1>1. PICK t : t = txn[w]
  OBVIOUS
<1>2. t # Idle /\ t.op = "poll" /\ t.answer # NULL
  BY <1>1 DEF ApplyPoll, Running
<1>3. /\ Fits(t) /\ t.intent \in Intents /\ t.was \in IntentRow
      /\ t.was.status \in ActiveStatus /\ t.was.polls < scenario.polls
      /\ t.answer \in {"error", "pending", "success", "failed", "reversed"}
      /\ t.answer = "error" => May("pollError")
  BY <1>1, <1>2, Runs DEF Fits, Sought
<1>4. t.was # NULL
  BY <1>3, RowsAreNotNull DEF IndInv
<1>5. PICK i \in Intents : i = t.intent
  BY <1>3
<1>6. /\ intents[i] \in IntentRow /\ intents[i] # NULL /\ Holds(i, t.answer) /\ i \in Created
      /\ gateway[i] # "NONE"
      /\ Alone => intents[i].status = t.was.status
  BY <1>1, <1>2, <1>3, <1>4, <1>5, Runs, RowsAreNotNull DEF Fits, IndInv, Created
<1>7. PICK row : row = [intents[i] EXCEPT !.polls = t.was.polls + 1]
  OBVIOUS
<1>8. row \in IntentRow /\ row.due = intents[i].due /\ row.status = intents[i].status
  <2>1. scenario.polls \in Nat /\ t.was.polls + 1 \in 0 .. scenario.polls
    BY <1>3, TransfersAssumption DEF IndInv, Types, IntentRow, PolledUpTo
  <2> QED
    BY <1>6, <1>7, <2>1 DEF IntentRow, PolledUpTo
<1>9. PICK r \in Polled(row, t.was.status, t.answer) :
        /\ txn' = [txn EXCEPT ![w] = Idle]
        /\ intents' = [intents EXCEPT ![i] = r.row]
        /\ claim' = r.claim /\ books' = r.books
  BY <1>1, <1>5, <1>7 DEF ApplyPoll, Apply, End
<1>10. UNCHANGED <<gateway, hooks>>
  BY DEF ApplyPoll
<1>11. Good(i, r)
  <2>1. CASE t.answer \in WebhookEvents
    <3>1. r \in Handled(t.answer, row, "PROCESSING")
      BY <1>9, <2>1 DEF Polled, WebhookEvents
    <3>2. WorksOn(i, row, "PROCESSING")
      BY <1>3, <1>6, <1>8 DEF WorksOn
    <3> QED
      BY <1>6, <2>1, <3>1, <3>2, HandledGood
  <2>2. CASE t.answer \in {"pending", "error"}
    <3>1. PICK s \in {"FAILED", "PROCESSING"} :
            /\ r = Outcome([row EXCEPT !.status = Written(t.was.status, s, row.status)],
                           claim, books, TRUE)
            /\ s = "FAILED" => t.answer = "error"
      <4>1. CASE t.answer = "pending"
        BY <1>9, <4>1 DEF Polled
      <4>2. CASE t.answer = "error"
        BY <1>9, <4>2 DEF Polled
      <4> QED
        BY <2>2, <4>1, <4>2
    <3>2. PICK z : z = Written(t.was.status, s, row.status)
      OBVIOUS
    <3>3. /\ z = s \/ (z = row.status /\ s = t.was.status)
          /\ r.row = [row EXCEPT !.status = z] /\ r.claim = claim /\ r.books = books
      BY <3>1, <3>2 DEF Written, Outcome
    <3>4. r.row \in IntentRow /\ r.row.status = z /\ r.row.due = intents[i].due
      BY <1>8, <3>3 DEF IntentRow, PolledUpTo
    <3>5. Quiet => s = "PROCESSING"
      BY <1>3, <3>1 DEF Quiet, May
    <3>6. Alone => intents[i].status \in ActiveStatus
      BY <1>3, <1>6
    <3>7. Alone => z = s
      BY <1>6, <1>8, <3>3
    <3> QED
      BY <1>6, <1>8, <3>3, <3>4, <3>5, <3>6, <3>7, StatusGood
      DEF OneTransfer, Quiet, ActiveStatus
  <2> QED
    BY <1>3, <2>1, <2>2 DEF WebhookEvents
<1>12. hooks' \in [Intents -> [WebhookEvents -> {"NONE", "PROCESSED", "FAILED", "DUPLICATE"}]]
  BY <1>10 DEF IndInv, Types
<1> QED
  BY <1>6, <1>9, <1>10, <1>11, <1>12, Applies

\* A session writes the status s of intent i and ends.
LEMMA WritesStatus ==
  ASSUME IndInv, NEW w \in scenario.sessions, txn' = [txn EXCEPT ![w] = Idle],
         UNCHANGED <<scenario, claim, gateway, hooks, books>>,
         NEW i \in Created, NEW s, intents' = [intents EXCEPT ![i].status = s],
         s \in {"EXPIRED", "ABANDONED"} \/ s = intents[i].status,
         Alone => intents[i].status # "COMPLETED",
         ~Quiet
  PROVE  IndInv'
<1>1. i \in Intents /\ intents[i] \in IntentRow
  BY DEF Created, IndInv, Types
<1>2. PICK r : r = Outcome([intents[i] EXCEPT !.status = s], claim, books, TRUE)
  OBVIOUS
<1>3. r.row = [intents[i] EXCEPT !.status = s] /\ r.claim = claim /\ r.books = books
  BY <1>2 DEF Outcome
<1>4. /\ r.row \in IntentRow /\ r.row.status = s
      /\ r.row.due = intents[i].due /\ r.row.code = intents[i].code
  BY <1>1, <1>3 DEF IntentRow, PolledUpTo
<1>5. r.row.code => gateway[i] # "NONE"
  BY <1>1, <1>4, RowsAreNotNull DEF IndInv, Rows
<1>6. Good(i, r)
  BY <1>1, <1>3, <1>4, <1>5, StatusGood DEF ActiveStatus
<1>7. intents' = [intents EXCEPT ![i] = r.row]
  BY <1>1, <1>3
<1>8. hooks' \in [Intents -> [WebhookEvents -> {"NONE", "PROCESSED", "FAILED", "DUPLICATE"}]]
  BY DEF IndInv, Types
<1> QED
  BY <1>3, <1>6, <1>7, <1>8, Applies

LEMMA ExpireStaleInd ==
  ASSUME IndInv, NEW w \in scenario.sessions, UNCHANGED scenario, ExpireStale(w)
  PROVE  IndInv'
<1>1. PICK t : t = txn[w]
  OBVIOUS
<1>2. t # Idle /\ t.op = "expire"
  BY <1>1 DEF ExpireStale, Running
<1>3. Fits(t) /\ t.was \in IntentRow /\ t.was.status = "PENDING" /\ t.was.due
  BY <1>1, <1>2, Runs DEF Fits, Sought
<1>4. t.was # NULL
  BY <1>3, RowsAreNotNull DEF IndInv
<1>5. /\ t.intent \in Created /\ ~Quiet
      /\ Alone => intents[t.intent].status = "PENDING"
  BY <1>1, <1>2, <1>3, <1>4, Runs DEF Fits, Created, Quiet, May
<1>6. /\ txn' = [txn EXCEPT ![w] = Idle] /\ UNCHANGED <<claim, gateway, hooks, books>>
      /\ intents' = [intents EXCEPT ![t.intent].status = "EXPIRED"]
  BY <1>1 DEF ExpireStale, End
<1> QED
  BY <1>5, <1>6, WritesStatus

LEMMA ResetIntentInd ==
  ASSUME IndInv, NEW w \in scenario.sessions, UNCHANGED scenario, ResetIntent(w)
  PROVE  IndInv'
<1>1. PICK t : t = txn[w]
  OBVIOUS
<1>2. t # Idle /\ t.op = "reset"
  BY <1>1 DEF ResetIntent, Running
<1>3. /\ Fits(t) /\ t.was \in IntentRow
      /\ \/ t.was.status \in {"ABANDONED", "FAILED", "EXPIRED"}
         \/ May("force") /\ t.was.status \in ActiveStatus
  BY <1>1, <1>2, Runs DEF Fits, Sought
<1>4. t.was # NULL
  BY <1>3, RowsAreNotNull DEF IndInv
<1>5. /\ t.intent \in Intents /\ t.intent \in Created
      /\ Alone => intents[t.intent].status = t.was.status
  BY <1>1, <1>2, <1>3, <1>4, Runs DEF Fits, Created
<1>6. ~Quiet
  <2>1. ASSUME Quiet
        PROVE  FALSE
    <3>1. ~May("force") /\ Alone
      BY <2>1 DEF Quiet, May
    <3>2. intents[t.intent].status \in {"PENDING", "PROCESSING", "COMPLETED"}
      BY <1>5, <2>1 DEF IndInv, Single, Created
    <3> QED
      BY <1>3, <1>5, <3>1, <3>2
  <2> QED
    BY <2>1
<1>7. Alone => intents[t.intent].status # "COMPLETED"
  BY <1>3, <1>5 DEF ActiveStatus
<1>8. PICK s : s = Written(t.was.status, "ABANDONED", intents[t.intent].status)
  OBVIOUS
<1>9. s = "ABANDONED" \/ s = intents[t.intent].status
  BY <1>8 DEF Written
<1>10. /\ txn' = [txn EXCEPT ![w] = Idle] /\ UNCHANGED <<claim, gateway, hooks, books>>
       /\ intents' = [intents EXCEPT ![t.intent].status = s]
  BY <1>1, <1>8 DEF ResetIntent, End
<1> QED
  BY <1>5, <1>6, <1>7, <1>9, <1>10, WritesStatus

LEMMA LoadPendingInd ==
  ASSUME IndInv, NEW w \in scenario.sessions, UNCHANGED scenario, NEW i \in Intents,
         LoadPending(w, i)
  PROVE  IndInv'
<1>1. /\ i \in Created /\ intents[i] \in IntentRow /\ intents[i] # NULL
      /\ intents[i].status = "PENDING"
  BY DEF LoadPending, IndInv, Types, Created
<1>2. CASE intents[i].due
  <2>1. /\ txn[w] = Idle /\ intents' = [intents EXCEPT ![i].status = "EXPIRED"]
        /\ UNCHANGED <<txn, claim, gateway, hooks, books>>
    BY <1>2 DEF LoadPending
  <2>2. txn' = [txn EXCEPT ![w] = Idle]
    <3>1. w \in Workers /\ txn = [v \in Workers |-> txn[v]]
      BY TransfersAssumption DEF IndInv, Types
    <3> QED
      BY <2>1, <3>1
  <2>3. ~Quiet
    BY <1>1, <1>2 DEF IndInv, Rows, Quiet, May
  <2> QED
    BY <1>1, <2>1, <2>2, <2>3, WritesStatus
<1>3. CASE ~intents[i].due
  <2>1. Load(w, "initiate", i, NULL)
    BY <1>3 DEF LoadPending
  <2>2. Sought([op |-> "initiate", intent |-> i, was |-> intents[i], answer |-> NULL])
    BY <1>1 DEF Sought
  <2> QED
    BY <2>1, <2>2, NothingKnown, LoadInd DEF Answers
<1> QED
  BY <1>2, <1>3

-----------------------------------------------------------------------------
(* Creating an intent; the user, the gateway and the clock. *)

LEMMA CreatedIsFinite == Types => IsFiniteSet(Created) /\ Cardinality(Created) \in Nat
<1> SUFFICES ASSUME Types
             PROVE  IsFiniteSet(Created) /\ Cardinality(Created) \in Nat
  OBVIOUS
<1>1. scenario.intents \in Nat
  BY TransfersAssumption DEF Types
<1>2. IsFiniteSet(Intents)
  BY <1>1, FS_Interval DEF Intents
<1>3. IsFiniteSet(Created)
  BY <1>2, FS_Subset DEF Created
<1> QED
  BY <1>3, FS_CardinalityType

\* Every session still fits when no session moves.
LEMMA OthersFit ==
  ASSUME Fit, UNCHANGED <<txn, scenario>>, GatewayGoesOn,
         \A i \in Intents : intents[i] # NULL => intents'[i] # NULL
  PROVE  Fit'
<1>1. ASSUME NEW v \in Workers, txn[v] # Idle
      PROVE  Fits(txn[v])'
  <2>1. PICK u : u = txn[v]
    OBVIOUS
  <2>2. txn'[v] = u /\ Fits(u)
    BY <1>1, <2>1 DEF Fit
  <2>3. Fits(u)'
    BY <2>2, FitsStay
  <2> QED
    BY <2>2, <2>3
<1> QED
  BY <1>1 DEF Fit

LEMMA CreateIntentInd ==
  ASSUME IndInv, NEW w \in scenario.sessions, UNCHANGED scenario, CreateIntent(w)
  PROVE  IndInv'
<1>1. PICK t : t = txn[w]
  OBVIOUS
<1>2. t # Idle /\ t.op = "create"
  BY <1>1 DEF CreateIntent, Running
<1>3. /\ Fits(t) /\ t.intent \in Intents
      /\ t.answer = "expired" => t.was \in IntentRow /\ t.was.due
  BY <1>1, <1>2, Runs DEF Fits, Sought
<1>4. PICK j \in Intents : j = t.intent
  BY <1>3
<1>5. t.answer = "expired" => intents[j] # NULL /\ intents[j] \in IntentRow /\ May("expiry")
  BY <1>3, <1>4, RowsAreNotNull DEF Fits, IndInv, Types
<1>6. PICK i \in Intents :
        /\ i = Cardinality(Created) + 1
        /\ intents' = [[intents EXCEPT ![i] = NewIntent] EXCEPT
                         ![j] = IF t.answer = "expired" THEN [@ EXCEPT !.status = "EXPIRED"]
                                ELSE @]
  BY <1>1, <1>4 DEF CreateIntent
<1>7. /\ UNCHANGED <<claim, gateway, hooks, books>> /\ claim.status = "APPROVED"
      /\ txn' = [txn EXCEPT ![w] = Idle]
  BY DEF CreateIntent, End
<1>8. /\ NewIntent \in IntentRow /\ NewIntent # NULL
      /\ NewIntent.status = "PENDING" /\ ~NewIntent.code /\ ~NewIntent.due
  <2>1. scenario.polls \in Nat
    BY TransfersAssumption DEF IndInv, Types
  <2>2. 0 \in 0 .. scenario.polls
    BY <2>1
  <2>3. NewIntent \in IntentRow
    BY <2>2 DEF NewIntent, IntentRow, PolledUpTo
  <2>4. NewIntent.status = "PENDING" /\ ~NewIntent.code /\ ~NewIntent.due
    BY DEF NewIntent
  <2> QED
    BY <2>3, <2>4, RowsAreNotNull DEF IndInv
<1>9. PICK f : f = [intents EXCEPT ![i] = NewIntent]
  OBVIOUS
<1>10. /\ f \in [Intents -> {NULL} \cup IntentRow] /\ f[i] = NewIntent
       /\ \A k \in Intents : k # i => f[k] = intents[k]
       /\ t.answer = "expired" => f[j] \in IntentRow
  BY <1>5, <1>8, <1>9 DEF IndInv, Types
<1>11. PICK x : x = IF t.answer = "expired" THEN [f[j] EXCEPT !.status = "EXPIRED"] ELSE f[j]
  OBVIOUS
<1>12. /\ t.answer = "expired" =>
             x \in IntentRow /\ x.status = "EXPIRED" /\ x.due = f[j].due /\ x.code = f[j].code
       /\ t.answer # "expired" => x = f[j]
  BY <1>10, <1>11 DEF IntentRow, PolledUpTo
<1>13. intents' = [f EXCEPT ![j] = x]
  BY <1>6, <1>9, <1>11
<1>14. /\ intents' \in [Intents -> {NULL} \cup IntentRow] /\ intents'[j] = x
       /\ \A k \in Intents : k # j => intents'[k] = f[k]
  BY <1>10, <1>12, <1>13
<1>15. /\ w \in Workers
       /\ txn' = [v \in Workers |-> txn'[v]] /\ txn'[w] = Idle
       /\ \A v \in Workers : v # w => txn'[v] = txn[v]
       /\ \A v \in Workers \ scenario.sessions : txn'[v] = Idle
       /\ Alone => \A v \in Workers : txn'[v] = Idle
  BY <1>7, GoesOn DEF IndInv
<1>16. Intents' = Intents /\ NULL \notin IntentRow
  BY RowsAreNotNull DEF Intents, IndInv
<1>17. Types'
  BY <1>7, <1>14, <1>15, <1>16 DEF IndInv, Types, IntentRow
<1>18. Rows'
  <2>1. \A k \in Intents : f[k] # NULL =>
          /\ f[k].due => May("expiry")
          /\ f[k].code => gateway[k] # "NONE"
          /\ f[k].status = "COMPLETED" => Moved(k)
    BY <1>8, <1>10 DEF IndInv, Rows
  <2>2. \A k \in Intents : intents'[k] # NULL =>
          /\ intents'[k].due => May("expiry")
          /\ intents'[k].code => gateway[k] # "NONE"
          /\ intents'[k].status = "COMPLETED" => Moved(k)
    BY <1>10, <1>12, <1>14, <1>16, <2>1
  <2> QED
    BY <1>7, <1>16, <2>2 DEF IndInv, Rows, May, Moved
<1>19. Fit'
  <2>1. GatewayGoesOn
    BY <1>7 DEF GatewayGoesOn
  <2>2. \A k \in Intents : intents[k] # NULL => intents'[k] # NULL
    BY <1>8, <1>10, <1>12, <1>14, <1>16
  <2>3. ASSUME NEW v \in Workers, txn'[v] # Idle
        PROVE  Fits(txn[v])'
    <3>1. PICK u : u = txn[v]
      OBVIOUS
    <3>2. txn'[v] = u /\ u # Idle /\ Fits(u)
      BY <1>15, <2>3, <3>1 DEF IndInv, Fit
    <3>3. Fits(u)'
      BY <2>1, <2>2, <3>2, FitsStay
    <3> QED
      BY <3>2, <3>3
  <2> QED
    BY <2>3 DEF Fit
<1>20. (Alone => Unchanged)'
  BY <1>15 DEF Alone, Unchanged
<1>21. (NoManual => Backed)'
  BY <1>7 DEF Backed
<1>22. ASSUME Quiet \/ OneTransfer
       PROVE  i = 1 /\ (\A k \in Intents : intents[k] = NULL) /\ intents' = f
  <2>1. t.answer # "expired"
    BY <1>5, <1>22 DEF Quiet, OneTransfer, May
  <2>2. intents' = f
    BY <1>10, <1>12, <1>13, <2>1
  <2>3. Created = {}
    <3>1. CASE Quiet
      <4>1. Active = {}
        BY <1>1, <1>2, <1>15, <3>1 DEF IndInv, Single
      <4>2. \A k \in Created : FALSE
        BY <1>7, <3>1, <4>1 DEF IndInv, Single, Active, Created
      <4> QED
        BY <4>2
    <3>2. CASE OneTransfer
      <4>1. i = 1
        BY <3>2, OneIntent DEF IndInv, OneTransfer
      <4>2. Cardinality(Created) = 0
        BY <1>6, <4>1, CreatedIsFinite DEF IndInv
      <4> QED
        BY <4>2, CreatedIsFinite, FS_EmptySet DEF IndInv
    <3> QED
      BY <1>22, <3>1, <3>2
  <2>4. i = 1
    BY <1>6, <2>3, FS_EmptySet
  <2> QED
    BY <2>2, <2>3, <2>4 DEF Created
<1>23. (Quiet => Single)'
  <2> SUFFICES ASSUME Quiet
               PROVE  Single'
    BY DEF Quiet, Alone
  <2>1. \A v \in Workers : txn'[v] = Idle
    BY <1>15 DEF Quiet
  <2> QED
    BY <1>7, <1>8, <1>10, <1>16, <1>22, <2>1 DEF IndInv, Single
<1>24. (OneTransfer => Agree(intents[1], claim, books))'
  <2> SUFFICES ASSUME OneTransfer
               PROVE  Agree(intents'[1], claim, books)
    BY <1>7 DEF OneTransfer, Alone
  <2>1. i = 1 /\ intents[1] = NULL /\ intents'[1] = NewIntent
    BY <1>10, <1>22
  <2> QED
    BY <1>8, <2>1 DEF IndInv, Agree
<1> QED
  BY <1>17, <1>18, <1>19, <1>20, <1>21, <1>23, <1>24 DEF IndInv

LEMMA PayManuallyInd ==
  ASSUME IndInv, NEW w \in scenario.sessions, UNCHANGED scenario, PayManually(w)
  PROVE  IndInv'
<1>1. /\ May("manual") /\ claim' = MarkPaid(claim)
      /\ UNCHANGED <<txn, intents, gateway, hooks, books>>
  BY DEF PayManually
<1>2. claim' \in ClaimRow
  BY <1>1, MarkPaidIs DEF IndInv, Types
<1>3. Types' /\ Rows'
  BY <1>1, <1>2
  DEF IndInv, Types, Rows, Intents, IntentRow, WebhookEvents, May, Moved
<1>4. Fit'
  BY <1>1, OthersFit DEF IndInv, GatewayGoesOn
<1>5. (Alone => Unchanged)'
  BY <1>1 DEF IndInv, Alone, Unchanged
<1>6. ~NoManual' /\ ~Quiet' /\ ~OneTransfer'
  BY <1>1 DEF NoManual, Quiet, OneTransfer, May
<1> QED
  BY <1>3, <1>4, <1>5, <1>6 DEF IndInv

LEMMA SettleInd ==
  ASSUME IndInv, UNCHANGED scenario, NEW i \in Intents, Settle(i)
  PROVE  IndInv'
<1>1. UNCHANGED <<txn, claim, intents, hooks, books>>
  BY DEF Settle
<1>2. PICK s \in TransferStates :
        /\ gateway' = [gateway EXCEPT ![i] = s]
        /\ \/ /\ gateway[i] = "pending" /\ s \in {"success", "failed"}
              /\ s = "failed" => May("failure")
           \/ gateway[i] = "success" /\ s = "reversed" /\ May("reversal")
  BY DEF Settle, Outcomes, TransferStates
<1>3. /\ gateway' \in [Intents -> TransferStates] /\ gateway'[i] = s
      /\ \A k \in Intents : k # i => gateway'[k] = gateway[k]
  BY <1>2 DEF IndInv, Types
<1>4. GatewayGoesOn
  BY <1>2, <1>3 DEF GatewayGoesOn
<1>5. Types' /\ Rows'
  <2>1. Types'
    BY <1>1, <1>3 DEF IndInv, Types, Intents, IntentRow, WebhookEvents
  <2>2. \A k \in Intents : /\ gateway'[k] = "failed" => May("failure")
                           /\ gateway'[k] = "reversed" => May("reversal")
    BY <1>2, <1>3 DEF IndInv, Rows
  <2>3. Rows'
    BY <1>1, <1>4, <2>2 DEF IndInv, Rows, Intents, May, Moved, GatewayGoesOn
  <2> QED
    BY <2>1, <2>3
<1>6. Fit'
  BY <1>1, <1>4, OthersFit DEF IndInv
<1>7. (Alone => Unchanged)'
  BY <1>1 DEF IndInv, Alone, Unchanged
<1>8. (NoManual => Backed)'
  BY <1>1 DEF IndInv, NoManual, Alone, May, Backed, Having, Created, Intents
<1>9. (Quiet => Single)'
  BY <1>1, <1>2, <1>3 DEF IndInv, Quiet, Alone, Single, Active, Created, Intents
<1>10. (OneTransfer => Agree(intents[1], claim, books))'
  BY <1>1 DEF IndInv, OneTransfer, Alone
<1> QED
  BY <1>5, <1>6, <1>7, <1>8, <1>9, <1>10 DEF IndInv

LEMMA ExpireInd ==
  ASSUME IndInv, UNCHANGED scenario, NEW i \in Intents, Expire(i)
  PROVE  IndInv'
<1>1. /\ UNCHANGED <<txn, claim, gateway, hooks, books>> /\ May("expiry") /\ i \in Created
      /\ intents' = [intents EXCEPT ![i].due = TRUE]
  BY DEF Expire, Active
<1>2. intents[i] \in IntentRow /\ intents[i] # NULL
  BY <1>1 DEF IndInv, Types, Created
<1>3. PICK x : x = [intents[i] EXCEPT !.due = TRUE]
  OBVIOUS
<1>4. x \in IntentRow /\ x.status = intents[i].status /\ x.code = intents[i].code
  BY <1>2, <1>3 DEF IntentRow, PolledUpTo
<1>5. x # NULL
  BY <1>4, RowsAreNotNull DEF IndInv
<1>6. /\ intents' \in [Intents -> {NULL} \cup IntentRow] /\ intents'[i] = x
      /\ \A k \in Intents : k # i => intents'[k] = intents[k]
  BY <1>1, <1>3, <1>4 DEF IndInv, Types
<1>7. Intents' = Intents
  BY DEF Intents
<1>8. Types'
  BY <1>1, <1>6, <1>7 DEF IndInv, Types, IntentRow, WebhookEvents
<1>9. Rows'
  BY <1>1, <1>2, <1>4, <1>6, <1>7 DEF IndInv, Rows, May, Moved
<1>10. Fit'
  <2>1. \A k \in Intents : intents[k] # NULL => intents'[k] # NULL
    BY <1>5, <1>6
  <2> QED
    BY <1>1, <2>1, OthersFit DEF IndInv, GatewayGoesOn
<1>11. (Alone => Unchanged)'
  <2>1. \A k \in Intents : intents'[k].status = intents[k].status
    BY <1>4, <1>6
  <2>2. \A v \in Workers : txn[v] # Idle => txn[v].intent \in Intents
    BY DEF IndInv, Fit, Fits, Session
  <2> QED
    BY <1>1, <2>1, <2>2 DEF IndInv, Alone, Unchanged
<1>12. (NoManual => Backed)'
  <2> SUFFICES ASSUME NoManual, claim.status = "PAID"
               PROVE  Having({"COMPLETED"})' # {}
    BY <1>1 DEF NoManual, Alone, May, Backed
  <2>1. PICK k : k \in Having({"COMPLETED"})
    BY DEF IndInv, Backed
  <2>2. k \in Having({"COMPLETED"})'
    BY <1>4, <1>5, <1>6, <1>7, <2>1 DEF Having, Created
  <2> QED
    BY <2>2
<1>13. ~Quiet' /\ ~OneTransfer'
  BY <1>1 DEF Quiet, OneTransfer, May
<1> QED
  BY <1>8, <1>9, <1>10, <1>11, <1>12, <1>13 DEF IndInv

-----------------------------------------------------------------------------
(* The invariant. *)

LEMMA InitInd == Init => IndInv
<1> SUFFICES ASSUME Init
             PROVE  IndInv
  OBVIOUS
<1>1. /\ \A w \in Workers : txn[w] = Idle
      /\ txn = [w \in Workers |-> txn[w]]
  BY DEF Init, SessionsInit
<1>2. \A i \in Intents : intents[i] = NULL /\ gateway[i] = "NONE"
  BY DEF Init
<1>3. Types
  <2>1. claim \in ClaimRow /\ books \in Entries
    BY DEF Init, ClaimRow, Entries
  <2>2. /\ intents \in [Intents -> {NULL} \cup IntentRow]
        /\ gateway \in [Intents -> TransferStates]
    BY DEF Init, TransferStates
  <2>3. hooks \in [Intents -> [WebhookEvents -> {"NONE", "PROCESSED", "FAILED", "DUPLICATE"}]]
    BY DEF Init
  <2>4. scenario \in Scenarios
    BY DEF Init
  <2> QED
    BY <1>1, <2>1, <2>2, <2>3, <2>4 DEF Types
<1>4. Rows
  BY <1>2 DEF Rows
<1>5. Fit /\ Unchanged
  BY <1>1 DEF Fit, Unchanged
<1>6. claim.status = "APPROVED" /\ ~claim.marked
  BY DEF Init
<1>7. Backed
  BY <1>6 DEF Backed
<1>8. Single
  BY <1>1, <1>2, <1>6 DEF Single
<1>9. OneTransfer => Agree(intents[1], claim, books)
  BY <1>2, <1>3, <1>6, OneIntent DEF Init, Agree
<1> QED
  BY <1>3, <1>4, <1>5, <1>7, <1>8, <1>9 DEF IndInv

LEMMA SessionInd ==
  ASSUME IndInv, UNCHANGED scenario, NEW w \in scenario.sessions, TransferOperation(w)
  PROVE  IndInv'
<1>1. CASE FindActive(w)
  BY <1>1, FindActiveInd
<1>2. CASE CreateIntent(w)
  BY <1>2, CreateIntentInd
<1>3. CASE SendTransfer(w)
  BY <1>3, SendTransferInd
<1>4. CASE CommitTransfer(w)
  BY <1>4, CommitTransferInd
<1>5. CASE ProcessWebhook(w)
  BY <1>5, ProcessWebhookInd
<1>6. CASE ExpireStale(w)
  BY <1>6, ExpireStaleInd
<1>7. CASE Verify(w)
  BY <1>7, VerifyInd
<1>8. CASE ApplyPoll(w)
  BY <1>8, ApplyPollInd
<1>9. CASE ResetIntent(w)
  BY <1>9, ResetIntentInd
<1>10. CASE PayManually(w)
  BY <1>10, PayManuallyInd
<1>11. CASE Rollback(w)
  BY <1>11, RollbackInd
<1>12. ASSUME NEW i \in Intents,
              LoadPending(w, i) \/ ReceiveWebhook(w, i) \/ FindStale(w, i)
                \/ FindStuck(w, i) \/ FindLatest(w, i)
       PROVE  IndInv'
  BY <1>12, LoadPendingInd, ReceiveWebhookInd, FindStaleInd, FindStuckInd, FindLatestInd
<1> QED
  BY <1>1, <1>2, <1>3, <1>4, <1>5, <1>6, <1>7, <1>8, <1>9, <1>10, <1>11, <1>12
  DEF TransferOperation

LEMMA StutterInd == IndInv /\ UNCHANGED vars => IndInv'
<1> SUFFICES ASSUME IndInv, UNCHANGED vars
             PROVE  IndInv'
  OBVIOUS
<1>1. UNCHANGED <<txn, scenario, claim, intents, gateway, hooks, books>>
  BY DEF vars
<1>2. Types' /\ Rows'
  BY <1>1 DEF IndInv, Types, Rows, Intents, IntentRow, WebhookEvents, May, Moved
<1>3. Fit'
  BY <1>1, OthersFit DEF IndInv, GatewayGoesOn
<1>4. (Alone => Unchanged)'
  BY <1>1 DEF IndInv, Alone, Unchanged
<1>5. (NoManual => Backed)'
  BY <1>1 DEF IndInv, NoManual, Alone, May, Backed, Having, Created, Intents
<1>6. (Quiet => Single)'
  BY <1>1 DEF IndInv, Quiet, Alone, Single, Active, Created, Intents
<1>7. (OneTransfer => Agree(intents[1], claim, books))'
  BY <1>1 DEF IndInv, OneTransfer, Alone
<1> QED
  BY <1>2, <1>3, <1>4, <1>5, <1>6, <1>7 DEF IndInv

\* The invariant holds in every reachable state, for any number of sessions and
\* intents and in every scenario.
THEOREM Inductive == Spec => []IndInv
<1>1. IndInv /\ [Next]_vars => IndInv'
  BY SessionInd, SettleInd, ExpireInd, StutterInd DEF Next
<1> QED
  BY <1>1, InitInd, PTL DEF Spec

-----------------------------------------------------------------------------
(* The properties. *)

\* The rows, the stored webhooks and the sessions have the values of the code, and no
\* transfer is polled more often than MAX_POLL_ATTEMPTS allows.
THEOREM TypesHold == Spec => []TypeOK
<1>1. IndInv => TypeOK
  <2> SUFFICES ASSUME IndInv
               PROVE  TypeOK
    OBVIOUS
  <2>1. txn \in [Workers -> {Idle} \cup Session]
    BY DEF IndInv, Types, Fit, Fits
  <2> QED
    BY <2>1 DEF IndInv, Types, TypeOK, Session, Answers, ClaimRow, Entries
<1> QED
  BY <1>1, Inductive, PTL

\* The employee is reimbursed once when a single session works and answers get lost or
\* the ledger refuses (create_expense_payment_intent, initiate_expense_transfer):
\* repeated initiations, webhooks and polls move the money of one transfer at most.
THEOREM ReimbursedOnce == Spec => []PaidOnce
<1>1. IndInv => PaidOnce
  <2> SUFFICES ASSUME IndInv, Only({"lost", "refused"})
               PROVE  Cardinality({i \in Intents : gateway[i] \in {"pending", "success"}}) <= 1
    BY DEF PaidOnce
  <2>1. Single
    BY DEF IndInv, Quiet, Alone, Only
  <2>2. PICK P : P = {i \in Intents : gateway[i] \in {"pending", "success"}}
    OBVIOUS
  <2>3. P \subseteq {1}
    BY <2>1, <2>2 DEF Single
  <2>4. IsFiniteSet({1}) /\ Cardinality({1}) = 1
    BY FS_Singleton
  <2>5. Cardinality(P) <= 1
    BY <2>3, <2>4, FS_Subset
  <2> QED
    BY <2>2, <2>5
<1> QED
  BY <1>1, Inductive, PTL

\* No intent is COMPLETED before the gateway moved the money
\* (process_successful_transfer), however many sessions overlap.
THEOREM CompletedMovedMoney == Spec => []CompletedWasSent
<1>1. IndInv => CompletedWasSent
  BY DEF IndInv, Rows, CompletedWasSent, Having, Created, Moved
<1> QED
  BY <1>1, Inductive, PTL

\* A PAID claim has a completed transfer whatever fails, expires, is reset or reversed
\* (mark_transfer_failed, process_transfer_reversal), if a single session works and
\* nobody pays outside the gateway.
THEOREM PaidClaimsAreBacked == Spec => []PaidIsBacked
<1>1. IndInv => PaidIsBacked
  <2> SUFFICES ASSUME IndInv, Only(AllEvents \ {"manual"})
               PROVE  claim.status = "PAID" => Having({"COMPLETED"}) # {}
    BY DEF PaidIsBacked
  <2>1. NoManual
    BY DEF NoManual, Alone, Only, May
  <2> QED
    BY <2>1 DEF IndInv, Backed
<1> QED
  BY <1>1, Inductive, PTL

\* The books carry the reimbursement exactly while the transfer is completed
\* (post_expense_reimbursement, _post_reversal_entries), for a claim with one intent
\* that transfers may fail for or be reversed.
THEOREM BooksFollowTransfers == Spec => []BooksMatchTransfers
<1>1. IndInv => BooksMatchTransfers
  <2> SUFFICES ASSUME IndInv, scenario.intents = 1, Only({"failure", "lost", "reversal"})
               PROVE  books.posted /\ ~books.reversed <=> Having({"COMPLETED"}) # {}
    BY DEF BooksMatchTransfers
  <2>1. Agree(intents[1], claim, books)
    BY DEF IndInv, OneTransfer, Alone, Only
  <2>2. Intents = {1}
    BY OneIntent DEF IndInv
  <2>3. Having({"COMPLETED"}) # {} <=> intents[1] # NULL /\ intents[1].status = "COMPLETED"
    BY <2>2 DEF Having, Created
  <2> QED
    BY <2>1, <2>3 DEF Agree
<1> QED
  BY <1>1, Inductive, PTL
=============================================================================
