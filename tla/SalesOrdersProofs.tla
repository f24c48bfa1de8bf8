------------------------- MODULE SalesOrdersProofs -------------------------
(***************************************************************************)
(* Theorems about SalesOrders for any orders, lines, sessions, quantities  *)
(* and scenarios.                                                          *)
(***************************************************************************)
EXTENDS SalesOrders, SumTheorems, SequenceTheorems

-----------------------------------------------------------------------------
(* Sums. *)

\* Total is that sum.
LEMMA TotalIsSum == \A f, S : Total(f, S) = Sum(f, S)
BY DEF Total, MapThenSumSet, MapThenFoldSet, Partial, Sum, SumsUp, Pick

-----------------------------------------------------------------------------
(* What holds however sessions overlap. *)

RowOK(r) == r.fulfilled <= r.reserved /\ r.cancelled <= r.reserved

\* Rows a session has loaded: since then no row went, and none changed its line or
\* the quantity it was made for.
Loaded(rows) ==
  \A i \in DOMAIN rows :
    /\ i \in DOMAIN reservations
    /\ rows[i] \in Reservation /\ RowOK(rows[i])
    /\ rows[i].line = reservations[i].line
    /\ rows[i].reserved = reservations[i].reserved

OfOrder == {"status", "confirm", "cancel", "ship", "numbered"}

\* What an open session has loaded and is about to write.  While it holds the
\* number of its shipment, the lines are as it loaded them.
SessionOK(t) ==
  /\ t.op \in OfOrder \cup {"expire", "invoice", "issue"}
  /\ t.op \in OfOrder => t.order \in Orders /\ t.found \in OrderRow
  /\ t.op = "status" => t.row \in OrderRow
  /\ t.op = "confirm" => t.granted \in [LinesOf(t.order) -> Nat]
  /\ t.op \in {"confirm", "cancel", "expire"} => t.allocated \in Nat
  /\ t.op \in {"cancel", "expire"} =>
       /\ t.released \subseteq DOMAIN t.rows
       /\ Loaded(t.rows)
       /\ t.status \in {"CANCELLED", "EXPIRED"}
  /\ t.op \in {"ship", "numbered"} => t.quantity \in [LinesOf(t.order) -> Int]
  /\ t.op = "numbered" =>
       /\ t.lines = shipped
       /\ Loaded(t.rows)
       /\ \A l \in LinesOf(t.order) :
            \/ t.pick[l] = 0
            \/ t.pick[l] \in DOMAIN t.rows /\ t.rows[t.pick[l]].line = l
  /\ t.op = "issue" => t.quantity \in Nat

Sessions1 ==
  /\ txn = [w \in Workers |-> txn[w]]
  /\ \A w \in Workers : txn[w] # Idle => w \in scenario.sessions /\ SessionOK(txn[w])

\* The row lock of the numbering sequence
OneNumbered ==
  \A v, w \in Workers : Running(v, "numbered") /\ Running(w, "numbered") => v = w

\* What was shipped of an order is on a shipment.
ShippedByShipment ==
  \A o \in Orders : shipments[o] = 0 => \A l \in LinesOf(o) : shipped[l] = 0

IndInv ==
  /\ TypeOK
  /\ scenario \in Scenarios
  /\ Sessions1
  /\ OneNumbered
  /\ ShippedMatchesShipments
  /\ ShippedByShipment

Data == <<scenario, so, shipped, sent, shipments, reservations, stock>>

\* Where the lines of an order are
LEMMA LinesType == scenario \in Scenarios => \A o : LinesOf(o) \subseteq Lines
BY SalesOrdersAssumption DEF LinesOf

LEMMA LinesFinite == scenario \in Scenarios => \A o : IsFiniteSet(LinesOf(o))
BY LinesType, SalesOrdersAssumption, FS_Subset

\* Rows that a step may make of others.
Grown ==
  /\ DOMAIN reservations \subseteq DOMAIN reservations'
  /\ \A i \in DOMAIN reservations :
       /\ reservations'[i].line = reservations[i].line
       /\ reservations'[i].reserved = reservations[i].reserved

\* What other sessions do leaves what a session has loaded in order.
LEMMA SessionKept ==
  ASSUME UNCHANGED scenario, Grown, NEW t, SessionOK(t), UNCHANGED shipped \/ t.op # "numbered"
  PROVE  SessionOK(t)'
<1>1. \A o : LinesOf(o)' = LinesOf(o)
  BY DEF LinesOf
<1>2. \A rows : Loaded(rows) => Loaded(rows)'
  BY DEF Loaded, Grown
<1> QED
  BY <1>1, <1>2 DEF SessionOK, OfOrder

\* A session ends, and the others find what they may find.
LEMMA SessionsEnd ==
  ASSUME Sessions1, OneNumbered, NEW w \in Workers, End(w), UNCHANGED scenario, Grown,
         UNCHANGED shipped \/ Running(w, "numbered")
  PROVE  Sessions1' /\ OneNumbered'
<1>1. \A v \in Workers : txn'[v] = IF v = w THEN Idle ELSE txn[v]
  BY DEF End, Sessions1
<1>2. txn' = [v \in Workers |-> txn'[v]]
  BY DEF End, Sessions1
<1>3. ASSUME NEW v \in Workers, txn'[v] # Idle
      PROVE  v \in scenario'.sessions /\ SessionOK(txn[v])' /\ txn'[v] = txn[v] /\ v # w
  <2>1. txn'[v] = txn[v] /\ txn[v] # Idle /\ v # w
    BY <1>1, <1>3
  <2>2. PICK t : t = txn[v]
    OBVIOUS
  <2>3. v \in scenario.sessions /\ SessionOK(t)
    BY <2>1, <2>2 DEF Sessions1
  <2>4. UNCHANGED shipped \/ t.op # "numbered"
    BY <2>1, <2>2 DEF OneNumbered, Running
  <2>5. SessionOK(t)'
    BY <2>3, <2>4, SessionKept
  <2>6. t = txn'[v]
    BY <2>1, <2>2
  <2> QED
    BY <2>1, <2>3, <2>5, <2>6
<1>4. Sessions1'
  BY <1>2, <1>3 DEF Sessions1
<1>5. OneNumbered'
  BY <1>1, <1>3 DEF OneNumbered, Running
<1> QED
  BY <1>4, <1>5

\* A session begins or goes on, and nothing else changes.
LEMMA SessionStep ==
  ASSUME IndInv, NEW w \in scenario.sessions, NEW t, txn' = [txn EXCEPT ![w] = t],
         SessionOK(t), UNCHANGED Data,
         t.op = "numbered" => \A v \in Workers : ~Running(v, "numbered")
  PROVE  IndInv'
<1>1. w \in Workers
  BY SalesOrdersAssumption DEF IndInv
<1>2. /\ \A v \in Workers : txn'[v] = IF v = w THEN t ELSE txn[v]
      /\ txn' = [v \in Workers |-> txn'[v]]
  BY DEF IndInv, Sessions1
<1>3. \A x : SessionOK(x) => SessionOK(x)'
  BY SessionKept DEF Grown, Data
<1>4. Sessions1'
  <2>1. ASSUME NEW v \in Workers, txn'[v] # Idle
        PROVE  v \in scenario'.sessions /\ SessionOK(txn[v])'
    <3>1. PICK x : x = txn'[v]
      OBVIOUS
    <3>2. SessionOK(x) /\ v \in scenario.sessions
      BY <1>2, <2>1, <3>1 DEF IndInv, Sessions1
    <3> QED
      BY <1>3, <3>1, <3>2 DEF Data
  <2> QED
    BY <1>2, <2>1 DEF Sessions1
<1>5. OneNumbered'
  BY <1>2 DEF IndInv, OneNumbered, Running
<1>6. TypeOK' /\ scenario' \in Scenarios /\ ShippedMatchesShipments' /\ ShippedByShipment'
  BY DEF IndInv, Data, TypeOK, ShippedMatchesShipments, ShippedByShipment, LinesOf
<1> QED
  BY <1>4, <1>5, <1>6 DEF IndInv

-----------------------------------------------------------------------------
(* The steps that begin a session. *)

\* The order is loaded, and a row for it worked out.
LEMMA LoadOrderInd ==
  ASSUME IndInv, NEW w \in scenario.sessions, NEW o \in Orders, NEW statuses,
         NEW row, row \in OrderRow, LoadOrder(w, o, statuses, row), UNCHANGED scenario
  PROVE  IndInv'
<1>1. PICK t : t = [op |-> "status", order |-> o, found |-> so[o], row |-> row]
  OBVIOUS
<1>2. SessionOK(t)
  BY <1>1 DEF SessionOK, OfOrder, IndInv, TypeOK
<1>3. txn' = [txn EXCEPT ![w] = t] /\ UNCHANGED Data /\ t.op # "numbered"
  BY <1>1 DEF LoadOrder, Begin, Data
<1> QED
  BY <1>2, <1>3, SessionStep

LEMMA StatusInd ==
  ASSUME IndInv, NEW w \in scenario.sessions, NEW o \in Orders, UNCHANGED scenario,
         SubmitOrder(w, o) \/ ApproveOrder(w, o) \/ HoldOrder(w, o) \/ ReleaseHold(w, o)
  PROVE  IndInv'
<1>1. so[o] \in OrderRow
  BY DEF IndInv, TypeOK
<1>2. StatusAfterHold(o) \in AllBut({})
  BY DEF StatusAfterHold, AllBut
<1>3. CASE SubmitOrder(w, o)
  <2>1. [so[o] EXCEPT !.status = "SUBMITTED"] \in OrderRow
    BY <1>1 DEF OrderRow, AllBut
  <2> QED
    BY <1>3, <2>1, LoadOrderInd DEF SubmitOrder
<1>4. CASE ApproveOrder(w, o)
  <2>1. [so[o] EXCEPT !.status = "APPROVED", !.approved = TRUE] \in OrderRow
    BY <1>1 DEF OrderRow, AllBut
  <2> QED
    BY <1>4, <2>1, LoadOrderInd DEF ApproveOrder
<1>5. CASE HoldOrder(w, o)
  <2>1. [so[o] EXCEPT !.status = "ON_HOLD"] \in OrderRow
    BY <1>1 DEF OrderRow, AllBut
  <2> QED
    BY <1>5, <2>1, LoadOrderInd DEF HoldOrder
<1>6. CASE ReleaseHold(w, o)
  <2>1. [so[o] EXCEPT !.status = StatusAfterHold(o)] \in OrderRow
    BY <1>1, <1>2 DEF OrderRow
  <2> QED
    BY <1>6, <2>1, LoadOrderInd DEF ReleaseHold
<1> QED
  BY <1>3, <1>4, <1>5, <1>6

LEMMA ConfirmOrderInd ==
  ASSUME IndInv, NEW w \in scenario.sessions, NEW o \in Orders, UNCHANGED scenario,
         ConfirmOrder(w, o)
  PROVE  IndInv'
<1>1. PICK granted \in [LinesOf(o) -> 0 .. Ordered] :
        Begin(w, [op |-> "confirm", order |-> o, found |-> so[o],
                  granted |-> granted, allocated |-> stock.allocated])
  BY DEF ConfirmOrder
<1>2. PICK t : t = [op |-> "confirm", order |-> o, found |-> so[o],
                    granted |-> granted, allocated |-> stock.allocated]
  OBVIOUS
<1>3. granted \in [LinesOf(o) -> Nat]
  BY SalesOrdersAssumption
<1>4. SessionOK(t)
  BY <1>2, <1>3 DEF SessionOK, OfOrder, IndInv, TypeOK
<1>5. txn' = [txn EXCEPT ![w] = t] /\ UNCHANGED Data /\ t.op # "numbered"
  BY <1>1, <1>2 DEF ConfirmOrder, Begin, Data
<1> QED
  BY <1>4, <1>5, SessionStep

\* The rows as they are can be loaded.
LEMMA LoadsRows == TypeOK => Loaded(reservations)
<1> SUFFICES ASSUME TypeOK, NEW i \in DOMAIN reservations
             PROVE  reservations[i] \in Reservation /\ RowOK(reservations[i])
  BY DEF Loaded
<1> QED
  BY DEF TypeOK, RowOK

LEMMA CancelOrderInd ==
  ASSUME IndInv, NEW w \in scenario.sessions, NEW o \in Orders, UNCHANGED scenario,
         CancelOrder(w, o)
  PROVE  IndInv'
<1>1. PICK t : t = [op |-> "cancel", order |-> o, found |-> so[o], status |-> "CANCELLED",
               released |-> UNION {ActiveFor(reservations, l) : l \in LinesOf(o)},
               rows |-> reservations, allocated |-> stock.allocated]
  OBVIOUS
<1>2. UNION {ActiveFor(reservations, l) : l \in LinesOf(o)} \subseteq DOMAIN reservations
  BY DEF ActiveFor
<1>3. SessionOK(t)
  BY <1>1, <1>2, LoadsRows DEF SessionOK, OfOrder, IndInv, TypeOK
<1>4. txn' = [txn EXCEPT ![w] = t] /\ UNCHANGED Data /\ t.op # "numbered"
  BY <1>1 DEF CancelOrder, Begin, Data
<1> QED
  BY <1>3, <1>4, SessionStep

LEMMA ReleaseExpiredInd ==
  ASSUME IndInv, NEW w \in scenario.sessions, UNCHANGED scenario, ReleaseExpired(w)
  PROVE  IndInv'
<1>1. PICK t : t = [op |-> "expire", status |-> "EXPIRED", released |-> Overdue,
                    rows |-> reservations, allocated |-> stock.allocated]
  OBVIOUS
<1>2. SessionOK(t)
  BY <1>1, LoadsRows DEF SessionOK, OfOrder, IndInv, TypeOK, Overdue
<1>3. txn' = [txn EXCEPT ![w] = t] /\ UNCHANGED Data /\ t.op # "numbered"
  BY <1>1 DEF ReleaseExpired, Begin, Data
<1> QED
  BY <1>2, <1>3, SessionStep

LEMMA CreateShipmentInd ==
  ASSUME IndInv, NEW w \in scenario.sessions, NEW o \in Orders, UNCHANGED scenario,
         NEW quantity, quantity \in [LinesOf(o) -> scenario.asked], CreateShipment(w, o, quantity)
  PROVE  IndInv'
<1>1. PICK t : t = [op |-> "ship", order |-> o, found |-> so[o], quantity |-> quantity]
  OBVIOUS
<1>2. quantity \in [LinesOf(o) -> Int]
  BY SalesOrdersAssumption DEF IndInv
<1>3. SessionOK(t)
  BY <1>1, <1>2 DEF SessionOK, OfOrder, IndInv, TypeOK
<1>4. txn' = [txn EXCEPT ![w] = t] /\ UNCHANGED Data /\ t.op # "numbered"
  BY <1>1 DEF CreateShipment, Begin, Data
<1> QED
  BY <1>3, <1>4, SessionStep

\* The session gets the lock, and the lines as they are.
LEMMA NumberShipmentInd ==
  ASSUME IndInv, NEW w \in scenario.sessions, UNCHANGED scenario, NumberShipment(w)
  PROVE  IndInv'
<1>1. w \in Workers /\ txn[w] # Idle /\ txn[w].op = "ship"
  BY SalesOrdersAssumption DEF IndInv, NumberShipment, Running
<1>2. PICK s : s = txn[w]
  OBVIOUS
<1>3. SessionOK(s) /\ s.op = "ship"
  BY <1>1, <1>2 DEF IndInv, Sessions1
<1>4. PICK pick \in [LinesOf(s.order) -> 0 .. Len(reservations)] :
        /\ \A l \in DOMAIN pick : pick[l] \in IF ActiveFor(reservations, l) = {} THEN {0}
                                             ELSE ActiveFor(reservations, l)
        /\ Continue(w, [op |-> "numbered", order |-> s.order, found |-> s.found,
                        quantity |-> s.quantity, lines |-> shipped,
                        pick |-> pick, rows |-> reservations])
  BY <1>2 DEF NumberShipment
<1>5. PICK t : t = [op |-> "numbered", order |-> s.order, found |-> s.found,
                    quantity |-> s.quantity, lines |-> shipped,
                    pick |-> pick, rows |-> reservations]
  OBVIOUS
<1>6. \A l \in LinesOf(s.order) :
        pick[l] = 0 \/ (pick[l] \in DOMAIN reservations /\ reservations[pick[l]].line = l)
  <2>1. ASSUME NEW l \in LinesOf(s.order)
        PROVE  pick[l] = 0 \/ pick[l] \in ActiveFor(reservations, l)
    <3>1. l \in DOMAIN pick
      OBVIOUS
    <3> QED
      BY <1>4, <3>1
  <2>2. \A l : \A i \in ActiveFor(reservations, l) :
          i \in DOMAIN reservations /\ reservations[i].line = l
    BY DEF ActiveFor
  <2> QED
    BY <2>1, <2>2
<1>7. SessionOK(t)
  BY <1>3, <1>5, <1>6, LoadsRows DEF SessionOK, OfOrder, IndInv
<1>8. txn' = [txn EXCEPT ![w] = t] /\ UNCHANGED Data
  BY <1>4, <1>5 DEF NumberShipment, Continue, Data
<1> QED
  BY <1>7, <1>8, SessionStep DEF NumberShipment

LEMMA CreateInvoiceInd ==
  ASSUME IndInv, NEW w \in scenario.sessions, NEW o \in Orders, UNCHANGED scenario,
         CreateInvoice(w, o)
  PROVE  IndInv'
<1>1. PICK t : t = [op |-> "invoice", order |-> o]
  OBVIOUS
<1>2. SessionOK(t)
  BY <1>1 DEF SessionOK, OfOrder
<1>3. txn' = [txn EXCEPT ![w] = t] /\ UNCHANGED Data /\ t.op # "numbered"
  BY <1>1 DEF CreateInvoice, Begin, Data
<1> QED
  BY <1>2, <1>3, SessionStep

LEMMA IssueStockInd ==
  ASSUME IndInv, NEW w \in scenario.sessions, UNCHANGED scenario,
         NEW quantity, quantity \in scenario.issues, IssueStock(w, quantity)
  PROVE  IndInv'
<1>1. PICK t : t = [op |-> "issue", quantity |-> quantity]
  OBVIOUS
<1>2. quantity \in Nat
  BY SalesOrdersAssumption DEF IndInv
<1>3. SessionOK(t)
  BY <1>1, <1>2 DEF SessionOK, OfOrder
<1>4. txn' = [txn EXCEPT ![w] = t] /\ UNCHANGED Data /\ t.op # "numbered"
  BY <1>1 DEF IssueStock, Begin, Data
<1> QED
  BY <1>3, <1>4, SessionStep

-----------------------------------------------------------------------------
(* The steps that commit. *)

\* The session that commits is in order.
LEMMA OwnSession ==
  ASSUME IndInv, NEW w \in scenario.sessions, NEW op, Running(w, op)
  PROVE  w \in Workers /\ SessionOK(txn[w]) /\ txn[w].op = op /\ txn[w] # Idle
BY SalesOrdersAssumption DEF IndInv, Sessions1, Running

LEMMA OrderColumns ==
  ASSUME NEW old \in OrderRow, NEW new \in OrderRow, NEW now \in OrderRow
  PROVE  /\ RowWritten(old, new, now) \in OrderRow
         /\ old = now => RowWritten(old, new, now) = new
<1>1. RowWritten(old, new, now) =
           [status |-> Written(old.status, new.status, now.status),
            approved |-> Written(old.approved, new.approved, now.approved),
            confirmed |-> Written(old.confirmed, new.confirmed, now.confirmed)]
  BY DEF RowWritten, OrderRow
<1> QED
  BY <1>1 DEF OrderRow, Written

LEMMA RowColumns ==
  ASSUME NEW old, NEW new, NEW now \in Reservation
  PROVE  RowWritten(old, new, now) =
           [line |-> Written(old.line, new.line, now.line),
            reserved |-> Written(old.reserved, new.reserved, now.reserved),
            fulfilled |-> Written(old.fulfilled, new.fulfilled, now.fulfilled),
            cancelled |-> Written(old.cancelled, new.cancelled, now.cancelled),
            status |-> Written(old.status, new.status, now.status),
            due |-> Written(old.due, new.due, now.due)]
BY DEF RowWritten, Reservation

\* new is the row old with other quantities, not above the one reserved, or another
\* status.
Requantified(old, new) ==
  /\ new.line = old.line /\ new.reserved = old.reserved /\ new.due = old.due
  /\ new.fulfilled \in Nat /\ new.fulfilled <= old.reserved
  /\ new.cancelled \in Nat /\ new.cancelled <= old.reserved
  /\ new.status \in {"RESERVED", "PARTIALLY_FULFILLED", "FULFILLED", "CANCELLED", "EXPIRED"}

\* A session that changed nothing but quantities and status of a row.
LEMMA RowChanged ==
  ASSUME NEW old \in Reservation, NEW now \in Reservation, RowOK(now),
         old.line = now.line, old.reserved = now.reserved,
         NEW new, Requantified(old, new),
         NEW row, row = RowWritten(old, new, now)
  PROVE  /\ row \in Reservation /\ RowOK(row)
         /\ row.line = now.line /\ row.reserved = now.reserved /\ row.due = now.due
         /\ row.fulfilled = Written(old.fulfilled, new.fulfilled, now.fulfilled)
         /\ row.cancelled = Written(old.cancelled, new.cancelled, now.cancelled)
         /\ row.status = Written(old.status, new.status, now.status)
<1>1. PICK fulfilled, cancelled, status :
        fulfilled = new.fulfilled /\ cancelled = new.cancelled /\ status = new.status
  OBVIOUS
<1>2. row = [line |-> now.line, reserved |-> now.reserved,
             fulfilled |-> Written(old.fulfilled, fulfilled, now.fulfilled),
             cancelled |-> Written(old.cancelled, cancelled, now.cancelled),
             status |-> Written(old.status, status, now.status), due |-> now.due]
  <2>1. row = [line |-> Written(old.line, new.line, now.line),
               reserved |-> Written(old.reserved, new.reserved, now.reserved),
               fulfilled |-> Written(old.fulfilled, new.fulfilled, now.fulfilled),
               cancelled |-> Written(old.cancelled, new.cancelled, now.cancelled),
               status |-> Written(old.status, new.status, now.status),
               due |-> Written(old.due, new.due, now.due)]
    BY RowColumns
  <2>2. /\ Written(old.line, new.line, now.line) = now.line
        /\ Written(old.reserved, new.reserved, now.reserved) = now.reserved
        /\ Written(old.due, new.due, now.due) = now.due
    BY DEF Requantified, Written
  <2> QED
    BY <1>1, <2>1, <2>2
<1>3. /\ now.line \in Lines /\ now.reserved \in Nat \ {0} /\ now.fulfilled \in Nat
      /\ now.cancelled \in Nat /\ now.due \in BOOLEAN
      /\ now.status \in {"RESERVED", "PARTIALLY_FULFILLED", "FULFILLED", "CANCELLED", "EXPIRED"}
      /\ now.fulfilled <= now.reserved /\ now.cancelled <= now.reserved
  BY DEF Reservation, RowOK
<1>4. /\ row.line = now.line /\ row.reserved = now.reserved /\ row.due = now.due
      /\ row.fulfilled = Written(old.fulfilled, fulfilled, now.fulfilled)
      /\ row.cancelled = Written(old.cancelled, cancelled, now.cancelled)
      /\ row.status = Written(old.status, status, now.status)
  BY <1>2
<1>5. row \in Reservation
  BY <1>1, <1>2, <1>3 DEF Reservation, Requantified, Written
<1>6. RowOK(row)
  BY <1>1, <1>3, <1>4 DEF RowOK, Requantified, Written
<1> QED
  BY <1>1, <1>4, <1>5, <1>6

\* What fulfill takes from a reservation, and the status it leaves
Drawn(r, quantity) == IF quantity <= 0 \/ quantity > Remaining(r) THEN 0 ELSE quantity

DrawnStatus(r, quantity) ==
  IF Drawn(r, quantity) = 0 THEN r.status
  ELSE IF r.fulfilled + Drawn(r, quantity) >= r.reserved
       THEN "FULFILLED" ELSE "PARTIALLY_FULFILLED"

LEMMA FulfilledRow ==
  ASSUME NEW old \in Reservation, RowOK(old), NEW quantity \in Int,
         NEW new, new = Fulfilled(old, quantity)
  PROVE  /\ Requantified(old, new)
         /\ new.fulfilled = old.fulfilled + Drawn(old, quantity)
         /\ new.cancelled = old.cancelled
         /\ new.status = DrawnStatus(old, quantity)
         /\ Drawn(old, quantity) \in Nat
         /\ Drawn(old, quantity) = 0 \/ Drawn(old, quantity) <= Remaining(old)
<1>0. PICK drawn : drawn = Drawn(old, quantity)
  OBVIOUS
<1>1. /\ old.fulfilled \in Nat /\ old.cancelled \in Nat /\ old.reserved \in Nat
      /\ old.fulfilled <= old.reserved /\ old.cancelled <= old.reserved
      /\ Remaining(old) = old.reserved - old.fulfilled - old.cancelled
      /\ old.status \in {"RESERVED", "PARTIALLY_FULFILLED", "FULFILLED", "CANCELLED", "EXPIRED"}
  BY DEF Reservation, RowOK, Remaining
<1>2. CASE quantity <= 0 \/ quantity > Remaining(old)
  <2>1. drawn = 0 /\ new = old /\ DrawnStatus(old, quantity) = old.status
    BY <1>0, <1>2 DEF Drawn, Fulfilled, DrawnStatus
  <2>2. old.fulfilled + drawn = old.fulfilled
    BY <1>1, <2>1
  <2> QED
    BY <1>0, <1>1, <2>1, <2>2 DEF Requantified
<1>3. CASE ~(quantity <= 0 \/ quantity > Remaining(old))
  <2>1. drawn = quantity /\ drawn # 0 /\ drawn \in Nat
    BY <1>0, <1>3 DEF Drawn
  <2>2. PICK fulfilled, status :
          fulfilled = old.fulfilled + drawn /\ status = DrawnStatus(old, quantity)
    OBVIOUS
  <2>3. new = [old EXCEPT !.fulfilled = fulfilled, !.status = status]
    BY <1>0, <1>3, <2>1, <2>2 DEF Fulfilled, DrawnStatus
  <2>4. /\ new.line = old.line /\ new.reserved = old.reserved /\ new.due = old.due
        /\ new.fulfilled = fulfilled /\ new.cancelled = old.cancelled /\ new.status = status
    BY <2>3 DEF Reservation
  <2>5. drawn <= Remaining(old)
    BY <1>1, <1>3, <2>1
  <2>6. fulfilled \in Nat /\ fulfilled <= old.reserved
    BY <1>1, <2>1, <2>2, <2>5
  <2>7. status \in {"FULFILLED", "PARTIALLY_FULFILLED"}
    BY <1>0, <2>1, <2>2 DEF DrawnStatus
  <2> QED
    BY <1>0, <1>1, <2>1, <2>2, <2>4, <2>5, <2>6, <2>7 DEF Requantified
<1> QED
  BY <1>2, <1>3

\* cancel and release_expired
LEMMA ReleasedRow ==
  ASSUME NEW old \in Reservation, RowOK(old), NEW status \in {"CANCELLED", "EXPIRED"},
         NEW new, new = Released(old, status)
  PROVE  /\ Requantified(old, new)
         /\ new.fulfilled = old.fulfilled
         /\ new.cancelled = old.reserved - old.fulfilled
         /\ new.status = status
<1>1. old.cancelled + Remaining(old) = old.reserved - old.fulfilled
  BY DEF Reservation, Remaining
<1>2. PICK cancelled : cancelled = old.reserved - old.fulfilled
  OBVIOUS
<1>3. new = [old EXCEPT !.cancelled = cancelled, !.status = status]
  BY <1>1, <1>2 DEF Released
<1>4. /\ new.line = old.line /\ new.reserved = old.reserved /\ new.due = old.due
      /\ new.fulfilled = old.fulfilled /\ new.cancelled = cancelled /\ new.status = status
  BY <1>3 DEF Reservation
<1>5. /\ cancelled \in Nat /\ cancelled <= old.reserved
      /\ old.fulfilled \in Nat /\ old.fulfilled <= old.reserved
  BY <1>2 DEF Reservation, RowOK
<1> QED
  BY <1>2, <1>4, <1>5 DEF Requantified

\* Rows replaced one for one
LEMMA RowsReplaced ==
  ASSUME NEW old \in Seq(Reservation), NEW rows, rows = [i \in DOMAIN old |-> rows[i]],
         \A i \in DOMAIN old : rows[i] \in Reservation
  PROVE  rows \in Seq(Reservation) /\ DOMAIN rows = DOMAIN old
<1>1. DOMAIN old = 1 .. Len(old) /\ Len(old) \in Nat
  BY LenProperties
<1>2. rows \in [1 .. Len(old) -> Reservation]
  BY <1>1
<1> QED
  BY <1>1, <1>2, SeqDef

\* A finite set in some order, each element once
LEMMA InOrder ==
  ASSUME NEW S, IsFiniteSet(S), NEW n, n = Cardinality(S), NEW order, order = SetToSeq(S)
  PROVE  /\ n \in Nat /\ order \in [1 .. n -> S]
         /\ \A j, k \in 1 .. n : order[j] = order[k] => j = k
         /\ \A l \in S : \E k \in 1 .. n : order[k] = l
<1>1. n \in Nat /\ ExistsBijection(1 .. n, S)
  BY FS_CardinalityType
<1>2. \E f \in [1 .. n -> S] : IsInjective(f)
  BY <1>1 DEF ExistsBijection, Bijection, Injection
<1>3. order \in [1 .. n -> S] /\ IsInjective(order)
  BY <1>2 DEF SetToSeq
<1>4. order \in Injection(1 .. n, S)
  BY <1>3 DEF Injection
<1>5. IsFiniteSet(1 .. n) /\ Cardinality(1 .. n) = n
  BY <1>1, FS_Interval
<1>6. order \in Surjection(1 .. n, S)
  BY <1>4, <1>5, FS_Injection
<1> QED
  BY <1>1, <1>3, <1>6 DEF Surjection, IsInjective

\* The rows with those that a confirmation adds
WithNew(old, S, granted) ==
  old \o [k \in DOMAIN SetToSeq(S) |->
            NewReservation(SetToSeq(S)[k], granted[SetToSeq(S)[k]])]

\* rows are the rows of old, and then one for each of the n elements of S in that order.
Adds(old, rows, S, granted, order, n) ==
  /\ rows \in Seq(Reservation)
  /\ Len(old) \in Nat /\ n \in Nat
  /\ DOMAIN old = 1 .. Len(old) /\ DOMAIN rows = 1 .. Len(old) + n
  /\ \A i \in 1 .. Len(old) : rows[i] = old[i]
  /\ \A i \in Len(old) + 1 .. Len(old) + n :
       /\ order[i - Len(old)] \in S
       /\ rows[i] = NewReservation(order[i - Len(old)], granted[order[i - Len(old)]])

LEMMA RowsAdded ==
  ASSUME NEW old \in Seq(Reservation), NEW S \in SUBSET Lines, IsFiniteSet(S),
         NEW granted, \A l \in S : granted[l] \in Nat \ {0}
  PROVE  Adds(old, WithNew(old, S, granted), S, granted, SetToSeq(S), Cardinality(S))
<1>0. PICK n, order, rows :
        n = Cardinality(S) /\ order = SetToSeq(S) /\ rows = WithNew(old, S, granted)
  OBVIOUS
<1>1. n \in Nat /\ order \in [1 .. n -> S] /\ DOMAIN order = 1 .. n
  BY <1>0, InOrder
<1>2. PICK new : new = [k \in 1 .. n |-> NewReservation(order[k], granted[order[k]])]
  OBVIOUS
<1>3. \A k \in 1 .. n : new[k] \in Reservation
  <2>1. ASSUME NEW l \in S PROVE NewReservation(l, granted[l]) \in Reservation
    <3>1. l \in Lines /\ granted[l] \in Nat \ {0} /\ 0 \in Nat
      BY <2>1
    <3> QED
      BY <3>1 DEF NewReservation, Reservation
  <2>2. \A k \in 1 .. n : order[k] \in S /\ new[k] = NewReservation(order[k], granted[order[k]])
    BY <1>1, <1>2
  <2> QED
    BY <2>1, <2>2
<1>4. new \in Seq(Reservation)
  <2>1. new \in [1 .. n -> Reservation]
    BY <1>2, <1>3
  <2> QED
    BY <1>1, <2>1, SeqDef
<1>5. Len(new) = n
  BY <1>1, <1>2
<1>6. Len(old) \in Nat /\ DOMAIN old = 1 .. Len(old)
  BY LenProperties
<1>7. rows = old \o new
  BY <1>0, <1>1, <1>2 DEF WithNew
<1>8. /\ rows \in Seq(Reservation) /\ Len(rows) = Len(old) + n
      /\ \A i \in 1 .. Len(old) + n : rows[i] = IF i <= Len(old) THEN old[i] ELSE new[i - Len(old)]
  <2>1. /\ old \o new \in Seq(Reservation)
        /\ Len(old \o new) = Len(old) + Len(new)
        /\ \A i \in 1 .. Len(old) + Len(new) :
             (old \o new)[i] = IF i <= Len(old) THEN old[i] ELSE new[i - Len(old)]
    BY <1>4, ConcatProperties, Zenon
  <2> QED
    BY <1>5, <1>7, <2>1
<1>9. DOMAIN rows = 1 .. Len(old) + n
  BY <1>8, LenProperties
<1>10. \A i \in 1 .. Len(old) : rows[i] = old[i]
  BY <1>1, <1>6, <1>8
<1>11. ASSUME NEW i \in Len(old) + 1 .. Len(old) + n
       PROVE  /\ order[i - Len(old)] \in S
              /\ rows[i] = NewReservation(order[i - Len(old)], granted[order[i - Len(old)]])
  <2>1. PICK k : k = i - Len(old)
    OBVIOUS
  <2>2. k \in 1 .. n /\ i \in 1 .. Len(old) + n /\ ~(i <= Len(old))
    BY <1>1, <1>6, <2>1
  <2>3. rows[i] = new[k]
    BY <1>8, <2>1, <2>2
  <2> QED
    BY <1>1, <1>2, <2>1, <2>2, <2>3
<1> QED
  BY <1>0, <1>1, <1>6, <1>8, <1>9, <1>10, <1>11 DEF Adds

LEMMA CommitStatusInd ==
  ASSUME IndInv, NEW w \in scenario.sessions, UNCHANGED scenario, CommitStatus(w)
  PROVE  IndInv'
<1>1. PICK t : t = txn[w]
  OBVIOUS
<1>2. w \in Workers /\ SessionOK(t) /\ t.op = "status"
  BY <1>1, OwnSession DEF CommitStatus
<1>3. Sessions1' /\ OneNumbered'
  BY <1>2, SessionsEnd DEF CommitStatus, Grown, IndInv
<1>4. t.order \in Orders /\ t.found \in OrderRow /\ t.row \in OrderRow
  BY <1>2 DEF SessionOK, OfOrder
<1>5. so \in [Orders -> OrderRow]
  BY DEF IndInv, TypeOK
<1>6. RowWritten(t.found, t.row, so[t.order]) \in OrderRow
  BY <1>4, <1>5, OrderColumns
<1>7. so' \in [Orders -> OrderRow]
  BY <1>1, <1>5, <1>6 DEF CommitStatus
<1>8. TypeOK'
  BY <1>7 DEF CommitStatus, IndInv, TypeOK
<1>9. ShippedMatchesShipments' /\ ShippedByShipment'
  BY DEF CommitStatus, IndInv, ShippedMatchesShipments, ShippedByShipment, LinesOf
<1> QED
  BY <1>3, <1>8, <1>9 DEF IndInv

LEMMA CommitConfirmInd ==
  ASSUME IndInv, NEW w \in scenario.sessions, UNCHANGED scenario, CommitConfirm(w)
  PROVE  IndInv'
<1>1. PICK t : t = txn[w]
  OBVIOUS
<1>2. w \in Workers /\ SessionOK(t) /\ t.op = "confirm"
  BY <1>1, OwnSession DEF CommitConfirm
<1>3. /\ t.order \in Orders /\ t.found \in OrderRow /\ t.allocated \in Nat
      /\ t.granted \in [LinesOf(t.order) -> Nat]
  BY <1>2 DEF SessionOK, OfOrder
<1>4. /\ so \in [Orders -> OrderRow] /\ reservations \in Seq(Reservation)
      /\ stock \in [onHand : Int, allocated : Nat]
  BY DEF IndInv, TypeOK
<1>5. PICK made : made = {l \in DOMAIN t.granted : t.granted[l] > 0}
  OBVIOUS
<1>6. /\ made \in SUBSET LinesOf(t.order) /\ IsFiniteSet(made) /\ made \in SUBSET Lines
      /\ \A l \in made : t.granted[l] \in Nat \ {0}
  <2>1. made \in SUBSET LinesOf(t.order) /\ \A l \in made : t.granted[l] \in Nat \ {0}
    BY <1>3, <1>5
  <2>2. IsFiniteSet(LinesOf(t.order)) /\ LinesOf(t.order) \subseteq Lines
    BY LinesFinite, LinesType DEF IndInv
  <2> QED
    BY <2>1, <2>2, FS_Subset
<1>7. so' \in [Orders -> OrderRow]
  <2>1. [t.found EXCEPT !.status = "CONFIRMED", !.confirmed = TRUE] \in OrderRow
    BY <1>3 DEF OrderRow, AllBut
  <2>2. RowWritten(t.found, [t.found EXCEPT !.status = "CONFIRMED", !.confirmed = TRUE],
                   so[t.order]) \in OrderRow
    BY <1>3, <1>4, <2>1, OrderColumns
  <2> QED
    BY <1>1, <1>4, <2>2 DEF CommitConfirm
<1>8. PICK order, n : order = SetToSeq(made) /\ n = Cardinality(made)
  OBVIOUS
<1>9. reservations' = WithNew(reservations, made, t.granted)
  BY <1>1, <1>5 DEF CommitConfirm, WithNew
<1>10. Adds(reservations, reservations', made, t.granted, order, n)
  BY <1>4, <1>6, <1>8, <1>9, RowsAdded
<1>11. /\ reservations' \in Seq(Reservation)
       /\ Len(reservations) \in Nat /\ n \in Nat
       /\ DOMAIN reservations = 1 .. Len(reservations)
       /\ DOMAIN reservations' = 1 .. Len(reservations) + n
       /\ \A i \in 1 .. Len(reservations) : reservations'[i] = reservations[i]
       /\ \A i \in Len(reservations) + 1 .. Len(reservations) + n :
            /\ order[i - Len(reservations)] \in made
            /\ reservations'[i] = NewReservation(order[i - Len(reservations)],
                                    t.granted[order[i - Len(reservations)]])
  BY <1>10 DEF Adds
<1>12. Grown
  BY <1>11 DEF Grown
<1>13. Sessions1' /\ OneNumbered'
  BY <1>2, <1>12, SessionsEnd DEF CommitConfirm, IndInv
<1>14. \A i \in DOMAIN reservations' : RowOK(reservations'[i])
  <2>1. ASSUME NEW i \in 1 .. Len(reservations)
        PROVE  RowOK(reservations'[i])
    BY <1>11 DEF IndInv, TypeOK, RowOK
  <2>2. ASSUME NEW i \in Len(reservations) + 1 .. Len(reservations) + n
        PROVE  RowOK(reservations'[i])
    <3>1. PICK l \in made : reservations'[i] = NewReservation(l, t.granted[l])
      BY <1>11
    <3>2. t.granted[l] \in Nat \ {0}
      BY <1>6
    <3> QED
      BY <3>1, <3>2 DEF NewReservation, RowOK
  <2> QED
    BY <1>11, <2>1, <2>2
<1>15. stock' \in [onHand : Int, allocated : Nat]
  <2>1. Total(t.granted, made) \in Nat
    BY <1>6, SumSame, TotalIsSum
  <2>2. Allocated(t.allocated, Total(t.granted, made), stock.allocated) \in Nat
    BY <1>3, <1>4, <2>1 DEF Allocated, Written
  <2>3. stock' = [stock EXCEPT !.allocated =
                    Allocated(t.allocated, Total(t.granted, made), stock.allocated)]
    BY <1>1, <1>5 DEF CommitConfirm
  <2> QED
    BY <1>4, <2>2, <2>3
<1>16. TypeOK'
  BY <1>7, <1>11, <1>14, <1>15 DEF CommitConfirm, IndInv, TypeOK, RowOK
<1>17. ShippedMatchesShipments' /\ ShippedByShipment'
  BY DEF CommitConfirm, IndInv, ShippedMatchesShipments, ShippedByShipment, LinesOf
<1> QED
  BY <1>13, <1>16, <1>17 DEF IndInv

\* What remains of some reservations is the sum of what remains of each.
LEMMA HeldIsSum ==
  ASSUME NEW rows, NEW S \in SUBSET DOMAIN rows, IsFiniteSet(S),
         \A i \in S : Remaining(rows[i]) \in Nat
  PROVE  /\ StillHeld(rows, S) = Sum([i \in DOMAIN rows |-> Remaining(rows[i])], S)
         /\ StillHeld(rows, S) \in Nat
<1>1. PICK f : f = [i \in DOMAIN rows |-> Remaining(rows[i])]
  OBVIOUS
<1>2. \A i \in S : f[i] \in Nat
  BY <1>1
<1>3. Sum(f, S) \in Nat
  BY <1>2, SumSame
<1>4. StillHeld(rows, S) = Sum(f, S)
  BY <1>1, TotalIsSum DEF StillHeld
<1> QED
  BY <1>1, <1>3, <1>4

LEMMA RowsFinite ==
  ASSUME IndInv, NEW S \in SUBSET DOMAIN reservations
  PROVE  IsFiniteSet(S)
<1>1. DOMAIN reservations = 1 .. Len(reservations) /\ Len(reservations) \in Nat
  BY LenProperties DEF IndInv, TypeOK
<1>2. IsFiniteSet(1 .. Len(reservations))
  BY <1>1, FS_Interval
<1> QED
  BY <1>1, <1>2, FS_Subset

\* What a session gives back
GivenBack(t) == StillHeld(t.rows, {i \in t.released : Remaining(t.rows[i]) > 0})

LEMMA GivenBackType ==
  ASSUME IndInv, NEW t, SessionOK(t), t.op \in {"cancel", "expire"}
  PROVE  GivenBack(t) \in Nat
<1>1. PICK S : S = {i \in t.released : Remaining(t.rows[i]) > 0}
  OBVIOUS
<1>2. t.released \subseteq DOMAIN t.rows /\ DOMAIN t.rows \subseteq DOMAIN reservations
  BY DEF SessionOK, Loaded
<1>3. S \in SUBSET DOMAIN t.rows /\ IsFiniteSet(S)
  BY <1>1, <1>2, RowsFinite
<1>4. ASSUME NEW i \in S PROVE Remaining(t.rows[i]) \in Nat
  <2>1. t.rows[i] \in Reservation
    BY <1>3 DEF SessionOK, Loaded
  <2>2. Remaining(t.rows[i]) \in Int
    BY <2>1 DEF Reservation, Remaining
  <2> QED
    BY <1>1, <2>2
<1> QED
  BY <1>1, <1>3, <1>4, HeldIsSum DEF GivenBack

\* cancel and release_expired write the rows they found, and the allocation.
LEMMA ReleaseWritten ==
  ASSUME IndInv, NEW t, SessionOK(t), t.op \in {"cancel", "expire"}, WriteRelease(t)
  PROVE  /\ Grown /\ reservations' \in Seq(Reservation)
         /\ DOMAIN reservations' = DOMAIN reservations
         /\ \A i \in DOMAIN reservations' : RowOK(reservations'[i])
         /\ stock' \in [onHand : Int, allocated : Nat]
<1>1. /\ t.released \subseteq DOMAIN t.rows /\ Loaded(t.rows) /\ t.allocated \in Nat
      /\ t.status \in {"CANCELLED", "EXPIRED"}
  BY DEF SessionOK
<1>2. /\ reservations \in Seq(Reservation) /\ stock \in [onHand : Int, allocated : Nat]
      /\ \A i \in DOMAIN reservations : reservations[i] \in Reservation /\ RowOK(reservations[i])
  BY DEF IndInv, TypeOK, RowOK
<1>3. ASSUME NEW i \in DOMAIN reservations
      PROVE  /\ reservations'[i] \in Reservation /\ RowOK(reservations'[i])
             /\ reservations'[i].line = reservations[i].line
             /\ reservations'[i].reserved = reservations[i].reserved
  <2>1. CASE i \in t.released
    <3>1. PICK old, now, new :
            old = t.rows[i] /\ now = reservations[i] /\ new = Released(old, t.status)
      OBVIOUS
    <3>2. reservations'[i] = RowWritten(old, new, now)
      BY <2>1, <3>1 DEF WriteRelease
    <3>3. /\ old \in Reservation /\ RowOK(old) /\ now \in Reservation /\ RowOK(now)
          /\ old.line = now.line /\ old.reserved = now.reserved
      BY <1>1, <1>2, <2>1, <3>1 DEF Loaded
    <3>4. Requantified(old, new)
      BY <1>1, <3>1, <3>3, ReleasedRow
    <3>5. PICK row : row = reservations'[i]
      OBVIOUS
    <3>6. /\ row \in Reservation /\ RowOK(row)
          /\ row.line = now.line /\ row.reserved = now.reserved
      BY <3>2, <3>3, <3>4, <3>5, RowChanged
    <3> QED
      BY <3>1, <3>5, <3>6
  <2>2. CASE i \notin t.released
    BY <1>2, <2>2 DEF WriteRelease
  <2> QED
    BY <2>1, <2>2
<1>4. PICK rows : rows = reservations'
  OBVIOUS
<1>5. rows = [i \in DOMAIN reservations |-> rows[i]]
  BY <1>4 DEF WriteRelease
<1>6. rows \in Seq(Reservation) /\ DOMAIN rows = DOMAIN reservations
  BY <1>2, <1>3, <1>4, <1>5, RowsReplaced
<1>7. Grown
  BY <1>3, <1>4, <1>6 DEF Grown
<1>8. stock' \in [onHand : Int, allocated : Nat]
  <2>1. PICK q : q = GivenBack(t)
    OBVIOUS
  <2>2. q \in Nat
    BY <2>1, GivenBackType
  <2>3. Deallocated(t.rows, t.allocated, t.released) =
          IF t.allocated > q THEN t.allocated - q ELSE 0
    BY <2>1 DEF Deallocated, GivenBack
  <2>4. Written(t.allocated, Deallocated(t.rows, t.allocated, t.released), stock.allocated) \in Nat
    BY <1>1, <1>2, <2>2, <2>3 DEF Written
  <2> QED
    BY <1>2, <2>4 DEF WriteRelease
<1> QED
  BY <1>3, <1>4, <1>6, <1>7, <1>8

LEMMA CommitCancelInd ==
  ASSUME IndInv, NEW w \in scenario.sessions, UNCHANGED scenario, CommitCancel(w)
  PROVE  IndInv'
<1>1. PICK t : t = txn[w]
  OBVIOUS
<1>2. w \in Workers /\ SessionOK(t) /\ t.op = "cancel"
  BY <1>1, OwnSession DEF CommitCancel
<1>3. /\ Grown /\ reservations' \in Seq(Reservation)
      /\ \A i \in DOMAIN reservations' : RowOK(reservations'[i])
      /\ stock' \in [onHand : Int, allocated : Nat]
  BY <1>1, <1>2, ReleaseWritten DEF CommitCancel
<1>4. Sessions1' /\ OneNumbered'
  BY <1>2, <1>3, SessionsEnd DEF CommitCancel, IndInv
<1>5. so \in [Orders -> OrderRow] /\ t.order \in Orders
  BY <1>2 DEF IndInv, TypeOK, SessionOK, OfOrder
<1>6. Written(t.found.status, "CANCELLED", so[t.order].status) \in AllBut({})
  BY <1>5 DEF Written, OrderRow, AllBut
<1>7. so' \in [Orders -> OrderRow]
  BY <1>1, <1>5, <1>6 DEF CommitCancel, OrderRow
<1>8. TypeOK'
  BY <1>3, <1>7 DEF CommitCancel, IndInv, TypeOK, RowOK
<1>9. ShippedMatchesShipments' /\ ShippedByShipment'
  BY DEF CommitCancel, IndInv, ShippedMatchesShipments, ShippedByShipment, LinesOf
<1> QED
  BY <1>4, <1>8, <1>9 DEF IndInv

LEMMA CommitExpiredInd ==
  ASSUME IndInv, NEW w \in scenario.sessions, UNCHANGED scenario, CommitExpired(w)
  PROVE  IndInv'
<1>1. PICK t : t = txn[w]
  OBVIOUS
<1>2. w \in Workers /\ SessionOK(t) /\ t.op = "expire"
  BY <1>1, OwnSession DEF CommitExpired
<1>3. /\ Grown /\ reservations' \in Seq(Reservation)
      /\ \A i \in DOMAIN reservations' : RowOK(reservations'[i])
      /\ stock' \in [onHand : Int, allocated : Nat]
  BY <1>1, <1>2, ReleaseWritten DEF CommitExpired
<1>4. Sessions1' /\ OneNumbered'
  BY <1>2, <1>3, SessionsEnd DEF CommitExpired, IndInv
<1>5. TypeOK'
  BY <1>3 DEF CommitExpired, IndInv, TypeOK, RowOK
<1>6. ShippedMatchesShipments' /\ ShippedByShipment'
  BY DEF CommitExpired, IndInv, ShippedMatchesShipments, ShippedByShipment, LinesOf
<1> QED
  BY <1>4, <1>5, <1>6 DEF IndInv

\* What the session t makes of quantity_shipped
After(t) == [l \in Lines |-> IF l \in Applied(t) THEN t.lines[l] + t.quantity[l]
                             ELSE t.lines[l]]

\* A line that is done was asked for what remained of it at most.
LEMMA AppliedFits ==
  ASSUME IndInv, NEW t, SessionOK(t), t.op = "numbered", NEW l \in Applied(t)
  PROVE  /\ l \in LinesOf(t.order) /\ l \in Lines
         /\ t.quantity[l] \in Int /\ t.quantity[l] <= Ordered - shipped[l]
<1>1. l \in LinesOf(t.order) /\ l \in Lines /\ l \in Nat
  BY LinesType, SalesOrdersAssumption DEF Applied, IndInv
<1>2. t.quantity[l] \in Int /\ t.lines = shipped
  BY <1>1 DEF SessionOK
<1>3. l \notin Refused(t)
  BY <1>1 DEF Applied
<1>4. ~(t.quantity[l] > Ordered - shipped[l])
  BY <1>1, <1>2, <1>3 DEF Refused
<1> QED
  BY <1>1, <1>2, <1>4, SalesOrdersAssumption DEF IndInv, TypeOK

\* The lines are written as the session found them, since it holds the number.
LEMMA LinesShipped ==
  ASSUME IndInv, NEW w \in scenario.sessions, UNCHANGED scenario, CommitShipment(w),
         NEW t, t = txn[w]
  PROVE  /\ shipped' \in [Lines -> Int] /\ sent' \in [Lines -> Int]
         /\ shipped' = After(t)
         /\ \A l \in Lines : shipped'[l] = IF l \in Applied(t) THEN shipped[l] + t.quantity[l]
                                           ELSE shipped[l]
         /\ ShippedMatchesShipments'
<1>1. SessionOK(t) /\ t.op = "numbered" /\ t.lines = shipped
  BY OwnSession DEF CommitShipment, SessionOK
<1>2. shipped \in [Lines -> Int] /\ sent \in [Lines -> Int]
  BY DEF IndInv, TypeOK
<1>3. shipped' = [l \in Lines |-> Written(t.lines[l], After(t)[l], shipped[l])]
  BY DEF CommitShipment, After
<1>4. \A l \in Lines : Written(t.lines[l], After(t)[l], shipped[l]) = After(t)[l]
  BY <1>1 DEF Written
<1>5. shipped' = After(t)
  BY <1>3, <1>4 DEF After
<1>6. ASSUME NEW l \in Lines
      PROVE  shipped'[l] = IF l \in Applied(t) THEN shipped[l] + t.quantity[l] ELSE shipped[l]
  BY <1>1, <1>5 DEF After
<1>7. sent' = [l \in Lines |-> IF l \in Applied(t) THEN sent[l] + t.quantity[l] ELSE sent[l]]
  BY DEF CommitShipment
<1>8. ASSUME NEW l \in Lines
      PROVE  /\ shipped'[l] \in Int /\ sent'[l] \in Int
             /\ shipped'[l] = sent'[l] /\ sent'[l] <= Ordered
  <2>1. shipped[l] \in Int /\ shipped[l] = sent[l] /\ sent[l] <= Ordered /\ Ordered \in Nat
    BY <1>2, SalesOrdersAssumption DEF IndInv, ShippedMatchesShipments
  <2>2. CASE l \in Applied(t)
    <3>1. t.quantity[l] \in Int /\ t.quantity[l] <= Ordered - shipped[l]
      BY <1>1, <2>2, AppliedFits
    <3>2. shipped'[l] = shipped[l] + t.quantity[l] /\ sent'[l] = sent[l] + t.quantity[l]
      BY <1>6, <1>7, <2>2
    <3> QED
      BY <2>1, <3>1, <3>2
  <2>3. CASE l \notin Applied(t)
    BY <1>6, <1>7, <2>1, <2>3
  <2> QED
    BY <2>2, <2>3
<1>9. shipped' = [l \in Lines |-> shipped'[l]] /\ sent' = [l \in Lines |-> sent'[l]]
  BY <1>3, <1>7
<1>10. shipped' \in [Lines -> Int] /\ sent' \in [Lines -> Int]
  BY <1>8, <1>9
<1>11. ShippedMatchesShipments'
  BY <1>8 DEF ShippedMatchesShipments
<1> QED
  BY <1>5, <1>6, <1>10, <1>11

\* A reservation that is drawn on is written as the session found it, less what was
\* shipped of its line.
LEMMA RowsDrawn ==
  ASSUME IndInv, NEW w \in scenario.sessions, UNCHANGED scenario, CommitShipment(w),
         NEW t, t = txn[w], NEW i \in DOMAIN reservations
  PROVE  \/ reservations'[i] = reservations[i]
         \/ \E quantity \in Int :
              /\ i # 0 /\ \E l \in LinesOf(t.order) : t.pick[l] = i
              /\ i \in DOMAIN t.rows /\ t.rows[i] \in Reservation /\ RowOK(t.rows[i])
              /\ reservations'[i] =
                   RowWritten(t.rows[i], Fulfilled(t.rows[i], quantity), reservations[i])
<1>1. SessionOK(t) /\ t.op = "numbered"
  BY OwnSession DEF CommitShipment
<1>2. CASE \E l \in Applied(t) : t.pick[l] = i
  <2>1. PICK l \in Applied(t) : t.pick[l] = i
    BY <1>2
  <2>2. l \in LinesOf(t.order) /\ t.quantity[l] \in Int
    BY <1>1, AppliedFits
  <2>3. i # 0
    BY LenProperties DEF IndInv, TypeOK
  <2>4. i \in DOMAIN t.rows /\ t.rows[i].line = l /\ t.rows[i] \in Reservation /\ RowOK(t.rows[i])
    BY <1>1, <2>1, <2>2, <2>3 DEF SessionOK, Loaded
  <2>5. reservations'[i] = RowWritten(t.rows[i], Fulfilled(t.rows[i], t.quantity[t.rows[i].line]),
                                      reservations[i])
    BY <1>2 DEF CommitShipment
  <2> QED
    BY <2>1, <2>2, <2>3, <2>4, <2>5
<1>3. CASE ~ \E l \in Applied(t) : t.pick[l] = i
  BY <1>3 DEF CommitShipment
<1> QED
  BY <1>2, <1>3

LEMMA CommitShipmentInd ==
  ASSUME IndInv, NEW w \in scenario.sessions, UNCHANGED scenario, CommitShipment(w)
  PROVE  IndInv'
<1>1. PICK t : t = txn[w]
  OBVIOUS
<1>2. w \in Workers /\ SessionOK(t) /\ t.op = "numbered"
  BY <1>1, OwnSession DEF CommitShipment
<1>3. /\ t.order \in Orders /\ t.found \in OrderRow /\ Loaded(t.rows)
  BY <1>2 DEF SessionOK, OfOrder
<1>4. /\ so \in [Orders -> OrderRow] /\ shipments \in [Orders -> Nat]
      /\ reservations \in Seq(Reservation)
      /\ \A i \in DOMAIN reservations : reservations[i] \in Reservation /\ RowOK(reservations[i])
  BY DEF IndInv, TypeOK, RowOK
<1>5. ASSUME NEW i \in DOMAIN reservations
      PROVE  /\ reservations'[i] \in Reservation /\ RowOK(reservations'[i])
             /\ reservations'[i].line = reservations[i].line
             /\ reservations'[i].reserved = reservations[i].reserved
  <2>1. CASE reservations'[i] = reservations[i]
    BY <1>4, <2>1
  <2>2. ASSUME NEW quantity \in Int, i \in DOMAIN t.rows, t.rows[i] \in Reservation,
               RowOK(t.rows[i]),
               reservations'[i] =
                 RowWritten(t.rows[i], Fulfilled(t.rows[i], quantity), reservations[i])
        PROVE  /\ reservations'[i] \in Reservation /\ RowOK(reservations'[i])
               /\ reservations'[i].line = reservations[i].line
               /\ reservations'[i].reserved = reservations[i].reserved
    <3>1. PICK old, now, new :
            old = t.rows[i] /\ now = reservations[i] /\ new = Fulfilled(old, quantity)
      OBVIOUS
    <3>2. /\ old \in Reservation /\ RowOK(old) /\ now \in Reservation /\ RowOK(now)
          /\ old.line = now.line /\ old.reserved = now.reserved
      BY <1>3, <1>4, <2>2, <3>1 DEF Loaded
    <3>3. Requantified(old, new)
      BY <3>1, <3>2, <2>2, FulfilledRow
    <3>4. PICK row : row = reservations'[i]
      OBVIOUS
    <3>5. row = RowWritten(old, new, now)
      BY <2>2, <3>1, <3>4
    <3>6. /\ row \in Reservation /\ RowOK(row)
          /\ row.line = now.line /\ row.reserved = now.reserved
      BY <3>2, <3>3, <3>5, RowChanged
    <3> QED
      BY <3>1, <3>4, <3>6
  <2> QED
    BY <1>1, <2>1, <2>2, RowsDrawn
<1>6. PICK rows : rows = reservations'
  OBVIOUS
<1>7. rows = [i \in DOMAIN reservations |-> rows[i]]
  BY <1>6 DEF CommitShipment
<1>8. rows \in Seq(Reservation) /\ DOMAIN rows = DOMAIN reservations
  BY <1>4, <1>5, <1>6, <1>7, RowsReplaced
<1>9. Grown
  BY <1>5, <1>6, <1>8 DEF Grown
<1>10. Sessions1' /\ OneNumbered'
  BY <1>2, <1>9, SessionsEnd DEF CommitShipment, IndInv
<1>11. so' \in [Orders -> OrderRow]
  <2>1. PICK status : /\ so' = [so EXCEPT ![t.order].status = status]
                      /\ status \in {"SHIPPED", "IN_PROGRESS", so[t.order].status}
    BY <1>1 DEF CommitShipment, Written
  <2>2. status \in AllBut({})
    BY <1>3, <1>4, <2>1 DEF OrderRow, AllBut
  <2> QED
    BY <1>3, <1>4, <2>1, <2>2 DEF OrderRow
<1>12. shipments' = [shipments EXCEPT ![t.order] = @ + 1]
  BY <1>1 DEF CommitShipment
<1>13. shipments' \in [Orders -> Nat]
  BY <1>3, <1>4, <1>12
<1>14. shipped' \in [Lines -> Int] /\ sent' \in [Lines -> Int] /\ ShippedMatchesShipments'
  BY <1>1, LinesShipped
<1>15. TypeOK'
  BY <1>5, <1>6, <1>8, <1>11, <1>13, <1>14 DEF CommitShipment, IndInv, TypeOK, RowOK
<1>16. ShippedByShipment'
  <2>1. ASSUME NEW o \in Orders, shipments'[o] = 0, NEW l \in LinesOf(o)'
        PROVE  shipped'[l] = 0
    <3>1. l \in LinesOf(o) /\ l \in Lines
      BY LinesType DEF LinesOf, IndInv
    <3>2. o # t.order
      BY <1>3, <1>4, <1>12, <2>1
    <3>3. l \notin Applied(t) /\ shipments[o] = 0
      BY <1>3, <1>4, <1>12, <2>1, <3>1, <3>2 DEF Applied, LinesOf
    <3>4. shipped'[l] = shipped[l]
      BY <1>1, <3>1, <3>3, LinesShipped
    <3> QED
      BY <3>1, <3>3, <3>4 DEF IndInv, ShippedByShipment
  <2> QED
    BY <2>1 DEF ShippedByShipment
<1> QED
  BY <1>10, <1>14, <1>15, <1>16 DEF IndInv

-----------------------------------------------------------------------------
(* The other steps. *)

\* A session ends without a write.
LEMMA NothingWritten ==
  ASSUME IndInv, NEW w \in scenario.sessions, End(w), UNCHANGED Data
  PROVE  IndInv'
<1>1. w \in Workers
  BY SalesOrdersAssumption DEF IndInv
<1>2. Sessions1' /\ OneNumbered'
  BY <1>1, SessionsEnd DEF IndInv, Data, Grown
<1>3. TypeOK' /\ scenario' \in Scenarios /\ ShippedMatchesShipments' /\ ShippedByShipment'
  BY DEF IndInv, Data, TypeOK, ShippedMatchesShipments, ShippedByShipment, LinesOf
<1> QED
  BY <1>2, <1>3 DEF IndInv

LEMMA CommitIssueInd ==
  ASSUME IndInv, NEW w \in scenario.sessions, UNCHANGED scenario, CommitIssue(w)
  PROVE  IndInv'
<1>1. PICK t : t = txn[w]
  OBVIOUS
<1>2. w \in Workers /\ SessionOK(t) /\ t.op = "issue"
  BY <1>1, OwnSession DEF CommitIssue
<1>3. t.quantity \in Nat
  BY <1>2 DEF SessionOK
<1>4. Sessions1' /\ OneNumbered'
  BY <1>2, SessionsEnd DEF CommitIssue, IndInv, Grown
<1>5. stock' \in [onHand : Int, allocated : Nat]
  <2>1. PICK n : n = stock.onHand - t.quantity
    OBVIOUS
  <2>2. stock \in [onHand : Int, allocated : Nat] /\ n \in Int
    BY <1>3, <2>1 DEF IndInv, TypeOK
  <2>3. stock' = [stock EXCEPT !.onHand = n]
    BY <1>1, <2>1 DEF CommitIssue
  <2> QED
    BY <2>2, <2>3
<1>6. TypeOK' /\ ShippedMatchesShipments' /\ ShippedByShipment'
  BY <1>5 DEF CommitIssue, IndInv, TypeOK, ShippedMatchesShipments, ShippedByShipment, LinesOf
<1> QED
  BY <1>4, <1>6 DEF IndInv

\* No session moves.
LEMMA SessionsStay ==
  ASSUME Sessions1, OneNumbered, UNCHANGED <<txn, scenario, shipped>>, Grown
  PROVE  Sessions1' /\ OneNumbered'
<1>1. \A t : SessionOK(t) => SessionOK(t)'
  BY SessionKept
<1>2. ASSUME NEW v \in Workers, txn'[v] # Idle
      PROVE  v \in scenario'.sessions /\ SessionOK(txn[v])'
  <2>1. PICK t : t = txn[v]
    OBVIOUS
  <2>2. SessionOK(t) /\ v \in scenario.sessions
    BY <1>2, <2>1 DEF Sessions1
  <2> QED
    BY <1>1, <2>1, <2>2
<1>3. Sessions1'
  BY <1>2 DEF Sessions1
<1>4. OneNumbered'
  BY DEF OneNumbered, Running
<1> QED
  BY <1>3, <1>4

LEMMA ReceiveInd ==
  ASSUME IndInv, NEW w \in scenario.sessions, UNCHANGED scenario,
         NEW quantity, quantity \in scenario.receipts, Receive(w, quantity)
  PROVE  IndInv'
<1>1. quantity \in Nat
  BY SalesOrdersAssumption DEF IndInv
<1>2. Sessions1' /\ OneNumbered'
  BY SessionsStay DEF IndInv, Receive, Grown
<1>3. stock' \in [onHand : Int, allocated : Nat]
  <2>1. PICK n : n = stock.onHand + quantity
    OBVIOUS
  <2>2. stock \in [onHand : Int, allocated : Nat] /\ n \in Int
    BY <1>1, <2>1 DEF IndInv, TypeOK
  <2>3. stock' = [stock EXCEPT !.onHand = n]
    BY <2>1 DEF Receive
  <2> QED
    BY <2>2, <2>3
<1>4. TypeOK' /\ ShippedMatchesShipments' /\ ShippedByShipment'
  BY <1>3 DEF Receive, IndInv, TypeOK, ShippedMatchesShipments, ShippedByShipment, LinesOf
<1> QED
  BY <1>2, <1>4 DEF IndInv

\* A row falls due, and keeps its other columns.
LEMMA RowsDue ==
  ASSUME TypeOK, NEW i \in DOMAIN reservations, FallDue(i)
  PROVE  /\ reservations' \in Seq(Reservation)
         /\ DOMAIN reservations' = DOMAIN reservations
         /\ \A j \in DOMAIN reservations :
              /\ reservations'[j].line = reservations[j].line
              /\ reservations'[j].reserved = reservations[j].reserved
              /\ reservations'[j].fulfilled = reservations[j].fulfilled
              /\ reservations'[j].cancelled = reservations[j].cancelled
              /\ reservations'[j].status = reservations[j].status
<1>1. \A j \in DOMAIN reservations : reservations[j] \in Reservation
  BY DEF TypeOK
<1>2. PICK rows : rows = reservations'
  OBVIOUS
<1>3. rows = [reservations EXCEPT ![i].due = TRUE]
  BY <1>2 DEF FallDue
<1>4. ASSUME NEW j \in DOMAIN reservations
      PROVE  /\ rows[j] \in Reservation
             /\ rows[j].line = reservations[j].line
             /\ rows[j].reserved = reservations[j].reserved
             /\ rows[j].fulfilled = reservations[j].fulfilled
             /\ rows[j].cancelled = reservations[j].cancelled
             /\ rows[j].status = reservations[j].status
  <2>1. PICK r : r = reservations[j]
    OBVIOUS
  <2>2. rows[j] = IF j = i THEN [r EXCEPT !.due = TRUE] ELSE r
    BY <1>3, <2>1
  <2>3. r \in Reservation
    BY <1>1, <2>1
  <2> QED
    BY <2>1, <2>2, <2>3 DEF Reservation
<1>5. rows = [j \in DOMAIN reservations |-> rows[j]]
  BY <1>3
<1>6. rows \in Seq(Reservation) /\ DOMAIN rows = DOMAIN reservations
  BY <1>4, <1>5, RowsReplaced DEF TypeOK
<1> QED
  BY <1>2, <1>4, <1>6

LEMMA FallDueInd ==
  ASSUME IndInv, NEW i \in DOMAIN reservations, UNCHANGED scenario, FallDue(i)
  PROVE  IndInv'
<1>1. /\ reservations' \in Seq(Reservation)
      /\ DOMAIN reservations' = DOMAIN reservations
      /\ \A j \in DOMAIN reservations :
           /\ reservations'[j].line = reservations[j].line
           /\ reservations'[j].reserved = reservations[j].reserved
           /\ reservations'[j].fulfilled = reservations[j].fulfilled
           /\ reservations'[j].cancelled = reservations[j].cancelled
  BY RowsDue DEF IndInv
<1>2. Sessions1' /\ OneNumbered'
  BY <1>1, SessionsStay DEF IndInv, FallDue, Grown
<1>3. TypeOK'
  BY <1>1 DEF FallDue, IndInv, TypeOK
<1>4. ShippedMatchesShipments' /\ ShippedByShipment'
  BY DEF FallDue, IndInv, ShippedMatchesShipments, ShippedByShipment, LinesOf
<1> QED
  BY <1>2, <1>3, <1>4 DEF IndInv

LEMMA InitInd == Init => IndInv
<1> SUFFICES ASSUME Init PROVE IndInv
  OBVIOUS
<1>1. so \in [Orders -> OrderRow]
  BY DEF Init, Draft, OrderRow, AllBut
<1>2. reservations \in Seq(Reservation) /\ DOMAIN reservations = {}
  BY DEF Init
<1>3. TypeOK
  BY <1>1, <1>2 DEF Init, TypeOK
<1>4. Sessions1 /\ OneNumbered
  BY DEF Init, SessionsInit, Sessions1, OneNumbered, Running
<1>5. ShippedMatchesShipments
  BY SalesOrdersAssumption DEF Init, ShippedMatchesShipments
<1>6. ShippedByShipment
  <2>1. \A o : LinesOf(o) \subseteq Lines
    BY LinesType DEF Init
  <2> QED
    BY <2>1 DEF Init, ShippedByShipment
<1> QED
  BY <1>3, <1>4, <1>5, <1>6 DEF Init, IndInv

LEMMA StutterInd ==
  ASSUME IndInv, UNCHANGED vars
  PROVE  IndInv'
<1>1. Sessions1' /\ OneNumbered'
  BY SessionsStay DEF IndInv, vars, Grown
<1>2. TypeOK' /\ scenario' \in Scenarios /\ ShippedMatchesShipments' /\ ShippedByShipment'
  BY DEF IndInv, vars, TypeOK, ShippedMatchesShipments, ShippedByShipment, LinesOf
<1> QED
  BY <1>1, <1>2 DEF IndInv

LEMMA OrderOperationInd ==
  ASSUME IndInv, NEW w \in scenario.sessions, NEW o \in OrdersMade, UNCHANGED scenario,
         OrderOperation(w, o)
  PROVE  IndInv'
<1>1. o \in Orders
  BY DEF OrdersMade
<1>2. CASE SubmitOrder(w, o) \/ ApproveOrder(w, o) \/ HoldOrder(w, o) \/ ReleaseHold(w, o)
  BY <1>1, <1>2, StatusInd
<1>3. CASE ConfirmOrder(w, o)
  BY <1>1, <1>3, ConfirmOrderInd
<1>4. CASE CancelOrder(w, o)
  BY <1>1, <1>4, CancelOrderInd
<1>5. CASE CreateInvoice(w, o)
  BY <1>1, <1>5, CreateInvoiceInd
<1>6. CASE \E quantity \in [LinesOf(o) -> scenario.asked] : CreateShipment(w, o, quantity)
  BY <1>1, <1>6, CreateShipmentInd
<1> QED
  BY <1>2, <1>3, <1>4, <1>5, <1>6 DEF OrderOperation

LEMMA CommitInd ==
  ASSUME IndInv, NEW w \in scenario.sessions, UNCHANGED scenario, Commit(w)
  PROVE  IndInv'
<1>1. CASE CommitStatus(w)
  BY <1>1, CommitStatusInd
<1>2. CASE CommitConfirm(w)
  BY <1>2, CommitConfirmInd
<1>3. CASE CommitCancel(w)
  BY <1>3, CommitCancelInd
<1>4. CASE CommitExpired(w)
  BY <1>4, CommitExpiredInd
<1>5. CASE NumberShipment(w)
  BY <1>5, NumberShipmentInd
<1>6. CASE CommitShipment(w)
  BY <1>6, CommitShipmentInd
<1>7. CASE RefuseInvoice(w)
  BY <1>7, NothingWritten DEF RefuseInvoice, Data
<1>8. CASE CommitIssue(w)
  BY <1>8, CommitIssueInd
<1> QED
  BY <1>1, <1>2, <1>3, <1>4, <1>5, <1>6, <1>7, <1>8 DEF Commit

LEMMA NextInd ==
  ASSUME IndInv, Next
  PROVE  IndInv'
<1>1. UNCHANGED scenario
  BY DEF Next
<1>2. CASE \E w \in scenario.sessions, o \in OrdersMade : OrderOperation(w, o)
  BY <1>1, <1>2, OrderOperationInd
<1>3. CASE \E i \in DOMAIN reservations : FallDue(i)
  BY <1>1, <1>3, FallDueInd
<1>4. ASSUME NEW w \in scenario.sessions,
             \/ Commit(w)
             \/ ReleaseExpired(w)
             \/ Rollback(w)
             \/ \E quantity \in scenario.receipts : Receive(w, quantity)
             \/ \E quantity \in scenario.issues : IssueStock(w, quantity)
      PROVE  IndInv'
  <2>1. CASE Commit(w)
    BY <1>1, <2>1, CommitInd
  <2>2. CASE ReleaseExpired(w)
    BY <1>1, <2>2, ReleaseExpiredInd
  <2>3. CASE Rollback(w)
    BY <1>1, <2>3, NothingWritten DEF Rollback, Data
  <2>4. CASE \E quantity \in scenario.receipts : Receive(w, quantity)
    BY <1>1, <2>4, ReceiveInd
  <2>5. CASE \E quantity \in scenario.issues : IssueStock(w, quantity)
    BY <1>1, <2>5, IssueStockInd
  <2> QED
    BY <1>4, <2>1, <2>2, <2>3, <2>4, <2>5
<1> QED
  BY <1>2, <1>3, <1>4 DEF Next

\* The inductive invariant, with one session or with many: rows keep their types, the
\* quantities of a reservation stay within it, an open session finds the rows it has
\* loaded, shipments take turns, and the lines agree with the shipments.
THEOREM Inductive == Spec => []IndInv
<1>1. IndInv /\ [Next]_vars => IndInv'
  BY NextInd, StutterInd
<1> QED
  BY <1>1, InitInd, PTL DEF Spec

\* Types: every row has its columns, whatever the quantities asked for, negative ones
\* included; the stock allocated and what is drawn on or cancelled of a reservation are
\* never negative, and the latter never exceeds what was reserved.
THEOREM TypesHold == Spec => []TypeOK
BY Inductive, PTL DEF IndInv

\* However many shipments are made at once, the quantity shipped of a line is the sum of
\* its shipment lines and never more than was ordered.
THEOREM ShippedIsSent == Spec => []ShippedMatchesShipments
BY Inductive, PTL DEF IndInv

-----------------------------------------------------------------------------
(* What holds when sessions do not overlap. *)

\* a and b are the same row, but for its falling due.
Alike(a, b) ==
  /\ a.line = b.line /\ a.reserved = b.reserved /\ a.fulfilled = b.fulfilled
  /\ a.cancelled = b.cancelled /\ a.status = b.status

AsLoaded(rows) ==
  /\ DOMAIN rows = DOMAIN reservations
  /\ \A i \in DOMAIN rows : Alike(rows[i], reservations[i])

\* What the open session has loaded is still so.
Fresh(t) ==
  /\ t.op \in OfOrder => t.found = so[t.order]
  /\ t.op \in {"confirm", "cancel", "expire"} => t.allocated = stock.allocated
  /\ t.op \in {"cancel", "expire", "numbered"} => AsLoaded(t.rows)
  /\ t.op \in {"cancel", "expire"} => \A i \in t.released : Active(t.rows[i])
  /\ t.op = "cancel" => shipments[t.order] = 0
  /\ t.op = "numbered" =>
       \A l \in LinesOf(t.order) : t.pick[l] = 0 \/ Active(t.rows[t.pick[l]])

AllFresh == \A w \in Workers : txn[w] # Idle => Fresh(txn[w])

\* Nothing is drawn on a reservation beyond what it has, while it is active.
Unspent ==
  \A i \in DOMAIN reservations : Active(reservations[i]) => Remaining(reservations[i]) >= 0

Books == AllFresh /\ Unspent /\ Promised <= stock.allocated

\* There is no other session.
LEMMA Alone ==
  ASSUME IndInv, Serial, NEW w \in scenario.sessions, NEW t, txn' = [txn EXCEPT ![w] = t]
  PROVE  \A v \in Workers : txn'[v] # Idle => txn'[v] = t
<1> SUFFICES ASSUME NEW v \in Workers, txn'[v] # Idle PROVE txn'[v] = t
  OBVIOUS
<1>1. txn = [x \in Workers |-> txn[x]]
  BY DEF IndInv, Sessions1
<1>2. CASE v = w
  BY <1>1, <1>2
<1>3. CASE v # w
  <2>1. txn'[v] = txn[v]
    BY <1>1, <1>3
  <2>2. v \in scenario.sessions
    BY <2>1 DEF IndInv, Sessions1
  <2> QED
    BY <1>3, <2>2 DEF Serial
<1> QED
  BY <1>2, <1>3

LEMMA NoneLeft ==
  ASSUME IndInv, Serial, NEW w \in scenario.sessions, End(w)
  PROVE  AllFresh'
<1>1. txn' = [txn EXCEPT ![w] = Idle]
  BY DEF End
<1>2. \A v \in Workers : txn'[v] = Idle
  BY <1>1, Alone
<1> QED
  BY <1>2 DEF AllFresh

\* A session begins or goes on with what it has loaded.
LEMMA FreshStep ==
  ASSUME IndInv, Serial, Books, NEW w \in scenario.sessions,
         NEW t, txn' = [txn EXCEPT ![w] = t], Fresh(t), UNCHANGED Data
  PROVE  Books'
<1>1. Fresh(t)'
  BY DEF Data, Fresh, AsLoaded, LinesOf
<1>2. AllFresh'
  <2>1. ASSUME NEW v \in Workers, txn'[v] # Idle
        PROVE  Fresh(txn[v])'
    <3>1. t = txn'[v]
      BY <2>1, Alone
    <3> QED
      BY <1>1, <3>1
  <2> QED
    BY <2>1 DEF AllFresh
<1>3. Unspent' /\ (Promised <= stock.allocated)'
  BY DEF Books, Data, Unspent, Promised, StillHeld
<1> QED
  BY <1>2, <1>3 DEF Books

LEMMA RowsAlike == AsLoaded(reservations)
BY DEF AsLoaded, Alike

LEMMA LoadOrderBooks ==
  ASSUME IndInv, Serial, Books, NEW w \in scenario.sessions, NEW o, NEW statuses,
         NEW row, LoadOrder(w, o, statuses, row), UNCHANGED scenario
  PROVE  Books'
<1>1. PICK t : t = [op |-> "status", order |-> o, found |-> so[o], row |-> row]
  OBVIOUS
<1>2. Fresh(t)
  BY <1>1 DEF Fresh
<1>3. txn' = [txn EXCEPT ![w] = t] /\ UNCHANGED Data
  BY <1>1 DEF LoadOrder, Begin, Data
<1> QED
  BY <1>2, <1>3, FreshStep

LEMMA OrderOperationBooks ==
  ASSUME IndInv, Serial, Books, NEW w \in scenario.sessions, NEW o \in OrdersMade,
         UNCHANGED scenario, OrderOperation(w, o)
  PROVE  Books'
<1>1. CASE SubmitOrder(w, o) \/ ApproveOrder(w, o) \/ HoldOrder(w, o) \/ ReleaseHold(w, o)
  BY <1>1, LoadOrderBooks DEF SubmitOrder, ApproveOrder, HoldOrder, ReleaseHold
<1>2. CASE ConfirmOrder(w, o)
  <2>1. PICK granted :
          Begin(w, [op |-> "confirm", order |-> o, found |-> so[o],
                    granted |-> granted, allocated |-> stock.allocated])
    BY <1>2 DEF ConfirmOrder
  <2>2. PICK t : t = [op |-> "confirm", order |-> o, found |-> so[o],
                      granted |-> granted, allocated |-> stock.allocated]
    OBVIOUS
  <2>3. Fresh(t)
    BY <2>2 DEF Fresh
  <2>4. txn' = [txn EXCEPT ![w] = t] /\ UNCHANGED Data
    BY <1>2, <2>1, <2>2 DEF ConfirmOrder, Begin, Data
  <2> QED
    BY <2>3, <2>4, FreshStep
<1>3. CASE CancelOrder(w, o)
  <2>1. PICK t : t = [op |-> "cancel", order |-> o, found |-> so[o], status |-> "CANCELLED",
               released |-> UNION {ActiveFor(reservations, l) : l \in LinesOf(o)},
               rows |-> reservations, allocated |-> stock.allocated]
    OBVIOUS
  <2>2. \A i \in UNION {ActiveFor(reservations, l) : l \in LinesOf(o)} : Active(reservations[i])
    BY DEF ActiveFor
  <2>3. Fresh(t)
    BY <1>3, <2>1, <2>2, RowsAlike DEF Fresh, CancelOrder
  <2>4. txn' = [txn EXCEPT ![w] = t] /\ UNCHANGED Data
    BY <1>3, <2>1 DEF CancelOrder, Begin, Data
  <2> QED
    BY <2>3, <2>4, FreshStep
<1>4. CASE CreateInvoice(w, o)
  <2>1. PICK t : t = [op |-> "invoice", order |-> o]
    OBVIOUS
  <2>2. Fresh(t)
    BY <2>1 DEF Fresh, OfOrder
  <2>3. txn' = [txn EXCEPT ![w] = t] /\ UNCHANGED Data
    BY <1>4, <2>1 DEF CreateInvoice, Begin, Data
  <2> QED
    BY <2>2, <2>3, FreshStep
<1>5. ASSUME NEW quantity, CreateShipment(w, o, quantity)
      PROVE  Books'
  <2>1. PICK t : t = [op |-> "ship", order |-> o, found |-> so[o], quantity |-> quantity]
    OBVIOUS
  <2>2. Fresh(t)
    BY <2>1 DEF Fresh
  <2>3. txn' = [txn EXCEPT ![w] = t] /\ UNCHANGED Data
    BY <1>5, <2>1 DEF CreateShipment, Begin, Data
  <2> QED
    BY <2>2, <2>3, FreshStep
<1> QED
  BY <1>1, <1>2, <1>3, <1>4, <1>5 DEF OrderOperation

LEMMA ReleaseExpiredBooks ==
  ASSUME IndInv, Serial, Books, NEW w \in scenario.sessions, UNCHANGED scenario,
         ReleaseExpired(w)
  PROVE  Books'
<1>1. PICK t : t = [op |-> "expire", status |-> "EXPIRED", released |-> Overdue,
                    rows |-> reservations, allocated |-> stock.allocated]
  OBVIOUS
<1>2. \A i \in Overdue : Active(reservations[i])
  BY DEF Overdue
<1>3. Fresh(t)
  BY <1>1, <1>2, RowsAlike DEF Fresh, OfOrder
<1>4. txn' = [txn EXCEPT ![w] = t] /\ UNCHANGED Data
  BY <1>1 DEF ReleaseExpired, Begin, Data
<1> QED
  BY <1>3, <1>4, FreshStep

LEMMA NumberShipmentBooks ==
  ASSUME IndInv, Serial, Books, NEW w \in scenario.sessions, UNCHANGED scenario,
         NumberShipment(w)
  PROVE  Books'
<1>1. PICK s : s = txn[w]
  OBVIOUS
<1>2. w \in Workers /\ s # Idle /\ s.op = "ship"
  BY <1>1, OwnSession DEF NumberShipment
<1>3. s.found = so[s.order]
  BY <1>1, <1>2 DEF Books, AllFresh, Fresh, OfOrder
<1>4. PICK pick \in [LinesOf(s.order) -> 0 .. Len(reservations)] :
        /\ \A l \in DOMAIN pick : pick[l] \in IF ActiveFor(reservations, l) = {} THEN {0}
                                             ELSE ActiveFor(reservations, l)
        /\ Continue(w, [op |-> "numbered", order |-> s.order, found |-> s.found,
                        quantity |-> s.quantity, lines |-> shipped,
                        pick |-> pick, rows |-> reservations])
  BY <1>1 DEF NumberShipment
<1>5. PICK t : t = [op |-> "numbered", order |-> s.order, found |-> s.found,
                    quantity |-> s.quantity, lines |-> shipped,
                    pick |-> pick, rows |-> reservations]
  OBVIOUS
<1>6. ASSUME NEW l \in LinesOf(s.order)
      PROVE  pick[l] = 0 \/ Active(reservations[pick[l]])
  <2>1. l \in DOMAIN pick
    OBVIOUS
  <2>2. pick[l] = 0 \/ pick[l] \in ActiveFor(reservations, l)
    BY <1>4, <2>1
  <2> QED
    BY <2>2 DEF ActiveFor
<1>7. Fresh(t)
  BY <1>3, <1>5, <1>6, RowsAlike DEF Fresh
<1>8. txn' = [txn EXCEPT ![w] = t] /\ UNCHANGED Data
  BY <1>4, <1>5 DEF NumberShipment, Continue, Data
<1> QED
  BY <1>7, <1>8, FreshStep

LEMMA IssueStockBooks ==
  ASSUME IndInv, Serial, Books, NEW w \in scenario.sessions, UNCHANGED scenario,
         NEW quantity, IssueStock(w, quantity)
  PROVE  Books'
<1>1. PICK t : t = [op |-> "issue", quantity |-> quantity]
  OBVIOUS
<1>2. Fresh(t)
  BY <1>1 DEF Fresh, OfOrder
<1>3. txn' = [txn EXCEPT ![w] = t] /\ UNCHANGED Data
  BY <1>1 DEF IssueStock, Begin, Data
<1> QED
  BY <1>2, <1>3, FreshStep

\* The steps that change no reservation and no allocation.
LEMMA BooksUntouched ==
  ASSUME Books, AllFresh', UNCHANGED <<reservations, stock.allocated>>
  PROVE  Books'
BY DEF Books, Unspent, Promised, StillHeld

LEMMA ReceiveBooks ==
  ASSUME IndInv, Books, NEW w, NEW quantity, UNCHANGED scenario, Receive(w, quantity)
  PROVE  Books'
<1>1. stock'.allocated = stock.allocated
  BY DEF Receive, IndInv, TypeOK
<1>2. \A t : Fresh(t) => Fresh(t)'
  BY <1>1 DEF Receive, Fresh, AsLoaded, LinesOf
<1>3. AllFresh'
  BY <1>2 DEF Books, AllFresh, Receive
<1> QED
  BY <1>1, <1>3, BooksUntouched DEF Receive

LEMMA CommitIssueBooks ==
  ASSUME IndInv, Serial, Books, NEW w \in scenario.sessions, UNCHANGED scenario,
         CommitIssue(w)
  PROVE  Books'
<1>1. stock'.allocated = stock.allocated
  BY DEF CommitIssue, IndInv, TypeOK
<1> QED
  BY <1>1, NoneLeft, BooksUntouched DEF CommitIssue

\* A row falls due: the same quantities are promised.
LEMMA FallDueBooks ==
  ASSUME IndInv, Books, NEW i \in DOMAIN reservations, UNCHANGED scenario, FallDue(i)
  PROVE  Books'
<1>1. /\ DOMAIN reservations' = DOMAIN reservations
      /\ \A j \in DOMAIN reservations : Alike(reservations'[j], reservations[j])
  BY RowsDue DEF IndInv, Alike
<1>2. \A j \in DOMAIN reservations :
        /\ Active(reservations'[j]) <=> Active(reservations[j])
        /\ Remaining(reservations'[j]) = Remaining(reservations[j])
  BY <1>1 DEF Alike, Active, Remaining
<1>3. AllFresh'
  <2>1. \A rows : AsLoaded(rows) => AsLoaded(rows)'
    BY <1>1 DEF AsLoaded, Alike
  <2>2. \A t : Fresh(t) => Fresh(t)'
    BY <2>1 DEF Fresh, FallDue, LinesOf
  <2> QED
    BY <2>2 DEF Books, AllFresh, FallDue
<1>4. Unspent'
  BY <1>1, <1>2 DEF Books, Unspent
<1>5. Promised' = Promised
  <2>1. {j \in DOMAIN reservations' : Active(reservations'[j])}
          = {j \in DOMAIN reservations : Active(reservations[j])}
    BY <1>1, <1>2
  <2>2. [j \in DOMAIN reservations' |-> Remaining(reservations'[j])]
          = [j \in DOMAIN reservations |-> Remaining(reservations[j])]
    BY <1>1, <1>2
  <2> QED
    BY <2>1, <2>2 DEF Promised, StillHeld
<1> QED
  BY <1>3, <1>4, <1>5 DEF Books, FallDue

-----------------------------------------------------------------------------
(* The quantity promised, through the steps that change it. *)

ActiveRows(rows) == {i \in DOMAIN rows : Active(rows[i])}

Rest(rows) == [i \in DOMAIN rows |-> Remaining(rows[i])]

LEMMA PromisedIsSum ==
  /\ Promised = Sum(Rest(reservations), ActiveRows(reservations))
  /\ Promised' = Sum(Rest(reservations'), ActiveRows(reservations'))
<1>1. /\ Promised = Total(Rest(reservations), ActiveRows(reservations))
      /\ Promised' = Total(Rest(reservations'), ActiveRows(reservations'))
  BY DEF Promised, StillHeld, ActiveRows, Rest
<1>2. \A f, S : Total(f, S) = Sum(f, S)
  BY TotalIsSum
<1>3. \A rows : Total(Rest(rows), ActiveRows(rows)) = Sum(Rest(rows), ActiveRows(rows))
  BY <1>2
<1> QED
  BY <1>1, <1>3

\* The active rows are finitely many, and what remains of each is a natural number.
LEMMA RestType ==
  ASSUME IndInv, Unspent
  PROVE  /\ ActiveRows(reservations) \in SUBSET DOMAIN reservations
         /\ IsFiniteSet(ActiveRows(reservations))
         /\ \A i \in ActiveRows(reservations) :
              /\ Rest(reservations)[i] = Remaining(reservations[i])
              /\ Rest(reservations)[i] \in Nat
<1>1. ActiveRows(reservations) \in SUBSET DOMAIN reservations
  BY DEF ActiveRows
<1>2. ASSUME NEW i \in ActiveRows(reservations)
      PROVE  Rest(reservations)[i] = Remaining(reservations[i]) /\ Rest(reservations)[i] \in Nat
  <2>1. i \in DOMAIN reservations /\ Active(reservations[i])
    BY DEF ActiveRows
  <2>2. reservations[i] \in Reservation
    BY <2>1 DEF IndInv, TypeOK
  <2>3. Remaining(reservations[i]) \in Int
    BY <2>2 DEF Reservation, Remaining
  <2>4. Remaining(reservations[i]) >= 0
    BY <2>1 DEF Unspent
  <2> QED
    BY <2>1, <2>3, <2>4 DEF Rest
<1> QED
  BY <1>1, <1>2, RowsFinite

\* What a confirmation grants is allocated and promised.
LEMMA CommitConfirmBooks ==
  ASSUME IndInv, Serial, Books, NEW w \in scenario.sessions, UNCHANGED scenario,
         CommitConfirm(w)
  PROVE  Books'
<1>1. PICK t : t = txn[w]
  OBVIOUS
<1>2. w \in Workers /\ SessionOK(t) /\ t.op = "confirm" /\ t # Idle
  BY <1>1, OwnSession DEF CommitConfirm
<1>3. /\ t.granted \in [LinesOf(t.order) -> Nat]
      /\ t.allocated = stock.allocated
      /\ stock \in [onHand : Int, allocated : Nat] /\ reservations \in Seq(Reservation)
  BY <1>1, <1>2 DEF SessionOK, Books, AllFresh, Fresh, IndInv, TypeOK
<1>4. PICK made, granted : /\ made = {l \in DOMAIN t.granted : t.granted[l] > 0}
                           /\ granted = t.granted
  OBVIOUS
<1>5. /\ IsFiniteSet(made) /\ made \in SUBSET Lines
      /\ \A l \in made : granted[l] \in Nat \ {0}
  <2>1. made \in SUBSET LinesOf(t.order) /\ \A l \in made : granted[l] \in Nat \ {0}
    BY <1>3, <1>4
  <2>2. IsFiniteSet(LinesOf(t.order)) /\ LinesOf(t.order) \subseteq Lines
    BY LinesFinite, LinesType DEF IndInv
  <2> QED
    BY <2>1, <2>2, FS_Subset
<1>6. PICK order, n, rows, len : /\ order = SetToSeq(made) /\ n = Cardinality(made)
                                 /\ rows = reservations' /\ len = Len(reservations)
  OBVIOUS
<1>7. rows = WithNew(reservations, made, granted)
  BY <1>1, <1>4, <1>6 DEF CommitConfirm, WithNew
<1>8. Adds(reservations, rows, made, granted, order, n)
  BY <1>3, <1>5, <1>6, <1>7, RowsAdded
<1>9. /\ len \in Nat /\ n \in Nat
      /\ DOMAIN reservations = 1 .. len /\ DOMAIN rows = 1 .. len + n
      /\ \A i \in 1 .. len : rows[i] = reservations[i]
      /\ \A i \in len + 1 .. len + n :
           order[i - len] \in made /\ rows[i] = NewReservation(order[i - len], granted[order[i - len]])
  BY <1>6, <1>8 DEF Adds
<1>10. PICK A, N, f, g : /\ A = ActiveRows(reservations) /\ N = len + 1 .. len + n
                         /\ f = Rest(reservations) /\ g = Rest(rows)
  OBVIOUS
<1>11. /\ A \in SUBSET (1 .. len) /\ IsFiniteSet(A)
       /\ \A i \in A : f[i] = Remaining(reservations[i]) /\ f[i] \in Nat
  BY <1>9, <1>10, RestType DEF Books
<1>12. IsFiniteSet(N) /\ A \cap N = {}
  BY <1>9, <1>10, <1>11, FS_Interval
<1>13. ASSUME NEW i \in N
       PROVE  /\ i \in DOMAIN rows /\ Active(rows[i]) /\ order[i - len] \in made
              /\ g[i] = granted[order[i - len]] /\ g[i] \in Nat
              /\ Remaining(rows[i]) = g[i]
  <2>1. i \in 1 .. len + n /\ i \in len + 1 .. len + n
    BY <1>9, <1>10
  <2>2. PICK l : l = order[i - len]
    OBVIOUS
  <2>3. l \in made /\ rows[i] = NewReservation(l, granted[l]) /\ granted[l] \in Nat
    BY <1>5, <1>9, <2>1, <2>2
  <2>4. Active(rows[i]) /\ Remaining(rows[i]) = granted[l]
    BY <2>3 DEF NewReservation, Active, Remaining
  <2> QED
    BY <1>9, <1>10, <2>1, <2>2, <2>3, <2>4 DEF Rest
<1>14. \A i \in A : g[i] = f[i]
  BY <1>9, <1>10, <1>11 DEF Rest
<1>15. ActiveRows(rows) = A \cup N
  <2>1. ASSUME NEW i \in 1 .. len
        PROVE  i \in ActiveRows(rows) <=> i \in A \cup N
    BY <1>9, <1>10 DEF ActiveRows
  <2>2. ASSUME NEW i \in N
        PROVE  i \in ActiveRows(rows)
    BY <1>13 DEF ActiveRows
  <2>3. \A i \in DOMAIN rows : i \in 1 .. len \/ i \in N
    BY <1>9, <1>10
  <2>4. A \cup N \subseteq DOMAIN rows
    BY <1>9, <1>10, <1>11
  <2> QED
    BY <2>1, <2>2, <2>3, <2>4 DEF ActiveRows
<1>16. Sum(g, A \cup N) = Sum(g, A) + Sum(g, N)
  <2>1. \A i \in A \cup N : g[i] \in Nat
    <3>1. \A i \in A : g[i] \in Nat
      BY <1>11, <1>14
    <3>2. \A i \in N : g[i] \in Nat
      BY <1>13
    <3> QED
      BY <3>1, <3>2
  <2>2. IsFiniteSet(A) /\ IsFiniteSet(N) /\ A \cap N = {}
    BY <1>11, <1>12
  <2> QED
    BY <2>1, <2>2, SumUnion
<1>17. Sum(f, A) \in Nat /\ Sum(g, A) = Sum(f, A)
  BY <1>11, <1>14, SumSame
<1>18. Sum(g, N) = Sum(granted, made) /\ Sum(g, N) \in Nat
  <2>1. PICK h : h = [i \in N |-> order[i - len]]
    OBVIOUS
  <2>2. /\ order \in [1 .. n -> made]
        /\ \A j, k \in 1 .. n : order[j] = order[k] => j = k
        /\ \A l \in made : \E k \in 1 .. n : order[k] = l
    BY <1>5, <1>6, InOrder
  <2>3. \A i \in N : i - len \in 1 .. n /\ i \in Int
    BY <1>9, <1>10
  <2>4. ASSUME NEW i \in N, NEW j \in N, h[i] = h[j]
        PROVE  i = j
    <3>1. i - len = j - len
      BY <2>1, <2>2, <2>3, <2>4
    <3> QED
      BY <1>9, <2>3, <3>1
  <2>5. \A i \in N : g[i] \in Nat /\ g[i] = granted[h[i]]
    BY <1>13, <2>1
  <2>6. {h[i] : i \in N} = made
    <3>1. ASSUME NEW l \in made
          PROVE  \E i \in N : h[i] = l
      <4>1. PICK k \in 1 .. n : order[k] = l
        BY <2>2
      <4>2. len + k \in N /\ (len + k) - len = k
        BY <1>9, <1>10
      <4>3. h[len + k] = l
        BY <2>1, <4>1, <4>2
      <4> QED
        BY <4>2, <4>3
    <3>2. \A i \in N : h[i] \in made
      BY <1>13, <2>1
    <3> QED
      BY <3>1, <3>2
  <2>7. Sum(g, N) = Sum(granted, {h[i] : i \in N})
    BY <1>12, <2>4, <2>5, SumRenamed
  <2>8. Sum(g, N) \in Nat
    BY <1>12, <2>5, SumSame
  <2> QED
    BY <2>6, <2>7, <2>8
<1>19. stock'.allocated = stock.allocated + Sum(granted, made)
  <2>1. Total(granted, made) = Sum(granted, made)
    BY TotalIsSum
  <2>2. stock'.allocated = Allocated(t.allocated, Total(granted, made), stock.allocated)
    BY <1>1, <1>3, <1>4 DEF CommitConfirm
  <2> QED
    BY <1>3, <2>1, <2>2 DEF Allocated, Written
<1>20. (Promised <= stock.allocated)'
  <2>1. Promised = Sum(f, A)
    BY <1>10, PromisedIsSum
  <2>2. Promised' = Sum(g, A \cup N)
    BY <1>6, <1>10, <1>15, PromisedIsSum
  <2>3. Sum(f, A) <= stock.allocated /\ stock.allocated \in Nat
    BY <1>3, <2>1 DEF Books
  <2> QED
    BY <1>16, <1>17, <1>18, <1>19, <2>2, <2>3
<1>21. Unspent'
  <2>1. ASSUME NEW i \in ActiveRows(rows)
        PROVE  Remaining(rows[i]) >= 0
    <3>1. CASE i \in A
      BY <1>9, <1>11, <3>1
    <3>2. CASE i \in N
      BY <1>13, <3>2
    <3> QED
      BY <1>15, <3>1, <3>2
  <2> QED
    BY <1>6, <2>1 DEF Unspent, ActiveRows
<1>22. AllFresh'
  BY NoneLeft DEF CommitConfirm
<1> QED
  BY <1>20, <1>21, <1>22 DEF Books

\* A release takes from the allocation no more than the reservations promised.
LEMMA ReleaseBooks ==
  ASSUME IndInv, Books, AllFresh', NEW t, SessionOK(t), Fresh(t),
         t.op \in {"cancel", "expire"}, WriteRelease(t)
  PROVE  Books'
<1>1. /\ t.released \in SUBSET DOMAIN reservations
      /\ t.status \in {"CANCELLED", "EXPIRED"} /\ AsLoaded(t.rows) /\ Loaded(t.rows)
      /\ t.allocated = stock.allocated /\ \A i \in t.released : Active(t.rows[i])
      /\ stock \in [onHand : Int, allocated : Nat]
  BY DEF SessionOK, Fresh, AsLoaded, IndInv, TypeOK
<1>2. PICK R, rows, A, f, g, q :
        /\ R = t.released /\ rows = reservations' /\ A = ActiveRows(reservations)
        /\ f = Rest(reservations) /\ g = Rest(rows) /\ q = GivenBack(t)
  OBVIOUS
<1>3. /\ A \in SUBSET DOMAIN reservations /\ IsFiniteSet(A)
      /\ \A i \in A : f[i] = Remaining(reservations[i]) /\ f[i] \in Nat
  BY <1>2, RestType DEF Books
<1>4. DOMAIN rows = DOMAIN reservations
  BY <1>2 DEF WriteRelease
<1>5. \A i \in R :
        /\ Active(t.rows[i]) /\ Active(reservations[i])
        /\ Remaining(t.rows[i]) = Remaining(reservations[i])
  BY <1>1, <1>2 DEF AsLoaded, Alike, Active, Remaining
<1>6. R \in SUBSET A
  BY <1>1, <1>2, <1>5 DEF ActiveRows
<1>7. ASSUME NEW i \in R
      PROVE  ~Active(rows[i])
  <2>1. PICK old, now, new, row :
          /\ old = t.rows[i] /\ now = reservations[i] /\ new = Released(old, t.status)
          /\ row = rows[i]
    OBVIOUS
  <2>2. i \in DOMAIN reservations /\ i \in DOMAIN t.rows
    BY <1>1, <1>2 DEF AsLoaded
  <2>3. /\ old \in Reservation /\ RowOK(old) /\ now \in Reservation /\ RowOK(now)
        /\ old.line = now.line /\ old.reserved = now.reserved /\ old.status = now.status
    BY <1>1, <2>1, <2>2 DEF AsLoaded, Alike, Loaded, IndInv, TypeOK, RowOK
  <2>4. row = RowWritten(old, new, now)
    BY <1>2, <2>1, <2>2 DEF WriteRelease
  <2>5. Requantified(old, new) /\ new.status = t.status
    BY <1>1, <2>1, <2>3, ReleasedRow
  <2>6. row.status = Written(old.status, new.status, now.status)
    BY <2>3, <2>4, <2>5, RowChanged
  <2>7. row.status \in {"CANCELLED", "EXPIRED"}
    BY <1>1, <2>3, <2>5, <2>6 DEF Written
  <2> QED
    BY <2>1, <2>7 DEF Active
<1>8. \A i \in DOMAIN reservations : i \notin R => rows[i] = reservations[i]
  BY <1>2 DEF WriteRelease
<1>9. ActiveRows(rows) = A \ R
  BY <1>2, <1>4, <1>7, <1>8 DEF ActiveRows
<1>10. \A i \in A \ R : g[i] = f[i]
  BY <1>2, <1>3, <1>4, <1>8 DEF Rest
<1>11. IsFiniteSet(A \ R) /\ IsFiniteSet(R)
  BY <1>3, <1>6, FS_Subset
<1>12. Sum(f, A) = Sum(f, R) + Sum(f, A \ R)
  <2>1. A = R \cup (A \ R) /\ R \cap (A \ R) = {}
    BY <1>6
  <2> QED
    BY <1>3, <1>11, <2>1, SumUnion
<1>13. Sum(g, A \ R) = Sum(f, A \ R) /\ Sum(f, A \ R) \in Nat /\ Sum(f, R) \in Nat
  BY <1>3, <1>6, <1>10, <1>11, SumSame
<1>14. q \in Nat /\ q <= Sum(f, R)
  <2>1. PICK S, e : /\ S = {i \in t.released : Remaining(t.rows[i]) > 0} /\ e = Rest(t.rows)
    OBVIOUS
  <2>2. S \in SUBSET R /\ S \in SUBSET DOMAIN t.rows /\ IsFiniteSet(S)
    BY <1>1, <1>2, <1>11, <2>1, FS_Subset DEF AsLoaded
  <2>3. \A i \in S : e[i] = f[i] /\ e[i] = Remaining(t.rows[i]) /\ e[i] \in Nat /\ f[i] \in Nat
    BY <1>3, <1>5, <1>6, <2>1, <2>2 DEF Rest
  <2>4. q = Sum(e, S) /\ q \in Nat
    <3>1. \A i \in S : Remaining(t.rows[i]) \in Nat
      BY <2>3
    <3> QED
      BY <1>2, <2>1, <2>2, <3>1, HeldIsSum DEF GivenBack, Rest
  <2>5. \A i \in S : e[i] <= f[i]
    BY <2>3
  <2>6. \A i \in R : f[i] \in Nat
    BY <1>3, <1>6
  <2>7. Sum(e, S) <= Sum(f, R)
    BY <1>11, <2>2, <2>3, <2>5, <2>6, SumSmaller
  <2> QED
    BY <2>4, <2>7
<1>15. stock'.allocated = IF stock.allocated > q THEN stock.allocated - q ELSE 0
  <2>1. Deallocated(t.rows, t.allocated, t.released) =
          IF stock.allocated > q THEN stock.allocated - q ELSE 0
    BY <1>1, <1>2 DEF Deallocated, GivenBack
  <2>2. stock'.allocated = Written(t.allocated, Deallocated(t.rows, t.allocated, t.released),
                                   stock.allocated)
    BY <1>1 DEF WriteRelease
  <2> QED
    BY <1>1, <2>1, <2>2 DEF Written
<1>16. (Promised <= stock.allocated)'
  <2>1. Promised = Sum(f, A)
    BY <1>2, PromisedIsSum
  <2>2. Promised' = Sum(g, A \ R)
    BY <1>2, <1>9, PromisedIsSum
  <2>3. Sum(f, A) <= stock.allocated /\ stock.allocated \in Nat
    BY <1>1, <2>1 DEF Books
  <2> QED
    BY <1>12, <1>13, <1>14, <1>15, <2>2, <2>3
<1>17. Unspent'
  <2>1. ASSUME NEW i \in ActiveRows(rows)
        PROVE  Remaining(rows[i]) >= 0
    <3>1. i \in A /\ rows[i] = reservations[i]
      BY <1>3, <1>8, <1>9
    <3> QED
      BY <1>3, <3>1
  <2> QED
    BY <1>2, <2>1 DEF Unspent, ActiveRows
<1> QED
  BY <1>16, <1>17 DEF Books

LEMMA CommitCancelBooks ==
  ASSUME IndInv, Serial, Books, NEW w \in scenario.sessions, CommitCancel(w)
  PROVE  Books'
<1>1. PICK t : t = txn[w]
  OBVIOUS
<1>2. w \in Workers /\ SessionOK(t) /\ t.op = "cancel" /\ t # Idle
  BY <1>1, OwnSession DEF CommitCancel
<1>3. Fresh(t)
  BY <1>1, <1>2 DEF Books, AllFresh
<1>4. WriteRelease(t) /\ AllFresh'
  BY <1>1, NoneLeft DEF CommitCancel
<1> QED
  BY <1>2, <1>3, <1>4, ReleaseBooks

LEMMA CommitExpiredBooks ==
  ASSUME IndInv, Serial, Books, NEW w \in scenario.sessions, CommitExpired(w)
  PROVE  Books'
<1>1. PICK t : t = txn[w]
  OBVIOUS
<1>2. w \in Workers /\ SessionOK(t) /\ t.op = "expire" /\ t # Idle
  BY <1>1, OwnSession DEF CommitExpired
<1>3. Fresh(t)
  BY <1>1, <1>2 DEF Books, AllFresh
<1>4. WriteRelease(t) /\ AllFresh'
  BY <1>1, NoneLeft DEF CommitExpired
<1> QED
  BY <1>2, <1>3, <1>4, ReleaseBooks

\* A row that is still active after a shipment was active before, and less remains of it.
LEMMA DrawnRow ==
  ASSUME IndInv, Books, NEW w \in scenario.sessions, UNCHANGED scenario, CommitShipment(w),
         NEW i \in DOMAIN reservations, Active(reservations'[i])
  PROVE  /\ Active(reservations[i])
         /\ Remaining(reservations'[i]) \in Nat
         /\ Remaining(reservations'[i]) <= Remaining(reservations[i])
<1>1. PICK t, now, row : t = txn[w] /\ now = reservations[i] /\ row = reservations'[i]
  OBVIOUS
<1>2. w \in Workers /\ SessionOK(t) /\ t.op = "numbered" /\ t # Idle
  BY <1>1, OwnSession DEF CommitShipment
<1>3. Fresh(t)
  BY <1>1, <1>2 DEF Books, AllFresh
<1>4. now \in Reservation /\ RowOK(now) /\ (Active(now) => Remaining(now) >= 0)
  BY <1>1 DEF IndInv, TypeOK, RowOK, Books, Unspent
<1>5. Remaining(now) \in Int /\ Remaining(now) = now.reserved - now.fulfilled - now.cancelled
  BY <1>4 DEF Reservation, Remaining
<1>6. CASE row = now
  BY <1>1, <1>4, <1>5, <1>6
<1>7. ASSUME NEW quantity \in Int, i # 0, NEW l \in LinesOf(t.order), t.pick[l] = i,
             i \in DOMAIN t.rows, t.rows[i] \in Reservation, RowOK(t.rows[i]),
             row = RowWritten(t.rows[i], Fulfilled(t.rows[i], quantity), now)
      PROVE  /\ Active(now) /\ Remaining(row) \in Nat /\ Remaining(row) <= Remaining(now)
  <2>1. PICK old, new, drawn :
          old = t.rows[i] /\ new = Fulfilled(old, quantity) /\ drawn = Drawn(old, quantity)
    OBVIOUS
  <2>2. /\ old \in Reservation /\ RowOK(old) /\ Active(old) /\ Alike(old, now)
    BY <1>1, <1>2, <1>3, <1>7, <2>1 DEF Fresh, AsLoaded
  <2>3. /\ Requantified(old, new)
        /\ new.fulfilled = old.fulfilled + drawn /\ new.cancelled = old.cancelled
        /\ drawn \in Nat /\ (drawn = 0 \/ drawn <= Remaining(old))
    BY <2>1, <2>2, FulfilledRow
  <2>4. Active(now) /\ Remaining(old) = Remaining(now)
    BY <2>2 DEF Alike, Active, Remaining
  <2>5. /\ row.reserved = now.reserved
        /\ row.fulfilled = Written(old.fulfilled, new.fulfilled, now.fulfilled)
        /\ row.cancelled = Written(old.cancelled, new.cancelled, now.cancelled)
    BY <1>4, <1>7, <2>1, <2>2, <2>3, RowChanged DEF Alike
  <2>6. now.fulfilled \in Nat /\ now.cancelled \in Nat /\ now.reserved \in Nat
    BY <1>4 DEF Reservation
  <2>7. row.fulfilled = now.fulfilled + drawn /\ row.cancelled = now.cancelled
    BY <2>2, <2>3, <2>5, <2>6 DEF Alike, Written
  <2>8. Remaining(row) = Remaining(now) - drawn
    BY <1>5, <2>3, <2>5, <2>6, <2>7 DEF Remaining
  <2> QED
    BY <1>4, <1>5, <2>3, <2>4, <2>8
<1>8. row = now \/ \E quantity \in Int :
        /\ i # 0 /\ \E l \in LinesOf(t.order) : t.pick[l] = i
        /\ i \in DOMAIN t.rows /\ t.rows[i] \in Reservation /\ RowOK(t.rows[i])
        /\ row = RowWritten(t.rows[i], Fulfilled(t.rows[i], quantity), now)
  BY <1>1, RowsDrawn
<1> QED
  BY <1>1, <1>4, <1>6, <1>7, <1>8

\* A shipment promises nothing more.
LEMMA CommitShipmentBooks ==
  ASSUME IndInv, Serial, Books, NEW w \in scenario.sessions, UNCHANGED scenario,
         CommitShipment(w)
  PROVE  Books'
<1>1. PICK rows, A, B, f, g :
        /\ rows = reservations' /\ A = ActiveRows(reservations) /\ B = ActiveRows(rows)
        /\ f = Rest(reservations) /\ g = Rest(rows)
  OBVIOUS
<1>2. /\ IsFiniteSet(A)
      /\ \A i \in A : f[i] = Remaining(reservations[i]) /\ f[i] \in Nat
  BY <1>1, RestType DEF Books
<1>3. DOMAIN rows = DOMAIN reservations
  BY <1>1 DEF CommitShipment
<1>4. ASSUME NEW i \in B
      PROVE  i \in A /\ g[i] \in Nat /\ g[i] <= f[i] /\ Remaining(rows[i]) >= 0
  <2>1. i \in DOMAIN reservations /\ i \in DOMAIN rows /\ Active(rows[i])
    BY <1>1, <1>3 DEF ActiveRows
  <2>2. /\ Active(reservations[i]) /\ Remaining(rows[i]) \in Nat
        /\ Remaining(rows[i]) <= Remaining(reservations[i])
    BY <1>1, <2>1, DrawnRow
  <2>3. i \in A /\ g[i] = Remaining(rows[i]) /\ f[i] = Remaining(reservations[i])
    BY <1>1, <2>1, <2>2 DEF ActiveRows, Rest
  <2> QED
    BY <2>2, <2>3
<1>5. B \in SUBSET A
  BY <1>4
<1>6. Sum(g, B) <= Sum(f, A)
  BY <1>2, <1>4, <1>5, SumSmaller
<1>7. Sum(g, B) \in Nat /\ Sum(f, A) \in Nat
  <2>1. IsFiniteSet(B)
    BY <1>2, <1>5, FS_Subset
  <2> QED
    BY <1>2, <1>4, <2>1, SumSame
<1>8. (Promised <= stock.allocated)'
  <2>1. Promised = Sum(f, A) /\ Promised' = Sum(g, B)
    BY <1>1, PromisedIsSum
  <2>2. Sum(f, A) <= stock.allocated /\ stock'.allocated = stock.allocated
        /\ stock.allocated \in Nat
    BY <2>1 DEF Books, CommitShipment, IndInv, TypeOK
  <2> QED
    BY <1>6, <1>7, <2>1, <2>2
<1>9. Unspent'
  BY <1>1, <1>4 DEF Unspent, ActiveRows
<1>10. AllFresh'
  BY NoneLeft DEF CommitShipment
<1> QED
  BY <1>8, <1>9, <1>10 DEF Books

LEMMA CommitBooks ==
  ASSUME IndInv, Serial, Books, NEW w \in scenario.sessions, UNCHANGED scenario, Commit(w)
  PROVE  Books'
<1>1. CASE CommitStatus(w) \/ RefuseInvoice(w)
  BY <1>1, NoneLeft, BooksUntouched DEF CommitStatus, RefuseInvoice
<1>2. CASE CommitConfirm(w)
  BY <1>2, CommitConfirmBooks
<1>3. CASE CommitCancel(w)
  BY <1>3, CommitCancelBooks
<1>4. CASE CommitExpired(w)
  BY <1>4, CommitExpiredBooks
<1>5. CASE NumberShipment(w)
  BY <1>5, NumberShipmentBooks
<1>6. CASE CommitShipment(w)
  BY <1>6, CommitShipmentBooks
<1>7. CASE CommitIssue(w)
  BY <1>7, CommitIssueBooks
<1> QED
  BY <1>1, <1>2, <1>3, <1>4, <1>5, <1>6, <1>7 DEF Commit

LEMMA NextBooks ==
  ASSUME IndInv, Serial, Books, Next
  PROVE  Books'
<1>1. UNCHANGED scenario
  BY DEF Next
<1>2. CASE \E w \in scenario.sessions, o \in OrdersMade : OrderOperation(w, o)
  BY <1>1, <1>2, OrderOperationBooks
<1>3. CASE \E i \in DOMAIN reservations : FallDue(i)
  BY <1>1, <1>3, FallDueBooks
<1>4. ASSUME NEW w \in scenario.sessions,
             \/ Commit(w)
             \/ ReleaseExpired(w)
             \/ Rollback(w)
             \/ \E quantity \in scenario.receipts : Receive(w, quantity)
             \/ \E quantity \in scenario.issues : IssueStock(w, quantity)
      PROVE  Books'
  <2>1. CASE Commit(w)
    BY <1>1, <2>1, CommitBooks
  <2>2. CASE ReleaseExpired(w)
    BY <1>1, <2>2, ReleaseExpiredBooks
  <2>3. CASE Rollback(w)
    BY <2>3, NoneLeft, BooksUntouched DEF Rollback
  <2>4. CASE \E quantity \in scenario.receipts : Receive(w, quantity)
    BY <1>1, <2>4, ReceiveBooks
  <2>5. CASE \E quantity \in scenario.issues : IssueStock(w, quantity)
    BY <1>1, <2>5, IssueStockBooks
  <2> QED
    BY <1>4, <2>1, <2>2, <2>3, <2>4, <2>5
<1> QED
  BY <1>2, <1>3, <1>4 DEF Next

LEMMA InitBooks == Init => Books
<1> SUFFICES ASSUME Init PROVE Books
  OBVIOUS
<1>1. DOMAIN reservations = {} /\ stock.allocated = 0
  BY DEF Init
<1>2. AllFresh
  BY DEF Init, SessionsInit, AllFresh
<1>3. Promised = 0
  <2>1. ActiveRows(reservations) = {}
    BY <1>1 DEF ActiveRows
  <2>2. Sum(Rest(reservations), {}) = 0
    BY FS_EmptySet, SumRecursion
  <2> QED
    BY <2>1, <2>2, PromisedIsSum
<1> QED
  BY <1>1, <1>2, <1>3 DEF Books, Unspent

LEMMA StutterBooks ==
  ASSUME Books, UNCHANGED vars
  PROVE  Books'
<1>1. \A t : Fresh(t) => Fresh(t)'
  BY DEF vars, Fresh, AsLoaded, LinesOf
<1>2. AllFresh'
  BY <1>1 DEF Books, AllFresh, vars
<1> QED
  BY <1>2, BooksUntouched DEF vars

\* Whoever works alone finds the rows as they are when it commits; no reservation that is
\* active is overdrawn, and what they promise is allocated.
LEMMA BooksHold == Spec => [](Serial => Books)
<1>1. IndInv /\ (Serial => Books) /\ [Next]_vars => (Serial => Books)'
  <2> SUFFICES ASSUME IndInv, Serial => Books, [Next]_vars, Serial'
               PROVE  Books'
    OBVIOUS
  <2>1. UNCHANGED scenario
    BY DEF Next, vars
  <2>2. Serial
    BY <2>1 DEF Serial
  <2> QED
    BY <2>2, NextBooks, StutterBooks
<1> QED
  BY <1>1, InitBooks, Inductive, PTL DEF Spec

\* With one session at a time, every unit an active reservation still promises is
\* allocated: confirm allocates what it reserves, a shipment leaves the allocation as it
\* is, and cancel and the expiry free no more than what they release had promised.
THEOREM AllocationCovers == Spec => []AllocationCoversPromises
<1>1. (Serial => Books) => AllocationCoversPromises
  BY DEF Books, AllocationCoversPromises
<1> QED
  BY <1>1, BooksHold, PTL

-----------------------------------------------------------------------------
(* The status of orders of one line. *)

StatusOK(status, o) ==
  /\ status = "SHIPPED" => FullyShipped(o, shipped)
  /\ status = "IN_PROGRESS" => ~FullyShipped(o, shipped)
  /\ status \notin {"SHIPPED", "IN_PROGRESS", "ON_HOLD"} => \A l \in LinesOf(o) : ~(shipped[l] > 0)

StatusToWrite(t) ==
  /\ t.op = "status" => StatusOK(t.row.status, t.order)
  /\ t.op = "confirm" => t.found.status = "APPROVED"

Statuses ==
  /\ \A o \in OrdersMade : StatusOK(so[o].status, o)
  /\ \A w \in Workers : txn[w] # Idle => StatusToWrite(txn[w])

\* The lines of an order are untouched.
LEMMA StatusKept ==
  ASSUME UNCHANGED scenario, NEW o, \A l \in LinesOf(o) : shipped'[l] = shipped[l]
  PROVE  \A status : StatusOK(status, o) => StatusOK(status, o)'
<1>1. LinesOf(o)' = LinesOf(o)
  BY DEF LinesOf
<1>2. FullyShipped(o, shipped)' <=> FullyShipped(o, shipped)
  BY <1>1 DEF FullyShipped
<1> QED
  BY <1>1, <1>2 DEF StatusOK

LEMMA OrdersKept == UNCHANGED scenario => OrdersMade' = OrdersMade
BY DEF OrdersMade, LinesOf

\* A session begins or goes on, and knows the status it will write.
LEMMA StatusStep ==
  ASSUME IndInv, Serial, Statuses, NEW w \in scenario.sessions,
         NEW t, txn' = [txn EXCEPT ![w] = t], StatusToWrite(t), UNCHANGED Data
  PROVE  Statuses'
<1>1. \A o, status : StatusOK(status, o) => StatusOK(status, o)'
  BY StatusKept DEF Data
<1>2. \A o \in OrdersMade' : StatusOK(so[o].status, o)'
  BY <1>1, OrdersKept DEF Statuses, Data
<1>3. StatusToWrite(t)'
  BY <1>1 DEF StatusToWrite
<1>4. \A v \in Workers : txn'[v] # Idle => txn'[v] = t
  BY Alone
<1> QED
  BY <1>2, <1>3, <1>4 DEF Statuses

\* The session ends.
LEMMA StatusEnd ==
  ASSUME IndInv, Serial, NEW w \in scenario.sessions, End(w), UNCHANGED scenario,
         \A o \in OrdersMade : StatusOK(so[o].status, o)'
  PROVE  Statuses'
<1>1. txn' = [txn EXCEPT ![w] = Idle]
  BY DEF End
<1>2. \A v \in Workers : txn'[v] = Idle
  BY <1>1, Alone
<1> QED
  BY <1>2, OrdersKept DEF Statuses

\* The steps that change no order and no line.
LEMMA StatusesUntouched ==
  ASSUME Statuses, UNCHANGED <<scenario, so, shipped>>
  PROVE  \A o \in OrdersMade : StatusOK(so[o].status, o)'
<1>1. \A o, status : StatusOK(status, o) => StatusOK(status, o)'
  BY StatusKept
<1> QED
  BY <1>1 DEF Statuses

LEMMA StatusesStay ==
  ASSUME Statuses, UNCHANGED <<scenario, so, shipped, txn>>
  PROVE  Statuses'
<1>1. \A o, status : StatusOK(status, o) => StatusOK(status, o)'
  BY StatusKept
<1>2. \A t : StatusToWrite(t) => StatusToWrite(t)'
  BY <1>1 DEF StatusToWrite
<1> QED
  BY <1>1, <1>2, OrdersKept DEF Statuses

\* A new row for the order, from the one that was loaded
LEMMA LoadOrderStatus ==
  ASSUME IndInv, Serial, Statuses, NEW w \in scenario.sessions, NEW o \in OrdersMade,
         NEW statuses, NEW row, LoadOrder(w, o, statuses, row), StatusOK(row.status, o),
         UNCHANGED scenario
  PROVE  Statuses'
<1>1. PICK t : t = [op |-> "status", order |-> o, found |-> so[o], row |-> row]
  OBVIOUS
<1>2. StatusToWrite(t)
  BY <1>1 DEF StatusToWrite
<1>3. txn' = [txn EXCEPT ![w] = t] /\ UNCHANGED Data
  BY <1>1 DEF LoadOrder, Begin, Data
<1> QED
  BY <1>2, <1>3, StatusStep

LEMMA OrderOperationStatus ==
  ASSUME IndInv, Serial, Statuses, NEW w \in scenario.sessions, NEW o \in OrdersMade,
         UNCHANGED scenario, OrderOperation(w, o)
  PROVE  Statuses'
<1>1. so[o] \in OrderRow /\ StatusOK(so[o].status, o)
  BY DEF OrdersMade, IndInv, TypeOK, Statuses
<1>2. CASE SubmitOrder(w, o)
  <2>1. PICK row : row = [so[o] EXCEPT !.status = "SUBMITTED"]
    OBVIOUS
  <2>2. LoadOrder(w, o, {"DRAFT"}, row) /\ row.status = "SUBMITTED"
    BY <1>1, <1>2, <2>1 DEF SubmitOrder, OrderRow
  <2>3. StatusOK(row.status, o)
    BY <1>1, <2>2 DEF LoadOrder, StatusOK
  <2> QED
    BY <2>2, <2>3, LoadOrderStatus
<1>3. CASE ApproveOrder(w, o)
  <2>1. PICK row : row = [so[o] EXCEPT !.status = "APPROVED", !.approved = TRUE]
    OBVIOUS
  <2>2. LoadOrder(w, o, {"SUBMITTED"}, row) /\ row.status = "APPROVED"
    BY <1>1, <1>3, <2>1 DEF ApproveOrder, OrderRow
  <2>3. StatusOK(row.status, o)
    BY <1>1, <2>2 DEF LoadOrder, StatusOK
  <2> QED
    BY <2>2, <2>3, LoadOrderStatus
<1>4. CASE HoldOrder(w, o)
  <2>1. PICK row, statuses : /\ row = [so[o] EXCEPT !.status = "ON_HOLD"]
                             /\ statuses = AllBut({"COMPLETED", "CANCELLED"})
    OBVIOUS
  <2>2. LoadOrder(w, o, statuses, row) /\ row.status = "ON_HOLD"
    BY <1>1, <1>4, <2>1 DEF HoldOrder, OrderRow
  <2>3. StatusOK(row.status, o)
    BY <2>2 DEF StatusOK
  <2> QED
    BY <2>2, <2>3, LoadOrderStatus
<1>5. CASE ReleaseHold(w, o)
  <2>1. PICK row : row = [so[o] EXCEPT !.status = StatusAfterHold(o)]
    OBVIOUS
  <2>2. LoadOrder(w, o, {"ON_HOLD"}, row) /\ row.status = StatusAfterHold(o)
    BY <1>1, <1>5, <2>1 DEF ReleaseHold, OrderRow
  <2>3. StatusOK(row.status, o)
    BY <2>2 DEF StatusAfterHold, StatusOK
  <2> QED
    BY <2>2, <2>3, LoadOrderStatus
<1>6. CASE ConfirmOrder(w, o)
  <2>1. PICK granted :
          Begin(w, [op |-> "confirm", order |-> o, found |-> so[o],
                    granted |-> granted, allocated |-> stock.allocated])
    BY <1>6 DEF ConfirmOrder
  <2>2. PICK t : t = [op |-> "confirm", order |-> o, found |-> so[o],
                      granted |-> granted, allocated |-> stock.allocated]
    OBVIOUS
  <2>3. StatusToWrite(t)
    BY <1>6, <2>2 DEF StatusToWrite, ConfirmOrder
  <2>4. txn' = [txn EXCEPT ![w] = t] /\ UNCHANGED Data
    BY <1>6, <2>1, <2>2 DEF ConfirmOrder, Begin, Data
  <2> QED
    BY <2>3, <2>4, StatusStep
<1>7. CASE CancelOrder(w, o)
  <2>1. PICK t : t = [op |-> "cancel", order |-> o, found |-> so[o], status |-> "CANCELLED",
               released |-> UNION {ActiveFor(reservations, l) : l \in LinesOf(o)},
               rows |-> reservations, allocated |-> stock.allocated]
    OBVIOUS
  <2>2. StatusToWrite(t)
    BY <2>1 DEF StatusToWrite
  <2>3. txn' = [txn EXCEPT ![w] = t] /\ UNCHANGED Data
    BY <1>7, <2>1 DEF CancelOrder, Begin, Data
  <2> QED
    BY <2>2, <2>3, StatusStep
<1>8. CASE CreateInvoice(w, o)
  <2>1. PICK t : t = [op |-> "invoice", order |-> o]
    OBVIOUS
  <2>2. StatusToWrite(t)
    BY <2>1 DEF StatusToWrite
  <2>3. txn' = [txn EXCEPT ![w] = t] /\ UNCHANGED Data
    BY <1>8, <2>1 DEF CreateInvoice, Begin, Data
  <2> QED
    BY <2>2, <2>3, StatusStep
<1>9. ASSUME NEW quantity, CreateShipment(w, o, quantity)
      PROVE  Statuses'
  <2>1. PICK t : t = [op |-> "ship", order |-> o, found |-> so[o], quantity |-> quantity]
    OBVIOUS
  <2>2. StatusToWrite(t)
    BY <2>1 DEF StatusToWrite
  <2>3. txn' = [txn EXCEPT ![w] = t] /\ UNCHANGED Data
    BY <1>9, <2>1 DEF CreateShipment, Begin, Data
  <2> QED
    BY <2>2, <2>3, StatusStep
<1> QED
  BY <1>2, <1>3, <1>4, <1>5, <1>6, <1>7, <1>8, <1>9 DEF OrderOperation

LEMMA CommitStatusStatus ==
  ASSUME IndInv, Serial, Books, Statuses, NEW w \in scenario.sessions, UNCHANGED scenario,
         CommitStatus(w)
  PROVE  Statuses'
<1>1. PICK t : t = txn[w]
  OBVIOUS
<1>2. w \in Workers /\ SessionOK(t) /\ t.op = "status" /\ t # Idle
  BY <1>1, OwnSession DEF CommitStatus
<1>3. /\ t.order \in Orders /\ t.found \in OrderRow /\ t.row \in OrderRow
      /\ t.found = so[t.order] /\ StatusOK(t.row.status, t.order)
      /\ so \in [Orders -> OrderRow]
  BY <1>1, <1>2 DEF SessionOK, OfOrder, Books, AllFresh, Fresh, Statuses, StatusToWrite,
                    IndInv, TypeOK
<1>4. so' = [so EXCEPT ![t.order] = t.row]
  <2>1. RowWritten(t.found, t.row, so[t.order]) = t.row
    BY <1>3, OrderColumns
  <2> QED
    BY <1>1, <2>1 DEF CommitStatus
<1>5. \A o, status : StatusOK(status, o) => StatusOK(status, o)'
  BY StatusKept DEF CommitStatus
<1>6. ASSUME NEW o \in OrdersMade
      PROVE  StatusOK(so[o].status, o)'
  <2>1. so'[o] = IF o = t.order THEN t.row ELSE so[o]
    BY <1>3, <1>4 DEF OrdersMade
  <2>2. PICK status : status = so'[o].status
    OBVIOUS
  <2>3. StatusOK(status, o)
    BY <1>3, <2>1, <2>2 DEF Statuses
  <2> QED
    BY <1>5, <2>2, <2>3
<1> QED
  BY <1>6, StatusEnd DEF CommitStatus

LEMMA CommitConfirmStatus ==
  ASSUME IndInv, Serial, Books, Statuses, NEW w \in scenario.sessions, UNCHANGED scenario,
         CommitConfirm(w)
  PROVE  Statuses'
<1>1. PICK t : t = txn[w]
  OBVIOUS
<1>2. w \in Workers /\ SessionOK(t) /\ t.op = "confirm" /\ t # Idle
  BY <1>1, OwnSession DEF CommitConfirm
<1>3. /\ t.order \in Orders /\ t.found \in OrderRow
      /\ t.found = so[t.order] /\ t.found.status = "APPROVED"
      /\ so \in [Orders -> OrderRow]
  BY <1>1, <1>2 DEF SessionOK, OfOrder, Books, AllFresh, Fresh, Statuses, StatusToWrite,
                    IndInv, TypeOK
<1>4. PICK row : row = [t.found EXCEPT !.status = "CONFIRMED", !.confirmed = TRUE]
  OBVIOUS
<1>5. row \in OrderRow /\ row.status = "CONFIRMED"
  BY <1>3, <1>4 DEF OrderRow, AllBut
<1>6. so' = [so EXCEPT ![t.order] = row]
  <2>1. RowWritten(t.found, row, so[t.order]) = row
    BY <1>3, <1>5, OrderColumns
  <2> QED
    BY <1>1, <1>4, <2>1 DEF CommitConfirm
<1>7. \A o, status : StatusOK(status, o) => StatusOK(status, o)'
  BY StatusKept DEF CommitConfirm
<1>8. ASSUME NEW o \in OrdersMade
      PROVE  StatusOK(so[o].status, o)'
  <2>1. so'[o] = IF o = t.order THEN row ELSE so[o]
    BY <1>3, <1>6 DEF OrdersMade
  <2>2. PICK status : status = so'[o].status
    OBVIOUS
  <2>3. StatusOK(so[o].status, o)
    BY DEF Statuses
  <2>4. StatusOK(status, o)
    BY <1>3, <1>5, <2>1, <2>2, <2>3 DEF StatusOK
  <2> QED
    BY <1>7, <2>2, <2>4
<1> QED
  BY <1>8, StatusEnd DEF CommitConfirm

\* Nothing of a cancelled order was shipped.
LEMMA CommitCancelStatus ==
  ASSUME IndInv, Serial, Books, Statuses, NEW w \in scenario.sessions, UNCHANGED scenario,
         CommitCancel(w)
  PROVE  Statuses'
<1>1. PICK t : t = txn[w]
  OBVIOUS
<1>2. w \in Workers /\ SessionOK(t) /\ t.op = "cancel" /\ t # Idle
  BY <1>1, OwnSession DEF CommitCancel
<1>3. /\ t.order \in Orders /\ t.found = so[t.order] /\ shipments[t.order] = 0
      /\ so \in [Orders -> OrderRow]
  BY <1>1, <1>2 DEF SessionOK, OfOrder, Books, AllFresh, Fresh, IndInv, TypeOK
<1>4. \A l \in LinesOf(t.order) : shipped[l] = 0
  BY <1>3 DEF IndInv, ShippedByShipment
<1>5. so' = [so EXCEPT ![t.order].status = "CANCELLED"]
  BY <1>1, <1>3 DEF CommitCancel, Written
<1>6. \A o, status : StatusOK(status, o) => StatusOK(status, o)'
  BY StatusKept DEF CommitCancel
<1>7. ASSUME NEW o \in OrdersMade
      PROVE  StatusOK(so[o].status, o)'
  <2>1. so'[o].status = IF o = t.order THEN "CANCELLED" ELSE so[o].status
    BY <1>3, <1>5 DEF OrdersMade, OrderRow
  <2>2. PICK status : status = so'[o].status
    OBVIOUS
  <2>3. StatusOK(so[o].status, o)
    BY DEF Statuses
  <2>4. StatusOK(status, o)
    BY <1>4, <2>1, <2>2, <2>3 DEF StatusOK
  <2> QED
    BY <1>6, <2>2, <2>4
<1> QED
  BY <1>7, StatusEnd DEF CommitCancel

\* A shipment of an order of one line is made or refused as a whole.
LEMMA CommitShipmentStatus ==
  ASSUME IndInv, Serial, OneLineEach, Books, Statuses, NEW w \in scenario.sessions,
         UNCHANGED scenario, CommitShipment(w)
  PROVE  Statuses'
<1>1. PICK t : t = txn[w]
  OBVIOUS
<1>2. w \in Workers /\ SessionOK(t) /\ t.op = "numbered" /\ t # Idle
  BY <1>1, OwnSession DEF CommitShipment
<1>3. /\ t.order \in Orders /\ t.found = so[t.order] /\ so \in [Orders -> OrderRow]
  BY <1>1, <1>2 DEF SessionOK, OfOrder, Books, AllFresh, Fresh, IndInv, TypeOK
<1>4. /\ shipped' = After(t)
      /\ \A l \in Lines : l \notin Applied(t) => shipped'[l] = shipped[l]
  BY <1>1, LinesShipped
<1>5. \A o : LinesOf(o) \subseteq Lines /\ LinesOf(o)' = LinesOf(o)
  BY LinesType DEF LinesOf, IndInv
<1>6. so' = [so EXCEPT ![t.order].status =
               IF Refused(t) = {}
               THEN Written(t.found.status,
                            IF FullyShipped(t.order, After(t)) THEN "SHIPPED" ELSE "IN_PROGRESS",
                            so[t.order].status)
               ELSE so[t.order].status]
  BY <1>1, <1>3 DEF CommitShipment, After
<1>7. ASSUME NEW o \in OrdersMade, o # t.order
      PROVE  StatusOK(so[o].status, o)'
  <2>1. so'[o].status = so[o].status
    BY <1>3, <1>6, <1>7
  <2>2. \A l \in LinesOf(o) : l \notin Applied(t)
    BY <1>7 DEF Applied, LinesOf
  <2>3. \A l \in LinesOf(o) : shipped'[l] = shipped[l]
    BY <1>4, <1>5, <2>2
  <2>4. \A status : StatusOK(status, o) => StatusOK(status, o)'
    BY <2>3, StatusKept
  <2>5. PICK status : status = so[o].status
    OBVIOUS
  <2> QED
    BY <2>1, <2>4, <2>5 DEF Statuses
<1>8. ASSUME NEW o \in OrdersMade, o = t.order
      PROVE  StatusOK(so[o].status, o)'
  <2>1. CASE Refused(t) = {}
    <3>1. so'[o].status = IF FullyShipped(o, After(t)) THEN "SHIPPED" ELSE "IN_PROGRESS"
      BY <1>3, <1>6, <1>8, <2>1 DEF Written, OrderRow
    <3>2. FullyShipped(o, shipped)' <=> FullyShipped(o, After(t))
      BY <1>4, <1>5 DEF FullyShipped
    <3> QED
      BY <3>1, <3>2 DEF StatusOK
  <2>2. CASE Refused(t) # {}
    <3>1. so'[o].status = so[o].status
      BY <1>3, <1>6, <1>8, <2>2 DEF OrderRow
    <3>2. PICK k : k \in Refused(t)
      BY <2>2
    <3>3. k \in LinesOf(o) /\ k \in Nat /\ \A l \in LinesOf(o) : l = k
      BY <1>5, <1>8, <3>2, SalesOrdersAssumption DEF Refused, OneLineEach
    <3>4. \A l \in LinesOf(o) : l \notin Applied(t)
      BY <3>2, <3>3 DEF Applied
    <3>5. \A l \in LinesOf(o) : shipped'[l] = shipped[l]
      BY <1>4, <1>5, <3>4
    <3>6. \A status : StatusOK(status, o) => StatusOK(status, o)'
      BY <3>5, StatusKept
    <3>7. PICK status : status = so[o].status
      OBVIOUS
    <3> QED
      BY <3>1, <3>6, <3>7 DEF Statuses
  <2> QED
    BY <2>1, <2>2
<1> QED
  BY <1>7, <1>8, StatusEnd DEF CommitShipment

LEMMA NumberShipmentStatus ==
  ASSUME IndInv, Serial, Statuses, NEW w \in scenario.sessions, UNCHANGED scenario,
         NumberShipment(w)
  PROVE  Statuses'
<1>1. PICK s : s = txn[w]
  OBVIOUS
<1>2. PICK pick :
        Continue(w, [op |-> "numbered", order |-> s.order, found |-> s.found,
                     quantity |-> s.quantity, lines |-> shipped,
                     pick |-> pick, rows |-> reservations])
  BY <1>1 DEF NumberShipment
<1>3. PICK t : t = [op |-> "numbered", order |-> s.order, found |-> s.found,
                    quantity |-> s.quantity, lines |-> shipped,
                    pick |-> pick, rows |-> reservations]
  OBVIOUS
<1>4. StatusToWrite(t)
  BY <1>3 DEF StatusToWrite
<1>5. txn' = [txn EXCEPT ![w] = t] /\ UNCHANGED Data
  BY <1>2, <1>3 DEF NumberShipment, Continue, Data
<1> QED
  BY <1>4, <1>5, StatusStep

LEMMA CommitStatuses ==
  ASSUME IndInv, Serial, OneLineEach, Books, Statuses, NEW w \in scenario.sessions,
         UNCHANGED scenario, Commit(w)
  PROVE  Statuses'
<1>1. CASE RefuseInvoice(w) \/ CommitIssue(w) \/ CommitExpired(w)
  BY <1>1, StatusesUntouched, StatusEnd DEF RefuseInvoice, CommitIssue, CommitExpired
<1>2. CASE CommitConfirm(w)
  BY <1>2, CommitConfirmStatus
<1>3. CASE CommitCancel(w)
  BY <1>3, CommitCancelStatus
<1>4. CASE CommitStatus(w)
  BY <1>4, CommitStatusStatus
<1>5. CASE NumberShipment(w)
  BY <1>5, NumberShipmentStatus
<1>6. CASE CommitShipment(w)
  BY <1>6, CommitShipmentStatus
<1> QED
  BY <1>1, <1>2, <1>3, <1>4, <1>5, <1>6 DEF Commit

LEMMA NextStatuses ==
  ASSUME IndInv, Serial, OneLineEach, Books, Statuses, Next
  PROVE  Statuses'
<1>1. UNCHANGED scenario
  BY DEF Next
<1>2. CASE \E w \in scenario.sessions, o \in OrdersMade : OrderOperation(w, o)
  BY <1>1, <1>2, OrderOperationStatus
<1>3. CASE \E i \in DOMAIN reservations : FallDue(i)
  BY <1>1, <1>3, StatusesStay DEF FallDue
<1>4. ASSUME NEW w \in scenario.sessions,
             \/ Commit(w)
             \/ ReleaseExpired(w)
             \/ Rollback(w)
             \/ \E quantity \in scenario.receipts : Receive(w, quantity)
             \/ \E quantity \in scenario.issues : IssueStock(w, quantity)
      PROVE  Statuses'
  <2>1. CASE Commit(w)
    BY <1>1, <2>1, CommitStatuses
  <2>2. CASE ReleaseExpired(w)
    <3>1. PICK t : t = [op |-> "expire", status |-> "EXPIRED", released |-> Overdue,
                        rows |-> reservations, allocated |-> stock.allocated]
      OBVIOUS
    <3>2. StatusToWrite(t)
      BY <3>1 DEF StatusToWrite
    <3>3. txn' = [txn EXCEPT ![w] = t] /\ UNCHANGED Data
      BY <1>1, <2>2, <3>1 DEF ReleaseExpired, Begin, Data
    <3> QED
      BY <3>2, <3>3, StatusStep
  <2>3. CASE Rollback(w)
    BY <1>1, <2>3, StatusesUntouched, StatusEnd DEF Rollback
  <2>4. CASE \E quantity \in scenario.receipts : Receive(w, quantity)
    BY <1>1, <2>4, StatusesStay DEF Receive
  <2>5. ASSUME NEW quantity, IssueStock(w, quantity)
        PROVE  Statuses'
    <3>1. PICK t : t = [op |-> "issue", quantity |-> quantity]
      OBVIOUS
    <3>2. StatusToWrite(t)
      BY <3>1 DEF StatusToWrite
    <3>3. txn' = [txn EXCEPT ![w] = t] /\ UNCHANGED Data
      BY <1>1, <2>5, <3>1 DEF IssueStock, Begin, Data
    <3> QED
      BY <3>2, <3>3, StatusStep
  <2> QED
    BY <1>4, <2>1, <2>2, <2>3, <2>4, <2>5
<1> QED
  BY <1>2, <1>3, <1>4 DEF Next

LEMMA InitStatuses == Init => Statuses
<1> SUFFICES ASSUME Init PROVE Statuses
  OBVIOUS
<1>1. \A w \in Workers : txn[w] = Idle
  BY DEF Init, SessionsInit
<1>2. ASSUME NEW o \in OrdersMade
      PROVE  StatusOK(so[o].status, o)
  <2>1. so[o].status = "DRAFT"
    BY DEF Init, Draft, OrdersMade
  <2>2. LinesOf(o) \subseteq Lines
    BY LinesType DEF Init
  <2>3. \A l \in LinesOf(o) : ~(shipped[l] > 0)
    BY <2>2 DEF Init
  <2> QED
    BY <2>1, <2>3 DEF StatusOK
<1> QED
  BY <1>1, <1>2 DEF Statuses

\* With one session at a time, the status of an order of one line tells how much of it
\* has been shipped: SHIPPED all of it, IN_PROGRESS not all, before a shipment nothing.
THEOREM StatusTellsShipped == Spec => []StatusMatchesShipped
<1>1. /\ IndInv /\ (Serial => Books) /\ (Serial /\ OneLineEach => Statuses) /\ [Next]_vars
      => (Serial /\ OneLineEach => Statuses)'
  <2> SUFFICES ASSUME IndInv, Serial => Books, Serial /\ OneLineEach => Statuses,
                      [Next]_vars, Serial', OneLineEach'
               PROVE  Statuses'
    OBVIOUS
  <2>1. UNCHANGED scenario
    BY DEF Next, vars
  <2>2. Serial /\ OneLineEach
    BY <2>1 DEF Serial, OneLineEach, OrdersMade, LinesOf
  <2>3. CASE Next
    BY <2>2, <2>3, NextStatuses
  <2>4. CASE UNCHANGED vars
    BY <2>2, <2>4, StatusesStay DEF vars
  <2> QED
    BY <2>3, <2>4
<1>2. (Serial /\ OneLineEach => Statuses) => StatusMatchesShipped
  BY DEF Statuses, StatusOK, StatusMatchesShipped
<1> QED
  BY <1>1, <1>2, InitStatuses, Inductive, BooksHold, PTL DEF Spec
=============================================================================
