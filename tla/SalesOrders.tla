---------------------------- MODULE SalesOrders ----------------------------
(***************************************************************************)
(* Sales orders of one stocked item: approval, confirmation with stock     *)
(* reservation, shipment, cancellation, hold, the expiry of reservations,  *)
(* and the stock movements beside them.                                    *)
(*                                                                         *)
(* The web handlers catch every exception of the service and answer with a *)
(* redirect, so the dependency get_db_for_org commits what an operation    *)
(* did before it raised.  A shipment takes its number under the row lock   *)
(* of the numbering sequence and holds it to the commit, which makes       *)
(* shipments take turns after they have loaded the order; nothing else     *)
(* locks.  Reservation is switched on, with a default warehouse.           *)
(***************************************************************************)
EXTENDS Sessions, Integers, SequencesExt

CONSTANTS Orders,
          Lines,        \* order lines, numbered in the order they are listed
          Ordered,      \* quantity_ordered of a line
          AllowPartial, \* stock_reservation_allow_partial
          Scenarios     \* the circumstances considered

VARIABLES scenario,     \* sessions: those at work; orderOf[l]: the order of line l;
                        \* asked, receipts, issues: the quantities shipped, received and
                        \* issued apart from shipments; expiry: whether reservations
                        \* fall due; bounds on the quantity received ("stock"), the
                        \* shipments of an order and the reservation rows
          so,           \* so[o]: status, and whether approved_at, confirmed_at are set
          shipped,      \* shipped[l]: quantity_shipped of the line
          sent,         \* sent[l]: the sum of the line's ShipmentLine rows
          shipments,    \* shipments[o]: number of Shipment rows
          reservations, \* the StockReservation rows, identified by their position
          stock         \* on hand (sum of movements) and quantity_allocated

vars == <<txn, scenario, so, shipped, sent, shipments, reservations, stock>>

ASSUME SalesOrdersAssumption ==
  /\ Lines \subseteq Nat /\ IsFiniteSet(Lines)
  /\ Ordered \in Nat \ {0}
  /\ AllowPartial \in BOOLEAN
  /\ \A s \in Scenarios :
       /\ s.sessions \subseteq Workers
       /\ DOMAIN s.orderOf \subseteq Lines
       /\ \A l \in DOMAIN s.orderOf : s.orderOf[l] \in Orders
       /\ s.asked \subseteq Int
       /\ s.receipts \cup s.issues \subseteq Nat \ {0}
       /\ s.expiry \in BOOLEAN
       /\ {s.stock, s.shipments, s.reservations} \subseteq Nat

LinesOf(o) == {l \in DOMAIN scenario.orderOf : scenario.orderOf[l] = o}
OrdersMade == {o \in Orders : LinesOf(o) # {}}

\* An order as create leaves it, its lines listed
Draft == [status |-> "DRAFT", approved |-> FALSE, confirmed |-> FALSE]

Init ==
  /\ SessionsInit
  /\ scenario \in Scenarios
  /\ so = [o \in Orders |-> Draft]
  /\ shipped = [l \in Lines |-> 0]
  /\ sent = [l \in Lines |-> 0]
  /\ shipments = [o \in Orders |-> 0]
  /\ reservations = <<>>
  /\ stock = [onHand |-> 0, allocated |-> 0]

-----------------------------------------------------------------------------
(* Reservations *)

Active(r) == r.status \in {"RESERVED", "PARTIALLY_FULFILLED"}

\* StockReservation.quantity_remaining
Remaining(r) == r.reserved - r.fulfilled - r.cancelled

\* The reservations, by position, that an operation finds for a line
ActiveFor(rs, l) == {i \in DOMAIN rs : rs[i].line = l /\ Active(rs[i])}

Total(f, S) == MapThenSumSet(LAMBDA x : f[x], S)

\* What reserve grants line l when the lines before it were granted what "granted"
\* says: they have taken it from what was available.
Grant(granted, l) ==
  LET available == stock.onHand - stock.allocated
                   - Total(granted, {k \in DOMAIN granted : k < l})
  IN  IF ActiveFor(reservations, l) # {} THEN 0
      ELSE IF available >= Ordered THEN Ordered
      ELSE IF AllowPartial /\ available > 0 THEN available
      ELSE 0

NewReservation(l, quantity) ==
  [line |-> l, reserved |-> quantity, fulfilled |-> 0, cancelled |-> 0,
   status |-> "RESERVED", due |-> FALSE]

\* The columns of row "now" after a session that found "old" left it as "new"
RowWritten(old, new, now) == [c \in DOMAIN now |-> Written(old[c], new[c], now[c])]

\* fulfill: raises, and changes nothing, unless 0 < quantity <= remaining
Fulfilled(r, quantity) ==
  IF quantity <= 0 \/ quantity > Remaining(r) THEN r
  ELSE [r EXCEPT !.fulfilled = @ + quantity,
                 !.status = IF r.fulfilled + quantity >= r.reserved
                            THEN "FULFILLED" ELSE "PARTIALLY_FULFILLED"]

\* cancel and release_expired: the rest is cancelled
Released(r, status) ==
  [r EXCEPT !.cancelled = @ + Remaining(r), !.status = status]

\* Mutant of Allocated: the last reservation is taken for the whole.
MutantAllocated(allocated, quantity, now) == Written(allocated, quantity, now)

\* allocate_inventory for a session that found "allocated": written only when
\* something was granted
Allocated(allocated, quantity, now) == Written(allocated, allocated + quantity, now)

\* The sum of what remains of the reservations S of rs
StillHeld(rs, S) == Total([i \in DOMAIN rs |-> Remaining(rs[i])], S)

\* deallocate_inventory for the reservations S of rs of which something remains
Deallocated(rs, allocated, S) ==
  LET quantity == StillHeld(rs, {i \in S : Remaining(rs[i]) > 0})
  IN  IF allocated > quantity THEN allocated - quantity ELSE 0

-----------------------------------------------------------------------------
(* Approval, hold *)

\* A session that loads order o, passes the status check and assigns the row
LoadOrder(w, o, statuses, row) ==
  /\ so[o].status \in statuses
  /\ Begin(w, [op |-> "status", order |-> o, found |-> so[o], row |-> row])
  /\ UNCHANGED <<so, shipped, sent, shipments, reservations, stock>>

AllBut(statuses) ==
  {"DRAFT", "SUBMITTED", "APPROVED", "CONFIRMED", "IN_PROGRESS", "SHIPPED",
   "COMPLETED", "CANCELLED", "ON_HOLD"} \ statuses

SubmitOrder(w, o) ==
  LoadOrder(w, o, {"DRAFT"}, [so[o] EXCEPT !.status = "SUBMITTED"])

ApproveOrder(w, o) ==
  LoadOrder(w, o, {"SUBMITTED"}, [so[o] EXCEPT !.status = "APPROVED", !.approved = TRUE])

HoldOrder(w, o) ==
  LoadOrder(w, o, AllBut({"COMPLETED", "CANCELLED"}), [so[o] EXCEPT !.status = "ON_HOLD"])

\* is_fully_shipped: true of an order without lines
FullyShipped(o, quantity) == \A l \in LinesOf(o) : quantity[l] >= Ordered

\* Mutant of StatusAfterHold: the shipments are not looked at.
MutantStatusAfterHold(o) ==
  CASE so[o].confirmed -> "CONFIRMED"
    [] ~so[o].confirmed /\ so[o].approved -> "APPROVED"
    [] OTHER -> "SUBMITTED"

StatusAfterHold(o) ==
  IF FullyShipped(o, shipped) THEN "SHIPPED"
  ELSE IF \E l \in LinesOf(o) : shipped[l] > 0 THEN "IN_PROGRESS"
  ELSE IF so[o].confirmed THEN "CONFIRMED"
  ELSE IF so[o].approved THEN "APPROVED"
  ELSE "SUBMITTED"

ReleaseHold(w, o) ==
  LoadOrder(w, o, {"ON_HOLD"}, [so[o] EXCEPT !.status = StatusAfterHold(o)])

CommitStatus(w) ==
  /\ Running(w, "status")
  /\ LET t == txn[w]
     IN  so' = [so EXCEPT ![t.order] = RowWritten(t.found, t.row, @)]
  /\ End(w)
  /\ UNCHANGED <<shipped, sent, shipments, reservations, stock>>

-----------------------------------------------------------------------------
(* Confirmation and cancellation *)

\* confirm and _reserve_stock_on_confirm: checks and reads
ConfirmOrder(w, o) ==
  /\ so[o].status = "APPROVED"
  /\ Len(reservations) + Cardinality(LinesOf(o)) <= scenario.reservations
  /\ \E granted \in [LinesOf(o) -> 0 .. Ordered] :
       /\ \A l \in LinesOf(o) : granted[l] = Grant(granted, l)
       /\ Begin(w, [op |-> "confirm", order |-> o, found |-> so[o],
                    granted |-> granted, allocated |-> stock.allocated])
  /\ UNCHANGED <<so, shipped, sent, shipments, reservations, stock>>

\* The new rows come in some order, which nothing looks at.
CommitConfirm(w) ==
  /\ Running(w, "confirm")
  /\ LET t == txn[w]
         made == {l \in DOMAIN t.granted : t.granted[l] > 0}
         order == SetToSeq(made)
     IN  /\ so' = [so EXCEPT ![t.order] =
                     RowWritten(t.found, [t.found EXCEPT !.status = "CONFIRMED",
                                                         !.confirmed = TRUE], @)]
         /\ reservations' = reservations \o
              [k \in DOMAIN order |-> NewReservation(order[k], t.granted[order[k]])]
         /\ stock' = [stock EXCEPT !.allocated =
                         Allocated(t.allocated, Total(t.granted, made), @)]
  /\ End(w)
  /\ UNCHANGED <<shipped, sent, shipments>>

\* cancel: no shipment may exist; the active reservations of the order go
CancelOrder(w, o) ==
  /\ so[o].status \in AllBut({"SHIPPED", "COMPLETED"})
  /\ shipments[o] = 0
  /\ Begin(w, [op |-> "cancel", order |-> o, found |-> so[o], status |-> "CANCELLED",
               released |-> UNION {ActiveFor(reservations, l) : l \in LinesOf(o)},
               rows |-> reservations, allocated |-> stock.allocated])
  /\ UNCHANGED <<so, shipped, sent, shipments, reservations, stock>>

\* The reservations and the allocation as the session t writes them
WriteRelease(t) ==
  /\ reservations' = [i \in DOMAIN reservations |->
       IF i \in t.released
       THEN RowWritten(t.rows[i], Released(t.rows[i], t.status), reservations[i])
       ELSE reservations[i]]
  /\ stock' = [stock EXCEPT !.allocated =
       Written(t.allocated, Deallocated(t.rows, t.allocated, t.released), @)]

CommitCancel(w) ==
  /\ Running(w, "cancel")
  /\ WriteRelease(txn[w])
  /\ so' = [so EXCEPT ![txn[w].order].status =
              Written(txn[w].found.status, "CANCELLED", @)]
  /\ End(w)
  /\ UNCHANGED <<shipped, sent, shipments>>

-----------------------------------------------------------------------------
(* Expiry *)

\* expires_at passes
FallDue(i) ==
  /\ scenario.expiry
  /\ ~reservations[i].due
  /\ reservations' = [reservations EXCEPT ![i].due = TRUE]
  /\ UNCHANGED <<txn, so, shipped, sent, shipments, stock>>

\* The task release_expired_stock_reservations: what is due and active
Overdue == {i \in DOMAIN reservations : reservations[i].due /\ Active(reservations[i])}

\* Mutant of ReleaseExpired: only reservations nobody has drawn on are released.
MutantReleaseExpired(w) ==
  LET untouched == {i \in Overdue : reservations[i].status = "RESERVED"}
  IN  /\ untouched # {}
      /\ Begin(w, [op |-> "expire", status |-> "EXPIRED", released |-> untouched,
                   rows |-> reservations, allocated |-> stock.allocated])
      /\ UNCHANGED <<so, shipped, sent, shipments, reservations, stock>>

ReleaseExpired(w) ==
  /\ Overdue # {}
  /\ Begin(w, [op |-> "expire", status |-> "EXPIRED", released |-> Overdue,
               rows |-> reservations, allocated |-> stock.allocated])
  /\ UNCHANGED <<so, shipped, sent, shipments, reservations, stock>>

CommitExpired(w) ==
  /\ Running(w, "expire")
  /\ WriteRelease(txn[w])
  /\ End(w)
  /\ UNCHANGED <<so, shipped, sent, shipments>>

-----------------------------------------------------------------------------
(* Shipment *)

\* create_shipment up to the call of the numbering service
CreateShipment(w, o, quantity) ==
  /\ so[o].status \in {"CONFIRMED", "IN_PROGRESS"}
  /\ shipments[o] < scenario.shipments
  /\ Begin(w, [op |-> "ship", order |-> o, found |-> so[o], quantity |-> quantity])
  /\ UNCHANGED <<so, shipped, sent, shipments, reservations, stock>>

\* Mutant of NumberShipment: the number is taken without the row lock.
MutantNumberShipment(w) ==
  /\ Running(w, "ship")
  /\ LET t == txn[w]
         found(l) == IF ActiveFor(reservations, l) = {} THEN {0} ELSE ActiveFor(reservations, l)
     IN  \E pick \in [LinesOf(t.order) -> 0 .. Len(reservations)] :
           /\ \A l \in DOMAIN pick : pick[l] \in found(l)
           /\ Continue(w, [op |-> "numbered", order |-> t.order, found |-> t.found,
                           quantity |-> t.quantity, lines |-> shipped,
                           pick |-> pick, rows |-> reservations])
  /\ UNCHANGED <<so, shipped, sent, shipments, reservations, stock>>

\* The session gets the lock of the numbering sequence, which no other shipment
\* holds, and then loads the lines and a reservation for each (0 is none).
NumberShipment(w) ==
  /\ Running(w, "ship")
  /\ \A v \in Workers : ~Running(v, "numbered")
  /\ LET t == txn[w]
         found(l) == IF ActiveFor(reservations, l) = {} THEN {0} ELSE ActiveFor(reservations, l)
     IN  \E pick \in [LinesOf(t.order) -> 0 .. Len(reservations)] :
           /\ \A l \in DOMAIN pick : pick[l] \in found(l)
           /\ Continue(w, [op |-> "numbered", order |-> t.order, found |-> t.found,
                           quantity |-> t.quantity, lines |-> shipped,
                           pick |-> pick, rows |-> reservations])
  /\ UNCHANGED <<so, shipped, sent, shipments, reservations, stock>>

\* The lines that are asked for more than remains to be shipped; any other quantity
\* is taken, a negative one too
Refused(t) == {l \in LinesOf(t.order) : t.quantity[l] > Ordered - t.lines[l]}

\* The lines that are done when the loop ends or raises
Applied(t) == {l \in LinesOf(t.order) : \A k \in Refused(t) : l < k}

\* The Shipment row is flushed before the loop; the status comes after it.
CommitShipment(w) ==
  /\ Running(w, "numbered")
  /\ LET t == txn[w]
         after == [l \in Lines |-> IF l \in Applied(t) THEN t.lines[l] + t.quantity[l]
                                   ELSE t.lines[l]]
         status == IF FullyShipped(t.order, after) THEN "SHIPPED" ELSE "IN_PROGRESS"
     IN  /\ shipped' = [l \in Lines |-> Written(t.lines[l], after[l], shipped[l])]
         /\ sent' = [l \in Lines |-> IF l \in Applied(t) THEN sent[l] + t.quantity[l]
                                     ELSE sent[l]]
         /\ shipments' = [shipments EXCEPT ![t.order] = @ + 1]
         /\ reservations' = [i \in DOMAIN reservations |->
              IF \E l \in Applied(t) : t.pick[l] = i
              THEN RowWritten(t.rows[i], Fulfilled(t.rows[i], t.quantity[t.rows[i].line]),
                              reservations[i])
              ELSE reservations[i]]
         /\ so' = [so EXCEPT ![t.order].status =
                     IF Refused(t) = {} THEN Written(t.found.status, status, @) ELSE @]
  /\ End(w)
  /\ UNCHANGED stock

-----------------------------------------------------------------------------
(* Invoicing *)

CreateInvoice(w, o) ==
  /\ so[o].status \in {"IN_PROGRESS", "SHIPPED", "COMPLETED"}
  /\ Begin(w, [op |-> "invoice", order |-> o])
  /\ UNCHANGED <<so, shipped, sent, shipments, reservations, stock>>

\* create_invoice_from_so finds no line to invoice, or builds an Invoice with
\* arguments the model does not have; both raise before a line or the order is
\* touched, and the redirect commits.
RefuseInvoice(w) ==
  /\ Running(w, "invoice")
  /\ End(w)
  /\ UNCHANGED <<so, shipped, sent, shipments, reservations, stock>>

-----------------------------------------------------------------------------
(* Stock movements of other origin *)

\* create_receipt
Receive(w, quantity) ==
  /\ txn[w] = Idle
  /\ stock.onHand + quantity <= scenario.stock
  /\ stock' = [stock EXCEPT !.onHand = @ + quantity]
  /\ UNCHANGED <<txn, so, shipped, sent, shipments, reservations>>

\* create_issue: the balance on hand is checked, the allocation is not
IssueStock(w, quantity) ==
  /\ stock.onHand >= quantity
  /\ Begin(w, [op |-> "issue", quantity |-> quantity])
  /\ UNCHANGED <<so, shipped, sent, shipments, reservations, stock>>

CommitIssue(w) ==
  /\ Running(w, "issue")
  /\ stock' = [stock EXCEPT !.onHand = @ - txn[w].quantity]
  /\ End(w)
  /\ UNCHANGED <<so, shipped, sent, shipments, reservations>>

-----------------------------------------------------------------------------
\* A failed statement or a lost connection
Rollback(w) ==
  /\ txn[w] # Idle
  /\ End(w)
  /\ UNCHANGED <<so, shipped, sent, shipments, reservations, stock>>

OrderOperation(w, o) ==
  \/ SubmitOrder(w, o)
  \/ ApproveOrder(w, o)
  \/ ConfirmOrder(w, o)
  \/ CancelOrder(w, o)
  \/ HoldOrder(w, o)
  \/ ReleaseHold(w, o)
  \/ CreateInvoice(w, o)
  \/ \E quantity \in [LinesOf(o) -> scenario.asked] : CreateShipment(w, o, quantity)

Commit(w) ==
  \/ CommitStatus(w)
  \/ CommitConfirm(w)
  \/ CommitCancel(w)
  \/ CommitExpired(w)
  \/ NumberShipment(w)
  \/ CommitShipment(w)
  \/ RefuseInvoice(w)
  \/ CommitIssue(w)

Next ==
  /\ \/ \E w \in scenario.sessions, o \in OrdersMade : OrderOperation(w, o)
     \/ \E w \in scenario.sessions :
          \/ Commit(w)
          \/ ReleaseExpired(w)
          \/ Rollback(w)
          \/ \E quantity \in scenario.receipts : Receive(w, quantity)
          \/ \E quantity \in scenario.issues : IssueStock(w, quantity)
     \/ \E i \in DOMAIN reservations : FallDue(i)
  /\ UNCHANGED scenario

Spec == Init /\ [][Next]_vars

\* The beat starts the task every quarter of an hour and it does not fail every
\* time; a session that has begun goes on.
Fairness ==
  /\ \A w \in Workers : WF_vars(Commit(w) /\ UNCHANGED scenario)
  /\ SF_vars(\E w \in Workers : CommitExpired(w) /\ UNCHANGED scenario)
  /\ SF_vars(\E w \in scenario.sessions : ReleaseExpired(w) /\ UNCHANGED scenario)

FairSpec == Spec /\ Fairness

-----------------------------------------------------------------------------
(* Properties *)

OrderRow == [status : AllBut({}), approved : BOOLEAN, confirmed : BOOLEAN]

Reservation ==
  [line : Lines, reserved : Nat \ {0}, fulfilled : Nat, cancelled : Nat,
   status : {"RESERVED", "PARTIALLY_FULFILLED", "FULFILLED", "CANCELLED", "EXPIRED"},
   due : BOOLEAN]

\* Every row has its columns.  A shipment may be of a negative quantity, which undoes
\* others; what is reserved, drawn on a reservation, cancelled of it or allocated is
\* never negative, and neither what was drawn nor what was cancelled exceeds what was
\* reserved.
TypeOK ==
  /\ so \in [Orders -> OrderRow]
  /\ shipped \in [Lines -> Int]
  /\ sent \in [Lines -> Int]
  /\ shipments \in [Orders -> Nat]
  /\ reservations \in Seq(Reservation)
  /\ \A i \in DOMAIN reservations :
       /\ reservations[i].fulfilled <= reservations[i].reserved
       /\ reservations[i].cancelled <= reservations[i].reserved
  /\ stock \in [onHand : Int, allocated : Nat]

\* One session at a time
Serial == \A v, w \in scenario.sessions : v = w

\* quantity_shipped of a line (create_shipment) is the sum of its shipment lines and
\* never more than was ordered, however many shipments are made at once.
ShippedMatchesShipments ==
  \A l \in Lines : shipped[l] = sent[l] /\ sent[l] <= Ordered

\* The quantity that active reservations still promise
Promised ==
  StillHeld(reservations, {i \in DOMAIN reservations : Active(reservations[i])})

\* Every unit an active reservation still promises is allocated (reserve, fulfill,
\* cancel, release_expired): a release never frees what another order holds, unless
\* sessions write the allocation at the same time.
AllocationCoversPromises == Serial => Promised <= stock.allocated

\* No order has a second line: a shipment that is refused at one line leaves the
\* lines before it shipped, and the status as it was.
OneLineEach == \A o \in OrdersMade : \A k, l \in LinesOf(o) : k = l

\* The status of an order of one line tells how much of it has been shipped
\* (create_shipment, release_hold).
StatusMatchesShipped ==
  Serial /\ OneLineEach =>
    \A o \in OrdersMade :
      LET some == \E l \in LinesOf(o) : shipped[l] > 0
          all == FullyShipped(o, shipped)
      IN  /\ so[o].status = "SHIPPED" => all
          /\ so[o].status = "IN_PROGRESS" => ~all
          /\ so[o].status \notin {"SHIPPED", "IN_PROGRESS", "ON_HOLD"} => ~some

\* A reservation that is past expires_at is released or used up in the end
\* (release_expired_stock_reservations).
ExpiredIsReleased == []<>(Overdue = {})
=============================================================================
