--------------------------- MODULE MCSalesOrders ---------------------------
(* A small instance of SalesOrders for TLC. *)
EXTENDS SalesOrders

CONSTANTS w1, w2, o1, o2

TwoSessions == {w1, w2}
TwoOrders == {o1, o2}
TwoLines == {1, 2}

\* One session at a time, two orders that want the same stock
Competing == [sessions |-> {w1}, orderOf |-> <<o1, o2>>, asked |-> {-1, 1, 2},
              receipts |-> {1}, issues |-> {}, expiry |-> TRUE,
              stock |-> 3, shipments |-> 2, reservations |-> 2]

\* One session at a time, an order of two lines
TwoLined == [sessions |-> {w1}, orderOf |-> <<o1, o1>>, asked |-> {0, 2, 3},
             receipts |-> {2}, issues |-> {1}, expiry |-> TRUE,
             stock |-> 4, shipments |-> 2, reservations |-> 2]

\* Two sessions on an order of one line
Racing == [sessions |-> TwoSessions, orderOf |-> <<o1>>, asked |-> {-1, 0, 1, 2},
           receipts |-> {1}, issues |-> {1}, expiry |-> FALSE,
           stock |-> 1, shipments |-> 2, reservations |-> 1]

\* Two sessions on a reservation that falls due
Aging == [sessions |-> TwoSessions, orderOf |-> <<o1>>, asked |-> {1},
          receipts |-> {2}, issues |-> {}, expiry |-> TRUE,
          stock |-> 2, shipments |-> 1, reservations |-> 1]

MCScenarios == {Competing, TwoLined, Racing, Aging}
=============================================================================
