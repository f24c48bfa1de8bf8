--------------------------- MODULE MCBalanceCache ---------------------------
(* A small instance of BalanceCache for TLC. *)
EXTENDS BalanceCache

CONSTANTS b1, b2, cash

TwoBatches == {b1, b2}
OneKey == {cash}

\* Both batches have a line on the balance.
MCTouches == [b \in Batches |-> BalanceKeys]
=============================================================================
