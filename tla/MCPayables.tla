----------------------------- MODULE MCPayables -----------------------------
(* A small instance of Payables for TLC. *)
EXTENDS Payables

CONSTANTS w1, w2, i1, i2, p1, p2

TwoSessions == {w1, w2}
TwoBills == {i1, i2}
TwoPayments == {p1, p2}
Everything == {"post", "vat", "reverse"}

\* One session at a time, two payments of one bill or of two.
Serial == [sessions |-> {w1}, bills |-> TwoBills, payments |-> TwoPayments]

\* Two sessions on a bill and its payment.
Racing == [sessions |-> TwoSessions, bills |-> {i1}, payments |-> {p1}]

MCScenarios == {Serial, Racing}
=============================================================================
