------------------------- MODULE MCGatewayTransfers -------------------------
(* A small instance of GatewayTransfers for TLC. *)
EXTENDS GatewayTransfers

CONSTANTS w1, w2

TwoSessions == {w1, w2}

\* Many intents, and nothing goes wrong but the ledger and the answers.
Quiet == [sessions |-> {w1}, intents |-> 3, polls |-> 2, events |-> {"lost", "refused"}]

\* The life of one transfer
OneTransfer == [sessions |-> {w1}, intents |-> 1, polls |-> 2,
                events |-> {"failure", "lost", "reversal"}]

\* A second transfer after the first, with every fault
Retried == [sessions |-> {w1}, intents |-> 2, polls |-> 1,
            events |-> AllEvents \ {"manual"}]

\* Two sessions and everything there is, with one intent
Racing == [sessions |-> TwoSessions, intents |-> 1, polls |-> 1, events |-> AllEvents]

MCScenarios == {Quiet, OneTransfer, Retried, Racing}
=============================================================================
