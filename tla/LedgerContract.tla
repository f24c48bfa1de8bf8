--------------------------- MODULE LedgerContract ---------------------------
(***************************************************************************)
(* What the ledger promises its readers (reports, balances, the outbox):   *)
(* it is append-only, holds at most one entry per journal, and takes only  *)
(* acceptable entries.  How journals get there, who races whom and how     *)
(* often a posting is retried does not show.                               *)
(***************************************************************************)
CONSTANTS Journals,
          Entries,   \* the acceptable ledger entries
          None       \* no entry

VARIABLE ledger      \* ledger[j]: the entry of journal j, or None

Init == ledger = [j \in Journals |-> None]

\* The entry is written ledger'[j] so that Entries may be infinite.
AppendEntry(j) ==
  /\ ledger[j] = None
  /\ ledger'[j] \in Entries
  /\ ledger' = [ledger EXCEPT ![j] = ledger'[j]]

Next == \E j \in Journals : AppendEntry(j)

Spec == Init /\ [][Next]_ledger
=============================================================================
