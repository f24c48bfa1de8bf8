-------------------------- MODULE MCGeneralLedger --------------------------
(* Small instances of GeneralLedger for TLC. *)
EXTENDS GeneralLedger, TLC

CONSTANTS cash, fees,  \* accounts
          jan, adj     \* a month, and an adjustment period inside it

MCAccounts == {cash, fees}

MCDates == {1, 2}
MCPeriods == {jan, adj}
MCPeriodInfo ==
  [p \in MCPeriods |-> IF p = jan THEN [start |-> 1, end |-> 2, adjustment |-> FALSE]
                                  ELSE [start |-> 2, end |-> 2, adjustment |-> TRUE]]

Dr(a, n) == [account |-> a, debit |-> n, credit |-> 0, fdebit |-> None, fcredit |-> None]
Cr(a, n) == [account |-> a, debit |-> 0, credit |-> n, fdebit |-> None, fcredit |-> None]

OneToOne == <<1, 1>>
ThreeHalves == <<3, 2>>

\* A plain entry.
Plain == [date |-> 1, rate |-> OneToOne, lines |-> <<Dr(cash, 5), Cr(fees, 5)>>]
\* Balanced in its currency; rounding line by line leaves 6 against 5.
Rounded == [date |-> 2, rate |-> ThreeHalves,
            lines |-> <<Dr(cash, 1), Dr(cash, 1), Dr(cash, 1), Cr(fees, 3)>>]
\* Balanced in its currency; rounding leaves 8 against 6.
RoundedOff == [date |-> 1, rate |-> ThreeHalves,
               lines |-> <<Dr(cash, 1), Dr(cash, 1), Dr(cash, 1), Dr(cash, 1),
                           Cr(fees, 4)>>]
\* Functional amounts given by the caller and far apart.
Lopsided == [date |-> 1, rate |-> OneToOne,
             lines |-> <<[Dr(cash, 1) EXCEPT !.fdebit = 20001],
                         [Cr(fees, 1) EXCEPT !.fcredit = 1]>>]
SerialInputs == {Rounded, RoundedOff}

\* The instance for interleaved sessions: one month, one date.
OneDate == {1}
OnePeriod == {jan}
OnePeriodInfo == [p \in OnePeriod |-> [start |-> 1, end |-> 1, adjustment |-> FALSE]]
RacingInputs == {Plain, Lopsided}
PlainInput == {Plain}

SerialSymmetry == Permutations(Users) \cup Permutations(Journals)
RacingSymmetry == Permutations(Workers) \cup Permutations(Journals)
=============================================================================
