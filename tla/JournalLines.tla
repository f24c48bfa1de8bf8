---------------------------- MODULE JournalLines ----------------------------
(***************************************************************************)
(* The arithmetic of journal lines: what create_journal stores for an      *)
(* input, the checks the posting service makes on the stored lines and the *)
(* line list a reversal carries.                                           *)
(*                                                                         *)
(* Every amount is an integer number of millionths, the resolution of the  *)
(* NUMERIC(20, 6) amount columns.                                          *)
(***************************************************************************)
EXTENDS Integers, Sequences, Functions

CONSTANTS Accounts,        \* gl.account rows
          PostingAllowed,  \* the accounts with is_posting_allowed = True
          None             \* SQL NULL / Python None

ASSUME PostingAllowedAssumption == PostingAllowed \subseteq Accounts

\* LedgerPostingService.BALANCE_TOLERANCE = Decimal("0.000001").
BALANCE_TOLERANCE == 1

\* The 0.01 of the trigger gl.check_journal_balance().
TRIGGER_TOLERANCE == 10000

\* A gl.journal_entry_line row; "f" marks the functional-currency columns.
Line == [account : Accounts, debit : Int, credit : Int,
         fdebit : Int, fcredit : Int]

Lines == Seq(Line)

Total(amount) ==
  FoldFunction(LAMBDA x, y : x + y, 0, amount)

Within(tolerance, debits, credits) ==
  /\ debits - credits <= tolerance
  /\ credits - debits <= tolerance

\* NUMERIC(20, 6) rounds half away from zero.
RoundedQuotient(n, d) ==
  IF n >= 0 THEN (2 * n + d) \div (2 * d) ELSE -((d - 2 * n) \div (2 * d))

\* An input line's functional amount: the caller's, or amount * exchange_rate.
\* A rate is a fraction <<numerator, denominator>>.
Functional(given, amount, rate) ==
  IF given = None THEN RoundedQuotient(amount * rate[1], rate[2]) ELSE given

\* The rows create_journal and update_journal insert for a JournalInput.
StoredLines(input) ==
  [i \in DOMAIN input.lines |->
     LET l == input.lines[i]
     IN [account |-> l.account, debit |-> l.debit, credit |-> l.credit,
         fdebit  |-> Functional(l.fdebit, l.debit, input.rate),
         fcredit |-> Functional(l.fcredit, l.credit, input.rate)]]

\* The check create_journal and update_journal make: at least one line, and
\* the transaction-currency (not the functional) totals agree.
EntryBalanced(input) ==
  /\ Len(input.lines) > 0
  /\ Within(BALANCE_TOLERANCE,
            Total([i \in DOMAIN input.lines |-> input.lines[i].debit]),
            Total([i \in DOMAIN input.lines |-> input.lines[i].credit]))

\* The CHECK constraints of gl.journal_entry_line, tested by every INSERT: in
\* each currency exactly one of debit and credit is positive, the other zero.
RowChecks(lines) ==
  \A i \in DOMAIN lines :
    LET l == lines[i]
    IN /\ l.debit >= 0 /\ l.credit >= 0
       /\ (l.debit = 0) # (l.credit = 0)
       /\ l.fdebit >= 0 /\ l.fcredit >= 0
       /\ (l.fdebit = 0) # (l.fcredit = 0)

\* create_journal refuses an account with is_posting_allowed = False.
AccountsOpen(input) ==
  \A i \in DOMAIN input.lines : input.lines[i].account \in PostingAllowed

FunctionalDebit(lines)  == Total([i \in DOMAIN lines |-> lines[i].fdebit])
FunctionalCredit(lines) == Total([i \in DOMAIN lines |-> lines[i].fcredit])

\* LedgerPostingService._validate_balance
ValidateBalance(lines) ==
  Within(BALANCE_TOLERANCE, FunctionalDebit(lines), FunctionalCredit(lines))

\* LedgerPostingService._validate_functional_amounts
ValidateFunctionalAmounts(lines) ==
  \A i \in DOMAIN lines :
    LET l == lines[i]
    IN /\ l.fdebit >= 0 /\ l.fcredit >= 0
       /\ (l.fdebit = 0) # (l.fcredit = 0)
       /\ l.debit >= 0 /\ l.credit >= 0
       /\ l.debit = 0 \/ l.credit = 0

\* The trigger fired by the UPDATE that sets status to POSTED.
TriggerAccepts(lines) ==
  Within(TRIGGER_TOLERANCE, FunctionalDebit(lines), FunctionalCredit(lines))

\* Mutant of Swapped: the functional amounts keep their side.
MutantSwapped(lines) ==
  [i \in DOMAIN lines |->
     [lines[i] EXCEPT !.debit = lines[i].credit, !.credit = lines[i].debit]]

\* Debits and credits swapped, line by line (ReversalService, step 8).
Swapped(lines) ==
  [i \in DOMAIN lines |->
     [account |-> lines[i].account,
      debit   |-> lines[i].credit,  credit  |-> lines[i].debit,
      fdebit  |-> lines[i].fcredit, fcredit |-> lines[i].fdebit]]

\* What a list of lines adds to account a, in functional currency.
Effect(lines, a) ==
  Total([i \in {n \in DOMAIN lines : lines[n].account = a} |->
           lines[i].fdebit - lines[i].fcredit])
=============================================================================
