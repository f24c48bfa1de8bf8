------------------------- MODULE DocumentNumbering -------------------------
(***************************************************************************)
(* core_config.numbering_sequence, from which every document of the system *)
(* draws its number, and the documents that carry the numbers.             *)
(*                                                                         *)
(* generate_next_number locks the sequence row (SELECT ... FOR UPDATE) and *)
(* holds it until the request commits with the document, so that draws are *)
(* serialised and a rollback takes its number back.  Two things happen     *)
(* outside the lock: the reference date is fixed before the row is waited  *)
(* for, and a row that does not exist yet cannot be locked.                *)
(*                                                                         *)
(* A number is its year and month parts, when the format includes them,    *)
(* and a counter.  The formats are the defaults of the sequence types,     *)
(* which show exactly the parts that reset the counter.                    *)
(***************************************************************************)
EXTENDS Sessions, Naturals, Sequences

CONSTANTS Frequencies,    \* reset frequencies of the sequence types considered
          MonthsPerYear,
          LastMonth,      \* bound on the calendar
          MaxNumber,      \* bound on the documents of a period
          None

VARIABLES frequency,  \* reset_frequency of the sequence, with its format
          sequence,   \* the numbering_sequence row, or None
          lock,       \* the session that holds the row, or None
          documents,  \* numbers of the committed documents
          today,      \* the current month
          wentBack    \* history: a reset returned to an earlier period

numberingVars == <<txn, frequency, sequence, lock, documents, today, wentBack>>

ASSUME NumberingAssumption ==
  /\ Frequencies \subseteq {"NEVER", "YEARLY", "MONTHLY"}
  /\ MonthsPerYear \in Nat \ {0}
  /\ LastMonth \in Nat
  /\ MaxNumber \in Nat
  /\ None \notin Workers /\ None \notin Nat

Year(d) == d \div MonthsPerYear

Month(d) == d % MonthsPerYear

\* format_number: the parts of the date that the number shows.
Label(f, d) ==
  CASE f = "NEVER"   -> <<>>
    [] f = "YEARLY"  -> <<Year(d)>>
    [] f = "MONTHLY" -> <<Year(d), Month(d)>>

\* current_number, with the reference date that set current_year and
\* current_month, or None when they are NULL.
Row == [number : Nat, date : Nat \cup {None}]

ASSUME NullRowAssumption == None \notin Row

Number == [label : Seq(Nat), n : Nat]

DefaultSequence == [number |-> 0, date |-> None]

ShouldReset(row, d) ==
  /\ frequency # "NEVER"
  /\ \/ row.date = None
     \/ frequency = "YEARLY" /\ Year(d) # Year(row.date)
     \/ /\ frequency = "MONTHLY"
        /\ \/ Year(d) # Year(row.date)
           \/ Month(d) # Month(row.date)

\* The row after a reset, if one is due, and the increment.
Incremented(row, d) ==
  IF ShouldReset(row, d) THEN [number |-> 1, date |-> d]
                         ELSE [row EXCEPT !.number = @ + 1]

NumberingInit ==
  /\ SessionsInit
  /\ frequency \in Frequencies
  /\ sequence = None
  /\ lock = None
  /\ documents = {}
  /\ today = 0
  /\ wentBack = FALSE

-----------------------------------------------------------------------------

\* The reference date of a call, date.today() or the date of the document,
\* fixed before the sequence row is asked for.
RequestNumber(w) ==
  /\ \E d \in 0 .. today :
       Begin(w, [op |-> "draw", date |-> d])
  /\ UNCHANGED <<frequency, sequence, lock, documents, today, wentBack>>

\* The session's row after one more draw; the number goes to the document the
\* session is about to insert.
Draw(w, row, d, saved) ==
  LET next == Incremented(row, d)
  IN /\ next.number <= MaxNumber
     /\ wentBack' = (wentBack \/ (row.date # None /\ next.date # row.date /\ d < row.date))
     /\ Continue(w, [op |-> "save", row |-> next, saved |-> saved,
                     number |-> [label |-> Label(frequency, d), n |-> next.number]])

\* Mutant of LockSequence: the row is read without FOR UPDATE.
MutantLockSequence(w) ==
  /\ Running(w, "draw")
  /\ sequence # None
  /\ Draw(w, sequence, txn[w].date, {})
  /\ UNCHANGED <<frequency, sequence, lock, documents, today>>

\* SELECT ... FOR UPDATE finds the row, once no other session holds it, with
\* the values its last holder committed.
LockSequence(w) ==
  /\ Running(w, "draw")
  /\ sequence # None
  /\ lock = None
  /\ lock' = w
  /\ Draw(w, sequence, txn[w].date, {})
  /\ UNCHANGED <<frequency, sequence, documents, today>>

\* It finds no row: the session inserts the default one.
FindNoSequence(w) ==
  /\ Running(w, "draw")
  /\ sequence = None
  /\ Continue(w, [op |-> "insert", date |-> txn[w].date])
  /\ UNCHANGED <<frequency, sequence, lock, documents, today, wentBack>>

\* uq_sequence_type makes the INSERT wait for an uncommitted one.
InsertSequence(w) ==
  /\ Running(w, "insert")
  /\ lock = None
  /\ sequence = None
  /\ lock' = w
  /\ Draw(w, DefaultSequence, txn[w].date, {})
  /\ UNCHANGED <<frequency, sequence, documents, today>>

\* The other INSERT was committed first: an integrity error.
InsertRefused(w) ==
  /\ Running(w, "insert")
  /\ sequence # None
  /\ End(w)
  /\ UNCHANGED <<frequency, sequence, lock, documents, today, wentBack>>

\* The INSERT of the document passes the unique constraint on its number.
SaveDocument(w) ==
  /\ Running(w, "save")
  /\ txn[w].number \notin documents \cup txn[w].saved
  /\ Continue(w, [op |-> "saved", row |-> txn[w].row,
                  saved |-> txn[w].saved \cup {txn[w].number}])
  /\ UNCHANGED <<frequency, sequence, lock, documents, today, wentBack>>

\* Several documents of one request: the row is already this session's.
DrawAgain(w) ==
  /\ Running(w, "saved")
  /\ \E d \in 0 .. today :
       Draw(w, txn[w].row, d, txn[w].saved)
  /\ UNCHANGED <<frequency, sequence, lock, documents, today>>

Commit(w) ==
  /\ Running(w, "saved")
  /\ sequence' = txn[w].row
  /\ documents' = documents \cup txn[w].saved
  /\ lock' = None
  /\ End(w)
  /\ UNCHANGED <<frequency, today, wentBack>>

\* Mutant of Rollback: the counter is kept when the document is not.
MutantRollback(w) ==
  /\ txn[w] # Idle
  /\ lock' = IF lock = w THEN None ELSE lock
  /\ sequence' = IF Running(w, "save") THEN txn[w].row ELSE sequence
  /\ End(w)
  /\ UNCHANGED <<frequency, documents, today, wentBack>>

\* The request fails, by a duplicate number or for any other reason.
Rollback(w) ==
  /\ txn[w] # Idle
  /\ lock' = IF lock = w THEN None ELSE lock
  /\ End(w)
  /\ UNCHANGED <<frequency, sequence, documents, today, wentBack>>

NextMonth ==
  /\ today < LastMonth
  /\ today' = today + 1
  /\ UNCHANGED <<txn, frequency, sequence, lock, documents, wentBack>>

NumberingNext ==
  \/ \E w \in Workers :
       \/ RequestNumber(w)
       \/ LockSequence(w)
       \/ FindNoSequence(w)
       \/ InsertSequence(w)
       \/ InsertRefused(w)
       \/ SaveDocument(w)
       \/ DrawAgain(w)
       \/ Commit(w)
       \/ Rollback(w)
  \/ NextMonth

NumberingSpec == NumberingInit /\ [][NumberingNext]_numberingVars

-----------------------------------------------------------------------------

NumberingTxn ==
  [op : {"draw", "insert"}, date : Nat]
  \cup [op : {"save"}, row : Row, saved : SUBSET Number, number : Number]
  \cup [op : {"saved"}, row : Row, saved : SUBSET Number]

\* The rows and open requests have the columns and value sets of the models.
NumberingTypeOK ==
  /\ txn \in [Workers -> NumberingTxn \cup {Idle}]
  /\ frequency \in Frequencies
  /\ sequence \in Row \cup {None}
  /\ lock \in Workers \cup {None}
  /\ documents \subseteq Number
  /\ today \in Nat
  /\ wentBack \in BOOLEAN

\* A number that generate_next_number hands out is on no document yet, as long
\* as no reset went back to an earlier period: the lock, held to the commit,
\* excludes two sessions with one number, and a reset starts a period that has
\* no documents.
FreshNumbers ==
  \A w \in Workers :
    Running(w, "save") /\ ~wentBack =>
      txn[w].number \notin documents \cup txn[w].saved

\* The numbers of a period have no gaps: a draw and its document are committed
\* or rolled back together, and neither a reset by a stale date nor the race
\* for the first row skips a number.
Gapless ==
  \A x \in documents : \A k \in 1 .. x.n : [x EXCEPT !.n = k] \in documents
=============================================================================
