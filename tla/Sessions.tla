------------------------------ MODULE Sessions ------------------------------
(***************************************************************************)
(* Request handlers and Celery tasks as database sessions.                 *)
(*                                                                         *)
(* A session reads committed rows (READ COMMITTED), runs the guards of an  *)
(* operation on what it read, and makes its writes visible when the route, *)
(* dependency or task commits.  Services only flush; a flushed row stays   *)
(* locked until the commit, so the writes of a session are one step.  The  *)
(* reads come earlier, and nothing re-reads or locks the rows they saw.    *)
(* The columns of a row are as SQLAlchemy's unit of work writes them.      *)
(***************************************************************************)
CONSTANTS Workers,  \* concurrent sessions; a single one gives serial execution
          Idle      \* a worker with no open transaction

VARIABLE txn        \* txn[w]: the operation worker w has begun, or Idle

SessionsInit == txn = [w \in Workers |-> Idle]

Begin(w, t) ==
  /\ txn[w] = Idle
  /\ txn' = [txn EXCEPT ![w] = t]

Running(w, op) ==
  /\ txn[w] # Idle
  /\ txn[w].op = op

Continue(w, t) == txn' = [txn EXCEPT ![w] = t]

End(w) == txn' = [txn EXCEPT ![w] = Idle]

\* A column after a session that loaded it as "found" assigned it "new": the
\* UPDATE leaves out a column whose value is the loaded one.
Written(found, new, now) == IF new = found THEN now ELSE new
=============================================================================
