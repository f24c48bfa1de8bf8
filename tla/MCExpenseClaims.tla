-------------------------- MODULE MCExpenseClaims --------------------------
(* A small instance of ExpenseClaims for TLC. *)
EXTENDS ExpenseClaims

CONSTANTS w1, w2, i1, i2, manager, director

TwoSessions == {w1, w2}
TwoItems == {i1, i2}
TwoApprovers == {manager, director}
ManagerLimited == [a \in TwoApprovers |-> IF a = manager THEN 2 ELSE 4]

Sequential == [steps |-> <<manager, director>>, all |-> FALSE]
Parallel == [steps |-> <<manager, director>>, all |-> TRUE]
Single == [steps |-> <<director>>, all |-> FALSE]
Nobody == [steps |-> <<>>, all |-> FALSE]

\* One session at a time, with every kind of amount and of chain.
Serial == [sessions |-> {w1}, items |-> {i1, i2}, amounts |-> {1, 2},
           corrections |-> {0, 1}, chains |-> {Sequential, Parallel, Single},
           total |-> 4]

\* One session at a time, and perhaps nobody to approve.
Alone == [sessions |-> {w1}, items |-> {i1}, amounts |-> {2},
          corrections |-> {1}, chains |-> {Single, Nobody}, total |-> 4]

\* Two sessions on a claim of one item.
Racing == [sessions |-> {w1, w2}, items |-> {i1}, amounts |-> {1},
           corrections |-> {}, chains |-> {Single, Nobody}, total |-> 1]

MCScenarios == {Serial, Alone, Racing}
=============================================================================
