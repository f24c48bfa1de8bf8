---------------------------- MODULE SagaContract ----------------------------
(***************************************************************************)
(* What a posting saga promises: it ends with all of its effects in place, *)
(* with none of them, or openly failed, and then nothing changes any more, *)
(* as long as nothing disturbs it.                                         *)
(***************************************************************************)
CONSTANTS Effects,    \* the effects a saga can have
          Required    \* those that a completed saga must have

VARIABLES outcome, effect

Init == outcome = "open" /\ effect = {}

Work ==
  /\ outcome = "open"
  /\ effect' \in SUBSET Effects
  /\ UNCHANGED outcome

Complete ==
  /\ outcome = "open"
  /\ Required \subseteq effect
  /\ outcome' = "completed"
  /\ UNCHANGED effect

Compensate ==
  /\ outcome = "open"
  /\ effect = {}
  /\ outcome' = "compensated"
  /\ UNCHANGED effect

Fail ==
  /\ outcome = "open"
  /\ outcome' = "failed"
  /\ UNCHANGED effect

\* The contract is for an execution that nothing interferes with.
Disturb ==
  /\ outcome' = "disturbed"
  /\ effect' = {}

Next == Work \/ Complete \/ Compensate \/ Fail \/ Disturb

Spec == Init /\ [][Next]_<<outcome, effect>>
=============================================================================
