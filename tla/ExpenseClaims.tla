--------------------------- MODULE ExpenseClaims ---------------------------
(***************************************************************************)
(* An expense claim: ExpenseService (service_claims.py), the approval      *)
(* chain of ExpenseApprovalService and post_expense_claim.                 *)
(*                                                                         *)
(* A session loads the claim with its items and its chain, decides on what *)
(* it loaded, and writes with its commit; no row is locked.  What keeps    *)
(* two sessions apart are the action markers: a marker is inserted once.   *)
(* One that an earlier session left is read by a plain SELECT and changed  *)
(* later, so what keeps apart the sessions that find it FAILED is nothing. *)
(* A marker is STARTED only within a session.                              *)
(*                                                                         *)
(* The API routes store the response of a request that raised in its       *)
(* idempotency record and so commit what the request flushed               *)
(* (Fail, and a claim created in part); the web routes roll back.          *)
(***************************************************************************)
EXTENDS Sessions, Integers, Sequences, FiniteSetsExt

CONSTANTS ItemIds,
          Approvers,
          Limit,           \* what each approver may approve
          Scenarios,       \* the circumstances considered
          MaxRounds,       \* bound on submissions
          NULL

VARIABLES scenario,  \* sessions: those at work; items: those in use; amounts: of
                     \* an item or an advance; corrections: what an approver may
                     \* put in place of an amount; chains: what the rules and the
                     \* hierarchy can give; total: bound on what lost updates
                     \* make of a total
          claim, items,
          chain,     \* the persisted steps of the latest submission round
          marks,     \* ExpenseClaimAction rows
          posted,    \* amount in the ledger for the claim, or NULL
          payments,  \* times the claim was paid
          rounds,
          overlapped, \* history: two sessions had the claim loaded at once
          raced       \* history: and had both found the marker of its payment FAILED

claimVars == <<claim, items, chain, marks>>
historyVars == <<scenario, overlapped, raced>>
vars == <<txn, claimVars, posted, payments, rounds, historyVars>>

ASSUME ExpenseClaimsAssumption ==
  /\ IsFiniteSet(ItemIds)
  /\ \A s \in Scenarios : s.items \subseteq ItemIds
                           /\ s.sessions \subseteq Workers
                           /\ s.amounts \subseteq Nat \ {0}
                           /\ s.total \in Nat
                           /\ s.corrections \subseteq Nat
                           /\ s.chains \subseteq [steps : Seq(Approvers), all : BOOLEAN]
  /\ Limit \in [Approvers -> Nat]
  /\ MaxRounds \in Nat

MarkTypes == {"SUBMIT", "APPROVE", "REJECT", "MARK_PAID", "LINK_ADVANCE",
              "POST_GL", "CANCEL"}

NoMarks == [m \in MarkTypes |-> "NONE"]

NewItem(amount) == [claimed |-> amount, approved |-> NULL]

Present(is) == {i \in ItemIds : is[i] # NULL}

SumOf(f) == MapThenSumSet(LAMBDA i : f[i], DOMAIN f)

Claimed(is) == SumOf([i \in Present(is) |-> is[i].claimed])

NoChain == [steps |-> <<>>, all |-> FALSE]

NoClaim == [status |-> "NONE", total |-> 0, approved |-> NULL, net |-> NULL,
            adjusted |-> 0, approver |-> NULL]

Init ==
  /\ SessionsInit
  /\ scenario \in Scenarios
  /\ claim = NoClaim
  /\ items = [i \in ItemIds |-> NULL]
  /\ chain = NoChain
  /\ marks = NoMarks
  /\ posted = NULL
  /\ payments = 0
  /\ rounds = 0
  /\ overlapped = FALSE
  /\ raced = FALSE

-----------------------------------------------------------------------------
(* Sessions *)

Exists == claim.status \notin {"NONE", "DELETED"}

\* get_claim, with the items
Load(w) ==
  /\ w \in scenario.sessions
  /\ Exists
  /\ Begin(w, [op |-> "loaded", claim |-> claim, items |-> items, chain |-> chain,
               found |-> NoMarks])
  /\ overlapped' = (overlapped \/ \E v \in Workers : txn[v] # Idle)
  /\ UNCHANGED <<claimVars, posted, payments, rounds, scenario, raced>>

\* The request is refused, finds its work done, or is rolled back.
Refuse(w) ==
  /\ Running(w, "loaded")
  /\ End(w)
  /\ UNCHANGED <<claimVars, posted, payments, rounds, historyVars>>

\* Session w commits; the claim was not deleted meanwhile.
Commit(w) ==
  /\ Running(w, "loaded")
  /\ Exists
  /\ End(w)

\* The claim as session w writes it when it assigned it the values of "new".
Update(w, new) ==
  claim' = [c \in DOMAIN claim |-> Written(txn[w].claim[c], new[c], claim[c])]

-----------------------------------------------------------------------------
(* The action markers *)

\* The statuses in which an operation asks for its marker.
AskedIn ==
  [SUBMIT |-> {"DRAFT"},
   APPROVE |-> {"SUBMITTED", "PENDING_APPROVAL"},
   REJECT |-> {"SUBMITTED", "PENDING_APPROVAL"},
   CANCEL |-> {"DRAFT", "SUBMITTED", "PENDING_APPROVAL"},
   LINK_ADVANCE |-> {"DRAFT", "SUBMITTED"},
   MARK_PAID |-> {"APPROVED"},
   POST_GL |-> {"APPROVED", "PAID"}]

\* Session w has found the markers in "found", one that it asked for or those it
\* resets.
Found(w, found) ==
  /\ Running(w, "loaded")
  /\ txn[w].found = NoMarks
  /\ Continue(w, [txn[w] EXCEPT !.found = found])

\* _begin_action, _try_record_action: there is a marker, which is read.  One that
\* is COMPLETED ends the operation, but for the decision of an approver.
FindMarker(w, m) ==
  /\ \/ marks[m] = "FAILED"
     \/ marks[m] = "COMPLETED" /\ m \in {"APPROVE", "REJECT"}
  /\ Found(w, [NoMarks EXCEPT ![m] = marks[m]])
  /\ txn[w].claim.status \in AskedIn[m]
  /\ raced' = (raced \/ /\ m = "MARK_PAID"
                        /\ marks[m] = "FAILED"
                        /\ \E v \in Workers \ {w} :
                             txn[v] # Idle /\ txn[v].found[m] = "FAILED")
  /\ UNCHANGED <<claimVars, posted, payments, rounds, scenario, overlapped>>

\* They return True.  An insertion waits for the session that inserts or changes
\* the same marker, and is one step with the commit; so is the change of a marker
\* that was FAILED when it was read.
Begun(w, m) ==
  \/ marks[m] = "NONE" /\ txn[w].found = NoMarks
  \/ txn[w].found[m] = "FAILED"

\* They return False.
NotBegun(w, m) == txn[w].found[m] = "COMPLETED"

Mark(m, s) == marks' = [marks EXCEPT ![m] = s]

\* An action that was begun raises; its marker stays as FAILED.
Fail(w, m) ==
  /\ Begun(w, m)
  /\ Commit(w)
  /\ Mark(m, "FAILED")
  /\ UNCHANGED <<claim, items, chain, posted, payments, rounds, historyVars>>

-----------------------------------------------------------------------------
(* The claim and its items *)

\* create_claim; a refused item raises when the claim and the items before it
\* are in the session.
CreateClaim ==
  /\ claim.status = "NONE"
  /\ \E is \in [ItemIds -> {NULL} \cup {NewItem(a) : a \in scenario.amounts}],
        refused \in BOOLEAN :
       /\ Present(is) \subseteq scenario.items
       /\ items' = is
       /\ claim' = [NoClaim EXCEPT !.status = "DRAFT",
                                   !.total = IF refused THEN 0 ELSE Claimed(is)]
  /\ UNCHANGED <<txn, chain, marks, posted, payments, rounds, historyVars>>

\* The claim with its total changed by d.
UpdateTotal(w, d) ==
  /\ txn[w].claim.total + d \in -scenario.total .. scenario.total
  /\ Update(w, [txn[w].claim EXCEPT !.total = @ + d])

AddClaimItem(w) ==
  LET l == txn[w]
  IN /\ Commit(w)
     /\ l.claim.status = "DRAFT"
     /\ l.found = NoMarks
     /\ \E i \in scenario.items \ Present(items), a \in scenario.amounts :
          /\ items' = [items EXCEPT ![i] = NewItem(a)]
          /\ UpdateTotal(w, a)
     /\ UNCHANGED <<chain, marks, posted, payments, rounds, historyVars>>

UpdateClaimItem(w) ==
  LET l == txn[w]
  IN /\ Commit(w)
     /\ l.claim.status = "DRAFT"
     /\ l.found = NoMarks
     /\ \E i \in Present(l.items) \cap Present(items), a \in scenario.amounts :
          /\ items' = [items EXCEPT ![i].claimed = a]
          /\ UpdateTotal(w, a - l.items[i].claimed)
     /\ UNCHANGED <<chain, marks, posted, payments, rounds, historyVars>>

RemoveClaimItem(w) ==
  LET l == txn[w]
  IN /\ Commit(w)
     /\ l.claim.status = "DRAFT"
     /\ l.found = NoMarks
     /\ \E i \in Present(l.items) \cap Present(items) :
          /\ items' = [items EXCEPT ![i] = NULL]
          /\ UpdateTotal(w, -l.items[i].claimed)
     /\ UNCHANGED <<chain, marks, posted, payments, rounds, historyVars>>

\* An item added meanwhile keeps the claim by its foreign key.
DeleteClaim(w) ==
  /\ Commit(w)
  /\ txn[w].claim.status = "DRAFT"
  /\ txn[w].found = NoMarks
  /\ Present(items) \subseteq Present(txn[w].items)
  /\ claim' = [claim EXCEPT !.status = "DELETED"]
  /\ items' = [i \in ItemIds |-> NULL]
  /\ chain' = NoChain
  /\ marks' = NoMarks
  /\ UNCHANGED <<posted, payments, rounds, historyVars>>

-----------------------------------------------------------------------------
(* The approval chain *)

Undecided(s) == [approver |-> s, decision |-> NULL]

\* initialize_approval_chain: the steps of the round that is the latest after
\* the chain c was saved.  A chain without steps saves none.
Initialized(now, c) ==
  IF c.steps = <<>> THEN now
  ELSE [steps |-> [n \in DOMAIN c.steps |-> Undecided(c.steps[n])], all |-> c.all]

Pending(c) == {n \in DOMAIN c.steps : c.steps[n].decision = NULL}

Complete(c) ==
  \/ \E n \in DOMAIN c.steps : c.steps[n].decision = "REJECTED"
  \/ /\ c.steps # <<>>
     /\ \A n \in DOMAIN c.steps : c.steps[n].decision = "APPROVED"

\* The step that approver a may decide now: any of its own when all have to
\* approve, else the first one.
Decidable(c, a) ==
  {n \in Pending(c) :
     /\ ~Complete(c)
     /\ c.steps[n].approver = a
     /\ c.all \/ n = Min(Pending(c))}

\* process_approval_decision on the loaded chain c.
Decided(c, n, decision) == [c EXCEPT !.steps[n].decision = decision]

\* The chain as the database has it when step n of the loaded chain c was
\* decided; a chain initialised on the way is added.
SaveDecision(w, c, n, decision) ==
  chain' = IF txn[w].chain.steps = <<>>
           THEN Decided(c, n, decision)
           ELSE [chain EXCEPT !.steps[n].decision = decision]

\* The chain an approver decides on: the loaded one, or a new one.
ChainsFor(w) ==
  IF txn[w].chain.steps # <<>> THEN {txn[w].chain}
  ELSE {Initialized(NoChain, c) : c \in scenario.chains}

-----------------------------------------------------------------------------
(* Workflow *)

\* Receipts and limits are in order, or approval is required.
SubmitClaim(w) ==
  LET l == txn[w]
  IN /\ Commit(w)
     /\ rounds < MaxRounds
     /\ l.claim.status = "DRAFT"
     /\ Present(l.items) # {}
     /\ l.claim.total > 0
     /\ Begun(w, "SUBMIT")
     /\ \E c \in scenario.chains :
          /\ chain' = Initialized(chain, c)
          /\ Update(w, [l.claim EXCEPT !.status =
                          IF chain'.steps = <<>> THEN "SUBMITTED"
                                                 ELSE "PENDING_APPROVAL"])
     /\ Mark("SUBMIT", "COMPLETED")
     /\ rounds' = rounds + 1
     /\ UNCHANGED <<items, posted, payments, historyVars>>

SubmitBlocked(w) ==
  LET l == txn[w]
  IN /\ l # Idle
     /\ l.claim.status = "DRAFT"
     /\ Present(l.items) # {}
     /\ l.claim.total > 0
     /\ Fail(w, "SUBMIT")

\* Each item's own amount, or a correction.
Amounted(is) ==
  {f \in [Present(is) -> scenario.amounts \cup scenario.corrections] :
     \A i \in Present(is) : f[i] \in {is[i].claimed} \cup scenario.corrections}

\* Mutant of Approve: the advance is not deducted.
MutantApprove(w, a) ==
  LET l == txn[w]
  IN \E amount \in Amounted(l.items) :
       LET sum == SumOf(amount)
       IN /\ items' = [i \in ItemIds |->
                         IF items[i] = NULL \/ l.items[i] = NULL THEN items[i]
                         ELSE [items[i] EXCEPT !.approved = amount[i]]]
          /\ Update(w, [l.claim EXCEPT !.status = "APPROVED",
                                       !.approver = a,
                                       !.approved = sum,
                                       !.net = sum])

\* The last approval: totals from the items the session loaded.
Approve(w, a) ==
  LET l == txn[w]
  IN \E amount \in Amounted(l.items) :
       LET sum == SumOf(amount)
       IN /\ items' = [i \in ItemIds |->
                         IF items[i] = NULL \/ l.items[i] = NULL THEN items[i]
                         ELSE [items[i] EXCEPT !.approved = amount[i]]]
          /\ Update(w, [l.claim EXCEPT !.status = "APPROVED",
                                       !.approver = a,
                                       !.approved = sum,
                                       !.net = sum - l.claim.adjusted])

\* A request without an approver, which only a claim without a chain admits.
ApproveDirectly(w) ==
  /\ Commit(w)
  /\ txn[w].claim.status = "SUBMITTED"
  /\ Begun(w, "APPROVE")
  /\ Approve(w, NULL)
  /\ Mark("APPROVE", "COMPLETED")
  /\ UNCHANGED <<chain, posted, payments, rounds, historyVars>>

\* Mutant of ApproveClaim: one approval is enough.
MutantApproveClaim(w) ==
  LET l == txn[w]
  IN /\ Commit(w)
     /\ l.claim.status \in {"SUBMITTED", "PENDING_APPROVAL"}
     /\ \E a \in Approvers, c \in ChainsFor(w) :
          /\ l.claim.total <= Limit[a]
          /\ \E n \in Decidable(c, a) :
               /\ SaveDecision(w, c, n, "APPROVED")
               /\ Begun(w, "APPROVE")
               /\ Update(w, [l.claim EXCEPT !.status = "PENDING_APPROVAL"])
               /\ UNCHANGED <<items, marks>>
     /\ UNCHANGED <<posted, payments, rounds, historyVars>>

ApproveClaim(w) ==
  LET l == txn[w]
  IN /\ Commit(w)
     /\ l.claim.status \in {"SUBMITTED", "PENDING_APPROVAL"}
     /\ \E a \in Approvers, c \in ChainsFor(w) :
          /\ l.claim.total <= Limit[a]
          /\ \E n \in Decidable(c, a) :
               /\ SaveDecision(w, c, n, "APPROVED")
               /\ \/ /\ ~Complete(Decided(c, n, "APPROVED"))
                     /\ l.found = NoMarks
                     /\ Update(w, [l.claim EXCEPT !.status = "PENDING_APPROVAL"])
                     /\ UNCHANGED <<items, marks>>
                  \/ /\ Complete(Decided(c, n, "APPROVED"))
                     /\ Begun(w, "APPROVE")
                     /\ Approve(w, a)
                     /\ Mark("APPROVE", "COMPLETED")
                  \/ /\ Complete(Decided(c, n, "APPROVED"))
                     /\ NotBegun(w, "APPROVE")
                     /\ UNCHANGED <<claim, items, marks>>
     /\ UNCHANGED <<posted, payments, rounds, historyVars>>

RejectClaim(w) ==
  LET l == txn[w]
  IN /\ Commit(w)
     /\ l.claim.status \in {"SUBMITTED", "PENDING_APPROVAL"}
     /\ \E a \in Approvers, c \in ChainsFor(w) :
          \E n \in Decidable(c, a) :
            /\ SaveDecision(w, c, n, "REJECTED")
            /\ \/ /\ Begun(w, "REJECT")
                  /\ Update(w, [l.claim EXCEPT !.status = "REJECTED", !.approver = a])
                  /\ Mark("REJECT", "COMPLETED")
               \/ /\ NotBegun(w, "REJECT")
                  /\ UNCHANGED <<claim, marks>>
     /\ UNCHANGED <<items, posted, payments, rounds, historyVars>>

CancelClaim(w) ==
  /\ Commit(w)
  /\ txn[w].claim.status \in {"DRAFT", "SUBMITTED", "PENDING_APPROVAL"}
  /\ Begun(w, "CANCEL")
  /\ Update(w, [txn[w].claim EXCEPT !.status = "CANCELLED"])
  /\ Mark("CANCEL", "COMPLETED")
  /\ UNCHANGED <<items, chain, posted, payments, rounds, historyVars>>

\* _reset_workflow_action_markers
ResetMarks == {"SUBMIT", "APPROVE", "REJECT"}

\* The markers to reset are read.
FindMarkers(w) ==
  /\ Found(w, [m \in MarkTypes |-> IF m \in ResetMarks THEN marks[m] ELSE "NONE"])
  /\ txn[w].claim.status = "REJECTED"
  /\ UNCHANGED <<claimVars, posted, payments, rounds, historyVars>>

\* Back to DRAFT; the markers of the workflow that were found are made FAILED.
ResubmitClaim(w) ==
  LET l == txn[w]
  IN /\ Commit(w)
     /\ l.claim.status = "REJECTED"
     /\ Update(w, [l.claim EXCEPT !.status = "DRAFT", !.approver = NULL,
                                  !.approved = NULL, !.net = NULL])
     /\ items' = [i \in ItemIds |->
                    IF items[i] = NULL \/ l.items[i] = NULL THEN items[i]
                    ELSE [items[i] EXCEPT !.approved =
                            Written(l.items[i].approved, NULL, @)]]
     /\ l.found # NoMarks
     /\ marks' = [m \in MarkTypes |->
                    IF l.found[m] = "NONE" THEN marks[m]
                    ELSE Written(l.found[m], "FAILED", marks[m])]
     /\ UNCHANGED <<chain, posted, payments, rounds, historyVars>>

LinkAdvance(w) ==
  LET l == txn[w]
  IN /\ Commit(w)
     /\ l.claim.status \in {"DRAFT", "SUBMITTED"}
     /\ Begun(w, "LINK_ADVANCE")
     /\ \E a \in scenario.amounts :
          Update(w, [l.claim EXCEPT !.adjusted = a,
                       !.net = IF l.claim.approved \in {NULL, 0} THEN @
                               ELSE l.claim.approved - a])
     /\ Mark("LINK_ADVANCE", "COMPLETED")
     /\ UNCHANGED <<items, chain, posted, payments, rounds, historyVars>>

\* The net amount of the loaded claim; one that is missing is worked out, unless
\* nothing was approved.
Payable(c) ==
  IF c.net # NULL THEN c.net
  ELSE IF c.approved \in {NULL, 0} THEN 0 ELSE c.approved - c.adjusted

\* Mutant of MarkPaid: the marker is not asked.
MutantMarkPaid(w) ==
  /\ Commit(w)
  /\ txn[w].claim.status = "APPROVED"
  /\ Payable(txn[w].claim) > 0
  /\ Update(w, [txn[w].claim EXCEPT !.status = "PAID",
                                    !.net = Payable(txn[w].claim)])
  /\ Mark("MARK_PAID", "COMPLETED")
  /\ payments' = payments + 1
  /\ UNCHANGED <<items, chain, posted, rounds, historyVars>>

MarkPaid(w) ==
  /\ Commit(w)
  /\ txn[w].claim.status = "APPROVED"
  /\ Payable(txn[w].claim) > 0
  /\ Begun(w, "MARK_PAID")
  /\ Update(w, [txn[w].claim EXCEPT !.status = "PAID",
                                    !.net = Payable(txn[w].claim)])
  /\ Mark("MARK_PAID", "COMPLETED")
  /\ payments' = payments + 1
  /\ UNCHANGED <<items, chain, posted, rounds, historyVars>>

\* The approver's weekly budget is exhausted.
MarkPaidRefused(w) ==
  /\ txn[w] # Idle
  /\ txn[w].claim.status = "APPROVED"
  /\ Payable(txn[w].claim) > 0
  /\ Fail(w, "MARK_PAID")

\* item.approved_amount or item.claimed_amount
PostedAmount(item) == IF item.approved \in {NULL, 0} THEN item.claimed ELSE item.approved

\* post_expense_claim; a posting the ledger refuses is rolled back by the task.
PostExpenseClaim(w) ==
  /\ Commit(w)
  /\ txn[w].claim.status \in {"APPROVED", "PAID"}
  /\ txn[w].claim.approved # 0
  /\ posted = NULL
  /\ Present(items) # {}
  /\ Begun(w, "POST_GL")
  /\ posted' = SumOf([i \in Present(items) |-> PostedAmount(items[i])])
  /\ Mark("POST_GL", "COMPLETED")
  /\ UNCHANGED <<claim, items, chain, payments, rounds, historyVars>>

Next ==
  \/ CreateClaim
  \/ \E w \in Workers :
       \/ Load(w) \/ Refuse(w)
       \/ \E m \in MarkTypes : FindMarker(w, m)
       \/ FindMarkers(w)
       \/ AddClaimItem(w) \/ UpdateClaimItem(w) \/ RemoveClaimItem(w)
       \/ DeleteClaim(w)
       \/ SubmitClaim(w) \/ SubmitBlocked(w)
       \/ ApproveDirectly(w) \/ ApproveClaim(w) \/ RejectClaim(w)
       \/ CancelClaim(w) \/ ResubmitClaim(w)
       \/ LinkAdvance(w)
       \/ MarkPaid(w) \/ MarkPaidRefused(w)
       \/ PostExpenseClaim(w)

Spec == Init /\ [][Next]_vars

-----------------------------------------------------------------------------

Statuses == {"NONE", "DRAFT", "SUBMITTED", "PENDING_APPROVAL", "APPROVED",
             "REJECTED", "PAID", "CANCELLED", "DELETED"}

Item == [claimed : Nat, approved : Nat \cup {NULL}]

\* NULL is no number and no row.
ASSUME NullAssumption == NULL \notin Int /\ NULL \notin Item

\* The rows have the columns of the models.
TypeOK ==
  /\ claim.status \in Statuses
  /\ claim.total \in Int
  /\ claim.approved \in Nat \cup {NULL}
  /\ claim.net \in Int \cup {NULL}
  /\ claim.adjusted \in Nat
  /\ claim.approver \in Approvers \cup {NULL}
  /\ items \in [ItemIds -> {NULL} \cup Item]
  /\ marks \in [MarkTypes -> {"NONE", "COMPLETED", "FAILED"}]
  /\ posted \in Nat \cup {NULL}

\* What is approved and payable is the sum of the items' approved amounts, less
\* the advance, unless sessions overlapped.
ApprovedMatchesItems ==
  Exists /\ claim.approved # NULL /\ ~overlapped =>
    /\ \A i \in Present(items) : items[i].approved # NULL
    /\ claim.approved = SumOf([i \in Present(items) |-> items[i].approved])
    /\ claim.net = claim.approved - claim.adjusted

\* A claim that waits for approval has someone who can decide, unless sessions
\* overlapped or a later round found nobody to ask.
PendingHasApprover ==
  /\ claim.status = "PENDING_APPROVAL"
  /\ ~overlapped
  /\ rounds = 1 \/ \A c \in scenario.chains : c.steps # <<>>
  => Pending(chain) # {}

\* A claim is paid once, whatever stale sessions did to its status before and
\* however often its payment was refused, unless two sessions had both found the
\* marker that a refusal left.
PaidOnce == ~raced => payments <= 1
=============================================================================
