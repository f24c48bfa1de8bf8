---------------------------- MODULE BalanceCache ----------------------------
(***************************************************************************)
(* gl.account_balance, the cache of the ledger that dashboards read, and   *)
(* the four Celery tasks that maintain it beside the postings:             *)
(*   - relay_outbox_events delivers a posting's event and adds the batch   *)
(*     to the balances (every 30 s);                                       *)
(*   - refresh_stale_balances recomputes the balances queued by a posting  *)
(*     (every 30 s);                                                       *)
(*   - process_stuck_outbox_events pushes old PENDING events (15 min);     *)
(*   - rebuild_account_balances recomputes everything (daily).             *)
(*                                                                         *)
(* A balance is a sum over ledger lines.  It is kept here as the number of *)
(* times each batch is counted in it: right when every posted batch is     *)
(* counted once.  The rows of the balances exist, as rollover leaves them. *)
(*                                                                         *)
(* A task reads rows, computes, and writes what it computed; no row is     *)
(* locked or re-read in between, so that two tasks overwrite each other.   *)
(* What a task reads before its first write is read in one step.           *)
(***************************************************************************)
EXTENDS Sessions, Naturals, FiniteSets

CONSTANTS Batches,         \* posting batches, each with one outbox event
          BalanceKeys,     \* (account, fiscal period) pairs
          Touches,         \* the balances a batch has lines for
          MAX_RETRY_COUNT,
          MaxCrashes       \* bound on the rollbacks of sessions

VARIABLES posted,     \* batches whose lines are in gl.posted_ledger_line
          event,      \* platform.event_outbox rows
          pending,    \* gl.balance_refresh_queue entries not yet processed
          balance,    \* gl.account_balance rows
          crashes

cacheRows == <<event, pending, balance>>
cacheVars == <<txn, posted, cacheRows, crashes>>

ASSUME BalanceCacheAssumption ==
  /\ Touches \in [Batches -> SUBSET BalanceKeys]
  /\ MAX_RETRY_COUNT \in Nat /\ MAX_RETRY_COUNT >= 2
  /\ MaxCrashes \in Nat

EventStatus == {"NONE", "PENDING", "FAILED", "PUBLISHED", "DEAD"}

\* due: next_retry_at is NULL or has passed.
EventRow == [status : EventStatus, retries : Nat, due : BOOLEAN]

Counts == [Batches -> Nat]

BalanceRow == [counted : Counts, stale : BOOLEAN]

\* The sum over the lines of a set of batches.
SumOf(k, bs) == [b \in Batches |-> IF b \in bs /\ k \in Touches[b] THEN 1 ELSE 0]

CacheInit ==
  /\ SessionsInit
  /\ posted = {}
  /\ event = [b \in Batches |-> [status |-> "NONE", retries |-> 0, due |-> TRUE]]
  /\ pending = [k \in BalanceKeys |-> FALSE]
  /\ balance = [k \in BalanceKeys |-> [counted |-> SumOf(k, {}), stale |-> FALSE]]
  /\ crashes = 0

-----------------------------------------------------------------------------
(* Posting *)

\* BalanceInvalidationService.invalidate_batch and publish_event, at the commit
\* of a posting.  The UPDATE that marks a balance stale locks its row before
\* the queue entry is read, and a refresh writes the row before the entry, so
\* that an entry a posting finds pending is still pending when it commits.
PostBatch(b) ==
  /\ b \notin posted
  /\ posted' = posted \cup {b}
  /\ event' = [event EXCEPT ![b].status = "PENDING"]
  /\ pending' = [k \in BalanceKeys |-> pending[k] \/ k \in Touches[b]]
  /\ balance' = [k \in BalanceKeys |->
                   IF k \in Touches[b] THEN [balance[k] EXCEPT !.stale = TRUE]
                                       ELSE balance[k]]
  /\ UNCHANGED <<txn, crashes>>

\* The row of k after a task that loaded it as "found" assigned it new sums
\* and is_stale = False.
Updated(k, found, counted) ==
  [counted |-> Written(found.counted, counted, balance[k].counted),
   stale   |-> Written(found.stale, FALSE, balance[k].stale)]

-----------------------------------------------------------------------------
(* relay_outbox_events *)

\* Mutant of Pollable: FAILED events are not polled again.
MutantPollable(b) ==
  /\ event[b].status = "PENDING"
  /\ event[b].retries < MAX_RETRY_COUNT
  /\ event[b].due

\* OutboxPublisher.get_pending_events
Pollable(b) ==
  /\ event[b].status \in {"PENDING", "FAILED"}
  /\ event[b].retries < MAX_RETRY_COUNT
  /\ event[b].due

RelayPoll(w) ==
  /\ \E b \in Batches : Pollable(b)
  /\ Begin(w, [op |-> "relay", todo |-> {b \in Batches : Pollable(b)}])
  /\ UNCHANGED <<posted, cacheRows, crashes>>

\* handle_ledger_posting_completed: the balances as update_balance_for_posting
\* finds them.  The event was polled; its status is not looked at again.
RelayHandle(w) ==
  /\ Running(w, "relay")
  /\ \E b \in txn[w].todo :
       txn' = [txn EXCEPT ![w] =
                 [op |-> "apply", todo |-> txn[w].todo \ {b}, b |-> b,
                  found |-> balance]]
  /\ UNCHANGED <<posted, cacheRows, crashes>>

\* The rest of the polled events, or the end of the task.
RelayContinue(w) ==
  Continue(w, IF txn[w].todo = {} THEN Idle
                                  ELSE [op |-> "relay", todo |-> txn[w].todo])

\* The increments and mark_published, committed together.  The handler logs
\* and skips a line whose update raises, and the event is published anyway.
RelayPublish(w) ==
  /\ Running(w, "apply")
  /\ LET b == txn[w].b
     IN /\ \E applied \in SUBSET Touches[b] :
             balance' = [k \in BalanceKeys |->
               IF k \in applied
               THEN Updated(k, txn[w].found[k],
                            [txn[w].found[k].counted EXCEPT ![b] = @ + 1])
               ELSE balance[k]]
        /\ event' = [event EXCEPT ![b].status = "PUBLISHED"]
  /\ RelayContinue(w)
  /\ UNCHANGED <<posted, pending, crashes>>

\* Mutant of RelayFail: the limit is tested before the increment.
MutantRelayFail(w) ==
  /\ Running(w, "apply")
  /\ LET b == txn[w].b
     IN event' = [event EXCEPT ![b] =
                    [status  |-> IF @.retries >= MAX_RETRY_COUNT
                                 THEN "DEAD" ELSE "FAILED",
                     retries |-> @.retries + 1,
                     due     |-> FALSE]]
  /\ RelayContinue(w)
  /\ UNCHANGED <<posted, pending, balance, crashes>>

\* The handler raises: rollback, then OutboxPublisher.handle_retry.
RelayFail(w) ==
  /\ Running(w, "apply")
  /\ LET b == txn[w].b
         n == event[b].retries + 1
     IN event' = [event EXCEPT ![b] =
                    IF n >= MAX_RETRY_COUNT
                    THEN [status |-> "DEAD", retries |-> n, due |-> @.due]
                    ELSE [status |-> "FAILED", retries |-> n, due |-> FALSE]]
  /\ RelayContinue(w)
  /\ UNCHANGED <<posted, pending, balance, crashes>>

\* The retry delay of an event passes.
RetryDue(b) ==
  /\ ~event[b].due
  /\ event' = [event EXCEPT ![b].due = TRUE]
  /\ UNCHANGED <<txn, posted, pending, balance, crashes>>

-----------------------------------------------------------------------------
(* process_stuck_outbox_events *)

\* PENDING events older than 30 minutes, with the retry count they have now.
StuckLoad(w) ==
  /\ \E S \in (SUBSET {b \in Batches : event[b].status = "PENDING"}) \ {{}} :
       Begin(w, [op |-> "stuck", events |-> S,
                 found |-> [b \in Batches |-> event[b].retries]])
  /\ UNCHANGED <<posted, cacheRows, crashes>>

\* Written back whatever the relay did with the events meanwhile.
StuckCommit(w) ==
  /\ Running(w, "stuck")
  /\ LET found == txn[w].found
     IN event' = [b \in Batches |->
          IF b \notin txn[w].events THEN event[b]
          ELSE IF found[b] >= MAX_RETRY_COUNT
               THEN [event[b] EXCEPT !.status = "DEAD"]
               ELSE [status |-> "FAILED", retries |-> found[b] + 1, due |-> TRUE]]
  /\ End(w)
  /\ UNCHANGED <<posted, pending, balance, crashes>>

-----------------------------------------------------------------------------
(* refresh_stale_balances and rebuild_account_balances *)

\* BalanceRefreshService.process_queue: queued keys, their sums and rows.  A
\* key beyond the batch size, or whose refresh raises, stays queued.
RefreshLoad(w) ==
  /\ \E keys \in (SUBSET {k \in BalanceKeys : pending[k]}) \ {{}} :
       Begin(w, [op |-> "refresh", keys |-> keys, lines |-> posted,
                 found |-> balance])
  /\ UNCHANGED <<posted, cacheRows, crashes>>

RefreshCommit(w) ==
  /\ Running(w, "refresh")
  /\ LET t == txn[w]
     IN /\ balance' = [k \in BalanceKeys |->
                         IF k \in t.keys
                         THEN Updated(k, t.found[k], SumOf(k, t.lines))
                         ELSE balance[k]]
        /\ pending' = [k \in BalanceKeys |-> pending[k] /\ k \notin t.keys]
  /\ End(w)
  /\ UNCHANGED <<posted, event, crashes>>

RebuildLoad(w) ==
  /\ Begin(w, [op |-> "rebuild", lines |-> posted, found |-> balance])
  /\ UNCHANGED <<posted, cacheRows, crashes>>

\* Mutant of RebuildCommit: a row that is not stale is taken for right.
MutantRebuildCommit(w) ==
  /\ Running(w, "rebuild")
  /\ balance' = [k \in BalanceKeys |->
                   IF balance[k].stale
                   THEN [balance[k] EXCEPT !.counted = SumOf(k, txn[w].lines)]
                   ELSE balance[k]]
  /\ End(w)
  /\ UNCHANGED <<posted, event, pending, crashes>>

\* Balances with ledger lines get their sums; is_stale is left alone.
RebuildCommit(w) ==
  /\ Running(w, "rebuild")
  /\ balance' = [k \in BalanceKeys |->
                   IF \E b \in txn[w].lines : k \in Touches[b]
                   THEN [balance[k] EXCEPT !.counted =
                           Written(txn[w].found[k].counted,
                                   SumOf(k, txn[w].lines), @)]
                   ELSE balance[k]]
  /\ End(w)
  /\ UNCHANGED <<posted, event, pending, crashes>>

-----------------------------------------------------------------------------

\* A worker dies or its database connection breaks: nothing it did since the
\* last commit stays.
CrashTask(w) ==
  /\ txn[w] # Idle
  /\ crashes < MaxCrashes
  /\ crashes' = crashes + 1
  /\ End(w)
  /\ UNCHANGED <<posted, cacheRows>>

Step(w) ==
  \/ RelayHandle(w)
  \/ RelayPublish(w)
  \/ RelayFail(w)
  \/ StuckCommit(w)
  \/ RefreshCommit(w)
  \/ RebuildCommit(w)

CacheNext ==
  \/ \E w \in Workers :
       \/ RelayPoll(w)
       \/ StuckLoad(w)
       \/ RefreshLoad(w)
       \/ RebuildLoad(w)
       \/ Step(w)
       \/ CrashTask(w)
  \/ \E b \in Batches : PostBatch(b) \/ RetryDue(b)

\* A started task goes on (a session has statement timeouts); a delay passes;
\* and the beat schedule starts each periodic task again and again: workers
\* take tasks off the broker in order, so a task that can start keeps getting
\* its turn.  Nothing is assumed of postings or of crashes.
CacheFairness ==
  /\ \A w \in Workers : WF_cacheVars(Step(w))
  /\ \A b \in Batches : WF_cacheVars(RetryDue(b))
  /\ SF_cacheVars(\E w \in Workers : RelayPoll(w))
  /\ SF_cacheVars(\E w \in Workers : RebuildLoad(w))

CacheSpec == CacheInit /\ [][CacheNext]_cacheVars /\ CacheFairness

-----------------------------------------------------------------------------

CacheTxn ==
  [op : {"relay"}, todo : SUBSET Batches]
  \cup [op : {"apply"}, todo : SUBSET Batches, b : Batches,
         found : [BalanceKeys -> BalanceRow]]
  \cup [op : {"stuck"}, events : SUBSET Batches, found : [Batches -> Nat]]
  \cup [op : {"refresh"}, keys : SUBSET BalanceKeys, lines : SUBSET Batches,
         found : [BalanceKeys -> BalanceRow]]
  \cup [op : {"rebuild"}, lines : SUBSET Batches,
         found : [BalanceKeys -> BalanceRow]]

\* Rows and open tasks have the columns and value sets of the models.
CacheTypeOK ==
  /\ txn \in [Workers -> CacheTxn \cup {Idle}]
  /\ posted \subseteq Batches
  /\ event \in [Batches -> EventRow]
  /\ pending \in [BalanceKeys -> BOOLEAN]
  /\ balance \in [BalanceKeys -> BalanceRow]
  /\ crashes \in Nat

\* An event that get_pending_events no longer returns is PUBLISHED or DEAD:
\* handle_retry and the stuck recovery leave none behind as FAILED.
NoStrandedEvent ==
  \A b \in Batches :
    event[b].status \in {"PENDING", "FAILED"} => event[b].retries < MAX_RETRY_COUNT

Matches == \A k \in BalanceKeys : balance[k].counted = SumOf(k, posted)

\* Every posting's event is delivered or declared dead, whatever fails,
\* crashes or overwrites its status on the way: the outbox's promise.
EventsSettle == []<>(\A b \in posted : event[b].status \in {"PUBLISHED", "DEAD"})

\* Once postings stop, the cache comes to agree with the ledger and stays so,
\* however the relay, the refresh and the stuck recovery miscounted before:
\* the daily rebuild is the safety net it is said to be.
ConvergesToLedger == <>[]Matches
=============================================================================
