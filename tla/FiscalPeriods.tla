---------------------------- MODULE FiscalPeriods ----------------------------
(***************************************************************************)
(* Fiscal periods: the lifecycle operations of FiscalPeriodService (the    *)
(* service behind the API and the web pages) and of PeriodGuardService,    *)
(* and the gate PeriodGuardService.require_open_period that every ledger   *)
(* posting passes.                                                         *)
(*                                                                         *)
(* Each lifecycle operation loads the row and tests its status, then       *)
(* commits the new status; the row is never locked in between.             *)
(***************************************************************************)
EXTENDS Sessions, Integers

CONSTANTS Dates,        \* posting dates, integers
          Periods,      \* gl.fiscal_period rows
          PeriodInfo,   \* start date, end date and is_adjustment_period of each
          MaxSessions   \* bound on the number of reopen sessions

VARIABLES period,       \* status and last_reopen_session_id of each row
          nextSession   \* reopen sessions handed out so far (uuid4 values)

periodVars == <<period, nextSession>>

ASSUME PeriodInfoAssumption ==
  /\ Dates \subseteq Int
  /\ PeriodInfo \in [Periods -> [start : Int, end : Int, adjustment : BOOLEAN]]
  /\ MaxSessions \in Nat

PeriodStatus == {"FUTURE", "OPEN", "SOFT_CLOSED", "HARD_CLOSED", "REOPENED"}

NoSession == 0

PeriodRow == [status : PeriodStatus, session : Nat]

\* A transaction that will set a period's status.
PeriodTxn == [op : {"period"}, p : Periods, to : PeriodStatus]

FiscalPeriodsTypeOK ==
  /\ period \in [Periods -> PeriodRow]
  /\ nextSession \in Nat

\* Rows as create_period (FUTURE) and _ensure_period_exists (OPEN) insert them.
FiscalPeriodsInit ==
  /\ period \in [Periods -> [status : {"FUTURE", "OPEN"}, session : {NoSession}]]
  /\ nextSession = 0

-----------------------------------------------------------------------------
(* The posting gate. *)

POSTABLE_STATUSES == {"OPEN", "REOPENED"}

Covering(d) ==
  {p \in Periods : PeriodInfo[p].start <= d /\ d <= PeriodInfo[p].end}

\* ORDER BY start_date DESC, end_date ASC
MoreSpecific(p, q) ==
  \/ PeriodInfo[p].start > PeriodInfo[q].start
  \/ /\ PeriodInfo[p].start = PeriodInfo[q].start
     /\ PeriodInfo[p].end < PeriodInfo[q].end

\* The rows the database may return first; it breaks ties as it likes.
First(S) == {p \in S : \A q \in S : ~MoreSpecific(q, p)}

\* Mutant of ResolvePeriod: any postable period will do.
MutantResolvePeriod(d, preferPostable, allowAdjustment) ==
  {p \in Periods :
     /\ preferPostable => period[p].status \in POSTABLE_STATUSES
     /\ PeriodInfo[p].adjustment => allowAdjustment}

\* _resolve_period_for_date, as the set of rows it may return.
ResolvePeriod(d, preferPostable, allowAdjustment) ==
  LET postable == {p \in Covering(d) :
                     /\ period[p].status \in POSTABLE_STATUSES
                     /\ PeriodInfo[p].adjustment => allowAdjustment}
  IN IF preferPostable /\ postable # {} THEN First(postable)
                                        ELSE First(Covering(d))

\* Mutant of CanPost: a soft close only warns.
MutantCanPost(p, allowAdjustment, session) ==
  /\ PeriodInfo[p].adjustment => allowAdjustment
  /\ period[p].status \in {"OPEN", "REOPENED", "SOFT_CLOSED"}

\* can_post_to_date for a row that exists.
CanPost(p, allowAdjustment, session) ==
  /\ PeriodInfo[p].adjustment => allowAdjustment
  /\ \/ period[p].status = "OPEN"
     \/ /\ period[p].status = "REOPENED"
        /\ session # NoSession
        /\ session = period[p].session

\* require_open_period: the rows it may return; none when it raises.
RequireOpenPeriod(d, allowAdjustment, session) ==
  {p \in ResolvePeriod(d, TRUE, allowAdjustment) :
     CanPost(p, allowAdjustment, session)}

-----------------------------------------------------------------------------
(* The lifecycle. *)

LoadPeriod(w, p, from, to) ==
  /\ period[p].status \in from
  /\ Begin(w, [op |-> "period", p |-> p, to |-> to])
  /\ UNCHANGED periodVars

\* FiscalPeriodService.open_period; PeriodGuardService's takes FUTURE only.
OpenPeriod(w, p) == LoadPeriod(w, p, {"FUTURE", "SOFT_CLOSED"}, "OPEN")

\* soft_close_period of both services.  FiscalPeriodService also refuses
\* while a bank account is unreconciled, which is not tracked here.
SoftClosePeriod(w, p) == LoadPeriod(w, p, {"OPEN", "REOPENED"}, "SOFT_CLOSED")

\* PeriodGuardService.hard_close_period; FiscalPeriodService's takes
\* SOFT_CLOSED only.
HardClosePeriod(w, p) ==
  LoadPeriod(w, p, {"SOFT_CLOSED", "OPEN", "REOPENED"}, "HARD_CLOSED")

\* reopen_period of both services.
ReopenPeriod(w, p) ==
  /\ nextSession < MaxSessions
  /\ LoadPeriod(w, p, {"SOFT_CLOSED"}, "REOPENED")

\* PeriodGuardService.close_reopen_session
CloseReopenSession(w, p, session) ==
  /\ session = period[p].session
  /\ LoadPeriod(w, p, {"REOPENED"}, "SOFT_CLOSED")

\* The commit of any of them; a reopen stores a fresh session id.
CommitPeriod(w) ==
  /\ Running(w, "period")
  /\ LET p  == txn[w].p
         to == txn[w].to
     IN IF to = "REOPENED"
        THEN /\ nextSession' = nextSession + 1
             /\ period' = [period EXCEPT ![p] = [status  |-> to,
                                                 session |-> nextSession + 1]]
        ELSE /\ period' = [period EXCEPT ![p].status = to]
             /\ UNCHANGED nextSession
  /\ End(w)

PeriodOperation(w) ==
  \/ \E p \in Periods :
       \/ OpenPeriod(w, p)
       \/ SoftClosePeriod(w, p)
       \/ HardClosePeriod(w, p)
       \/ ReopenPeriod(w, p)
       \/ \E s \in 1 .. nextSession : CloseReopenSession(w, p, s)
  \/ CommitPeriod(w)
=============================================================================
