------------------------- MODULE IdempotentRequests -------------------------
(***************************************************************************)
(* One idempotency key of one endpoint: check_or_reserve_idempotency, the  *)
(* operation the key protects, and update_response, as the routes of       *)
(* api/expense.py call them.                                               *)
(*                                                                         *)
(* The placeholder of a reserved key is committed before the operation     *)
(* starts.  The operation only flushes; its effect is committed together   *)
(* with the response that is stored for it, also when it raised.           *)
(***************************************************************************)
EXTENDS Sessions, Integers

CONSTANTS Bodies,       \* request bodies sent with the key
          MaxEffects,   \* bound on executions of the operation
          NULL

VARIABLES record,   \* the IdempotencyRecord of the key, or NULL
          effects,  \* committed executions of the operation while the key is valid
          answers,  \* what clients were answered while the key is valid
          raced,    \* history: a request came while another was processed
          outlived  \* history: the key expired while a request was processed

vars == <<txn, record, effects, answers, raced, outlived>>
history == <<raced, outlived>>

ASSUME IdempotentRequestsAssumption == MaxEffects \in Nat

\* Answers to any body: 202 while the key is in use, 409 for another body, 500
InProgress == [body |-> NULL, is |-> "in progress"]
Conflict == [body |-> NULL, is |-> "conflict"]
Failure == [body |-> NULL, is |-> "failure"]

Success(b) == [body |-> b, is |-> "success"]
Error(b) == [body |-> b, is |-> "error"]

Responses == {Success(b) : b \in Bodies} \cup {Error(b) : b \in Bodies}

\* IdempotencyRecord; one that update_response makes has an empty hash.
Record == [hash : Bodies \cup {""}, response : Responses \cup {InProgress},
           expired : BOOLEAN]

ASSUME NullRecordAssumption == NULL \notin Record

Init ==
  /\ SessionsInit
  /\ record = NULL
  /\ effects = 0
  /\ answers = {}
  /\ raced = FALSE
  /\ outlived = FALSE

-----------------------------------------------------------------------------

Busy == \E w \in Workers : txn[w] # Idle

Answer(b, response) == answers' = answers \cup {[to |-> b, response |-> response]}

\* Mutant of Usable: the time of expiry is not looked at.
MutantUsable == record # NULL

\* check finds a record; one that expired is deleted, by its identifier.
Usable == record # NULL /\ ~record.expired

\* Mutant of NewRequest: a record that is still valid is deleted too.
MutantNewRequest(w, b) ==
  /\ Begin(w, [op |-> "reserve", body |-> b])
  /\ record' = NULL
  /\ raced' = (raced \/ Busy)
  /\ UNCHANGED <<effects, answers, outlived>>

\* check_or_reserve_idempotency, the check
NewRequest(w, b) ==
  /\ ~Usable
  /\ Begin(w, [op |-> "reserve", body |-> b])
  /\ record' = NULL
  /\ raced' = (raced \/ Busy)
  /\ UNCHANGED <<effects, answers, outlived>>

\* The stored response, which may be the placeholder.
Replay(w, b) ==
  /\ txn[w] = Idle
  /\ Usable
  /\ record.hash = b
  /\ Answer(b, record.response)
  /\ UNCHANGED <<txn, record, effects, history>>

\* Mutant of Refused: the hash of the body is not compared.
MutantRefused(w, b) ==
  /\ txn[w] = Idle
  /\ Usable
  /\ record.hash # b
  /\ Answer(b, record.response)
  /\ UNCHANGED <<txn, record, effects, history>>

\* The key was used with another body.
Refused(w, b) ==
  /\ txn[w] = Idle
  /\ Usable
  /\ record.hash # b
  /\ Answer(b, Conflict)
  /\ UNCHANGED <<txn, record, effects, history>>

Reserved(b) == [hash |-> b, response |-> InProgress, expired |-> FALSE]

Reserve(w) ==
  /\ Running(w, "reserve")
  /\ record = NULL
  /\ Continue(w, [txn[w] EXCEPT !.op = "run"])
  /\ record' = Reserved(txn[w].body)
  /\ UNCHANGED <<effects, answers, history>>

\* The insertion fails: the key was reserved since the check.  The record found
\* then is returned to check_or_reserve_idempotency, which goes on without it.
ReserveTaken(w) ==
  /\ Running(w, "reserve")
  /\ Usable
  /\ record.hash = txn[w].body
  /\ Continue(w, [txn[w] EXCEPT !.op = "run"])
  /\ UNCHANGED <<record, effects, answers, history>>

ReserveRefused(w) ==
  /\ Running(w, "reserve")
  /\ Usable
  /\ record.hash # txn[w].body
  /\ End(w)
  /\ Answer(txn[w].body, Conflict)
  /\ UNCHANGED <<record, effects, history>>

\* ... and has expired since; it is deleted, and the request fails.
ReserveExpired(w) ==
  /\ Running(w, "reserve")
  /\ record # NULL /\ ~Usable
  /\ End(w)
  /\ record' = NULL
  /\ Answer(txn[w].body, Failure)
  /\ UNCHANGED <<effects, history>>

\* update_response; a record that is gone is stored anew, with an empty hash.
UpdateResponse(response) ==
  record' = IF record = NULL
            THEN [hash |-> "", response |-> response, expired |-> FALSE]
            ELSE [record EXCEPT !.response = response]

Succeed(w) ==
  /\ Running(w, "run")
  /\ effects < MaxEffects
  /\ End(w)
  /\ effects' = effects + 1
  /\ UpdateResponse(Success(txn[w].body))
  /\ Answer(txn[w].body, Success(txn[w].body))
  /\ UNCHANGED history

\* The operation raises; what it had flushed is committed with the response.
Raise(w) ==
  /\ Running(w, "run")
  /\ End(w)
  /\ UpdateResponse(Error(txn[w].body))
  /\ \/ UNCHANGED effects
     \/ effects < MaxEffects /\ effects' = effects + 1
  /\ Answer(txn[w].body, Error(txn[w].body))
  /\ UNCHANGED history

\* The process ends, or the session is unusable when the error is stored.
Crash(w) ==
  /\ txn[w] # Idle
  /\ End(w)
  /\ UNCHANGED <<record, effects, answers, history>>

\* DEFAULT_TTL_HOURS pass.
Expire ==
  /\ Usable
  /\ record' = [record EXCEPT !.expired = TRUE]
  /\ effects' = 0
  /\ answers' = {}
  /\ outlived' = (outlived \/ Busy)
  /\ UNCHANGED <<txn, raced>>

\* cleanup_expired
CleanupExpired ==
  /\ record # NULL
  /\ record.expired
  /\ record' = NULL
  /\ UNCHANGED <<txn, effects, answers, history>>

Request(w) == \E b \in Bodies : NewRequest(w, b) \/ Replay(w, b) \/ Refused(w, b)

Proceed(w) ==
  \/ Reserve(w) \/ ReserveTaken(w) \/ ReserveRefused(w) \/ ReserveExpired(w)
  \/ Succeed(w) \/ Raise(w)

Next ==
  \/ \E w \in Workers : Request(w) \/ Proceed(w) \/ Crash(w)
  \/ Expire
  \/ CleanupExpired

Spec == Init /\ [][Next]_vars

\* Clients send again, a request that is processed comes to an end, time passes.
Fairness ==
  /\ \A w \in Workers : WF_vars(Request(w)) /\ WF_vars(Proceed(w))
  /\ WF_vars(Expire)

FairSpec == Spec /\ Fairness

-----------------------------------------------------------------------------

\* The record, the requests and the answers have the values of the code.
TypeOK ==
  /\ txn \in [Workers -> {Idle} \cup [op : {"reserve", "run"}, body : Bodies]]
  /\ record \in {NULL} \cup Record
  /\ effects \in 0 .. MaxEffects
  /\ answers \subseteq [to : Bodies,
                        response : Responses \cup {InProgress, Conflict, Failure}]
  /\ raced \in BOOLEAN
  /\ outlived \in BOOLEAN

\* "duplicate requests with the same idempotency key return cached responses
\* rather than re-executing operations": while a key is valid its operation is
\* executed once, also when the process died on the way, unless requests overlap.
AtMostOnce == raced \/ outlived \/ effects <= 1

\* A client that was told of success can rely on it, also when requests overlap:
\* the operation was executed, for its own body.
SuccessIsReal ==
  \A a \in answers :
    a.response \in Responses /\ ~outlived =>
      /\ a.response.body = a.to
      /\ a.response = Success(a.to) => effects > 0

\* A key that a dead request left "in progress" does not stay so.
KeyRecovers ==
  record # NULL /\ record.response = InProgress
    ~> record = NULL \/ record.response # InProgress
=============================================================================
