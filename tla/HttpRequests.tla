---------------------------- MODULE HttpRequests ----------------------------
(***************************************************************************)
(* The HTTP API of a conversation: a request is authorised, counted        *)
(* against the limit of its account in Redis, waits its turn in the worker *)
(* and sends a message.  The requests here are of one account.             *)
(*                                                                         *)
(* From Twisted: notifyFinish fires when the request is finished or its    *)
(* connection lost, but not if it was lost before notifyFinish was called; *)
(* commands to Redis on a connection are served in the order they are      *)
(* given.                                                                  *)
(***************************************************************************)
EXTENDS Integers, Sequences, FiniteSets

CONSTANTS
  Requests, Workers,
  Limits,              \* values of concurrency_limit
  WorkerLimits,        \* values of worker_concurrency_limit
  MaxLosses,           \* bound on requests and workers lost
  Nothing

RequestState ==
  [at : {"auth", "allowed", "track", "metrics", "payload", "for ever", "wait", "handle", "sent", "over"},
   worker : Workers, what : {"send", "reply", "metrics"}]

HttpRequestsConstants ==
  /\ Limits \subseteq Int /\ WorkerLimits \subseteq Int /\ MaxLosses \in Nat
  /\ IsFiniteSet(Requests) /\ Nothing \notin RequestState

VARIABLES
  limit, worker_limit,
  req,                 \* the requests: where they are, at which worker
  closed,              \* requests whose connection is lost or that are answered
  tracked,             \* requests whose notifyFinish will be called back
  count,               \* the key concurrency:<user_id> in Redis
  concurrents, waiters,\* of the limiter of each worker, if it has one
  limiters,            \* workers that have one
  opted_out,           \* is the address opted out
  excused,             \* history: was a count left that no one takes back
  losses

limiter == <<concurrents, waiters, limiters>>
settings == <<limit, worker_limit>>
vars == <<settings, req, closed, tracked, count, limiter, opted_out, excused, losses>>

Request(at, worker, what) == [at |-> at, worker |-> worker, what |-> what]
Moved(r, at) == Request(at, req[r].worker, req[r].what)
Goes(r, at) == req' = [req EXCEPT ![r] = Moved(r, at)]
At(r, at) == req[r] # Nothing /\ req[r].at = at

\* finish_response: nothing is heard of an answer on a connection that is lost.
\* The request is finished, and release_request called back.
Released(r) == count' = IF r \in tracked THEN count - 1 ELSE count
Answer(r) ==
  IF r \in closed THEN UNCHANGED <<closed, tracked, count>>
  ELSE closed' = closed \union {r} /\ tracked' = tracked \ {r} /\ Released(r)

-----------------------------------------------------------------------------
\* A request for messages.json or metrics.json.
Arrive(r, w, what) ==
  /\ req[r] = Nothing
  /\ req' = [req EXCEPT ![r] = Request("auth", w, what)]
  /\ UNCHANGED <<settings, closed, tracked, count, limiter, opted_out, excused, losses>>

\* requestAvatarId: the account exists, and the token is one of the conversation's.
RequestAvatarId(r) ==
  /\ At(r, "auth")
  /\ \/ Goes(r, "allowed") /\ UNCHANGED <<closed, tracked, count>>
     \/ Goes(r, "over") /\ Answer(r)
  /\ UNCHANGED <<settings, limiter, opted_out, excused, losses>>

\* is_allowed, and then, if the count was below the limit, track_request
IsAllowed(r) ==
  /\ At(r, "allowed")
  /\ IF limit < 0 \/ count < limit
     THEN Goes(r, "track") /\ UNCHANGED <<closed, tracked, count>>
     ELSE Goes(r, "over") /\ Answer(r)
  /\ UNCHANGED <<settings, limiter, opted_out, excused, losses>>

TrackRequest(r) ==
  /\ At(r, "track") /\ count' = count + 1
  /\ IF r \in closed THEN tracked' = tracked /\ excused' = TRUE
     ELSE tracked' = tracked \union {r} /\ UNCHANGED excused
  /\ Goes(r, IF req[r].what = "metrics" THEN "metrics" ELSE "payload")
  /\ UNCHANGED <<settings, closed, limiter, opted_out, losses>>

-----------------------------------------------------------------------------
(* ConcurrencyLimiter: always add a waiter, then check.                    *)
CheckConcurrent(w, active, waiting) ==
  IF active >= worker_limit \/ waiting = <<>>
  THEN /\ concurrents' = [concurrents EXCEPT ![w] = active]
       /\ waiters' = [waiters EXCEPT ![w] = waiting]
  ELSE /\ concurrents' = [concurrents EXCEPT ![w] = active + 1]
       /\ waiters' = [waiters EXCEPT ![w] = Tail(waiting)]

\* The request whose deferred fired goes on.
Woken(w, waiting) == {waiting[i] : i \in 1..(Len(waiting) - Len(waiters'[w]))}

Empty(w) == concurrents'[w] = 0 /\ waiters'[w] = <<>>
CleanupLimiter(w) == limiters' = IF Empty(w) THEN limiters \ {w} ELSE limiters \union {w}

Resume(rs, r, at) ==
  req' = [q \in Requests |-> IF q \in rs THEN Moved(q, "handle")
                             ELSE IF q = r THEN Moved(q, at) ELSE req[q]]

\* start: at once without a limit, never with a limit of zero, else when it is its turn
Start(r) ==
  LET w == req[r].worker
      waiting == Append(waiters[w], r)
  IN IF worker_limit < 0 THEN Goes(r, "handle") /\ UNCHANGED limiter
     ELSE IF worker_limit = 0 THEN Goes(r, "for ever") /\ UNCHANGED limiter
     ELSE /\ CheckConcurrent(w, concurrents[w], waiting)
          /\ CleanupLimiter(w)
          /\ Resume(Woken(w, waiting), r, "wait")

\* stop: in the end, whatever handling the request raised
Stop(r) ==
  LET w == req[r].worker IN
  IF worker_limit <= 0 THEN Goes(r, "over") /\ UNCHANGED limiter
  ELSE /\ CheckConcurrent(w, concurrents[w] - 1, waiters[w])
       /\ CleanupLimiter(w)
       /\ Resume(Woken(w, waiters[w]), r, "over")

\* handle_PUT: an answer if the payload is no JSON; what raises is not answered.
HandlePut(r) ==
  /\ At(r, "payload")
  /\ \/ Start(r) /\ UNCHANGED <<closed, tracked, count>>
     \/ Goes(r, "over") /\ Answer(r) /\ UNCHANGED limiter
     \/ Goes(r, "over") /\ UNCHANGED <<closed, tracked, count, limiter>>
  /\ UNCHANGED <<settings, opted_out, excused, losses>>

(* handle_PUT_send_to, handle_PUT_in_reply_to: the options may be invalid, *)
(* and a send is refused if the address is opted out.  (Fault for the      *)
(* mutation runs: the limiter is not told of a refusal.)                   *)
Refused(r) == Goes(r, "over") /\ UNCHANGED limiter
Finally(r) == Stop(r)

Handle(r) ==
  /\ At(r, "handle")
  /\ \/ /\ ~opted_out \/ req[r].what = "reply"
        /\ Goes(r, "sent")
        /\ UNCHANGED <<closed, tracked, count, limiter>>
     \/ Finally(r) /\ Answer(r)
     \/ Finally(r) /\ UNCHANGED <<closed, tracked, count>>
  /\ UNCHANGED <<settings, opted_out, excused, losses>>

SuccessfulSend(r) ==
  /\ At(r, "sent") /\ Stop(r) /\ Answer(r)
  /\ UNCHANGED <<settings, opted_out, excused, losses>>

\* MetricResource: metrics are published, or are invalid, or parsing them raises.
HandleMetrics(r) ==
  /\ At(r, "metrics") /\ Goes(r, "over")
  /\ \/ Answer(r)
     \/ UNCHANGED <<closed, tracked, count>>
  /\ UNCHANGED <<settings, limiter, opted_out, excused, losses>>

-----------------------------------------------------------------------------
OptOut == /\ ~opted_out /\ opted_out' = TRUE
          /\ UNCHANGED <<settings, req, closed, tracked, count, limiter, excused, losses>>

\* The client goes away; requests that were not answered end like this.
ConnectionLost(r) ==
  /\ req[r] # Nothing /\ r \notin closed
  /\ At(r, "over") \/ losses < MaxLosses
  /\ losses' = IF At(r, "over") THEN losses ELSE losses + 1
  /\ closed' = closed \union {r} /\ tracked' = tracked \ {r} /\ Released(r)
  /\ UNCHANGED <<settings, req, limiter, opted_out, excused>>

\* The counts of its requests stay in Redis.
WorkerDies(w) ==
  LET lost == {r \in Requests : req[r] # Nothing /\ req[r].worker = w} IN
  /\ losses < MaxLosses /\ losses' = losses + 1
  /\ req' = [r \in Requests |-> IF r \in lost THEN Moved(r, "over") ELSE req[r]]
  /\ closed' = closed \union lost /\ tracked' = tracked \ lost
  /\ concurrents' = [concurrents EXCEPT ![w] = 0] /\ waiters' = [waiters EXCEPT ![w] = <<>>]
  /\ limiters' = limiters \ {w}
  /\ excused' = (excused \/ tracked # tracked')
  /\ UNCHANGED <<settings, count, opted_out>>

Init ==
  /\ limit \in Limits /\ worker_limit \in WorkerLimits
  /\ req = [r \in Requests |-> Nothing] /\ closed = {} /\ tracked = {} /\ count = 0
  /\ concurrents = [w \in Workers |-> 0] /\ waiters = [w \in Workers |-> <<>>] /\ limiters = {}
  /\ opted_out \in BOOLEAN
  /\ excused = FALSE /\ losses = 0

Next ==
  \/ \E r \in Requests :
       \/ \E w \in Workers, what \in {"send", "reply", "metrics"} : Arrive(r, w, what)
       \/ RequestAvatarId(r) \/ IsAllowed(r) \/ TrackRequest(r)
       \/ HandlePut(r) \/ Handle(r) \/ SuccessfulSend(r) \/ HandleMetrics(r)
       \/ ConnectionLost(r)
  \/ OptOut
  \/ \E w \in Workers : WorkerDies(w)

Spec == Init /\ [][Next]_vars
-----------------------------------------------------------------------------
Handled(w) == {r \in Requests : req[r] # Nothing /\ req[r].worker = w /\ req[r].at \in {"handle", "sent"}}
Waiting(w) == {r \in Requests : req[r] # Nothing /\ req[r].worker = w /\ req[r].at = "wait"}

(* No worker handles more requests of an account than its limit, and none  *)
(* waits while it handles fewer: however requests fail, clients leave and  *)
(* limiters come and go.  When all requests are over nothing is left of    *)
(* them, neither a limiter nor, unless a worker died with requests or a    *)
(* client left while its request was being allowed, a count that would     *)
(* shut the account out.                                                   *)
TurnsAreTaken ==
  /\ worker_limit > 0 => \A w \in Workers :
       /\ Cardinality(Handled(w)) <= worker_limit
       /\ Waiting(w) # {} => Cardinality(Handled(w)) = worker_limit
  /\ (\A r \in Requests : req[r] # Nothing => At(r, "over") /\ r \in closed) =>
       limiters = {} /\ (excused \/ count = 0)
=============================================================================
