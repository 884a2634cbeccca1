----------------------------- MODULE ApiSessions -----------------------------
(***************************************************************************)
(* The sessions of the web pages, which the Go API accepts as credentials  *)
(* too.  A request loads its session, works on the copy and saves it whole *)
(* with the response; logging in changes the key of the session, logging   *)
(* out ends it, and Redis forgets it when its time is over.  Requests of   *)
(* the same browser overlap.                                               *)
(***************************************************************************)
EXTENDS Naturals

CONSTANTS
  Users, Browsers, Procs,
  MaxRequests,         \* bound on the requests
  MaxKeys,             \* bound on the session keys given out
  MaxDeaths,           \* bound on the requests that die or fail
  Nothing

SessionsConstants == {MaxRequests, MaxKeys, MaxDeaths} \subseteq Nat /\ Nothing \notin Users

VARIABLES
  sessions,            \* the sessions in Redis by key: whose, and have they an expiry
  cookie,              \* the session key each browser sends
  request,             \* the requests being answered
  started, used, deaths,
  ended,               \* history: keys deleted while no request worked on their session
  excused              \* history: keys whose request died before it set their expiry

vars == <<sessions, cookie, request, started, used, deaths, ended, excused>>

Keys == 1..MaxKeys
Empty == [user |-> Nothing, account |-> Nothing]
Idle == [at |-> "idle", browser |-> Nothing, asks |-> Nothing, key |-> Nothing, old |-> Nothing,
         cache |-> Empty, modified |-> FALSE, next |-> Nothing]
Stored(data, expires) == [user |-> data.user, account |-> data.account, expires |-> expires]

\* GoUserSessionAccessChecker: the account the API works for when it is given the key.
Accepted(k) == IF sessions[k] = Nothing THEN Nothing ELSE sessions[k].account

\* asks: a page, to log out, or to log in as a user
StartRequest(p, b, asks) ==
  /\ request[p].at = "idle" /\ started < MaxRequests /\ started' = started + 1
  /\ request' = [request EXCEPT ![p] =
       [Idle EXCEPT !.at = IF cookie[b] = Nothing THEN "handle" ELSE "load",
                    !.browser = b, !.asks = asks, !.key = cookie[b]]]
  /\ UNCHANGED <<sessions, cookie, used, deaths, ended, excused>>

\* A key without a session is not used: the browser is given another.
Load(p) ==
  LET k == request[p].key IN
  /\ request[p].at = "load"
  /\ request' = [request EXCEPT ![p] =
       IF sessions[k] = Nothing THEN [@ EXCEPT !.at = "create", !.next = "handle"]
       ELSE [@ EXCEPT !.at = "handle",
                      !.cache = [user |-> sessions[k].user, account |-> sessions[k].account]]]
  /\ UNCHANGED <<sessions, cookie, started, used, deaths, ended, excused>>

\* (Fault for the mutation runs: the key the browser sent is kept.)
SentKey(r) == IF r.key = Nothing THEN used + 1 ELSE r.key
NewKey(r) == used + 1

\* create_session: setnx, and the expiry after it
Create(p) ==
  LET k == NewKey(request[p]) IN
  /\ request[p].at = "create" /\ used < MaxKeys /\ used' = used + 1
  /\ sessions' = [sessions EXCEPT ![k] = Stored(Empty, FALSE)]
  /\ request' = [request EXCEPT ![p] = [@ EXCEPT !.at = "created", !.key = k, !.modified = TRUE]]
  /\ UNCHANGED <<cookie, started, deaths, ended, excused>>

WithExpiry(k) == IF sessions[k] = Nothing THEN sessions ELSE [sessions EXCEPT ![k].expires = TRUE]
AfterCreation(k) == WithExpiry(k)

Created(p) ==
  /\ request[p].at = "created" /\ sessions' = AfterCreation(request[p].key)
  /\ request' = [request EXCEPT ![p].at = request[p].next]
  /\ UNCHANGED <<cookie, started, used, deaths, ended, excused>>

\* VumiUserApiMiddleware: who is logged in has the account key put in the session.
Noted(r) == IF r.cache.user = Nothing THEN r
            ELSE [r EXCEPT !.cache.account = r.cache.user, !.modified = TRUE]

Held(k, requests) == \E q \in Procs : requests[q].key = k /\ requests[q].at \notin {"idle", "load"}

Delete(k) ==
  /\ sessions' = IF k = Nothing THEN sessions ELSE [sessions EXCEPT ![k] = Nothing]
  /\ ended' = IF k = Nothing \/ Held(k, request') THEN ended ELSE ended \union {k}

ShowPage(p) ==
  /\ request[p].at = "handle" /\ request[p].asks = "page"
  /\ request' = [request EXCEPT ![p] = [Noted(@) EXCEPT !.at = "respond"]]
  /\ UNCHANGED <<sessions, cookie, started, used, deaths, ended, excused>>

\* flush, to log out and to log in over another user: all is gone, key and data.
Flush(p) ==
  LET r == request[p] IN
  /\ r.at = "handle"
  /\ r.asks = "logout" \/ (r.asks \in Users /\ r.cache.user \notin {Nothing, r.asks})
  /\ request' = [request EXCEPT ![p] = [@ EXCEPT !.at = "create", !.key = Nothing,
                                                 !.cache = Empty, !.next = "respond"]]
  /\ Delete(r.key)
  /\ UNCHANGED <<cookie, started, used, deaths, excused>>

\* cycle_key, to log in: the data moves to a new key, and then the old one is deleted.
CycleKey(p) ==
  LET r == Noted(request[p]) IN
  /\ r.at = "handle" /\ r.asks \in Users /\ r.cache.user \in {Nothing, r.asks}
  /\ request' = [request EXCEPT ![p] = [r EXCEPT !.at = "create", !.old = r.key, !.next = "cycled"]]
  /\ UNCHANGED <<sessions, cookie, started, used, deaths, ended, excused>>

\* Where there was no old key it is the new one that goes, until the response saves it.
Cycled(p) ==
  LET r == request[p] IN
  /\ r.at = "cycled"
  /\ request' = [request EXCEPT ![p] = [@ EXCEPT !.at = "respond"]]
  /\ Delete(IF r.old = Nothing THEN r.key ELSE r.old)
  /\ UNCHANGED <<cookie, started, used, deaths, excused>>

LoggedIn(r) == IF r.asks \in Users THEN [r.cache EXCEPT !.user = r.asks] ELSE r.cache

\* The response saves a session that was changed, whatever is stored by now ...
Respond(p) ==
  LET r == request[p] IN
  /\ r.at = "respond"
  /\ IF r.modified
     THEN /\ sessions' = [sessions EXCEPT ![r.key] = Stored(LoggedIn(r), FALSE)]
          /\ request' = [request EXCEPT ![p].at = "saved"]
     ELSE request' = [request EXCEPT ![p] = Idle] /\ UNCHANGED sessions
  /\ UNCHANGED <<cookie, started, used, deaths, ended, excused>>

\* ... sets its expiry, and tells the browser the key.
Saved(p) ==
  LET r == request[p] IN
  /\ r.at = "saved" /\ sessions' = WithExpiry(r.key)
  /\ cookie' = [cookie EXCEPT ![r.browser] = r.key]
  /\ request' = [request EXCEPT ![p] = Idle]
  /\ UNCHANGED <<started, used, deaths, ended, excused>>

Expires(k) ==
  /\ sessions[k] # Nothing /\ sessions[k].expires
  /\ sessions' = [sessions EXCEPT ![k] = Nothing]
  /\ UNCHANGED <<cookie, request, started, used, deaths, ended, excused>>

\* A death, or a view that raises: the session of an error page is not saved.
Die(p) ==
  LET r == request[p] IN
  /\ r.at # "idle" /\ deaths < MaxDeaths /\ deaths' = deaths + 1
  /\ request' = [request EXCEPT ![p] = Idle]
  /\ excused' = IF r.at \in {"created", "saved"} THEN excused \union {r.key} ELSE excused
  /\ UNCHANGED <<sessions, cookie, started, used, ended>>

Init ==
  /\ sessions = [k \in Keys |-> Nothing] /\ cookie = [b \in Browsers |-> Nothing]
  /\ request = [p \in Procs |-> Idle]
  /\ started = 0 /\ used = 0 /\ deaths = 0 /\ ended = {} /\ excused = {}

Next ==
  \/ \E p \in Procs :
       \/ Load(p) \/ Create(p) \/ Created(p) \/ ShowPage(p) \/ Flush(p)
       \/ CycleKey(p) \/ Cycled(p) \/ Respond(p) \/ Saved(p) \/ Die(p)
       \/ \E b \in Browsers, asks \in Users \union {"page", "logout"} : StartRequest(p, b, asks)
  \/ \E k \in Keys : Expires(k)

Spec == Init /\ [][Next]_vars
-----------------------------------------------------------------------------
(* A session that was ended when no other request worked on it stays       *)
(* ended, so that the API accepts its key no more, whatever requests with  *)
(* that key were still to be answered.                                     *)
EndedSessionsStayEnded == \A k \in ended : sessions[k] = Nothing /\ Accepted(k) = Nothing

(* Every session ends some day: it has an expiry, or the request that      *)
(* stored it is about to set it, unless that request died before it could. *)
SessionsEnd ==
  \A k \in Keys : sessions[k] # Nothing /\ ~sessions[k].expires /\ k \notin excused =>
    \E p \in Procs : request[p].key = k /\ request[p].at \in {"created", "saved"}
=============================================================================
