------------------------- MODULE AdministrationParts -------------------------
(***************************************************************************)
(* What is proved of the parts that MCAdministration puts together, each   *)
(* for every value of its constants. The parts share no state, and no      *)
(* theorem is about two of them: a name that two of them have is that of   *)
(* the first, and has the name of the part before it for the others,       *)
(* unless it means the same.                                               *)
(***************************************************************************)
EXTENDS Naturals, Integers, Sequences, TLAPS

CONSTANTS
  Users, Browsers, Procs, MaxRequests, MaxKeys, MaxDeaths, Nothing, Keys, Callers, TTLs,
  MaxFetch, MaxVersion, Horizon, MaxWorkerDeaths, Requests, UserTokens, Offers, Kinds,
  PagesTTLs, MaxCommands, MaxTokens, MaxCrashes, Pending, MaxNow, MaxJobs, OldBatches,
  NewBatches, Messages, SplitMaxJobs, Contacts, Values, ReindexMaxJobs, SettingsKeys,
  SettingsMaxJobs

VARIABLES
  sessions, cookie, request, started, used, deaths, ended, excused, ttl, now, stored, replaced,
  models, evictors, call, served, cleaned, routerpages_stored, routed, job, api, queue, working,
  requests, routerpages_deaths, workerDeaths, saves, overwritten, pages_kind, pages_ttl,
  offered, pages_conv, pages_job, pages_served, tokens, generated, links, pages_queue, control,
  pages_cache, work, rest, handled, performed, crashes, planned_now, task, pending, messages,
  planned_job, begun, planned_deaths, planned_performed, withdrawn, planned_excused,
  split_stored, content, tagged, free, split_job, split_started, split_deaths, kept,
  reindex_stored, reindex_job, reindex_started, reindex_deaths, listed, truth, reindex_excused,
  settings_stored, permissions, releases, storing, settings_job, settings_started,
  settings_deaths, flagged, summary

Logins == INSTANCE ApiSessions
Cached == INSTANCE ModelObjectCache
RouterPages == INSTANCE Routers WITH
  stored <- routerpages_stored, deaths <- routerpages_deaths

Pages == INSTANCE Conversations WITH
  TTLs <- PagesTTLs, ttl <- pages_ttl, job <- pages_job, served <- pages_served,
  queue <- pages_queue, cache <- pages_cache, conv <- pages_conv, kind <- pages_kind

Planned == INSTANCE Scheduler WITH
  now <- planned_now, job <- planned_job, deaths <- planned_deaths,
  performed <- planned_performed, excused <- planned_excused

Split == INSTANCE ConversationMigrations WITH
  MaxJobs <- SplitMaxJobs, stored <- split_stored, job <- split_job, started <- split_started,
  deaths <- split_deaths

Reindex == INSTANCE ContactMigrations WITH
  MaxJobs <- ReindexMaxJobs, stored <- reindex_stored, job <- reindex_job,
  started <- reindex_started, deaths <- reindex_deaths, excused <- reindex_excused

Settings == INSTANCE AccountSettings WITH
  Keys <- SettingsKeys, MaxJobs <- SettingsMaxJobs, stored <- settings_stored,
  job <- settings_job, started <- settings_started, deaths <- settings_deaths

-----------------------------------------------------------------------------
(* What is in a list.                                                      *)
In(s, c) == \E i \in 1..Len(s) : s[i] = c

LEMMA InAppend ==
  ASSUME NEW S, NEW s \in Seq(S), NEW x \in S, NEW c
  PROVE  In(Append(s, x), c) <=> In(s, c) \/ x = c
<1>1. /\ Len(Append(s, x)) = Len(s) + 1
      /\ \A i \in 1..Len(s) : Append(s, x)[i] = s[i]
      /\ Append(s, x)[Len(s) + 1] = x /\ Len(s) \in Nat
  OBVIOUS
<1> QED
  BY <1>1 DEF In

LEMMA InTail ==
  ASSUME NEW S, NEW s \in Seq(S), s # <<>>, NEW c
  PROVE  In(s, c) <=> Head(s) = c \/ In(Tail(s), c)
<1>1. /\ Len(s) \in Nat \ {0} /\ Len(Tail(s)) = Len(s) - 1
      /\ \A i \in 1..(Len(s) - 1) : Tail(s)[i] = s[i + 1]
      /\ Head(s) = s[1]
  OBVIOUS
<1>2. ASSUME NEW i \in 1..Len(s), s[i] = c, i # 1 PROVE In(Tail(s), c)
  <2>1. i - 1 \in 1..(Len(s) - 1) /\ Tail(s)[i - 1] = c
    BY <1>1, <1>2
  <2> QED
    BY <1>1, <2>1 DEF In
<1>3. ASSUME In(Tail(s), c) PROVE In(s, c)
  BY <1>1, <1>3 DEF In
<1> QED
  BY <1>1, <1>2, <1>3 DEF In

-----------------------------------------------------------------------------
(* The sessions of the API in Redis (ApiSessions): a request loads one,    *)
(* works on it and saves it, while others log in and out.                  *)
(***************************************************************************)
(* Sessions that ended stay ended, and every session ends, for any number  *)
(* of browsers, users and requests.  What has to be kept in mind is who    *)
(* still has a key: only a request that has one can write its session.     *)
(***************************************************************************)

Data == [user : Users \union {Nothing}, account : Users \union {Nothing}]
Places == {"idle", "load", "create", "created", "handle", "respond", "cycled", "saved", Nothing}

RequestState ==
  [at : Places, browser : Browsers \union {Nothing}, asks : Users \union {"page", "logout", Nothing},
   key : Logins!Keys \union {Nothing}, old : Logins!Keys \union {Nothing}, cache : Data, modified : BOOLEAN,
   next : {Nothing, "handle", "respond", "cycled"}]

SessionState ==
  [user : Users \union {Nothing}, account : Users \union {Nothing}, expires : BOOLEAN]

LoginsTypeInv ==
  /\ sessions \in [Logins!Keys -> SessionState \union {Nothing}]
  /\ cookie \in [Browsers -> Logins!Keys \union {Nothing}]
  /\ request \in [Procs -> RequestState]
  /\ used \in Nat /\ ended \in SUBSET Logins!Keys /\ excused \in SUBSET (Logins!Keys \union {Nothing})

\* A key is known only when it was given out.
Given(k) == k # Nothing => k <= used
KeysInv ==
  /\ \A k \in ended : Given(k) /\ k # Nothing
  /\ \A b \in Browsers : Given(cookie[b])
  /\ \A p \in Procs :
       /\ Given(request[p].key) /\ Given(request[p].old)
       /\ request[p].at \in {"load", "created"} => request[p].key \in Logins!Keys

\* Who has the key of an ended session has not looked it up, or is about to get another.
EndedInv ==
  \A k \in ended :
    /\ sessions[k] = Nothing
    /\ \A p \in Procs : request[p].key = k => request[p].at \in {"idle", "load", "create"}

LoginsIInv == LoginsTypeInv /\ KeysInv /\ EndedInv /\ Logins!SessionsEnd
-----------------------------------------------------------------------------
LEMMA IdleState == Logins!Idle \in RequestState
BY DEF Logins!Idle, RequestState, Places, Logins!Empty, Data

\* What ShowPage and CycleKey note changes neither keys nor places.
LEMMA NotedState ==
  ASSUME NEW r \in RequestState
  PROVE  /\ Logins!Noted(r) \in RequestState
         /\ Logins!Noted(r).key = r.key /\ Logins!Noted(r).old = r.old /\ Logins!Noted(r).at = r.at
<1>1. CASE r.cache.user = Nothing
  BY <1>1 DEF Logins!Noted
<1>2. CASE r.cache.user # Nothing
  <2> DEFINE cache == [r.cache EXCEPT !.account = r.cache.user]
  <2>1. cache \in Data
    BY DEF RequestState, Data
  <2>2. Logins!Noted(r) = [r EXCEPT !.cache = cache, !.modified = TRUE]
    BY <1>2 DEF Logins!Noted, RequestState
  <2> HIDE DEF cache
  <2> QED
    BY <2>1, <2>2 DEF RequestState
<1> QED
  BY <1>1, <1>2

LEMMA LoginsInitIInv == Logins!Init => LoginsIInv
<1> SUFFICES ASSUME Logins!Init PROVE LoginsIInv
  OBVIOUS
<1>1. LoginsTypeInv
  BY IdleState DEF Logins!Init, LoginsTypeInv
<1>2. KeysInv
  BY DEF Logins!Init, KeysInv, Given, Logins!Idle
<1>3. EndedInv /\ Logins!SessionsEnd
  BY DEF Logins!Init, EndedInv, Logins!SessionsEnd
<1> QED
  BY <1>1, <1>2, <1>3 DEF LoginsIInv
-----------------------------------------------------------------------------
\* The request that takes a step becomes r, which has keys that were given out and nothing
\* of a session that ended.
LoginsMoves(p, r) ==
  /\ r \in RequestState /\ request' = [request EXCEPT ![p] = r]
  /\ Given(r.key) /\ Given(r.old)
  /\ r.at \in {"load", "created"} => r.key \in Logins!Keys
  /\ \A k \in ended : r.key = k => r.at \in {"idle", "load", "create"}

LEMMA Moved ==
  ASSUME LoginsTypeInv, NEW p \in Procs, NEW r, LoginsMoves(p, r)
  PROVE  /\ request' \in [Procs -> RequestState]
         /\ request'[p] = r /\ \A q \in Procs \ {p} : request'[q] = request[q]
BY DEF LoginsMoves, LoginsTypeInv

LEMMA KeysStay ==
  ASSUME LoginsIInv, NEW p \in Procs, NEW r, LoginsMoves(p, r), UNCHANGED <<cookie, used>>,
         \A k \in ended' : Given(k) /\ k # Nothing
  PROVE  KeysInv'
<1>1. request'[p] = r /\ \A q \in Procs \ {p} : request'[q] = request[q]
  BY Moved DEF LoginsIInv
<1> QED
  BY <1>1 DEF LoginsIInv, KeysInv, Given, LoginsMoves

\* Steps that write no session.
LEMMA QuietStep ==
  ASSUME LoginsIInv, NEW p \in Procs, NEW r, LoginsMoves(p, r), request[p].at \notin {"created", "saved"},
         UNCHANGED <<sessions, cookie, used, ended, excused>>
  PROVE  LoginsIInv'
<1>1. /\ request' \in [Procs -> RequestState]
      /\ request'[p] = r /\ \A q \in Procs \ {p} : request'[q] = request[q]
  BY Moved DEF LoginsIInv
<1>2. LoginsTypeInv'
  BY <1>1 DEF LoginsIInv, LoginsTypeInv
<1>3. KeysInv'
  BY KeysStay DEF LoginsIInv, KeysInv
<1>4. EndedInv'
  BY <1>1 DEF LoginsIInv, EndedInv, LoginsMoves
<1>5. Logins!SessionsEnd'
  BY <1>1 DEF LoginsIInv, Logins!SessionsEnd
<1> QED
  BY <1>2, <1>3, <1>4, <1>5 DEF LoginsIInv

\* Steps that delete a session: it has ended if nobody else works on it.
LEMMA DeleteStep ==
  ASSUME LoginsIInv, NEW p \in Procs, NEW r, LoginsMoves(p, r), request[p].at \notin {"created", "saved"},
         NEW k \in Logins!Keys \union {Nothing}, Given(k), Logins!Delete(k), UNCHANGED <<cookie, used, excused>>
  PROVE  LoginsIInv'
<1>1. /\ request' \in [Procs -> RequestState]
      /\ request'[p] = r /\ \A q \in Procs \ {p} : request'[q] = request[q]
  BY Moved DEF LoginsIInv
<1>2. /\ sessions' \in [Logins!Keys -> SessionState \union {Nothing}]
      /\ \A j \in Logins!Keys : sessions'[j] = sessions[j] \/ (j = k /\ sessions'[j] = Nothing)
      /\ k \in Logins!Keys /\ k # Nothing => sessions'[k] = Nothing
  BY DEF LoginsIInv, LoginsTypeInv, Logins!Delete
<1>3. \A e \in ended' :
        \/ e \in ended
        \/ /\ e = k /\ k \in Logins!Keys /\ k # Nothing
           /\ \A q \in Procs : request'[q].key = k => request'[q].at \in {"idle", "load"}
  BY DEF Logins!Delete, Logins!Held
<1>4. LoginsTypeInv'
  BY <1>1, <1>2, <1>3 DEF LoginsIInv, LoginsTypeInv
<1>5. KeysInv'
  <2>1. \A e \in ended' : Given(e) /\ e # Nothing
    BY <1>3 DEF LoginsIInv, KeysInv
  <2> QED
    BY <2>1, KeysStay
<1>6. EndedInv'
  <2> SUFFICES ASSUME NEW e \in ended'
               PROVE  /\ sessions'[e] = Nothing
                      /\ \A q \in Procs : request'[q].key = e => request'[q].at \in {"idle", "load", "create"}
    BY DEF EndedInv
  <2>1. CASE e \in ended
    BY <1>1, <1>2, <2>1 DEF LoginsIInv, LoginsTypeInv, EndedInv, LoginsMoves
  <2>2. CASE e \notin ended
    BY <1>2, <1>3, <2>2
  <2> QED
    BY <2>1, <2>2
<1>7. Logins!SessionsEnd'
  BY <1>1, <1>2 DEF LoginsIInv, Logins!SessionsEnd
<1> QED
  BY <1>4, <1>5, <1>6, <1>7 DEF LoginsIInv

\* What WithExpiry does to the sessions.
LEMMA ExpirySet ==
  ASSUME LoginsTypeInv, NEW k, sessions' = Logins!WithExpiry(k)
  PROVE  /\ sessions' \in [Logins!Keys -> SessionState \union {Nothing}]
         /\ \A j \in Logins!Keys : sessions[j] = Nothing \/ j # k => sessions'[j] = sessions[j]
         /\ k \in Logins!Keys /\ sessions[k] # Nothing => sessions'[k].expires
<1>1. CASE sessions[k] = Nothing
  BY <1>1 DEF Logins!WithExpiry, LoginsTypeInv
<1>2. CASE sessions[k] # Nothing
  <2>1. sessions' = [sessions EXCEPT ![k] = [sessions[k] EXCEPT !.expires = TRUE]]
    BY <1>2 DEF Logins!WithExpiry
  <2>2. k \in Logins!Keys => sessions[k] \in SessionState
    BY <1>2 DEF LoginsTypeInv
  <2>3. k \in Logins!Keys => /\ [sessions[k] EXCEPT !.expires = TRUE] \in SessionState
                      /\ [sessions[k] EXCEPT !.expires = TRUE].expires
    BY <2>2 DEF SessionState
  <2> QED
    BY <1>2, <2>1, <2>3 DEF LoginsTypeInv
<1> QED
  BY <1>1, <1>2
-----------------------------------------------------------------------------
LEMMA StartRequestKeeps ==
  ASSUME LoginsIInv, NEW p \in Procs, NEW b \in Browsers, NEW asks \in Users \union {"page", "logout"},
         Logins!StartRequest(p, b, asks)
  PROVE  LoginsIInv'
<1> DEFINE r == [Logins!Idle EXCEPT !.at = IF cookie[b] = Nothing THEN "handle" ELSE "load",
                             !.browser = b, !.asks = asks, !.key = cookie[b]]
<1>1. r \in RequestState /\ r.key = cookie[b] /\ r.old = Nothing
  BY DEF LoginsIInv, LoginsTypeInv, Logins!Idle, RequestState, Places, Logins!Empty, Data
<1>2. r.at = IF cookie[b] = Nothing THEN "handle" ELSE "load"
  BY DEF Logins!Idle
<1>3. request' = [request EXCEPT ![p] = r] /\ request[p].at = "idle"
      /\ UNCHANGED <<sessions, cookie, used, ended, excused>>
  BY DEF Logins!StartRequest
<1>4. Given(r.key) /\ Given(r.old) /\ (r.at \in {"load", "created"} => r.key \in Logins!Keys)
  BY <1>1, <1>2 DEF LoginsIInv, LoginsTypeInv, KeysInv, Given
<1>5. \A k \in ended : r.key = k => r.at \in {"idle", "load", "create"}
  BY <1>1, <1>2 DEF LoginsIInv, KeysInv
<1> HIDE DEF r
<1> QED
  BY <1>1, <1>3, <1>4, <1>5, QuietStep DEF LoginsMoves

LEMMA LoginsLoadKeeps ==
  ASSUME LoginsIInv, NEW p \in Procs, Logins!Load(p)
  PROVE  LoginsIInv'
<1> DEFINE k == request[p].key
<1>1. request[p] \in RequestState /\ request[p].at = "load" /\ k \in Logins!Keys
  BY DEF LoginsIInv, LoginsTypeInv, KeysInv, Logins!Load
<1>2. Given(request[p].key) /\ Given(request[p].old) /\ UNCHANGED <<sessions, cookie, used, ended, excused>>
  BY DEF LoginsIInv, KeysInv, Logins!Load
<1>3. CASE sessions[k] = Nothing
  <2> DEFINE r == [request[p] EXCEPT !.at = "create", !.next = "handle"]
  <2>1. r \in RequestState /\ r.key = request[p].key /\ r.old = request[p].old /\ r.at = "create"
    BY <1>1 DEF RequestState, Places
  <2>2. request' = [request EXCEPT ![p] = r]
    BY <1>3 DEF Logins!Load
  <2> HIDE DEF r
  <2> QED
    BY <1>1, <1>2, <2>1, <2>2, QuietStep DEF LoginsMoves
<1>4. CASE sessions[k] # Nothing
  <2> DEFINE cache == [user |-> sessions[k].user, account |-> sessions[k].account]
             r == [request[p] EXCEPT !.at = "handle", !.cache = cache]
  <2>1. request' = [request EXCEPT ![p] = r]
    BY <1>4 DEF Logins!Load
  <2>2. k \notin ended
    BY <1>4 DEF LoginsIInv, EndedInv
  <2>3. cache \in Data
    BY <1>1, <1>4 DEF LoginsIInv, LoginsTypeInv, SessionState, Data
  <2> HIDE DEF cache
  <2>4. r \in RequestState /\ r.key = k /\ r.old = request[p].old /\ r.at = "handle"
    BY <1>1, <2>3 DEF RequestState, Places
  <2> HIDE DEF r
  <2> QED
    BY <1>1, <1>2, <2>1, <2>2, <2>4, QuietStep DEF LoginsMoves
<1> QED
  BY <1>3, <1>4

LEMMA CreateKeeps ==
  ASSUME Logins!SessionsConstants, LoginsIInv, NEW p \in Procs, Logins!Create(p)
  PROVE  LoginsIInv'
<1> DEFINE k == used + 1
           r == [request[p] EXCEPT !.at = "created", !.key = k, !.modified = TRUE]
<1>1. /\ request[p] \in RequestState /\ request[p].at = "create"
      /\ k \in Logins!Keys /\ k \notin ended /\ used \in Nat /\ used' = k
  BY DEF Logins!SessionsConstants, LoginsIInv, LoginsTypeInv, KeysInv, Given, Logins!Create, Logins!Keys
<1>2. r \in RequestState /\ r.key = k /\ r.old = request[p].old /\ r.at = "created"
  BY <1>1 DEF RequestState, Places
<1>3. /\ request' = [request EXCEPT ![p] = r] /\ sessions' = [sessions EXCEPT ![k] = Logins!Stored(Logins!Empty, FALSE)]
      /\ UNCHANGED <<cookie, ended, excused>>
  BY DEF Logins!Create, Logins!NewKey
<1> HIDE DEF k, r
<1>4. /\ request' \in [Procs -> RequestState]
      /\ request'[p] = r /\ \A q \in Procs \ {p} : request'[q] = request[q]
  BY <1>2, <1>3 DEF LoginsIInv, LoginsTypeInv
<1>5. /\ sessions' \in [Logins!Keys -> SessionState \union {Nothing}]
      /\ \A j \in Logins!Keys \ {k} : sessions'[j] = sessions[j]
  BY <1>1, <1>3 DEF LoginsIInv, LoginsTypeInv, Logins!Stored, Logins!Empty, SessionState
<1>6. LoginsTypeInv'
  <2>1. used' \in Nat
    BY <1>1 DEF k
  <2>2. UNCHANGED <<cookie, ended, excused>>
    BY <1>3
  <2> QED
    BY <1>4, <1>5, <2>1, <2>2 DEF LoginsIInv, LoginsTypeInv
<1>7. KeysInv'
  <2>1. \A j \in Logins!Keys \union {Nothing} : Given(j) => (j # Nothing => j <= used')
    BY <1>1 DEF Given, Logins!Keys, k
  <2>2. /\ \A e \in ended : e # Nothing /\ e <= used'
        /\ \A b \in Browsers : cookie[b] # Nothing => cookie[b] <= used'
    BY <2>1 DEF LoginsIInv, LoginsTypeInv, KeysInv
  <2>3. \A q \in Procs :
          /\ request[q].key # Nothing => request[q].key <= used'
          /\ request[q].old # Nothing => request[q].old <= used'
    BY <2>1 DEF LoginsIInv, LoginsTypeInv, KeysInv, RequestState
  <2>4. k <= used'
    BY <1>1 DEF k
  <2>5. \A q \in Procs :
          /\ request'[q].key # Nothing => request'[q].key <= used'
          /\ request'[q].old # Nothing => request'[q].old <= used'
          /\ request'[q].at \in {"load", "created"} => request'[q].key \in Logins!Keys
    BY <1>1, <1>2, <1>4, <2>3, <2>4 DEF LoginsIInv, KeysInv
  <2> QED
    BY <1>3, <2>2, <2>5 DEF KeysInv, Given
<1>8. EndedInv'
  BY <1>1, <1>2, <1>3, <1>4, <1>5 DEF LoginsIInv, LoginsTypeInv, EndedInv
<1>9. Logins!SessionsEnd'
  <2> SUFFICES ASSUME NEW j \in Logins!Keys, sessions'[j] # Nothing, ~sessions'[j].expires, j \notin excused
               PROVE  \E q \in Procs : request'[q].key = j /\ request'[q].at \in {"created", "saved"}
    BY <1>3 DEF Logins!SessionsEnd
  <2>1. CASE j = k
    BY <2>1, <1>2, <1>4
  <2>2. CASE j # k
    <3>1. sessions'[j] = sessions[j]
      BY <2>2, <1>5
    <3>2. PICK q \in Procs : request[q].key = j /\ request[q].at \in {"created", "saved"}
      BY <3>1 DEF LoginsIInv, Logins!SessionsEnd
    <3>3. q # p
      BY <3>2, <1>1
    <3> QED
      BY <3>2, <3>3, <1>4
  <2> QED
    BY <2>1, <2>2
<1> QED
  BY <1>6, <1>7, <1>8, <1>9 DEF LoginsIInv

\* The expiry of the session of p's request is set, and the request goes on to r.
LEMMA ExpiryStep ==
  ASSUME LoginsIInv, NEW p \in Procs, NEW r, LoginsMoves(p, r), sessions' = Logins!WithExpiry(request[p].key),
         \A b \in Browsers : cookie'[b] = cookie[b] \/ cookie'[b] = request[p].key,
         cookie' \in [Browsers -> Logins!Keys \union {Nothing}], UNCHANGED <<used, ended, excused>>
  PROVE  LoginsIInv'
<1> DEFINE k == request[p].key
<1>1. /\ request' \in [Procs -> RequestState]
      /\ request'[p] = r /\ \A q \in Procs \ {p} : request'[q] = request[q]
  BY Moved DEF LoginsIInv
<1>2. /\ sessions' \in [Logins!Keys -> SessionState \union {Nothing}]
      /\ \A j \in Logins!Keys : sessions[j] = Nothing \/ j # k => sessions'[j] = sessions[j]
      /\ k \in Logins!Keys /\ sessions[k] # Nothing => sessions'[k].expires
  BY ExpirySet DEF LoginsIInv
<1>3. LoginsTypeInv'
  BY <1>1, <1>2 DEF LoginsIInv, LoginsTypeInv
<1>4. KeysInv'
  <2>1. Given(k)
    BY DEF LoginsIInv, KeysInv
  <2> QED
    BY <1>1, <2>1 DEF LoginsIInv, KeysInv, Given, LoginsMoves
<1>5. EndedInv'
  BY <1>1, <1>2 DEF LoginsIInv, LoginsTypeInv, EndedInv, LoginsMoves
<1>6. Logins!SessionsEnd'
  <2> SUFFICES ASSUME NEW j \in Logins!Keys, sessions'[j] # Nothing, ~sessions'[j].expires, j \notin excused
               PROVE  \E q \in Procs : request'[q].key = j /\ request'[q].at \in {"created", "saved"}
    BY DEF Logins!SessionsEnd
  <2>1. j # k /\ sessions'[j] = sessions[j]
    BY <1>2
  <2>2. PICK q \in Procs : request[q].key = j /\ request[q].at \in {"created", "saved"}
    BY <2>1 DEF LoginsIInv, Logins!SessionsEnd
  <2> QED
    BY <1>1, <2>1, <2>2
<1> QED
  BY <1>3, <1>4, <1>5, <1>6 DEF LoginsIInv

LEMMA CreatedKeeps ==
  ASSUME LoginsIInv, NEW p \in Procs, Logins!Created(p)
  PROVE  LoginsIInv'
<1> DEFINE k == request[p].key
           r == [request[p] EXCEPT !.at = request[p].next]
<1>1. /\ request[p] \in RequestState /\ request[p].at = "created" /\ k \notin ended /\ k \in Logins!Keys
      /\ Given(k) /\ Given(request[p].old)
  BY DEF LoginsIInv, LoginsTypeInv, KeysInv, EndedInv, Logins!Created
<1>2. r \in RequestState /\ r.key = k /\ r.old = request[p].old
  BY <1>1 DEF RequestState, Places
<1>3. /\ request' = [request EXCEPT ![p] = r] /\ sessions' = Logins!WithExpiry(request[p].key)
      /\ UNCHANGED <<cookie, used, ended, excused>>
  BY DEF Logins!Created, Logins!AfterCreation
<1>4. cookie' \in [Browsers -> Logins!Keys \union {Nothing}] /\ \A b \in Browsers : cookie'[b] = cookie[b]
  BY <1>3 DEF LoginsIInv, LoginsTypeInv
<1> HIDE DEF r
<1>5. LoginsMoves(p, r)
  BY <1>1, <1>2, <1>3 DEF LoginsMoves
<1> QED
  BY <1>3, <1>4, <1>5, ExpiryStep

LEMMA SavedKeeps ==
  ASSUME LoginsIInv, NEW p \in Procs, Logins!Saved(p)
  PROVE  LoginsIInv'
<1> DEFINE k == request[p].key
<1>1. k \in Logins!Keys \union {Nothing}
  BY DEF LoginsIInv, LoginsTypeInv, RequestState
<1>2. /\ request' = [request EXCEPT ![p] = Logins!Idle] /\ sessions' = Logins!WithExpiry(request[p].key)
      /\ cookie' = [cookie EXCEPT ![request[p].browser] = k]
      /\ UNCHANGED <<used, ended, excused>>
  BY DEF Logins!Saved
<1>3. cookie' \in [Browsers -> Logins!Keys \union {Nothing}]
      /\ \A b \in Browsers : cookie'[b] = cookie[b] \/ cookie'[b] = request[p].key
  BY <1>1, <1>2 DEF LoginsIInv, LoginsTypeInv
<1>4. LoginsMoves(p, Logins!Idle)
  BY <1>2, IdleState DEF LoginsMoves, Logins!Idle, Given, LoginsIInv, KeysInv
<1> QED
  BY <1>2, <1>3, <1>4, ExpiryStep

LEMMA ShowPageKeeps ==
  ASSUME LoginsIInv, NEW p \in Procs, Logins!ShowPage(p)
  PROVE  LoginsIInv'
<1> DEFINE s == Logins!Noted(request[p])
           r == [s EXCEPT !.at = "respond"]
<1>1. /\ request[p] \in RequestState /\ request[p].at = "handle" /\ request[p].key \notin ended
      /\ Given(request[p].key) /\ Given(request[p].old)
  BY DEF LoginsIInv, LoginsTypeInv, KeysInv, EndedInv, Logins!ShowPage
<1>2. s \in RequestState /\ s.key = request[p].key /\ s.old = request[p].old
  BY <1>1, NotedState
<1>3. request' = [request EXCEPT ![p] = r] /\ UNCHANGED <<sessions, cookie, used, ended, excused>>
  BY DEF Logins!ShowPage
<1> HIDE DEF s
<1>4. r \in RequestState /\ r.key = request[p].key /\ r.old = request[p].old /\ r.at = "respond"
  BY <1>2 DEF RequestState, Places
<1> HIDE DEF r
<1> QED
  BY <1>1, <1>3, <1>4, QuietStep DEF LoginsMoves

LEMMA CycleKeyKeeps ==
  ASSUME LoginsIInv, NEW p \in Procs, Logins!CycleKey(p)
  PROVE  LoginsIInv'
<1> DEFINE s == Logins!Noted(request[p])
           r == [s EXCEPT !.at = "create", !.old = s.key, !.next = "cycled"]
<1>1. /\ request[p] \in RequestState
      /\ Given(request[p].key) /\ Given(request[p].old)
  BY DEF LoginsIInv, LoginsTypeInv, KeysInv
<1>2. s \in RequestState /\ s.key = request[p].key /\ s.old = request[p].old /\ s.at = request[p].at
  BY <1>1, NotedState
<1>3. /\ request' = [request EXCEPT ![p] = r] /\ UNCHANGED <<sessions, cookie, used, ended, excused>>
      /\ s.at = "handle"
  BY DEF Logins!CycleKey
<1> HIDE DEF s
<1>4. r \in RequestState /\ r.key = request[p].key /\ r.old = request[p].key /\ r.at = "create"
  BY <1>2 DEF RequestState, Places
<1> HIDE DEF r
<1> QED
  BY <1>1, <1>2, <1>3, <1>4, QuietStep DEF LoginsMoves

LEMMA FlushKeeps ==
  ASSUME LoginsIInv, NEW p \in Procs, Logins!Flush(p)
  PROVE  LoginsIInv'
<1> DEFINE r == [request[p] EXCEPT !.at = "create", !.key = Nothing, !.cache = Logins!Empty, !.next = "respond"]
<1>1. /\ request[p] \in RequestState /\ request[p].at = "handle"
      /\ Given(request[p].key) /\ Given(request[p].old)
      /\ request[p].key \in Logins!Keys \union {Nothing}
  BY DEF LoginsIInv, LoginsTypeInv, KeysInv, Logins!Flush, RequestState
<1>2. r \in RequestState /\ r.key = Nothing /\ r.old = request[p].old /\ r.at = "create"
  BY <1>1 DEF RequestState, Places, Logins!Empty, Data
<1>3. /\ request' = [request EXCEPT ![p] = r] /\ Logins!Delete(request[p].key)
      /\ UNCHANGED <<cookie, used, excused>>
  BY DEF Logins!Flush
<1> HIDE DEF r
<1>4. LoginsMoves(p, r)
  BY <1>1, <1>2, <1>3 DEF LoginsMoves, Given
<1> QED
  BY <1>1, <1>3, <1>4, DeleteStep

LEMMA CycledKeeps ==
  ASSUME LoginsIInv, NEW p \in Procs, Logins!Cycled(p)
  PROVE  LoginsIInv'
<1> DEFINE r == [request[p] EXCEPT !.at = "respond"]
           k == IF request[p].old = Nothing THEN request[p].key ELSE request[p].old
<1>1. /\ request[p] \in RequestState /\ request[p].at = "cycled"
      /\ Given(request[p].key) /\ Given(request[p].old) /\ request[p].key \notin ended
  BY DEF LoginsIInv, LoginsTypeInv, KeysInv, EndedInv, Logins!Cycled
<1>2. r \in RequestState /\ r.key = request[p].key /\ r.old = request[p].old /\ r.at = "respond"
  BY <1>1 DEF RequestState, Places
<1>3. /\ request' = [request EXCEPT ![p] = r] /\ Logins!Delete(k) /\ UNCHANGED <<cookie, used, excused>>
  BY DEF Logins!Cycled
<1>4. k \in Logins!Keys \union {Nothing} /\ Given(k)
  BY <1>1 DEF RequestState
<1> HIDE DEF r, k
<1>5. LoginsMoves(p, r)
  BY <1>1, <1>2, <1>3 DEF LoginsMoves
<1> QED
  BY <1>1, <1>3, <1>4, <1>5, DeleteStep

LEMMA LoggedInData ==
  ASSUME NEW r \in RequestState
  PROVE  Logins!LoggedIn(r) \in Data
BY DEF Logins!LoggedIn, RequestState, Data

LEMMA RespondKeeps ==
  ASSUME LoginsIInv, NEW p \in Procs, Logins!Respond(p)
  PROVE  LoginsIInv'
<1>1. /\ request[p] \in RequestState /\ request[p].at = "respond" /\ request[p].key \notin ended
      /\ Given(request[p].key) /\ Given(request[p].old)
  BY DEF LoginsIInv, LoginsTypeInv, KeysInv, EndedInv, Logins!Respond
<1>2. CASE ~request[p].modified
  <2>1. request' = [request EXCEPT ![p] = Logins!Idle] /\ UNCHANGED <<sessions, cookie, used, ended, excused>>
    BY <1>2 DEF Logins!Respond
  <2>2. LoginsMoves(p, Logins!Idle)
    BY <2>1, IdleState DEF LoginsMoves, Logins!Idle, Given
  <2> QED
    BY <1>1, <2>1, <2>2, QuietStep
<1>3. CASE request[p].modified
  <2> DEFINE r == [request[p] EXCEPT !.at = "saved"]
             k == request[p].key
             s == Logins!Stored(Logins!LoggedIn(request[p]), FALSE)
  <2>1. /\ request' = [request EXCEPT ![p] = r] /\ sessions' = [sessions EXCEPT ![k] = s]
        /\ UNCHANGED <<cookie, used, ended, excused>>
    BY <1>3 DEF Logins!Respond
  <2>2. r \in RequestState /\ r.key = k /\ r.old = request[p].old /\ r.at = "saved"
    BY <1>1 DEF RequestState, Places
  <2>3. s \in SessionState
    BY <1>1, LoggedInData DEF Logins!Stored, SessionState, Data
  <2> HIDE DEF r, s
  <2>4. LoginsMoves(p, r)
    BY <1>1, <2>1, <2>2 DEF LoginsMoves
  <2>5. /\ request' \in [Procs -> RequestState]
        /\ request'[p] = r /\ \A q \in Procs \ {p} : request'[q] = request[q]
    BY <2>4, Moved DEF LoginsIInv
  <2>6. /\ sessions' \in [Logins!Keys -> SessionState \union {Nothing}]
        /\ \A j \in Logins!Keys : j # k => sessions'[j] = sessions[j]
    BY <2>1, <2>3 DEF LoginsIInv, LoginsTypeInv
  <2>7. LoginsTypeInv'
    BY <2>1, <2>5, <2>6 DEF LoginsIInv, LoginsTypeInv
  <2>8. KeysInv'
    BY <2>1, <2>4, KeysStay DEF LoginsIInv, KeysInv
  <2>9. EndedInv'
    BY <1>1, <2>1, <2>2, <2>5, <2>6 DEF LoginsIInv, LoginsTypeInv, EndedInv
  <2>10. Logins!SessionsEnd'
    BY <1>1, <2>1, <2>2, <2>5, <2>6 DEF LoginsIInv, Logins!SessionsEnd
  <2> QED
    BY <2>7, <2>8, <2>9, <2>10 DEF LoginsIInv
<1> QED
  BY <1>2, <1>3

LEMMA ExpiresKeeps ==
  ASSUME LoginsIInv, NEW k \in Logins!Keys, Logins!Expires(k)
  PROVE  LoginsIInv'
<1>1. /\ sessions' = [sessions EXCEPT ![k] = Nothing]
      /\ UNCHANGED <<cookie, request, used, ended, excused>>
  BY DEF Logins!Expires
<1>2. LoginsTypeInv'
  BY <1>1 DEF LoginsIInv, LoginsTypeInv
<1>3. KeysInv' /\ EndedInv'
  BY <1>1 DEF LoginsIInv, LoginsTypeInv, KeysInv, Given, EndedInv
<1>4. Logins!SessionsEnd'
  BY <1>1 DEF LoginsIInv, LoginsTypeInv, Logins!SessionsEnd
<1> QED
  BY <1>2, <1>3, <1>4 DEF LoginsIInv

LEMMA LoginsDieKeeps ==
  ASSUME LoginsIInv, NEW p \in Procs, Logins!Die(p)
  PROVE  LoginsIInv'
<1>1. /\ request' = [request EXCEPT ![p] = Logins!Idle] /\ UNCHANGED <<sessions, cookie, used, ended>>
      /\ excused' = IF request[p].at \in {"created", "saved"} THEN excused \union {request[p].key} ELSE excused
  BY DEF Logins!Die
<1>2. LoginsMoves(p, Logins!Idle)
  BY <1>1, IdleState DEF LoginsMoves, Logins!Idle, Given, LoginsIInv, KeysInv
<1>3. /\ request' \in [Procs -> RequestState]
      /\ request'[p] = Logins!Idle /\ \A q \in Procs \ {p} : request'[q] = request[q]
  BY <1>2, Moved DEF LoginsIInv
<1>4. request[p].key \in Logins!Keys \union {Nothing}
  BY DEF LoginsIInv, LoginsTypeInv, RequestState
<1>5. LoginsTypeInv'
  BY <1>1, <1>3, <1>4 DEF LoginsIInv, LoginsTypeInv
<1>6. KeysInv'
  BY <1>1, <1>2, KeysStay DEF LoginsIInv, KeysInv
<1>7. EndedInv'
  BY <1>1, <1>2, <1>3 DEF LoginsIInv, EndedInv, LoginsMoves
<1>8. Logins!SessionsEnd'
  BY <1>1, <1>3 DEF LoginsIInv, Logins!SessionsEnd
<1> QED
  BY <1>5, <1>6, <1>7, <1>8 DEF LoginsIInv

LEMMA LoginsIInvStep ==
  ASSUME Logins!SessionsConstants, LoginsIInv, [Logins!Next]_(Logins!vars)
  PROVE  LoginsIInv'
<1>1. CASE UNCHANGED Logins!vars
  BY <1>1 DEF Logins!vars, LoginsIInv, LoginsTypeInv, KeysInv, Given, EndedInv, Logins!SessionsEnd
<1>2. CASE Logins!Next
  BY <1>2, StartRequestKeeps, LoginsLoadKeeps, CreateKeeps, CreatedKeeps, ShowPageKeeps, FlushKeeps,
     CycleKeyKeeps, CycledKeeps, RespondKeeps, SavedKeeps, LoginsDieKeeps, ExpiresKeeps DEF Logins!Next
<1> QED
  BY <1>1, <1>2
-----------------------------------------------------------------------------
(* A session that was deleted while no other request worked on it is not   *)
(* stored again, so the API accepts its key no more, whatever requests     *)
(* with that key were not answered yet (SessionManager and logout).        *)
THEOREM EndedForGood ==
  ASSUME Logins!SessionsConstants
  PROVE  Logins!Spec => []Logins!EndedSessionsStayEnded
<1>1. Logins!Init => LoginsIInv
  BY LoginsInitIInv
<1>2. LoginsIInv /\ [Logins!Next]_(Logins!vars) => LoginsIInv'
  BY LoginsIInvStep
<1>3. LoginsIInv => Logins!EndedSessionsStayEnded
  BY DEF LoginsIInv, EndedInv, Logins!EndedSessionsStayEnded, Logins!Accepted
<1> QED
  BY <1>1, <1>2, <1>3, PTL DEF Logins!Spec

(* Whatever is saved over what, a stored session has an expiry, or the     *)
(* request that stored it is about to set it, unless that request died.    *)
THEOREM AllSessionsEnd ==
  ASSUME Logins!SessionsConstants
  PROVE  Logins!Spec => []Logins!SessionsEnd
<1>1. Logins!Init => LoginsIInv
  BY LoginsInitIInv
<1>2. LoginsIInv /\ [Logins!Next]_(Logins!vars) => LoginsIInv'
  BY LoginsIInvStep
<1>3. LoginsIInv => Logins!SessionsEnd
  BY DEF LoginsIInv
<1> QED
  BY <1>1, <1>2, <1>3, PTL DEF Logins!Spec

-----------------------------------------------------------------------------
(* The cache of models (ModelObjectCache): fetches that overlap, a timed   *)
(* call that evicts each model, and the cleanup that waits for the         *)
(* fetches.                                                                *)
(***************************************************************************)
(* How old a cached model can be, for any number of callers and keys, any  *)
(* ttl and any duration of a fetch.  A model that was fetched was current  *)
(* when its fetch began, or later, and is evicted a ttl after it came, or  *)
(* earlier: so the bound on its age is carried from the fetch to the       *)
(* evictor, and from there to whom it is served.                           *)
(***************************************************************************)

Versions == 0..MaxVersion
Fetch == [key : Keys, since : Nat, model : Versions \union {Nothing}]
Answer == [key : Keys, model : Versions, at : Nat]

CachedTypeInv ==
  /\ Cached!TypeOK
  /\ replaced \in [Keys -> [Versions -> Nat \union {Nothing}]]
  /\ evictors \in [Keys -> Nat \union {Nothing}]
  /\ call \in [Callers -> Fetch \union {Nothing}]
  /\ served \in Answer \union {Nothing}

\* The model was current at t, or later.
CurrentAfter(k, v, t) == replaced[k][v] = Nothing \/ replaced[k][v] >= t

StoredInv == \A k \in Keys : \A v \in Versions : replaced[k][v] # Nothing => v < stored[k]

CallInv ==
  \A c \in Callers : call[c] # Nothing =>
    /\ call[c].since <= now /\ now <= call[c].since + MaxFetch
    /\ call[c].model # Nothing => CurrentAfter(call[c].key, call[c].model, call[c].since)

ModelInv ==
  \A k \in Keys : models[k] # Nothing =>
    replaced[k][models[k]] = Nothing \/ replaced[k][models[k]] + ttl + MaxFetch >= evictors[k]

ServedInv == (served # Nothing => served.at <= now) /\ Cached!ServedFresh

CachedIInv == CachedTypeInv /\ StoredInv /\ CallInv /\ ModelInv /\ ServedInv
-----------------------------------------------------------------------------
LEMMA CachedInitIInv == ASSUME Cached!CacheConstants, Cached!Init PROVE CachedIInv
<1> USE DEF Cached!CacheConstants
<1>1. CachedTypeInv
  <2>1. Cached!TypeOK
    <3>1. MaxVersion \in Nat /\ Horizon \in Nat
      OBVIOUS
    <3>2. now \in 0..Horizon /\ 0 \in 0..MaxVersion
      BY <3>1 DEF Cached!Init
    <3>3. \A k \in Keys : models[k] = Nothing /\ evictors[k] = Nothing
      BY DEF Cached!Init
    <3>4. stored \in [Keys -> 0..MaxVersion] /\ models \in [Keys -> (0..MaxVersion) \union {Nothing}]
      BY <3>2 DEF Cached!Init
    <3> QED
      BY <3>2, <3>3, <3>4 DEF Cached!Init, Cached!TypeOK
  <2>2. replaced \in [Keys -> [Versions -> Nat \union {Nothing}]]
    BY DEF Cached!Init, Versions
  <2> QED
    BY <2>1, <2>2 DEF Cached!Init, CachedTypeInv
<1>2. StoredInv /\ CallInv /\ ModelInv /\ ServedInv
  BY DEF Cached!Init, StoredInv, CallInv, ModelInv, ServedInv, Cached!ServedFresh, Versions
<1> QED
  BY <1>1, <1>2 DEF CachedIInv

\* A model in the cache has an evictor that is due within the ttl.
LEMMA InCache ==
  ASSUME Cached!CacheConstants, CachedTypeInv, NEW k \in Keys
  PROVE  /\ ttl \in Nat /\ now \in Nat /\ MaxFetch \in Nat /\ MaxVersion \in Nat
         /\ models[k] # Nothing => /\ models[k] \in Versions /\ evictors[k] \in Nat
                                   /\ now <= evictors[k] /\ evictors[k] <= now + ttl
         /\ models[k] = Nothing <=> evictors[k] = Nothing
BY DEF Cached!CacheConstants, CachedTypeInv, Cached!TypeOK, Versions

LEMMA GetCachedKeeps ==
  ASSUME Cached!CacheConstants, CachedIInv, NEW c \in Callers, NEW k \in Keys, Cached!GetCached(c, k)
  PROVE  CachedIInv'
<1>1. /\ models[k] # Nothing /\ served' = [key |-> k, model |-> models[k], at |-> now]
      /\ UNCHANGED <<ttl, now, stored, replaced, models, evictors, call, cleaned>>
  BY DEF Cached!GetCached, Cached!Serves, Cached!riak
<1>2. /\ ttl \in Nat /\ now \in Nat /\ MaxFetch \in Nat
      /\ models[k] \in Versions /\ evictors[k] \in Nat /\ now <= evictors[k]
  BY <1>1, InCache DEF CachedIInv
<1>3. CachedTypeInv'
  BY <1>1, <1>2 DEF CachedIInv, CachedTypeInv, Cached!TypeOK, Answer
<1>4. StoredInv' /\ CallInv' /\ ModelInv'
  BY <1>1 DEF CachedIInv, StoredInv, CallInv, CurrentAfter, ModelInv
<1>5. ServedInv'
  <2>1. replaced[k][models[k]] \in Nat \union {Nothing}
    BY <1>2 DEF CachedIInv, CachedTypeInv
  <2>2. replaced[k][models[k]] = Nothing \/ replaced[k][models[k]] + ttl + MaxFetch >= now
    BY <1>1, <1>2, <2>1 DEF CachedIInv, ModelInv
  <2> QED
    BY <1>1, <1>2, <2>2 DEF ServedInv, Cached!ServedFresh
<1> QED
  BY <1>3, <1>4, <1>5 DEF CachedIInv

LEMMA StartFetchKeeps ==
  ASSUME Cached!CacheConstants, CachedIInv, NEW c \in Callers, NEW k \in Keys, Cached!StartFetch(c, k)
  PROVE  CachedIInv'
<1>1. /\ call' = [call EXCEPT ![c] = [key |-> k, since |-> now, model |-> Nothing]]
      /\ UNCHANGED <<ttl, now, stored, replaced, models, evictors, served, cleaned>>
  BY DEF Cached!StartFetch, Cached!Waiting, Cached!riak
<1>2. ttl \in Nat /\ now \in Nat /\ MaxFetch \in Nat
  BY InCache DEF CachedIInv
<1>3. CachedTypeInv'
  BY <1>1, <1>2 DEF CachedIInv, CachedTypeInv, Cached!TypeOK, Fetch
<1>4. CallInv'
  BY <1>1, <1>2 DEF CachedIInv, CachedTypeInv, CallInv, CurrentAfter
<1>5. StoredInv' /\ ModelInv' /\ ServedInv'
  BY <1>1 DEF CachedIInv, StoredInv, ModelInv, ServedInv, Cached!ServedFresh
<1> QED
  BY <1>3, <1>4, <1>5 DEF CachedIInv

LEMMA RiakReadsKeeps ==
  ASSUME Cached!CacheConstants, CachedIInv, NEW c \in Callers, Cached!RiakReads(c)
  PROVE  CachedIInv'
<1> DEFINE f == [call[c] EXCEPT !.model = stored[call[c].key]]
<1>1. /\ call' = [call EXCEPT ![c] = f] /\ call[c] \in Fetch
      /\ UNCHANGED <<ttl, now, stored, replaced, models, evictors, served, cleaned>>
  BY DEF Cached!RiakReads, Cached!riak, CachedIInv, CachedTypeInv
<1>2. stored[call[c].key] \in Versions /\ call[c].key \in Keys
  BY <1>1 DEF CachedIInv, CachedTypeInv, Cached!TypeOK, Fetch, Versions
<1>3. f \in Fetch /\ f.key = call[c].key /\ f.since = call[c].since /\ f.model = stored[call[c].key]
  BY <1>1, <1>2 DEF Fetch
<1> HIDE DEF f
<1>4. CachedTypeInv'
  BY <1>1, <1>3 DEF CachedIInv, CachedTypeInv, Cached!TypeOK
<1>5. replaced[f.key][f.model] = Nothing
  <2>1. MaxVersion \in Nat
    BY DEF Cached!CacheConstants
  <2> QED
    BY <1>2, <1>3, <2>1 DEF CachedIInv, StoredInv, Versions
<1>6. CallInv'
  <2>1. call[c] # Nothing
    BY DEF Cached!RiakReads
  <2> QED
    BY <1>1, <1>3, <1>5, <2>1 DEF CachedIInv, CachedTypeInv, CallInv, CurrentAfter
<1>7. StoredInv' /\ ModelInv' /\ ServedInv'
  BY <1>1 DEF CachedIInv, StoredInv, ModelInv, ServedInv, Cached!ServedFresh
<1> QED
  BY <1>4, <1>6, <1>7 DEF CachedIInv

LEMMA FetchedKeeps ==
  ASSUME Cached!CacheConstants, CachedIInv, NEW c \in Callers, Cached!Fetched(c)
  PROVE  CachedIInv'
<1> DEFINE k == call[c].key
           v == call[c].model
           gone == replaced[k][v]
<1>1. /\ call' = [call EXCEPT ![c] = Nothing]
      /\ served' = [key |-> k, model |-> v, at |-> now]
      /\ models' = Cached!Cached(k, v) /\ evictors' = Cached!Scheduled(k)
      /\ UNCHANGED <<ttl, now, stored, replaced, cleaned>>
  BY DEF Cached!Fetched, Cached!Serves, Cached!riak
<1>2. k \in Keys /\ v \in Versions /\ call[c].since \in Nat
  BY DEF Cached!Fetched, CachedIInv, CachedTypeInv, Fetch
<1>3. ttl \in Nat /\ now \in Nat /\ MaxFetch \in Nat /\ MaxVersion \in Nat /\ Nothing \notin Nat
  BY InCache, <1>2 DEF CachedIInv, Cached!CacheConstants
<1>4. gone \in Nat \union {Nothing}
  BY <1>2 DEF CachedIInv, CachedTypeInv
<1>5. gone = Nothing \/ gone + MaxFetch >= now
  BY <1>2, <1>3, <1>4 DEF Cached!Fetched, CachedIInv, CallInv, CurrentAfter
<1>6. CASE ttl = 0
  <2>1. models' = models /\ evictors' = evictors
    BY <1>1, <1>6 DEF Cached!Cached, Cached!Scheduled
  <2>2. CachedTypeInv'
    BY <1>1, <1>2, <1>3, <2>1 DEF CachedIInv, CachedTypeInv, Cached!TypeOK, Answer
  <2>3. StoredInv' /\ CallInv' /\ ModelInv'
    BY <1>1, <2>1 DEF CachedIInv, CachedTypeInv, StoredInv, CallInv, CurrentAfter, ModelInv
  <2>4. ServedInv'
    BY <1>1, <1>3, <1>4, <1>5 DEF ServedInv, Cached!ServedFresh
  <2> QED
    BY <2>2, <2>3, <2>4 DEF CachedIInv
<1>7. CASE ttl # 0
  <2> DEFINE due == IF evictors[k] # Nothing THEN evictors[k] ELSE now + ttl
  <2>1. models' = [models EXCEPT ![k] = v]
    BY <1>1, <1>7 DEF Cached!Cached
  <2>2. evictors' = [evictors EXCEPT ![k] = due]
    BY <1>1, <1>2, <1>7 DEF Cached!Scheduled, CachedIInv, CachedTypeInv
  <2>3. due \in Nat /\ now <= due /\ due <= now + ttl /\ due # Nothing /\ v # Nothing
    BY <1>2, <1>3, InCache DEF CachedIInv, Versions
  <2> HIDE DEF due
  <2>4. /\ models \in [Keys -> Versions \union {Nothing}]
        /\ models'[k] = v /\ evictors'[k] = due
        /\ \A j \in Keys \ {k} : models'[j] = models[j] /\ evictors'[j] = evictors[j]
    BY <1>2, <2>1, <2>2 DEF CachedIInv, CachedTypeInv, Cached!TypeOK, Versions
  <2>5. Cached!TypeOK'
    <3>1. models' \in [Keys -> (0..MaxVersion) \union {Nothing}]
      BY <1>2, <2>1, <2>4 DEF Versions
    <3>2. \A j \in Keys : evictors'[j] # Nothing => evictors'[j] \in now..(now + ttl)
      BY <1>3, <2>3, <2>4 DEF CachedIInv, CachedTypeInv, Cached!TypeOK
    <3>3. \A j \in Keys : (models'[j] = Nothing) = (evictors'[j] = Nothing)
      BY <2>3, <2>4 DEF CachedIInv, CachedTypeInv, Cached!TypeOK
    <3> QED
      BY <1>1, <3>1, <3>2, <3>3 DEF CachedIInv, CachedTypeInv, Cached!TypeOK
  <2>6. CachedTypeInv'
    BY <1>1, <1>2, <1>3, <2>2, <2>3, <2>5 DEF CachedIInv, CachedTypeInv, Answer
  <2>7. StoredInv' /\ CallInv'
    BY <1>1 DEF CachedIInv, CachedTypeInv, StoredInv, CallInv, CurrentAfter
  <2>8. ModelInv'
    <3> SUFFICES ASSUME NEW j \in Keys, models'[j] # Nothing
                 PROVE  \/ replaced[j][models'[j]] = Nothing
                        \/ replaced[j][models'[j]] + ttl + MaxFetch >= evictors'[j]
      BY <1>1 DEF ModelInv
    <3>1. CASE j = k
      BY <1>3, <1>4, <1>5, <2>3, <2>4, <3>1
    <3>2. CASE j # k
      BY <2>4, <3>2 DEF CachedIInv, ModelInv
    <3> QED
      BY <3>1, <3>2
  <2>9. ServedInv'
    BY <1>1, <1>3, <1>4, <1>5 DEF ServedInv, Cached!ServedFresh
  <2> QED
    BY <2>6, <2>7, <2>8, <2>9 DEF CachedIInv
<1> QED
  BY <1>6, <1>7

LEMMA FetchFailsKeeps ==
  ASSUME Cached!CacheConstants, CachedIInv, NEW c \in Callers, Cached!FetchFails(c)
  PROVE  CachedIInv'
<1>1. /\ call' = [call EXCEPT ![c] = Nothing]
      /\ UNCHANGED <<ttl, now, stored, replaced, models, evictors, served, cleaned>>
  BY DEF Cached!FetchFails, Cached!riak
<1>2. CachedTypeInv'
  BY <1>1 DEF CachedIInv, CachedTypeInv, Cached!TypeOK
<1>3. StoredInv' /\ CallInv' /\ ModelInv' /\ ServedInv'
  BY <1>1 DEF CachedIInv, CachedTypeInv, StoredInv, CallInv, CurrentAfter, ModelInv, ServedInv, Cached!ServedFresh
<1> QED
  BY <1>2, <1>3 DEF CachedIInv

LEMMA EvictKeeps ==
  ASSUME Cached!CacheConstants, CachedIInv, NEW k \in Keys, Cached!Evict(k)
  PROVE  CachedIInv'
<1>1. /\ models' = [models EXCEPT ![k] = Nothing] /\ evictors' = [evictors EXCEPT ![k] = Nothing]
      /\ UNCHANGED <<ttl, now, stored, replaced, call, served, cleaned>>
  BY DEF Cached!Evict, Cached!WithoutModel, Cached!riak
<1>2. CachedTypeInv'
  BY <1>1 DEF CachedIInv, CachedTypeInv, Cached!TypeOK
<1>3. StoredInv' /\ CallInv' /\ ServedInv'
  BY <1>1 DEF CachedIInv, StoredInv, CallInv, CurrentAfter, ServedInv, Cached!ServedFresh
<1>4. ModelInv'
  BY <1>1 DEF CachedIInv, CachedTypeInv, Cached!TypeOK, ModelInv
<1> QED
  BY <1>2, <1>3, <1>4 DEF CachedIInv

LEMMA CleanupKeeps ==
  ASSUME Cached!CacheConstants, CachedIInv, Cached!Cleanup
  PROVE  CachedIInv'
<1>1. /\ models' = [k \in Keys |-> IF evictors[k] = Nothing THEN models[k] ELSE Nothing]
      /\ evictors' = [k \in Keys |-> Nothing] /\ cleaned' = TRUE
      /\ UNCHANGED <<ttl, now, stored, replaced, call, served>>
  BY DEF Cached!Cleanup, Cached!riak
<1>2. \A k \in Keys : models'[k] = Nothing /\ evictors'[k] = Nothing
  BY <1>1 DEF CachedIInv, CachedTypeInv, Cached!TypeOK
<1>3. CachedTypeInv'
  BY <1>1, <1>2 DEF CachedIInv, CachedTypeInv, Cached!TypeOK
<1>4. StoredInv' /\ CallInv' /\ ServedInv'
  BY <1>1 DEF CachedIInv, StoredInv, CallInv, CurrentAfter, ServedInv, Cached!ServedFresh
<1>5. ModelInv'
  BY <1>2 DEF ModelInv
<1> QED
  BY <1>3, <1>4, <1>5 DEF CachedIInv

LEMMA CachedStoreKeeps ==
  ASSUME Cached!CacheConstants, CachedIInv, NEW k \in Keys, Cached!Store(k)
  PROVE  CachedIInv'
<1> DEFINE s == stored[k]
<1>1. /\ s < MaxVersion /\ stored' = [stored EXCEPT ![k] = s + 1]
      /\ replaced' = [replaced EXCEPT ![k] = [replaced[k] EXCEPT ![s] = now]]
      /\ UNCHANGED <<ttl, now, models, evictors, call, served, cleaned>>
  BY DEF Cached!Store
<1>2. s \in Versions /\ MaxVersion \in Nat /\ now \in Nat /\ ttl \in Nat /\ MaxFetch \in Nat
      /\ Nothing \notin Nat
  BY InCache DEF CachedIInv, CachedTypeInv, Cached!TypeOK, Versions, Cached!CacheConstants
<1>3. /\ replaced' \in [Keys -> [Versions -> Nat \union {Nothing}]]
      /\ replaced'[k][s] = now
      /\ \A j \in Keys : \A v \in Versions : j # k \/ v # s => replaced'[j][v] = replaced[j][v]
  BY <1>1, <1>2 DEF CachedIInv, CachedTypeInv
<1>4. stored' \in [Keys -> 0..MaxVersion] /\ stored'[k] = s + 1 /\ \A j \in Keys \ {k} : stored'[j] = stored[j]
  BY <1>1, <1>2 DEF CachedIInv, CachedTypeInv, Cached!TypeOK, Versions
<1>5. CachedTypeInv'
  BY <1>1, <1>3, <1>4 DEF CachedIInv, CachedTypeInv, Cached!TypeOK
<1>6. StoredInv'
  <2> SUFFICES ASSUME NEW j \in Keys, NEW v \in Versions, replaced'[j][v] # Nothing
               PROVE  v < stored'[j]
    BY DEF StoredInv
  <2>1. CASE j = k /\ v = s
    BY <1>2, <1>4, <2>1 DEF Versions
  <2>2. CASE j # k
    BY <1>3, <1>4, <2>2 DEF CachedIInv, StoredInv
  <2>3. CASE j = k /\ v # s
    <3>1. replaced[k][v] # Nothing
      BY <1>3, <2>3
    <3>2. v < s /\ s \in Nat /\ v \in Nat
      BY <1>2, <3>1 DEF CachedIInv, StoredInv, Versions
    <3>3. stored'[j] = s + 1
      BY <1>4, <2>3
    <3> HIDE DEF s
    <3> QED
      BY <3>2, <3>3
  <2> QED
    BY <2>1, <2>2, <2>3
<1>7. CallInv'
  <2> SUFFICES ASSUME NEW c \in Callers, call[c] # Nothing
               PROVE  /\ call[c].since <= now /\ now <= call[c].since + MaxFetch
                      /\ call[c].model # Nothing =>
                           \/ replaced'[call[c].key][call[c].model] = Nothing
                           \/ replaced'[call[c].key][call[c].model] >= call[c].since
    BY <1>1 DEF CallInv, CurrentAfter
  <2>1. call[c].key \in Keys /\ call[c].model \in Versions \union {Nothing}
    BY DEF CachedIInv, CachedTypeInv, Fetch
  <2> QED
    BY <1>3, <2>1 DEF CachedIInv, CallInv, CurrentAfter
<1>8. ModelInv'
  <2> SUFFICES ASSUME NEW j \in Keys, models[j] # Nothing
               PROVE  \/ replaced'[j][models[j]] = Nothing
                      \/ replaced'[j][models[j]] + ttl + MaxFetch >= evictors[j]
    BY <1>1 DEF ModelInv
  <2>1. models[j] \in Versions /\ evictors[j] \in Nat /\ evictors[j] <= now + ttl
    BY InCache DEF CachedIInv
  <2>2. CASE j = k /\ models[j] = s
    BY <1>2, <1>3, <2>1, <2>2
  <2>3. CASE ~(j = k /\ models[j] = s)
    BY <1>3, <2>1, <2>3 DEF CachedIInv, ModelInv
  <2> QED
    BY <2>2, <2>3
<1>9. ServedInv'
  <2> SUFFICES ASSUME served # Nothing, served.at = now
               PROVE  \/ replaced'[served.key][served.model] = Nothing
                      \/ replaced'[served.key][served.model] + ttl + MaxFetch >= now
    BY <1>1 DEF CachedIInv, ServedInv, Cached!ServedFresh
  <2>1. served.key \in Keys /\ served.model \in Versions
    BY DEF CachedIInv, CachedTypeInv, Answer
  <2>2. CASE served.key = k /\ served.model = s
    BY <1>2, <1>3, <2>2
  <2>3. CASE ~(served.key = k /\ served.model = s)
    BY <1>3, <2>1, <2>3 DEF CachedIInv, ServedInv, Cached!ServedFresh
  <2> QED
    BY <2>2, <2>3
<1> QED
  BY <1>5, <1>6, <1>7, <1>8, <1>9 DEF CachedIInv

LEMMA TickKeeps ==
  ASSUME Cached!CacheConstants, CachedIInv, Cached!Tick
  PROVE  CachedIInv'
<1>1. /\ now < Horizon /\ now' = now + 1
      /\ \A k \in Keys : evictors[k] # now
      /\ \A c \in Callers : call[c] # Nothing => now < call[c].since + MaxFetch
      /\ UNCHANGED <<ttl, stored, replaced, models, evictors, call, served, cleaned>>
  BY DEF Cached!Tick, Cached!riak
<1>2. now \in Nat /\ Horizon \in Nat /\ ttl \in Nat /\ MaxFetch \in Nat
  BY DEF Cached!CacheConstants, CachedIInv, CachedTypeInv, Cached!TypeOK
<1>3. CachedTypeInv'
  <2>1. \A k \in Keys : evictors[k] # Nothing => evictors[k] \in (now + 1)..(now + 1 + ttl)
    <3> SUFFICES ASSUME NEW k \in Keys, evictors[k] # Nothing
                 PROVE  evictors[k] \in (now + 1)..(now + 1 + ttl)
      OBVIOUS
    <3>1. evictors[k] \in now..(now + ttl) /\ evictors[k] # now
      BY <1>1 DEF CachedIInv, CachedTypeInv, Cached!TypeOK
    <3> QED
      BY <1>2, <3>1
  <2> QED
    BY <1>1, <1>2, <2>1 DEF CachedIInv, CachedTypeInv, Cached!TypeOK
<1>4. CallInv'
  <2> SUFFICES ASSUME NEW c \in Callers, call[c] # Nothing
               PROVE  call[c].since <= now + 1 /\ now + 1 <= call[c].since + MaxFetch
    BY <1>1 DEF CachedIInv, CallInv, CurrentAfter
  <2>1. call[c].since \in Nat
    BY DEF CachedIInv, CachedTypeInv, Fetch
  <2> QED
    BY <1>1, <1>2, <2>1 DEF CachedIInv, CallInv
<1>5. StoredInv' /\ ModelInv'
  BY <1>1 DEF CachedIInv, StoredInv, ModelInv
<1>6. ServedInv'
  <2>1. served # Nothing => served.at \in Nat
    BY DEF CachedIInv, CachedTypeInv, Answer
  <2> QED
    BY <1>1, <1>2, <2>1 DEF CachedIInv, ServedInv, Cached!ServedFresh
<1> QED
  BY <1>3, <1>4, <1>5, <1>6 DEF CachedIInv

LEMMA CachedIInvStep ==
  ASSUME Cached!CacheConstants, CachedIInv, [Cached!Next]_(Cached!vars)
  PROVE  CachedIInv'
<1>1. CASE UNCHANGED Cached!vars
  <2>1. UNCHANGED <<ttl, now, stored, replaced, models, evictors, call, served, cleaned>>
    BY <1>1 DEF Cached!vars
  <2> QED
    BY <2>1 DEF CachedIInv, CachedTypeInv, Cached!TypeOK, StoredInv, CallInv, CurrentAfter, ModelInv, ServedInv, Cached!ServedFresh
<1>2. CASE Cached!Next
  BY <1>2, GetCachedKeeps, StartFetchKeeps, RiakReadsKeeps, FetchedKeeps, FetchFailsKeeps,
     EvictKeeps, CachedStoreKeeps, CleanupKeeps, TickKeeps DEF Cached!Next, Cached!Fetching
<1> QED
  BY <1>1, <1>2
-----------------------------------------------------------------------------
(* _models and _evictors have the same keys, and every evictor is due      *)
(* within the ttl: schedule_eviction and evict_model_entry never raise,    *)
(* and no model stays in the cache for want of a call that evicts it.      *)
THEOREM ModelsHaveEvictors ==
  ASSUME Cached!CacheConstants
  PROVE  Cached!Spec => []Cached!TypeOK
<1>1. Cached!Init => CachedIInv
  BY CachedInitIInv
<1>2. CachedIInv /\ [Cached!Next]_(Cached!vars) => CachedIInv'
  BY CachedIInvStep
<1>3. CachedIInv => Cached!TypeOK
  BY DEF CachedIInv, CachedTypeInv
<1> QED
  BY <1>1, <1>2, <1>3, PTL DEF Cached!Spec

(* A model that get_model hands out was the stored one at some moment of   *)
(* the last ttl and the duration of a fetch, however fetches overlap.      *)
THEOREM ModelsAreFresh ==
  ASSUME Cached!CacheConstants
  PROVE  Cached!Spec => []Cached!ServedFresh
<1>1. Cached!Init => CachedIInv
  BY CachedInitIInv
<1>2. CachedIInv /\ [Cached!Next]_(Cached!vars) => CachedIInv'
  BY CachedIInvStep
<1>3. CachedIInv => Cached!ServedFresh
  BY DEF CachedIInv, ServedInv
<1> QED
  BY <1>1, <1>2, <1>3, PTL DEF Cached!Spec

-----------------------------------------------------------------------------
(* The pages of a router and its workers (Routers): a router that is       *)
(* starting or stopping has a request, a command or a worker that goes on  *)
(* to the next status.                                                     *)
\* What a page or a command still has to do, by its operation.
StepsOf(j) ==
  CASE j.operation \in RouterPages!Commands  -> {<<"save", "send">>, <<"send">>}
    [] j.operation = "archive"   -> {<<"save", "unroute">>, <<"unroute">>}
    [] j.operation = "edit"      -> {<<"save">>}

RouterPagesTypeInv ==
  /\ routerpages_stored \in RouterPages!RouterState /\ routerpages_deaths \in Nat /\ saves \in Nat /\ overwritten \in BOOLEAN
  /\ job \in [Procs -> RouterPages!JobState \union {Nothing}]
  /\ api \in Seq(RouterPages!Commands) /\ queue \in Seq(RouterPages!Commands)
  /\ working \in RouterPages!WorkState \union {Nothing}
  /\ \A p \in Procs : ~RouterPages!Idle(p) => job[p].steps \in StepsOf(job[p])

\* What an edit or an archiving is going to save is the router as it is, if nobody saved it since.
Fresh(p) ==
  ~RouterPages!Idle(p) /\ job[p].operation \in {"edit", "archive"} /\ job[p].router # Nothing =>
    /\ job[p].seen <= saves
    /\ job[p].seen = saves => job[p].router = routerpages_stored

RouterPagesIInv == RouterPagesTypeInv /\ (\A p \in Procs : Fresh(p)) /\ RouterPages!NeverStuck

LEMMA InConcat ==
  ASSUME NEW S, NEW s \in Seq(S), NEW t \in Seq(S), NEW c
  PROVE  (\E i \in DOMAIN (s \o t) : (s \o t)[i] = c) <=> In(s, c) \/ In(t, c)
<1>1. Len(s \o t) = Len(s) + Len(t) /\ DOMAIN (s \o t) = 1..(Len(s) + Len(t))
  OBVIOUS
<1>2. \A i \in 1..(Len(s) + Len(t)) : (s \o t)[i] = IF i <= Len(s) THEN s[i] ELSE t[i - Len(s)]
  OBVIOUS
<1>3. ASSUME In(s, c) PROVE \E i \in DOMAIN (s \o t) : (s \o t)[i] = c
  BY <1>1, <1>2, <1>3 DEF In
<1>4. ASSUME In(t, c) PROVE \E i \in DOMAIN (s \o t) : (s \o t)[i] = c
  <2>1. PICK i \in 1..Len(t) : t[i] = c
    BY <1>4 DEF In
  <2>2. i + Len(s) \in 1..(Len(s) + Len(t)) /\ (s \o t)[i + Len(s)] = c
    BY <1>2, <2>1
  <2> QED
    BY <1>1, <2>2
<1>5. ASSUME NEW i \in DOMAIN (s \o t), (s \o t)[i] = c PROVE In(s, c) \/ In(t, c)
  <2>1. CASE i <= Len(s)
    BY <1>1, <1>2, <1>5, <2>1 DEF In
  <2>2. CASE ~(i <= Len(s))
    <3>1. i - Len(s) \in 1..Len(t) /\ t[i - Len(s)] = c
      BY <1>1, <1>2, <1>5, <2>2
    <3> QED
      BY <3>1 DEF In
  <2> QED
    BY <2>1, <2>2
<1> QED
  BY <1>3, <1>4, <1>5

LEMMA InFront ==
  ASSUME NEW S, NEW s \in Seq(S), NEW x \in S, NEW c
  PROVE  In(<<x>> \o s, c) <=> In(s, c) \/ x = c
<1>1. <<x>> \in Seq(S) /\ (In(<<x>>, c) <=> x = c)
  BY DEF In
<1>2. DOMAIN (<<x>> \o s) = 1..Len(<<x>> \o s)
  BY <1>1
<1>3. \A t \in Seq(S) : (\E i \in DOMAIN (t \o s) : (t \o s)[i] = c) <=> In(t, c) \/ In(s, c)
  BY InConcat
<1>5. (\E i \in DOMAIN (<<x>> \o s) : (<<x>> \o s)[i] = c) <=> In(<<x>>, c) \/ In(s, c)
  BY <1>1, <1>3, Zenon
<1>4. In(<<x>> \o s, c) <=> \E i \in 1..Len(<<x>> \o s) : (<<x>> \o s)[i] = c
  BY DEF In
<1> QED
  BY <1>1, <1>2, <1>4, <1>5

\* The command is with the worker, or a page is about to send it.
AtWork(command) == working # Nothing /\ working.command = command
Promised(command) == \E p \in Procs : ~RouterPages!Idle(p) /\ job[p].operation = command /\ job[p].steps = <<"send">>

LEMMA WhereItComesFrom ==
  ASSUME RouterPagesTypeInv, NEW c
  PROVE  RouterPages!Coming(c) <=> In(api, c) \/ In(queue, c) \/ AtWork(c) \/ Promised(c)
BY InConcat DEF RouterPages!Coming, RouterPagesTypeInv, AtWork, Promised

LEMMA WhereItComesFromNext ==
  ASSUME RouterPagesTypeInv', NEW c
  PROVE  RouterPages!Coming(c)' <=> In(api', c) \/ In(queue', c) \/ AtWork(c)' \/ Promised(c)'
BY InConcat DEF RouterPages!Coming, RouterPagesTypeInv, AtWork, Promised

LEMMA NoRecordIsNothing ==
  ASSUME RouterPages!RoutersConstants
  PROVE  Nothing \notin RouterPages!RouterState /\ Nothing \notin RouterPages!JobState /\ Nothing \notin RouterPages!WorkState
BY DEF RouterPages!RoutersConstants

LEMMA RouterPagesInitInv == RouterPages!Init => RouterPagesIInv
<1> SUFFICES ASSUME RouterPages!Init PROVE RouterPagesIInv
  OBVIOUS
<1>1. RouterPagesTypeInv
  <2>1. routerpages_stored \in RouterPages!RouterState /\ <<>> \in Seq(RouterPages!Commands)
    BY DEF RouterPages!Init, RouterPages!RouterState
  <2>2. job \in [Procs -> RouterPages!JobState \union {Nothing}] /\ \A p \in Procs : RouterPages!Idle(p)
    BY DEF RouterPages!Init, RouterPages!Idle
  <2> QED
    BY <2>1, <2>2 DEF RouterPages!Init, RouterPagesTypeInv
<1>2. \A p \in Procs : Fresh(p)
  BY DEF RouterPages!Init, Fresh, RouterPages!Idle
<1>3. RouterPages!NeverStuck
  BY DEF RouterPages!Init, RouterPages!NeverStuck
<1> QED
  BY <1>1, <1>2, <1>3 DEF RouterPagesIInv

LEMMA StepsAreSteps ==
  /\ <<"send">> \in Seq({"save", "send", "unroute"}) /\ <<"unroute">> \in Seq({"save", "send", "unroute"})
  /\ <<"save">> \in Seq({"save", "send", "unroute"})
  /\ <<"save", "send">> \in Seq({"save", "send", "unroute"})
  /\ <<"save", "unroute">> \in Seq({"save", "send", "unroute"})
<1>1. \A x \in {"save", "send", "unroute"} : <<x>> \in Seq({"save", "send", "unroute"})
  OBVIOUS
<1>2. \A x, y \in {"save", "send", "unroute"} : <<x, y>> \in Seq({"save", "send", "unroute"})
  OBVIOUS
<1> QED
  BY <1>1, <1>2

LEMMA StepsAreFew ==
  ASSUME NEW operation \in RouterPages!RouterOperations
  PROVE  /\ RouterPages!Steps(operation) \in Seq({"save", "send", "unroute"})
         /\ RouterPages!Steps(operation) \in IF operation \in RouterPages!Commands THEN {<<"save", "send">>}
                                 ELSE IF operation = "archive" THEN {<<"save", "unroute">>} ELSE {<<"save">>}
<1>1. CASE operation \in RouterPages!Commands
  BY <1>1, StepsAreSteps DEF RouterPages!Steps, RouterPages!Commands
<1>2. CASE operation = "archive"
  BY <1>2, StepsAreSteps DEF RouterPages!Steps, RouterPages!Commands
<1>3. CASE operation = "edit"
  BY <1>3, StepsAreSteps DEF RouterPages!Steps, RouterPages!Commands
<1> QED
  BY <1>1, <1>2, <1>3 DEF RouterPages!Commands, RouterPages!RouterOperations

\* A page goes on or ends; the rest is of its type.
LEMMA JobKept ==
  ASSUME RouterPagesTypeInv, NEW p \in Procs, NEW j \in RouterPages!JobState \union {Nothing}, job' = [job EXCEPT ![p] = j],
         j # Nothing => j.steps \in StepsOf(j)
  PROVE  /\ job' \in [Procs -> RouterPages!JobState \union {Nothing}]
         /\ \A q \in Procs : ~RouterPages!Idle(q)' => job'[q].steps \in StepsOf(job'[q])
         /\ job'[p] = j /\ \A q \in Procs \ {p} : job'[q] = job[q]
<1>1. /\ job' \in [Procs -> RouterPages!JobState \union {Nothing}]
      /\ job'[p] = j /\ \A q \in Procs \ {p} : job'[q] = job[q]
  BY DEF RouterPagesTypeInv
<1>2. ASSUME NEW q \in Procs, ~RouterPages!Idle(q)' PROVE job'[q].steps \in StepsOf(job'[q])
  <2>1. CASE q = p
    BY <1>1, <1>2, <2>1 DEF RouterPages!Idle
  <2>2. CASE q # p
    BY <1>1, <1>2, <2>2 DEF RouterPages!Idle, RouterPagesTypeInv
  <2> QED
    BY <2>1, <2>2
<1> QED
  BY <1>1, <1>2

LEMMA StepsByOperation ==
  ASSUME NEW j
  PROVE  /\ j.operation \in RouterPages!Commands => StepsOf(j) = {<<"save", "send">>, <<"send">>}
         /\ j.operation = "archive" => StepsOf(j) = {<<"save", "unroute">>, <<"unroute">>}
         /\ j.operation = "edit" => StepsOf(j) = {<<"save">>}
<1>1. CASE j.operation \in RouterPages!Commands
  BY <1>1 DEF StepsOf, RouterPages!Commands
<1>2. CASE j.operation = "archive"
  BY <1>2 DEF StepsOf, RouterPages!Commands
<1>3. CASE j.operation = "edit"
  BY <1>3 DEF StepsOf, RouterPages!Commands
<1> QED
  BY <1>1, <1>2, <1>3

\* What each kind of step leaves to be done.
LEMMA TakesStep ==
  ASSUME RouterPages!RoutersConstants, RouterPagesTypeInv, NEW p \in Procs, NEW step, RouterPages!Takes(p, step)
  PROVE  /\ job[p] \in RouterPages!JobState /\ job[p].router \in RouterPages!RouterState
         /\ \E j \in RouterPages!JobState \union {Nothing} :
              /\ job' = [job EXCEPT ![p] = j]
              /\ j # Nothing =>
                   /\ step = "save" /\ j.operation = job[p].operation /\ j.steps \in StepsOf(j)
                   /\ j.router = job[p].router /\ j.seen = job[p].seen
                   /\ j.steps = IF j.operation \in RouterPages!Commands THEN <<"send">> ELSE <<"unroute">>
              /\ step = "save" /\ job[p].operation \in RouterPages!Commands => j # Nothing
         /\ step = "send" => job[p].operation \in RouterPages!Commands
<1>1. job[p] \in RouterPages!JobState /\ job[p].router \in RouterPages!RouterState
  BY NoRecordIsNothing DEF RouterPages!Takes, RouterPagesTypeInv, RouterPages!Idle, RouterPages!JobState
<1> DEFINE k == [job[p] EXCEPT !.steps = Tail(job[p].steps)]
           j == IF Len(job[p].steps) = 1 THEN Nothing ELSE k
<1>2. job[p].steps \in StepsOf(job[p]) /\ job[p].operation \in RouterPages!RouterOperations /\ Head(job[p].steps) = step
  BY <1>1 DEF RouterPages!Takes, RouterPagesTypeInv, RouterPages!Idle, RouterPages!JobState
<1>3. CASE job[p].operation \in RouterPages!Commands
  <2>1. CASE job[p].steps = <<"save", "send">>
    <3>1. step = "save" /\ Len(job[p].steps) = 2 /\ Tail(job[p].steps) = <<"send">>
      BY <1>2, <2>1
    <3>0. k = [job[p] EXCEPT !.steps = <<"send">>] /\ <<"send">> \in Seq({"save", "send", "unroute"})
      BY <3>1, StepsAreSteps
    <3>2. k \in RouterPages!JobState /\ k.operation = job[p].operation /\ k.steps = <<"send">>
          /\ k.router = job[p].router /\ k.seen = job[p].seen
      <4> HIDE DEF k
      <4> QED
        BY <1>1, <3>0 DEF RouterPages!JobState
    <3>3. k.steps \in StepsOf(k)
      <4>1. k.operation \in RouterPages!Commands /\ k.steps = <<"send">>
        BY <1>3, <3>2
      <4> HIDE DEF k
      <4> QED
        BY <4>1, StepsByOperation
    <3>4. job' = [job EXCEPT ![p] = k]
      BY <3>1 DEF RouterPages!Takes
    <3> HIDE DEF k
    <3> QED
      BY <1>1, <1>3, <3>1, <3>2, <3>3, <3>4, NoRecordIsNothing
  <2>2. CASE job[p].steps = <<"send">>
    <3>1. step = "send" /\ Len(job[p].steps) = 1
      BY <1>2, <2>2
    <3>2. job' = [job EXCEPT ![p] = Nothing]
      BY <3>1 DEF RouterPages!Takes
    <3> QED
      BY <1>1, <1>3, <3>1, <3>2
  <2> QED
    BY <1>2, <1>3, <2>1, <2>2, StepsByOperation
<1>4. CASE job[p].operation = "archive"
  <2>1. CASE job[p].steps = <<"save", "unroute">>
    <3>1. step = "save" /\ Len(job[p].steps) = 2 /\ Tail(job[p].steps) = <<"unroute">>
      BY <1>2, <2>1
    <3>0. k = [job[p] EXCEPT !.steps = <<"unroute">>] /\ <<"unroute">> \in Seq({"save", "send", "unroute"})
      BY <3>1, StepsAreSteps
    <3>2. k \in RouterPages!JobState /\ k.operation = job[p].operation /\ k.steps = <<"unroute">>
          /\ k.router = job[p].router /\ k.seen = job[p].seen
      <4> HIDE DEF k
      <4> QED
        BY <1>1, <3>0 DEF RouterPages!JobState
    <3>3. k.steps \in StepsOf(k)
      <4>1. k.operation = "archive" /\ k.steps = <<"unroute">>
        BY <1>4, <3>2
      <4> HIDE DEF k
      <4> QED
        BY <4>1, StepsByOperation
    <3>4. job' = [job EXCEPT ![p] = k]
      BY <3>1 DEF RouterPages!Takes
    <3> HIDE DEF k
    <3> QED
      BY <1>1, <1>4, <3>1, <3>2, <3>3, <3>4, NoRecordIsNothing DEF RouterPages!Commands
  <2>2. CASE job[p].steps = <<"unroute">>
    <3>1. step = "unroute" /\ Len(job[p].steps) = 1
      BY <1>2, <2>2
    <3>2. job' = [job EXCEPT ![p] = Nothing]
      BY <3>1 DEF RouterPages!Takes
    <3> QED
      BY <1>1, <1>4, <3>1, <3>2 DEF RouterPages!Commands
  <2> QED
    BY <1>2, <1>4, <2>1, <2>2, StepsByOperation
<1>5. CASE job[p].operation = "edit"
  <2>1. step = "save" /\ Len(job[p].steps) = 1
    BY <1>2, <1>5, StepsByOperation
  <2>2. job' = [job EXCEPT ![p] = Nothing]
    BY <2>1 DEF RouterPages!Takes
  <2>3. job[p].operation \notin RouterPages!Commands /\ step # "send"
    BY <1>5, <2>1 DEF RouterPages!Commands
  <2> QED
    BY <1>1, <2>1, <2>2, <2>3
<1> QED
  BY <1>2, <1>3, <1>4, <1>5 DEF RouterPages!RouterOperations, RouterPages!Commands

LEMMA RouterPagesTypeStep ==
  ASSUME RouterPages!RoutersConstants
  PROVE  RouterPagesTypeInv /\ [RouterPages!Next]_(RouterPages!vars) => RouterPagesTypeInv'
<1> SUFFICES ASSUME RouterPagesTypeInv, RouterPages!Next PROVE RouterPagesTypeInv'
  BY DEF RouterPagesTypeInv, RouterPages!vars, RouterPages!Idle
<1>0. /\ routerpages_stored \in RouterPages!RouterState /\ routerpages_deaths \in Nat /\ saves \in Nat /\ overwritten \in BOOLEAN
      /\ api \in Seq(RouterPages!Commands) /\ queue \in Seq(RouterPages!Commands) /\ working \in RouterPages!WorkState \union {Nothing}
      /\ job \in [Procs -> RouterPages!JobState \union {Nothing}]
      /\ \A p \in Procs : ~RouterPages!Idle(p) => job[p].steps \in StepsOf(job[p])
  BY DEF RouterPagesTypeInv
<1>a. ASSUME UNCHANGED job, routerpages_stored' \in RouterPages!RouterState, routerpages_deaths' \in Nat, saves' \in Nat, overwritten' \in BOOLEAN,
             api' \in Seq(RouterPages!Commands), queue' \in Seq(RouterPages!Commands), working' \in RouterPages!WorkState \union {Nothing}
      PROVE  RouterPagesTypeInv'
  BY <1>0, <1>a DEF RouterPagesTypeInv, RouterPages!Idle
<1>b. ASSUME NEW p \in Procs, NEW j \in RouterPages!JobState \union {Nothing}, job' = [job EXCEPT ![p] = j],
             j # Nothing => j.steps \in StepsOf(j),
             routerpages_stored' \in RouterPages!RouterState, routerpages_deaths' \in Nat, saves' \in Nat, overwritten' \in BOOLEAN,
             api' \in Seq(RouterPages!Commands), UNCHANGED <<queue, working>>
      PROVE  RouterPagesTypeInv'
  <2>1. /\ job' \in [Procs -> RouterPages!JobState \union {Nothing}]
        /\ \A q \in Procs : ~RouterPages!Idle(q)' => job'[q].steps \in StepsOf(job'[q])
    BY <1>b, JobKept
  <2> QED
    BY <1>0, <1>b, <2>1 DEF RouterPagesTypeInv
<1>1. ASSUME NEW p \in Procs, NEW operation \in RouterPages!RouterOperations, NEW from, RouterPages!Request(p, operation, from)
      PROVE  RouterPagesTypeInv'
  <2> DEFINE j == [operation |-> operation, steps |-> RouterPages!Steps(operation), seen |-> saves,
                   router |-> IF operation = "edit" THEN routerpages_stored ELSE Nothing]
  <2>1. j \in RouterPages!JobState
    BY <1>0, StepsAreFew DEF RouterPages!JobState
  <2>2. j.steps \in StepsOf(j)
    BY StepsAreFew, StepsByOperation DEF RouterPages!RouterOperations, RouterPages!Commands
  <2>3. job' = [job EXCEPT ![p] = j]
        /\ UNCHANGED <<routerpages_stored, api, queue, working, routerpages_deaths, saves, overwritten>>
    BY <1>1 DEF RouterPages!Request
  <2> QED
    BY <1>0, <1>b, <2>1, <2>2, <2>3
<1>2. ASSUME NEW p \in Procs, RouterPages!GetRouter(p) PROVE RouterPagesTypeInv'
  <2> DEFINE j == [job[p] EXCEPT !.router = routerpages_stored, !.seen = saves]
  <2>1. job[p] \in RouterPages!JobState /\ job[p].steps \in StepsOf(job[p])
        /\ job' = [job EXCEPT ![p].router = routerpages_stored, ![p].seen = saves]
        /\ UNCHANGED <<routerpages_stored, api, queue, working, routerpages_deaths, saves, overwritten>>
    BY <1>0, <1>2 DEF RouterPages!GetRouter, RouterPages!Idle
  <2>2. job' = [job EXCEPT ![p] = j]
    BY <1>0, <2>1
  <2>3. j \in RouterPages!JobState /\ j.steps = job[p].steps /\ j.operation = job[p].operation
    BY <1>0, <2>1 DEF RouterPages!JobState
  <2>4. j.steps \in StepsOf(j)
    BY <2>1, <2>3 DEF StepsOf
  <2> QED
    BY <1>0, <1>b, <2>1, <2>2, <2>3, <2>4
<1>3. ASSUME NEW p \in Procs, NEW step, RouterPages!Takes(p, step),
             routerpages_stored' \in RouterPages!RouterState, routerpages_deaths' \in Nat, saves' \in Nat, overwritten' \in BOOLEAN,
             api' \in Seq(RouterPages!Commands), UNCHANGED <<queue, working>>
      PROVE  RouterPagesTypeInv'
  BY <1>b, <1>3, TakesStep
<1>4. ASSUME NEW p \in Procs, RouterPages!SaveRouter(p) PROVE RouterPagesTypeInv'
  <2>1. job[p].router \in RouterPages!RouterState /\ job[p].operation \in RouterPages!RouterOperations
    BY <1>4, TakesStep DEF RouterPages!SaveRouter, RouterPages!JobState
  <2>2. RouterPages!WithStatus(job[p].router, job[p].operation) \in RouterPages!RouterState
    BY <2>1 DEF RouterPages!WithStatus, RouterPages!RouterState, RouterPages!RouterOperations
  <2> QED
    BY <1>0, <1>3, <1>4, <2>2 DEF RouterPages!SaveRouter
<1>5. ASSUME NEW p \in Procs, RouterPages!DispatchRouterCommand(p) PROVE RouterPagesTypeInv'
  <2>1. job[p].operation \in RouterPages!Commands
    BY <1>5, TakesStep DEF RouterPages!DispatchRouterCommand
  <2> QED
    BY <1>0, <1>3, <1>5, <2>1 DEF RouterPages!DispatchRouterCommand
<1>6. ASSUME NEW p \in Procs, RouterPages!RemoveFromRoutingTable(p) PROVE RouterPagesTypeInv'
  BY <1>0, <1>3, <1>6 DEF RouterPages!RemoveFromRoutingTable
<1>7. ASSUME NEW p \in Procs, RouterPages!Die(p) PROVE RouterPagesTypeInv'
  <2>1. job' = [job EXCEPT ![p] = Nothing] /\ Nothing \in RouterPages!JobState \union {Nothing}
        /\ UNCHANGED <<routerpages_stored, api, queue, working, saves, overwritten>> /\ routerpages_deaths' \in Nat
    BY <1>0, <1>7 DEF RouterPages!Die
  <2> QED
    BY <1>0, <1>b, <2>1
<1>8. CASE RouterPages!ConsumeControlCommand
  <2>1. Head(api) \in RouterPages!Commands /\ Tail(api) \in Seq(RouterPages!Commands)
    BY <1>0, <1>8 DEF RouterPages!ConsumeControlCommand
  <2> QED
    BY <1>0, <1>8, <1>a, <2>1 DEF RouterPages!ConsumeControlCommand
<1>9. ASSUME NEW command \in RouterPages!Commands, NEW expected, RouterPages!ProcessCommand(command, expected) PROVE RouterPagesTypeInv'
  <2>1. Tail(queue) \in Seq(RouterPages!Commands) /\ [command |-> command, router |-> routerpages_stored] \in RouterPages!WorkState
    BY <1>0, <1>9 DEF RouterPages!ProcessCommand, RouterPages!WorkState
  <2> QED
    BY <1>0, <1>9, <1>a, <2>1 DEF RouterPages!ProcessCommand
<1>10. CASE RouterPages!WorkerSaves
  <2>1. working.router \in RouterPages!RouterState
    BY <1>0, <1>10 DEF RouterPages!WorkerSaves, RouterPages!WorkState
  <2>2. routerpages_stored' \in RouterPages!RouterState
    BY <1>10, <2>1 DEF RouterPages!WorkerSaves, RouterPages!RouterState
  <2> QED
    BY <1>0, <1>10, <1>a, <2>2 DEF RouterPages!WorkerSaves
<1>11. CASE RouterPages!WorkerDies
  <2>1. working.command \in RouterPages!Commands
    BY <1>0, <1>11 DEF RouterPages!WorkerDies, RouterPages!WorkState
  <2>2. <<working.command>> \o queue \in Seq(RouterPages!Commands)
    BY <1>0, <2>1
  <2> QED
    BY <1>0, <1>11, <1>a, <2>2 DEF RouterPages!WorkerDies
<1> QED
  BY <1>1, <1>2, <1>4, <1>5, <1>6, <1>7, <1>8, <1>9, <1>10, <1>11
     DEF RouterPages!Next, RouterPages!ProcessCommandStart, RouterPages!ProcessCommandStop, RouterPages!Commands

\* Who goes on as it was is as fresh as before, if the router stays or is saved once more.
LEMMA StaysFresh ==
  ASSUME RouterPagesTypeInv, UNCHANGED <<routerpages_stored, saves>> \/ saves' = saves + 1
  PROVE  \A q \in Procs : Fresh(q) /\ job'[q] = job[q] => Fresh(q)'
<1> SUFFICES ASSUME NEW q \in Procs, Fresh(q), job'[q] = job[q] PROVE Fresh(q)'
  OBVIOUS
<1>1. CASE RouterPages!Idle(q)
  BY <1>1 DEF Fresh, RouterPages!Idle
<1>2. CASE ~RouterPages!Idle(q)
  <2>1. job[q].seen \in Nat /\ saves \in Nat
    BY <1>2 DEF RouterPagesTypeInv, RouterPages!Idle, RouterPages!JobState
  <2> QED
    BY <2>1 DEF Fresh, RouterPages!Idle
<1> QED
  BY <1>1, <1>2

LEMMA FreshStep ==
  ASSUME RouterPages!RoutersConstants, RouterPagesTypeInv, \A p \in Procs : Fresh(p), RouterPages!Next
  PROVE  \A p \in Procs : Fresh(p)'
<1>0. /\ job \in [Procs -> RouterPages!JobState \union {Nothing}] /\ saves \in Nat /\ routerpages_stored \in RouterPages!RouterState
  BY DEF RouterPagesTypeInv
<1>1. ASSUME NEW p \in Procs, NEW operation \in RouterPages!RouterOperations, NEW from, RouterPages!Request(p, operation, from)
      PROVE  \A q \in Procs : Fresh(q)'
  <2> DEFINE j == [operation |-> operation, steps |-> RouterPages!Steps(operation), seen |-> saves,
                   router |-> IF operation = "edit" THEN routerpages_stored ELSE Nothing]
  <2>1. job' = [job EXCEPT ![p] = j] /\ UNCHANGED <<routerpages_stored, saves>>
    BY <1>1 DEF RouterPages!Request
  <2>2. job'[p] = j /\ \A q \in Procs \ {p} : job'[q] = job[q]
    BY <1>0, <2>1
  <2>3. Fresh(p)'
    BY <1>0, <2>1, <2>2 DEF Fresh
  <2> QED
    BY <2>1, <2>2, <2>3, StaysFresh
<1>2. ASSUME NEW p \in Procs, RouterPages!GetRouter(p) PROVE \A q \in Procs : Fresh(q)'
  <2>1. /\ job[p] \in RouterPages!JobState /\ job' = [job EXCEPT ![p].router = routerpages_stored, ![p].seen = saves]
        /\ UNCHANGED <<routerpages_stored, saves>>
    BY <1>0, <1>2 DEF RouterPages!GetRouter, RouterPages!Idle
  <2>2. /\ job'[p].router = routerpages_stored /\ job'[p].seen = saves
        /\ \A q \in Procs \ {p} : job'[q] = job[q]
    BY <1>0, <2>1 DEF RouterPages!JobState
  <2>3. Fresh(p)'
    BY <1>0, <2>1, <2>2 DEF Fresh
  <2> QED
    BY <2>1, <2>2, <2>3, StaysFresh
<1>3. ASSUME NEW p \in Procs, RouterPages!SaveRouter(p) PROVE \A q \in Procs : Fresh(q)'
  <2>1. RouterPages!Takes(p, "save") /\ saves' = saves + 1
    BY <1>3 DEF RouterPages!SaveRouter
  <2>2. PICK j \in RouterPages!JobState \union {Nothing} :
          /\ job' = [job EXCEPT ![p] = j]
          /\ j # Nothing => j.seen = job[p].seen /\ j.operation = job[p].operation
    BY <2>1, TakesStep
  <2>3. job'[p] = j /\ \A q \in Procs \ {p} : job'[q] = job[q]
    BY <1>0, <2>2
  <2>4. job[p] \in RouterPages!JobState /\ job[p].router # Nothing
    BY <2>1, TakesStep DEF RouterPages!Takes
  <2>5. job[p].operation \in {"edit", "archive"} => job[p].seen <= saves
    BY <2>1 DEF Fresh, RouterPages!Takes
  <2>6. Fresh(p)'
    BY <1>0, <2>1, <2>2, <2>3, <2>4, <2>5 DEF Fresh, RouterPages!Idle, RouterPages!JobState
  <2> QED
    BY <2>1, <2>3, <2>6, StaysFresh
<1>4. ASSUME NEW p \in Procs, NEW step, step # "save", RouterPages!Takes(p, step), UNCHANGED <<routerpages_stored, saves>>
      PROVE  \A q \in Procs : Fresh(q)'
  <2>1. job' = [job EXCEPT ![p] = Nothing]
    BY <1>4, TakesStep
  <2>2. job'[p] = Nothing /\ \A q \in Procs \ {p} : job'[q] = job[q]
    BY <1>0, <2>1
  <2>3. Fresh(p)'
    BY <2>2 DEF Fresh, RouterPages!Idle
  <2> QED
    BY <1>4, <2>2, <2>3, StaysFresh
<1>5. ASSUME NEW p \in Procs, RouterPages!Die(p) PROVE \A q \in Procs : Fresh(q)'
  <2>1. job'[p] = Nothing /\ (\A q \in Procs \ {p} : job'[q] = job[q]) /\ UNCHANGED <<routerpages_stored, saves>>
    BY <1>0, <1>5 DEF RouterPages!Die
  <2>2. Fresh(p)'
    BY <2>1 DEF Fresh, RouterPages!Idle
  <2> QED
    BY <2>1, <2>2, StaysFresh
<1>6. ASSUME UNCHANGED job, UNCHANGED <<routerpages_stored, saves>> \/ saves' = saves + 1
      PROVE  \A q \in Procs : Fresh(q)'
  BY <1>6, StaysFresh
<1> QED
  BY <1>1, <1>2, <1>3, <1>4, <1>5, <1>6
     DEF RouterPages!Next, RouterPages!DispatchRouterCommand, RouterPages!RemoveFromRoutingTable, RouterPages!ConsumeControlCommand,
         RouterPages!ProcessCommandStart, RouterPages!ProcessCommandStop, RouterPages!ProcessCommand, RouterPages!WorkerSaves, RouterPages!WorkerDies

\* A step that takes nothing away from what is coming, and changes no status.
LEMMA StillComing ==
  ASSUME RouterPages!NeverStuck, ~overwritten, routerpages_deaths = 0, routerpages_stored'.status = routerpages_stored.status,
         \A c \in RouterPages!Commands : RouterPages!Coming(c) => RouterPages!Coming(c)'
  PROVE  RouterPages!NeverStuck'
BY DEF RouterPages!NeverStuck, RouterPages!Commands

LEMMA StuckStep ==
  ASSUME RouterPages!RoutersConstants, RouterPagesTypeInv, RouterPagesTypeInv', \A p \in Procs : Fresh(p), RouterPages!NeverStuck, RouterPages!Next
  PROVE  RouterPages!NeverStuck'
<1> SUFFICES ASSUME ~overwritten', routerpages_deaths' = 0 PROVE RouterPages!NeverStuck'
  BY DEF RouterPages!NeverStuck
<1>0. /\ job \in [Procs -> RouterPages!JobState \union {Nothing}] /\ routerpages_deaths \in Nat /\ saves \in Nat
      /\ routerpages_stored \in RouterPages!RouterState /\ overwritten \in BOOLEAN
      /\ api \in Seq(RouterPages!Commands) /\ queue \in Seq(RouterPages!Commands) /\ working \in RouterPages!WorkState \union {Nothing}
  BY DEF RouterPagesTypeInv
<1>a. ~overwritten
  BY <1>0 DEF RouterPages!Next, RouterPages!Request, RouterPages!GetRouter, RouterPages!SaveRouter, RouterPages!DispatchRouterCommand, RouterPages!RemoveFromRoutingTable, RouterPages!Die,
     RouterPages!ConsumeControlCommand, RouterPages!ProcessCommandStart, RouterPages!ProcessCommandStop, RouterPages!ProcessCommand, RouterPages!WorkerSaves, RouterPages!WorkerDies
<1>b. routerpages_deaths = 0 /\ UNCHANGED routerpages_deaths
  <2>1. routerpages_deaths' = routerpages_deaths \/ routerpages_deaths' = routerpages_deaths + 1
    BY DEF RouterPages!Next, RouterPages!Request, RouterPages!GetRouter, RouterPages!SaveRouter, RouterPages!DispatchRouterCommand, RouterPages!RemoveFromRoutingTable, RouterPages!Die,
       RouterPages!ConsumeControlCommand, RouterPages!ProcessCommandStart, RouterPages!ProcessCommandStop, RouterPages!ProcessCommand, RouterPages!WorkerSaves, RouterPages!WorkerDies
  <2> QED
    BY <1>0, <2>1
\* Who is not about to send leaves what the others are about to send.
<1>c. ASSUME NEW p \in Procs, ~RouterPages!Idle(p) => job[p].steps # <<"send">>, \A q \in Procs \ {p} : job'[q] = job[q],
             UNCHANGED <<api, queue, working>>
      PROVE  \A c \in RouterPages!Commands : RouterPages!Coming(c) => RouterPages!Coming(c)'
  <2> SUFFICES ASSUME NEW c \in RouterPages!Commands PROVE RouterPages!Coming(c) => RouterPages!Coming(c)'
    OBVIOUS
  <2>1. Promised(c) => Promised(c)'
    BY <1>c DEF Promised, RouterPages!Idle
  <2>2. AtWork(c) => AtWork(c)'
    BY <1>c DEF AtWork
  <2> QED
    BY <1>c, <2>1, <2>2, WhereItComesFrom, WhereItComesFromNext
<1>1. ASSUME NEW p \in Procs, NEW operation \in RouterPages!RouterOperations, NEW from, RouterPages!Request(p, operation, from)
      PROVE  RouterPages!NeverStuck'
  <2>1. RouterPages!Idle(p) /\ (\A q \in Procs \ {p} : job'[q] = job[q]) /\ UNCHANGED <<routerpages_stored, api, queue, working>>
    BY <1>0, <1>1 DEF RouterPages!Request
  <2>2. \A c \in RouterPages!Commands : RouterPages!Coming(c) => RouterPages!Coming(c)'
    BY <1>c, <2>1
  <2> QED
    BY <1>a, <1>b, <2>1, <2>2, StillComing
<1>2. ASSUME NEW p \in Procs, RouterPages!GetRouter(p) PROVE RouterPages!NeverStuck'
  <2>1. /\ job[p] \in RouterPages!JobState /\ job' = [job EXCEPT ![p].router = routerpages_stored, ![p].seen = saves]
        /\ UNCHANGED <<routerpages_stored, api, queue, working>>
    BY <1>0, <1>2 DEF RouterPages!GetRouter, RouterPages!Idle
  <2>2. /\ job'[p] = [job[p] EXCEPT !.router = routerpages_stored, !.seen = saves]
        /\ \A q \in Procs \ {p} : job'[q] = job[q]
    BY <1>0, <2>1
  <2>3. job'[p] \in RouterPages!JobState /\ job'[p].steps = job[p].steps /\ job'[p].operation = job[p].operation
    BY <1>0, <2>1, <2>2 DEF RouterPages!JobState
  <2>4. \A c \in RouterPages!Commands : Promised(c) => Promised(c)'
    BY <2>2, <2>3, NoRecordIsNothing DEF Promised, RouterPages!Idle
  <2>5. \A c \in RouterPages!Commands : AtWork(c) => AtWork(c)'
    BY <2>1 DEF AtWork
  <2>6. \A c \in RouterPages!Commands : RouterPages!Coming(c) => RouterPages!Coming(c)'
    BY <2>1, <2>4, <2>5, WhereItComesFrom, WhereItComesFromNext
  <2> QED
    BY <1>a, <1>b, <2>1, <2>6, StillComing
<1>3. ASSUME NEW p \in Procs, RouterPages!SaveRouter(p) PROVE RouterPages!NeverStuck'
  <2>1. /\ RouterPages!Takes(p, "save") /\ UNCHANGED <<api, queue, working>>
        /\ routerpages_stored' = RouterPages!WithStatus(job[p].router, job[p].operation)
        /\ ~(job[p].operation \in {"archive", "edit"} /\ job[p].seen # saves)
    BY <1>3 DEF RouterPages!SaveRouter
  <2>2. job[p] \in RouterPages!JobState /\ job[p].router \in RouterPages!RouterState
    BY <2>1, TakesStep
  <2>3. PICK j \in RouterPages!JobState \union {Nothing} :
          /\ job' = [job EXCEPT ![p] = j]
          /\ j # Nothing =>
               /\ j.operation = job[p].operation
               /\ j.steps = IF j.operation \in RouterPages!Commands THEN <<"send">> ELSE <<"unroute">>
          /\ job[p].operation \in RouterPages!Commands => j # Nothing
    BY <2>1, TakesStep
  <2>4. job'[p] = j /\ \A q \in Procs \ {p} : job'[q] = job[q]
    BY <1>0, <2>3
  <2>5. CASE job[p].operation \in RouterPages!Commands
    <3> PICK c \in RouterPages!Commands : c = job[p].operation
      BY <2>5
    <3>1. Promised(c)'
      BY <2>3, <2>4, <2>5 DEF Promised, RouterPages!Idle
    <3>2. RouterPages!Coming(c)'
      BY <3>1, WhereItComesFromNext
    <3>3. routerpages_stored'.status = IF c = "start" THEN "starting" ELSE "stopping"
      BY <2>1, <2>2, <2>5 DEF RouterPages!WithStatus, RouterPages!RouterState, RouterPages!Commands
    <3> QED
      BY <3>2, <3>3 DEF RouterPages!NeverStuck, RouterPages!Commands
  <2>6. CASE job[p].operation \notin RouterPages!Commands
    <3>1. job[p].operation \in {"archive", "edit"}
      BY <2>2, <2>6 DEF RouterPages!JobState, RouterPages!RouterOperations, RouterPages!Commands
    <3>2. job[p].router = routerpages_stored
      BY <2>1, <2>2, <3>1, NoRecordIsNothing DEF Fresh, RouterPages!Takes
    <3>3. routerpages_stored'.status = routerpages_stored.status
      BY <1>0, <2>1, <3>1, <3>2 DEF RouterPages!WithStatus, RouterPages!RouterState
    <3>4. job[p].steps # <<"send">>
      BY <2>1 DEF RouterPages!Takes
    <3>5. \A c \in RouterPages!Commands : RouterPages!Coming(c) => RouterPages!Coming(c)'
      BY <1>c, <2>1, <2>4, <3>4
    <3> QED
      BY <1>a, <1>b, <3>3, <3>5, StillComing
  <2> QED
    BY <2>5, <2>6
<1>4. ASSUME NEW p \in Procs, RouterPages!DispatchRouterCommand(p) PROVE RouterPages!NeverStuck'
  <2>1. /\ RouterPages!Takes(p, "send") /\ api' = Append(api, job[p].operation)
        /\ UNCHANGED <<routerpages_stored, queue, working>>
    BY <1>4 DEF RouterPages!DispatchRouterCommand
  <2>2. job[p].operation \in RouterPages!Commands /\ job' = [job EXCEPT ![p] = Nothing]
    BY <2>1, TakesStep
  <2>3. \A q \in Procs \ {p} : job'[q] = job[q]
    BY <1>0, <2>2
  <2>4. \A c : In(api', c) <=> In(api, c) \/ job[p].operation = c
    BY <1>0, <2>1, <2>2, InAppend
  <2>5. \A c \in RouterPages!Commands : Promised(c) => Promised(c)' \/ c = job[p].operation
    BY <2>3 DEF Promised, RouterPages!Idle
  <2>6. \A c \in RouterPages!Commands : AtWork(c) => AtWork(c)'
    BY <2>1 DEF AtWork
  <2>7. \A c \in RouterPages!Commands : RouterPages!Coming(c) => RouterPages!Coming(c)'
    BY <2>1, <2>4, <2>5, <2>6, WhereItComesFrom, WhereItComesFromNext
  <2> QED
    BY <1>a, <1>b, <2>1, <2>7, StillComing
<1>5. ASSUME NEW p \in Procs, RouterPages!RemoveFromRoutingTable(p) PROVE RouterPages!NeverStuck'
  <2>1. /\ RouterPages!Takes(p, "unroute") /\ UNCHANGED <<routerpages_stored, api, queue, working>>
    BY <1>5 DEF RouterPages!RemoveFromRoutingTable
  <2>2. job' = [job EXCEPT ![p] = Nothing]
    BY <2>1, TakesStep
  <2>3. (\A q \in Procs \ {p} : job'[q] = job[q]) /\ job[p].steps # <<"send">>
    BY <1>0, <2>1, <2>2 DEF RouterPages!Takes
  <2>4. \A c \in RouterPages!Commands : RouterPages!Coming(c) => RouterPages!Coming(c)'
    BY <1>c, <2>1, <2>3
  <2> QED
    BY <1>a, <1>b, <2>1, <2>4, StillComing
<1>6. ASSUME NEW p \in Procs, RouterPages!Die(p) PROVE RouterPages!NeverStuck'
  BY <1>0, <1>6 DEF RouterPages!Die
\* What the dispatcher and the worker take from one queue is in the next one.
<1>d. ASSUME UNCHANGED job PROVE \A c \in RouterPages!Commands : Promised(c) => Promised(c)'
  BY <1>d DEF Promised, RouterPages!Idle
<1>7. CASE RouterPages!ConsumeControlCommand
  <2>1. /\ api # <<>> /\ queue' = Append(queue, Head(api)) /\ api' = Tail(api)
        /\ UNCHANGED <<routerpages_stored, job, working>>
    BY <1>7 DEF RouterPages!ConsumeControlCommand
  <2>2. Head(api) \in RouterPages!Commands
    BY <1>0, <2>1
  <2>3. \A c : In(queue', c) <=> In(queue, c) \/ Head(api) = c
    BY <1>0, <2>1, <2>2, InAppend
  <2>4. \A c : In(api, c) <=> Head(api) = c \/ In(api', c)
    BY <1>0, <2>1, InTail
  <2>5. \A c \in RouterPages!Commands : AtWork(c) => AtWork(c)'
    BY <2>1 DEF AtWork
  <2>6. \A c \in RouterPages!Commands : RouterPages!Coming(c) => RouterPages!Coming(c)'
    BY <1>d, <2>1, <2>3, <2>4, <2>5, WhereItComesFrom, WhereItComesFromNext
  <2> QED
    BY <1>a, <1>b, <2>1, <2>6, StillComing
<1>8. ASSUME NEW command \in RouterPages!Commands, NEW expected, RouterPages!ProcessCommand(command, expected),
             expected = IF command = "start" THEN "starting" ELSE "stopping"
      PROVE  RouterPages!NeverStuck'
  <2>1. /\ working = Nothing /\ queue # <<>> /\ Head(queue) = command /\ queue' = Tail(queue)
        /\ UNCHANGED <<routerpages_stored, job, api>>
        /\ working' = IF routerpages_stored.status = expected THEN [command |-> command, router |-> routerpages_stored] ELSE Nothing
    BY <1>8 DEF RouterPages!ProcessCommand
  <2>2. \A c : In(queue, c) <=> command = c \/ In(queue', c)
    BY <1>0, <2>1, InTail
  <2>3. \A c : ~AtWork(c)
    BY <2>1 DEF AtWork
  <2>4. \A c \in RouterPages!Commands \ {command} : RouterPages!Coming(c) => RouterPages!Coming(c)'
    BY <1>d, <2>1, <2>2, <2>3, WhereItComesFrom, WhereItComesFromNext
  <2>5. CASE routerpages_stored.status = expected
    <3>1. [command |-> command, router |-> routerpages_stored] \in RouterPages!WorkState
      BY <1>0 DEF RouterPages!WorkState
    <3>2. AtWork(command)'
      BY <2>1, <2>5, <3>1, NoRecordIsNothing DEF AtWork
    <3>3. RouterPages!Coming(command)'
      BY <3>2, WhereItComesFromNext
    <3> QED
      BY <1>a, <1>b, <2>1, <2>4, <3>3, StillComing
  <2>6. CASE routerpages_stored.status # expected
    BY <1>a, <1>b, <1>8, <2>1, <2>4, <2>6 DEF RouterPages!NeverStuck, RouterPages!Commands
  <2> QED
    BY <2>5, <2>6
<1>9. CASE RouterPages!WorkerSaves
  <2>1. working.router \in RouterPages!RouterState
    BY <1>0, <1>9 DEF RouterPages!WorkerSaves, RouterPages!WorkState
  <2>2. routerpages_stored'.status \in {"running", "stopped"}
    BY <1>9, <2>1 DEF RouterPages!WorkerSaves, RouterPages!RouterState
  <2> QED
    BY <2>2 DEF RouterPages!NeverStuck
<1>10. CASE RouterPages!WorkerDies
  <2>1. working # Nothing /\ queue' = <<working.command>> \o queue /\ UNCHANGED <<routerpages_stored, job, api>>
    BY <1>10 DEF RouterPages!WorkerDies
  <2>2. working.command \in RouterPages!Commands
    BY <1>0, <2>1 DEF RouterPages!WorkState
  <2>3. \A c : In(queue', c) <=> In(queue, c) \/ working.command = c
    BY <1>0, <2>1, <2>2, InFront
  <2>4. \A c \in RouterPages!Commands : RouterPages!Coming(c) => RouterPages!Coming(c)'
    BY <1>d, <2>1, <2>3, WhereItComesFrom, WhereItComesFromNext DEF AtWork
  <2> QED
    BY <1>a, <1>b, <2>1, <2>4, StillComing
<1> QED
  BY <1>1, <1>2, <1>3, <1>4, <1>5, <1>6, <1>7, <1>8, <1>9, <1>10
     DEF RouterPages!Next, RouterPages!ProcessCommandStart, RouterPages!ProcessCommandStop, RouterPages!Commands

LEMMA InvStep ==
  ASSUME RouterPages!RoutersConstants
  PROVE  RouterPagesIInv /\ [RouterPages!Next]_(RouterPages!vars) => RouterPagesIInv'
<1> SUFFICES ASSUME RouterPagesIInv, [RouterPages!Next]_(RouterPages!vars) PROVE RouterPagesIInv'
  OBVIOUS
<1>1. RouterPagesTypeInv /\ RouterPagesTypeInv'
  BY RouterPagesTypeStep DEF RouterPagesIInv
<1>2. CASE UNCHANGED RouterPages!vars
  BY <1>1, <1>2 DEF RouterPagesIInv, RouterPages!vars, Fresh, RouterPages!NeverStuck, RouterPages!Coming, RouterPages!Idle
<1>3. CASE RouterPages!Next
  BY <1>1, <1>3, FreshStep, StuckStep DEF RouterPagesIInv
<1> QED
  BY <1>2, <1>3

(* A router that is starting or stopping has a page, a command or a worker *)
(* that takes it on, unless one of them died or an old record was saved    *)
(* over a newer one (the views and the API of routers, their workers).     *)
THEOREM RoutersGoOn ==
  ASSUME RouterPages!RoutersConstants
  PROVE  RouterPages!Spec => []RouterPages!NeverStuck
<1>1. RouterPagesIInv => RouterPages!NeverStuck
  BY DEF RouterPagesIInv
<1> QED
  BY RouterPagesInitInv, InvStep, <1>1, PTL DEF RouterPages!Spec

-----------------------------------------------------------------------------
(* The life of a conversation (Conversations): a copy that says that it    *)
(* runs is no older than what is left of the truth, and what is known of   *)
(* digits that were drawn, stored, mailed or followed.                     *)
ConvRec == [status : {"stopped", "starting", "running", "stopping"}, archived : BOOLEAN,
            form : {"old", "new"}, groups : BOOLEAN]
LinkRec == [token : UserTokens, id : 1..MaxTokens]
CommandRec == [name : {"start", "stop", "send_message", "bulk_send"}, link : LinkRec \union {Nothing}]
Owning == {"hmset", "mail", "resave"}
Drawn == {"hsetnx"} \union Owning
Confirming == {"get", "load", "verify", "delete", "perform"}
JobRec ==
  [what : Pages!ConversationWork \union {"confirm"}, conv : ConvRec \union {Nothing},
   at : {"load", "post", "send", "save", "draw"} \union Drawn \union Confirming,
   token : UserTokens \union {Nothing}, id : 0..MaxTokens, link : LinkRec \union {Nothing}]
TokenRec == [id : 1..MaxTokens, expires : BOOLEAN]

\* A request has loaded the record by the time it saves it, and drawn digits by the time it stores them.
JobIsOfUse(r) ==
  /\ r.at \notin {"load", "get"} => r.conv \in ConvRec
  /\ r.at \in Drawn => r.token \in UserTokens /\ r.what # "confirm"
  /\ r.what = "confirm" => r.at \in Confirming /\ r.link \in LinkRec /\ r.token = r.link.token
  /\ r.what # "confirm" => r.at \notin {"get", "verify", "delete"}

PagesTypeInv ==
  /\ pages_ttl \in Nat /\ rest \in Nat /\ handled \in Nat /\ pages_conv \in ConvRec
  /\ pages_job \in [Requests -> JobRec \union {Nothing}]
  /\ \A p \in Requests : pages_job[p] # Nothing => JobIsOfUse(pages_job[p])
  /\ tokens \in [UserTokens -> TokenRec \union {Nothing}] /\ generated \in 0..MaxTokens
  /\ performed \in [1..MaxTokens -> Seq(Nat)]
  /\ pages_queue \in Seq(CommandRec) /\ control \in Seq(CommandRec) /\ links \subseteq LinkRec
  /\ pages_cache \in [conv : ConvRec, age : Nat] \union {Nothing}
  /\ work \in [Pages!Slots -> [at : {"fetched", "save"}, conv : ConvRec] \union {Nothing}]
  /\ work["command"] # Nothing => control # <<>>

\* A copy that says that the conversation runs was true as long ago as the copy is old.
RunningInv ==
  /\ pages_conv.status = "running" => rest = 0
  /\ pages_cache # Nothing => pages_cache.age <= pages_ttl /\ (pages_cache.conv.status = "running" => rest <= pages_cache.age)
  /\ \A s \in Pages!Slots :
       work[s] # Nothing /\ work[s].at = "fetched" /\ work[s].conv.status = "running" => rest = 0
  /\ Pages!HandledWhileRunning

WasSent(l) == l \in links \/ \E c \in CommandRec : c.link = l /\ (In(pages_queue, c) \/ In(control, c))
WereSent(u) == \E l \in LinkRec : l.token = u /\ WasSent(l)

At(p, places) == pages_job[p] # Nothing /\ pages_job[p].at \in places
IsConfirming(p) == pages_job[p] # Nothing /\ pages_job[p].what = "confirm"

\* Digits that were drawn are stored only if no link has them; and until they are mailed none has.
DigitsInv ==
  \A p \in Requests :
    /\ At(p, {"hsetnx"}) => tokens[pages_job[p].token] # Nothing \/ ~WereSent(pages_job[p].token)
    /\ At(p, {"hmset", "mail"}) =>
         /\ tokens[pages_job[p].token] # Nothing /\ tokens[pages_job[p].token].id = pages_job[p].id
         /\ ~WereSent(pages_job[p].token)
         /\ \A q \in Requests \ {p} : At(q, {"hmset", "mail"}) => pages_job[q].token # pages_job[p].token
    /\ IsConfirming(p) =>
         /\ pages_job[p].link \in links /\ pages_job[p].id = pages_job[p].link.id
         /\ \A q \in Requests : At(q, {"hsetnx"}) => pages_job[q].token # pages_job[p].token

\* What a link says is of the token that has its digits, and tokens differ.
TokensInv ==
  /\ \A l \in LinkRec : WasSent(l) /\ tokens[l.token] # Nothing => tokens[l.token].id = l.id
  /\ \A u \in UserTokens : tokens[u] # Nothing =>
       /\ tokens[u].id <= generated /\ performed[tokens[u].id] = <<>>
       /\ \A v \in UserTokens : tokens[v] # Nothing /\ tokens[v].id = tokens[u].id => u = v
       /\ \A p \in Requests : At(p, {"perform"}) => pages_job[p].id # tokens[u].id

\* A token is with one request at most that performs its action, which nobody did before.
PerformInv ==
  /\ \A p \in Requests : pages_job[p] # Nothing => pages_job[p].id <= generated
  /\ \A p \in Requests : pages_job[p] # Nothing /\ pages_job[p].what # "confirm" /\ pages_job[p].at \notin Owning => pages_job[p].id = 0
  /\ \A p \in Requests : At(p, {"perform"}) /\ pages_job[p].id # 0 =>
       /\ performed[pages_job[p].id] = <<>>
       /\ \A q \in Requests \ {p} : At(q, {"perform"}) => pages_job[q].id # pages_job[p].id
  /\ \A n \in 1..MaxTokens : n > generated => performed[n] = <<>>
  /\ Pages!ConfirmedOnce

PagesIInv == PagesTypeInv /\ RunningInv /\ DigitsInv /\ TokensInv /\ PerformInv

USE DEF Pages!Slots

LEMMA PagesInitInv == Pages!ConversationsConstants /\ Pages!Init => PagesIInv
<1> SUFFICES ASSUME Pages!ConversationsConstants, Pages!Init PROVE PagesIInv
  OBVIOUS
<1>1. pages_conv \in ConvRec /\ (pages_conv.status = "running" => rest = 0)
  <2>1. Pages!New \in ConvRec /\ Pages!New.status = "stopped"
    BY DEF Pages!New, ConvRec
  <2>2. \A b \in BOOLEAN : [Pages!New EXCEPT !.status = "running", !.groups = b] \in ConvRec
    BY <2>1 DEF ConvRec
  <2>3. (pages_kind = "conversation") \in BOOLEAN
    OBVIOUS
  <2> QED
    BY <2>1, <2>2, <2>3 DEF Pages!Init
<1>2. pages_ttl \in Nat /\ rest \in Nat /\ handled = 0
  BY DEF Pages!Init, Pages!ConversationsConstants
<1>3. PagesTypeInv
  <2>1. <<>> \in Seq(CommandRec) /\ <<>> \in Seq(Nat) /\ 0 \in 0..MaxTokens
    BY DEF Pages!ConversationsConstants
  <2> QED
    BY <1>1, <1>2, <2>1 DEF Pages!Init, PagesTypeInv
<1>4. RunningInv
  BY <1>1, <1>2 DEF Pages!Init, RunningInv, Pages!HandledWhileRunning
<1>5. \A l : ~WasSent(l)
  BY DEF Pages!Init, WasSent, In
<1>6. DigitsInv /\ TokensInv /\ PerformInv
  BY <1>5 DEF Pages!Init, DigitsInv, TokensInv, PerformInv, At, IsConfirming, Pages!ConfirmedOnce
<1> QED
  BY <1>3, <1>4, <1>6 DEF PagesIInv

LEMMA Copies ==
  ASSUME NEW c \in ConvRec
  PROVE  /\ \A s \in {"stopped", "starting", "running", "stopping"} :
              Pages!SetStatus(c, s) \in ConvRec /\ Pages!SetStatus(c, s).status = s
         /\ Pages!SetFinished(c) \in ConvRec /\ Pages!SetFinished(c).status = c.status
         /\ \A what \in Pages!Edits : \A d \in Pages!Edited(what, c) : d \in ConvRec /\ d.status = c.status
<1>1. /\ \A s \in {"stopped", "starting", "running", "stopping"} :
           Pages!SetStatus(c, s) \in ConvRec /\ Pages!SetStatus(c, s).status = s
      /\ Pages!SetFinished(c) \in ConvRec /\ Pages!SetFinished(c).status = c.status
  BY DEF Pages!SetStatus, Pages!SetFinished, ConvRec
<1>2. /\ Pages!EditDetail(c) \in ConvRec /\ Pages!EditDetail(c).status = c.status
      /\ Pages!UpdateConfig(c) \in ConvRec /\ Pages!UpdateConfig(c).status = c.status
      /\ \A g \in BOOLEAN : Pages!SetGroups(c, g) \in ConvRec /\ Pages!SetGroups(c, g).status = c.status
  BY DEF Pages!EditDetail, Pages!UpdateConfig, Pages!SetGroups, ConvRec
<1>3. /\ Pages!Edited("edit_detail", c) = {Pages!EditDetail(c)} /\ Pages!Edited("edit", c) = {Pages!UpdateConfig(c)}
      /\ Pages!Edited("edit_groups", c) = {Pages!SetGroups(c, g) : g \in BOOLEAN}
  BY DEF Pages!Edited
<1> QED
  BY <1>1, <1>2, <1>3 DEF Pages!Edits

LEMMA Stays ==
  ASSUME Pages!ConversationsConstants, PagesTypeInv,
         UNCHANGED <<pages_ttl, pages_job, tokens, generated, performed>>,
         pages_conv' \in ConvRec, rest' \in Nat, handled' \in Nat,
         pages_queue' \in Seq(CommandRec), control' \in Seq(CommandRec), links' \subseteq LinkRec,
         pages_cache' \in [conv : ConvRec, age : Nat] \union {Nothing},
         work' \in [Pages!Slots -> [at : {"fetched", "save"}, conv : ConvRec] \union {Nothing}],
         work'["command"] # Nothing => control' # <<>>
  PROVE  PagesTypeInv'
BY DEF PagesTypeInv

\* A request goes on as j.
Continues(p, j) == pages_job' = [pages_job EXCEPT ![p] = j] /\ j \in JobRec \union {Nothing} /\ (j # Nothing => JobIsOfUse(j))

LEMMA Continued ==
  ASSUME PagesTypeInv, NEW p \in Requests, NEW j, Continues(p, j)
  PROVE  /\ pages_job' \in [Requests -> JobRec \union {Nothing}]
         /\ \A q \in Requests : pages_job'[q] # Nothing => JobIsOfUse(pages_job'[q])
         /\ pages_job'[p] = j /\ \A q \in Requests \ {p} : pages_job'[q] = pages_job[q]
<1>1. /\ pages_job' \in [Requests -> JobRec \union {Nothing}]
      /\ pages_job'[p] = j /\ \A q \in Requests \ {p} : pages_job'[q] = pages_job[q]
  BY DEF PagesTypeInv, Continues
<1> QED
  BY <1>1 DEF PagesTypeInv, Continues

\* Where a request may go from where it is.
MayGo(r, x) ==
  /\ x \in {"load", "post", "send", "save", "draw"} \union Drawn \union Confirming
  /\ r.at \in {"load", "get"} => r.what = "confirm" /\ x \in {"load", "get"}
  /\ x \in Drawn => r.at \in Drawn
  /\ r.what = "confirm" => x \in Confirming
  /\ r.what # "confirm" => x \notin {"get", "verify", "delete"}

LEMMA PagesMoves ==
  ASSUME PagesTypeInv, NEW p \in Requests, pages_job[p] # Nothing, NEW x, MayGo(pages_job[p], x), Pages!Goes(p, x)
  PROVE  /\ Continues(p, [pages_job[p] EXCEPT !.at = x])
         /\ pages_job[p] \in JobRec /\ JobIsOfUse(pages_job[p])
<1>1. pages_job[p] \in JobRec /\ JobIsOfUse(pages_job[p])
  BY DEF PagesTypeInv
<1> DEFINE j == [pages_job[p] EXCEPT !.at = x]
<1>2. /\ j \in JobRec /\ j.what = pages_job[p].what /\ j.at = x /\ j.conv = pages_job[p].conv
      /\ j.token = pages_job[p].token /\ j.link = pages_job[p].link
  BY <1>1 DEF JobRec, MayGo
<1>3. JobIsOfUse(j)
  <2> HIDE DEF j
  <2> QED
    BY <1>1, <1>2 DEF JobIsOfUse, MayGo
<1>4. pages_job' = [pages_job EXCEPT ![p] = j]
  BY DEF Pages!Goes, PagesTypeInv
<1> QED
  BY <1>1, <1>2, <1>3, <1>4 DEF Continues

LEMMA EndsWell ==
  ASSUME NEW p \in Requests, Pages!Ends(p)
  PROVE  Continues(p, Nothing)
BY DEF Pages!Ends, Continues

\* What a step of a request may change besides the request.
LEMMA Works ==
  ASSUME Pages!ConversationsConstants, PagesTypeInv, NEW p \in Requests, NEW j, Continues(p, j),
         UNCHANGED <<pages_ttl, Pages!worker, control>>,
         pages_conv' \in ConvRec, rest' \in Nat, pages_queue' \in Seq(CommandRec),
         tokens' \in [UserTokens -> TokenRec \union {Nothing}], generated' \in 0..MaxTokens,
         performed' \in [1..MaxTokens -> Seq(Nat)]
  PROVE  PagesTypeInv'
<1>1. /\ pages_job' \in [Requests -> JobRec \union {Nothing}]
      /\ \A q \in Requests : pages_job'[q] # Nothing => JobIsOfUse(pages_job'[q])
  BY Continued
<1> QED
  BY <1>1 DEF PagesTypeInv, Pages!worker

-----------------------------------------------------------------------------
\* A request that neither draws, stores or mails digits nor performs a confirmed action.
IsQuiet(r, j) ==
  j # Nothing =>
    /\ j.at \notin {"hsetnx", "hmset", "mail"} /\ (j.at = "perform" => j.id = 0)
    /\ j.what = "confirm" =>
         r # Nothing /\ r.what = "confirm" /\ j.link = r.link /\ j.token = r.token /\ j.id = r.id
    /\ j.what # "confirm" /\ j.at \notin Owning => j.id = 0
    /\ j.id # 0 => r # Nothing /\ j.id = r.id

\* What is queued or not: nothing with a link.
IsQueued == pages_queue' = pages_queue \/ \E c \in CommandRec : c.link = Nothing /\ pages_queue' = Append(pages_queue, c)

\* What is stored or not.
IsStored == pages_conv' \in ConvRec /\ rest' \in {0, rest} /\ (pages_conv'.status = "running" => rest' = 0)

Quietly(p) ==
  /\ \E j : Continues(p, j) /\ IsQuiet(pages_job[p], j)
  /\ IsQueued /\ IsStored
  /\ UNCHANGED <<pages_ttl, tokens, generated, performed, Pages!worker, control>>

LEMMA NotStored ==
  ASSUME PagesTypeInv, RunningInv, UNCHANGED <<pages_conv, rest>>
  PROVE  IsStored
BY DEF PagesTypeInv, RunningInv, IsStored

LEMMA NowStored ==
  ASSUME NEW c \in ConvRec, Pages!Stored(c)
  PROVE  IsStored
BY DEF IsStored, Pages!Stored

\* A request moves on to a step that is not one of digits.
LEMMA MovesQuietly ==
  ASSUME PagesTypeInv, PerformInv, NEW p \in Requests, pages_job[p] # Nothing, NEW x, MayGo(pages_job[p], x), Pages!Goes(p, x),
         x \notin {"hsetnx", "hmset", "mail"}, x = "perform" => pages_job[p].what # "confirm",
         pages_job[p].at \in Drawn => x = "resave"
  PROVE  \E j : Continues(p, j) /\ IsQuiet(pages_job[p], j)
<1> DEFINE j == [pages_job[p] EXCEPT !.at = x]
<1>1. Continues(p, j) /\ pages_job[p] \in JobRec /\ JobIsOfUse(pages_job[p])
  BY PagesMoves
<1>2. /\ j.what = pages_job[p].what /\ j.at = x /\ j.token = pages_job[p].token /\ j.link = pages_job[p].link
      /\ j.id = pages_job[p].id
  BY <1>1 DEF JobRec
<1>3. pages_job[p].what # "confirm" /\ pages_job[p].at \notin Owning => pages_job[p].id = 0
  BY DEF PerformInv
<1>4. IsQuiet(pages_job[p], j)
  <2> HIDE DEF j
  <2> QED
    BY <1>1, <1>2, <1>3 DEF IsQuiet, Drawn, Owning
<1> QED
  BY <1>1, <1>4

LEMMA EndsQuietly ==
  ASSUME NEW p \in Requests, Pages!Ends(p)
  PROVE  \E j : Continues(p, j) /\ IsQuiet(pages_job[p], j)
BY EndsWell DEF IsQuiet

LEMMA ManageIsTool ==
  ASSUME NEW p, Pages!Serve(p)
  PROVE  \/ \E what \in Pages!ConversationWork : Pages!Begin(p, what) \/ Pages!Tool(p, what)
         \/ Pages!Load(p) \/ Pages!StartConversation(p) \/ Pages!StopConversation(p) \/ Pages!ArchiveConversation(p) \/ Pages!SaveEdits(p)
         \/ Pages!DispatchCommand(p) \/ Pages!SendOneOffReply(p)
         \/ Pages!PostAction(p) \/ Pages!DrawToken(p) \/ Pages!SetSystemToken(p) \/ Pages!SetExpiry(p)
         \/ Pages!SendTokenUrl(p) \/ Pages!Resave(p)
         \/ \E link \in links : Pages!FollowLink(p, link)
         \/ Pages!GetConfirmation(p) \/ Pages!PostConfirmation(p) \/ Pages!DeleteToken(p) \/ Pages!PerformAction(p)
         \/ Pages!RequestDies(p)
BY DEF Pages!Serve, Pages!ManageConversation, Pages!ManageHttpApi, Pages!StartByTool, Pages!ConversationWork

LEMMA QuietBegins ==
  ASSUME Pages!ConversationsConstants, PagesTypeInv, RunningInv, PerformInv,
         NEW p \in Requests, NEW what \in Pages!ConversationWork, Pages!Begin(p, what) \/ Pages!Tool(p, what)
  PROVE  Quietly(p)
<1> DEFINE r == Pages!Request(what, Nothing, 0, Nothing)
<1>1. r \in JobRec /\ r.what = what /\ r.at = "load" /\ r.id = 0 /\ what # "confirm"
  BY DEF Pages!Request, JobRec, Pages!ConversationWork, Pages!ConversationsConstants, Confirming
<1>2. UNCHANGED <<pages_conv, rest, pages_ttl, tokens, generated, performed, Pages!worker, control, pages_queue>>
  BY DEF Pages!Begin, Pages!Tool, Pages!queues
<1>3. CASE Pages!Begin(p, what)
  <2>1. Continues(p, r)
    BY <1>1, <1>3 DEF Pages!Begin, Continues, JobIsOfUse, Drawn, Owning
  <2>2. IsQuiet(pages_job[p], r)
    <3> HIDE DEF r
    <3> QED
      BY <1>1 DEF IsQuiet
  <2> QED
    BY <1>2, <2>1, <2>2, NotStored DEF Quietly, IsQueued
<1>4. CASE Pages!Tool(p, what)
  <2> DEFINE s == [r EXCEPT !.conv = pages_conv, !.at = "save"]
  <2>1. /\ s \in JobRec /\ s.what = what /\ s.at = "save" /\ s.id = 0 /\ s.conv \in ConvRec
    <3> HIDE DEF r
    <3> QED
      BY <1>1 DEF JobRec, PagesTypeInv
  <2>2. pages_job' = [pages_job EXCEPT ![p] = s]
    BY <1>4 DEF Pages!Tool
  <2>3. IsQuiet(pages_job[p], s) /\ JobIsOfUse(s)
    <3> HIDE DEF s
    <3> QED
      BY <1>1, <2>1 DEF IsQuiet, JobIsOfUse, Drawn, Owning
  <2> QED
    BY <1>2, <2>1, <2>2, <2>3, NotStored DEF Quietly, IsQueued, Continues
<1> QED
  BY <1>3, <1>4

LEMMA QuietLoad ==
  ASSUME Pages!ConversationsConstants, PagesTypeInv, RunningInv, PerformInv, NEW p \in Requests, Pages!Load(p)
  PROVE  Quietly(p)
<1> DEFINE x == CASE pages_job[p].what = "action" -> "post" [] pages_job[p].what = "confirm" -> "verify"
                  [] pages_job[p].what = "reply" -> "send" [] OTHER -> "save"
           j == [pages_job[p] EXCEPT !.conv = pages_conv, !.at = x]
<1>1. pages_job[p] \in JobRec /\ JobIsOfUse(pages_job[p]) /\ pages_job[p].at = "load" /\ pages_job[p] # Nothing
  BY DEF Pages!Load, PagesTypeInv
<1>2. /\ x \in {"post", "verify", "send", "save"} /\ (pages_job[p].what = "confirm" <=> x = "verify")
  OBVIOUS
<1>3. /\ j \in JobRec /\ j.conv = pages_conv /\ j.at = x /\ j.what = pages_job[p].what /\ j.id = pages_job[p].id
      /\ j.token = pages_job[p].token /\ j.link = pages_job[p].link
  <2> HIDE DEF x
  <2> QED
    BY <1>1, <1>2 DEF JobRec, PagesTypeInv, Confirming
<1>4. pages_job' = [pages_job EXCEPT ![p] = j]
      /\ UNCHANGED <<pages_conv, rest, pages_ttl, tokens, generated, performed, Pages!worker, control, pages_queue>>
  BY DEF Pages!Load, PagesTypeInv, Pages!queues
<1>5. pages_job[p].what # "confirm" => pages_job[p].id = 0
  BY <1>1 DEF PerformInv, Drawn, Owning
<1>6. JobIsOfUse(j) /\ IsQuiet(pages_job[p], j)
  <2> HIDE DEF j, x
  <2> QED
    BY <1>1, <1>2, <1>3, <1>5 DEF PagesTypeInv, JobIsOfUse, IsQuiet, Drawn, Owning, Confirming
<1> QED
  BY <1>3, <1>4, <1>6, NotStored DEF Quietly, IsQueued, Continues

LEMMA QuietSaves ==
  ASSUME Pages!ConversationsConstants, PagesTypeInv, RunningInv, PerformInv, NEW p \in Requests,
         \/ Pages!StartConversation(p) \/ Pages!StopConversation(p) \/ Pages!ArchiveConversation(p)
         \/ Pages!SaveEdits(p) \/ Pages!Resave(p)
  PROVE  Quietly(p)
<1>1. /\ pages_job[p] # Nothing /\ pages_job[p] \in JobRec /\ JobIsOfUse(pages_job[p]) /\ pages_job[p].conv \in ConvRec
      /\ pages_job[p].at \in {"save", "resave"} /\ (pages_job[p].at = "save" => pages_job[p].what # "confirm")
  BY DEF Pages!StartConversation, Pages!StopConversation, Pages!ArchiveConversation, Pages!SaveEdits, Pages!Resave, Pages!Saves, PagesTypeInv, JobIsOfUse, Pages!Edits
<1>2. UNCHANGED <<pages_ttl, tokens, generated, performed, Pages!worker, control, pages_queue>>
  BY DEF Pages!StartConversation, Pages!StopConversation, Pages!ArchiveConversation, Pages!SaveEdits, Pages!Resave, Pages!Saves, Pages!queues
<1>3. \E c \in ConvRec : Pages!Stored(c)
  BY <1>1, Copies DEF Pages!StartConversation, Pages!StopConversation, Pages!ArchiveConversation, Pages!SaveEdits, Pages!Resave, Pages!Saves
<1>4. IsStored
  BY <1>3, NowStored
<1>5. \/ Pages!Ends(p)
      \/ Pages!Goes(p, "send") /\ pages_job[p].at = "save" /\ pages_job[p].what # "confirm"
  BY DEF Pages!StartConversation, Pages!StopConversation, Pages!ArchiveConversation, Pages!SaveEdits, Pages!Resave, Pages!Saves
<1>6. pages_job[p].at = "save" /\ pages_job[p].what # "confirm" => MayGo(pages_job[p], "send") /\ pages_job[p].at \notin Drawn
  BY DEF MayGo, Drawn, Owning
<1>7. \E j : Continues(p, j) /\ IsQuiet(pages_job[p], j)
  BY <1>1, <1>5, <1>6, EndsQuietly, MovesQuietly
<1> QED
  BY <1>2, <1>4, <1>7 DEF Quietly, IsQueued

LEMMA QuietRest ==
  ASSUME Pages!ConversationsConstants, PagesTypeInv, RunningInv, PerformInv, NEW p \in Requests,
         \/ Pages!DispatchCommand(p) \/ Pages!SendOneOffReply(p) \/ Pages!PostAction(p)
         \/ Pages!GetConfirmation(p) \/ Pages!PostConfirmation(p) \/ Pages!RequestDies(p)
  PROVE  Quietly(p)
<1>1. pages_job[p] # Nothing /\ pages_job[p] \in JobRec /\ JobIsOfUse(pages_job[p])
  BY DEF Pages!DispatchCommand, Pages!SendOneOffReply, Pages!Sending, Pages!PostAction, Pages!GetConfirmation, Pages!PostConfirmation, Pages!RequestDies, PagesTypeInv
<1>2. UNCHANGED <<pages_conv, rest, pages_ttl, tokens, generated, performed, Pages!worker, control>>
  BY DEF Pages!DispatchCommand, Pages!SendOneOffReply, Pages!Sending, Pages!PostAction, Pages!GetConfirmation, Pages!PostConfirmation, Pages!RequestDies, Pages!queues
<1>3. IsQueued
  <2>1. CASE pages_queue' = pages_queue
    BY <2>1 DEF IsQueued
  <2>2. CASE Pages!DispatchCommand(p)
    <3>1. \A what \in {"start", "stop"} : Pages!Command(what, Nothing) \in CommandRec /\ Pages!Command(what, Nothing).link = Nothing
      BY DEF Pages!Command, CommandRec
    <3> QED
      BY <2>2, <3>1 DEF Pages!DispatchCommand, Pages!Sends, IsQueued
  <2>3. CASE Pages!SendOneOffReply(p)
    <3>1. Pages!Command("send_message", Nothing) \in CommandRec /\ Pages!Command("send_message", Nothing).link = Nothing
      BY DEF Pages!Command, CommandRec
    <3> QED
      BY <2>3, <3>1 DEF Pages!SendOneOffReply, Pages!Sends, IsQueued
  <2> QED
    BY <2>1, <2>2, <2>3 DEF Pages!PostAction, Pages!GetConfirmation, Pages!PostConfirmation, Pages!RequestDies, Pages!queues
<1>4. \E j : Continues(p, j) /\ IsQuiet(pages_job[p], j)
  <2>1. CASE Pages!Ends(p)
    BY <2>1, EndsQuietly
  <2>2. CASE Pages!PostAction(p) /\ ~Pages!Ends(p)
    <3>1. pages_job[p].at = "post" /\ pages_job[p].what # "confirm" /\ (Pages!Goes(p, "draw") \/ Pages!Goes(p, "perform"))
      BY <1>1, <2>2 DEF Pages!PostAction, JobIsOfUse, Confirming
    <3>2. MayGo(pages_job[p], "draw") /\ MayGo(pages_job[p], "perform") /\ pages_job[p].at \notin Drawn
      BY <3>1 DEF MayGo, Drawn, Owning, Confirming
    <3> QED
      BY <1>1, <3>1, <3>2, MovesQuietly
  <2>3. CASE Pages!GetConfirmation(p) /\ ~Pages!Ends(p)
    <3>1. pages_job[p].at = "get" /\ pages_job[p].what = "confirm" /\ Pages!Goes(p, "load")
      BY <1>1, <2>3 DEF Pages!GetConfirmation, JobIsOfUse
    <3>2. MayGo(pages_job[p], "load") /\ pages_job[p].at \notin Drawn
      BY <3>1 DEF MayGo, Drawn, Owning, Confirming
    <3> QED
      BY <1>1, <3>1, <3>2, MovesQuietly
  <2>4. CASE Pages!PostConfirmation(p) /\ ~Pages!Ends(p)
    <3>1. pages_job[p].at = "verify" /\ pages_job[p].what = "confirm" /\ Pages!Goes(p, "delete")
      BY <1>1, <2>4 DEF Pages!PostConfirmation, JobIsOfUse
    <3>2. MayGo(pages_job[p], "delete") /\ pages_job[p].at \notin Drawn
      BY <3>1 DEF MayGo, Drawn, Owning, Confirming
    <3> QED
      BY <1>1, <3>1, <3>2, MovesQuietly
  <2> QED
    BY <2>1, <2>2, <2>3, <2>4 DEF Pages!DispatchCommand, Pages!SendOneOffReply, Pages!Sending, Pages!RequestDies
<1> QED
  BY <1>2, <1>3, <1>4, NotStored DEF Quietly

-----------------------------------------------------------------------------
(* The steps that draw, store, mail and confirm digits.                    *)
LEMMA ConstantsAre ==
  ASSUME Pages!ConversationsConstants
  PROVE  Nothing \notin TokenRec /\ Nothing \notin LinkRec /\ MaxTokens \in Nat
BY DEF Pages!ConversationsConstants, TokenRec, LinkRec

LEMMA Draws ==
  ASSUME PagesTypeInv, PerformInv, NEW p \in Requests, Pages!DrawToken(p)
  PROVE  /\ \E u \in UserTokens :
              LET j == [pages_job[p] EXCEPT !.at = "hsetnx", !.token = u]
              IN /\ Continues(p, j) /\ j.at = "hsetnx" /\ j.token = u /\ j.id = pages_job[p].id /\ j.what = pages_job[p].what
                 /\ tokens[u] = Nothing /\ u \notin {l.token : l \in Pages!Sent}
         /\ pages_job[p] # Nothing /\ pages_job[p].what # "confirm" /\ pages_job[p].id = 0
         /\ UNCHANGED <<pages_conv, rest, pages_ttl, tokens, generated, performed, Pages!worker, pages_queue, control>>
<1>1. pages_job[p] \in JobRec /\ JobIsOfUse(pages_job[p]) /\ pages_job[p].at = "draw" /\ pages_job[p] # Nothing
  BY DEF Pages!DrawToken, PagesTypeInv
<1>2. pages_job[p].what # "confirm" /\ pages_job[p].id = 0
  BY <1>1 DEF JobIsOfUse, Confirming, PerformInv, Drawn, Owning
<1>3. ASSUME NEW u \in UserTokens, pages_job' = [pages_job EXCEPT ![p] = [@ EXCEPT !.at = "hsetnx", !.token = u]]
      PROVE  LET j == [pages_job[p] EXCEPT !.at = "hsetnx", !.token = u]
             IN Continues(p, j) /\ j.at = "hsetnx" /\ j.token = u /\ j.id = pages_job[p].id /\ j.what = pages_job[p].what
  <2> DEFINE j == [pages_job[p] EXCEPT !.at = "hsetnx", !.token = u]
  <2>1. /\ j \in JobRec /\ j.at = "hsetnx" /\ j.token = u /\ j.id = pages_job[p].id /\ j.what = pages_job[p].what
        /\ j.conv = pages_job[p].conv
    BY <1>1 DEF JobRec, Drawn, Owning
  <2>2. JobIsOfUse(j)
    <3> HIDE DEF j
    <3> QED
      BY <1>1, <1>2, <2>1 DEF JobIsOfUse, Drawn, Owning
  <2>3. pages_job' = [pages_job EXCEPT ![p] = j]
    BY <1>3 DEF PagesTypeInv
  <2> QED
    BY <2>1, <2>2, <2>3 DEF Continues
<1> QED
  BY <1>1, <1>2, <1>3 DEF Pages!DrawToken, Pages!queues

LEMMA Stores ==
  ASSUME Pages!ConversationsConstants, PagesTypeInv, NEW p \in Requests, Pages!SetSystemToken(p), ~Pages!Exists(pages_job[p].token)
  PROVE  LET j == [pages_job[p] EXCEPT !.at = "hmset", !.id = generated + 1]
             u == pages_job[p].token
             t == [id |-> generated + 1, expires |-> FALSE]
         IN /\ Continues(p, j) /\ j.at = "hmset" /\ j.token = u /\ j.id = generated + 1 /\ j.what = pages_job[p].what
            /\ pages_job[p] # Nothing /\ pages_job[p].at = "hsetnx" /\ pages_job[p].what # "confirm"
            /\ u \in UserTokens /\ tokens[u] = Nothing
            /\ generated' = generated + 1 /\ generated + 1 \in 1..MaxTokens
            /\ t \in TokenRec /\ t.id = generated + 1 /\ tokens' = [tokens EXCEPT ![u] = t]
            /\ UNCHANGED <<pages_conv, rest, pages_ttl, performed, Pages!worker, pages_queue, control>>
<1>1. pages_job[p] \in JobRec /\ JobIsOfUse(pages_job[p]) /\ pages_job[p].at = "hsetnx" /\ pages_job[p] # Nothing
  BY DEF Pages!SetSystemToken, PagesTypeInv
<1>2. pages_job[p].what # "confirm" /\ pages_job[p].token \in UserTokens /\ pages_job[p].conv \in ConvRec
  BY <1>1 DEF JobIsOfUse, Drawn, Owning
<1>3. generated \in 0..MaxTokens /\ generated < MaxTokens /\ generated + 1 \in 1..MaxTokens
  BY ConstantsAre DEF Pages!SetSystemToken, PagesTypeInv
<1> DEFINE j == [pages_job[p] EXCEPT !.at = "hmset", !.id = generated + 1]
<1>4. /\ j \in JobRec /\ j.at = "hmset" /\ j.token = pages_job[p].token /\ j.id = generated + 1
      /\ j.what = pages_job[p].what /\ j.conv = pages_job[p].conv
  <2>1. generated + 1 \in 0..MaxTokens /\ generated + 1 \in Nat
    BY <1>3, ConstantsAre
  <2> QED
    BY <1>1, <2>1 DEF JobRec, Drawn, Owning
<1>5. JobIsOfUse(j)
  <2> HIDE DEF j
  <2> QED
    BY <1>2, <1>4 DEF JobIsOfUse, Drawn, Owning
<1>6. pages_job' = [pages_job EXCEPT ![p] = j]
  BY DEF Pages!SetSystemToken, PagesTypeInv
<1>7. [id |-> generated + 1, expires |-> FALSE] \in TokenRec
  BY <1>3 DEF TokenRec
<1>8. tokens[pages_job[p].token] = Nothing
  BY DEF Pages!Exists
<1> HIDE DEF j
<1>9. Continues(p, j)
  BY <1>4, <1>5, <1>6 DEF Continues
<1> QED
  BY <1>1, <1>2, <1>3, <1>4, <1>7, <1>8, <1>9 DEF Pages!SetSystemToken, Pages!queues, j

LEMMA FindsTaken ==
  ASSUME Pages!ConversationsConstants, PagesTypeInv, PerformInv, NEW p \in Requests, Pages!SetSystemToken(p), Pages!Exists(pages_job[p].token)
  PROVE  LET j == [pages_job[p] EXCEPT !.at = "draw"]
         IN /\ Continues(p, j) /\ j.at = "draw" /\ j.id = pages_job[p].id /\ j.what = pages_job[p].what
            /\ pages_job[p] # Nothing /\ pages_job[p].at = "hsetnx" /\ pages_job[p].what # "confirm"
            /\ UNCHANGED <<pages_conv, rest, pages_ttl, tokens, generated, performed, Pages!worker, pages_queue, control>>
<1>1. pages_job[p] \in JobRec /\ JobIsOfUse(pages_job[p]) /\ pages_job[p].at = "hsetnx" /\ pages_job[p] # Nothing
  BY DEF Pages!SetSystemToken, PagesTypeInv
<1>2. pages_job[p].what # "confirm" /\ Pages!Goes(p, "draw")
  BY <1>1 DEF JobIsOfUse, Drawn, Owning, Pages!SetSystemToken
<1>3. MayGo(pages_job[p], "draw")
  BY <1>1, <1>2 DEF MayGo, Drawn, Owning, Confirming
<1>4. Continues(p, [pages_job[p] EXCEPT !.at = "draw"])
  BY <1>1, <1>2, <1>3, PagesMoves
<1>5. LET j == [pages_job[p] EXCEPT !.at = "draw"]
      IN j.at = "draw" /\ j.id = pages_job[p].id /\ j.what = pages_job[p].what
  BY <1>1 DEF JobRec
<1> QED
  BY <1>1, <1>2, <1>4, <1>5 DEF Pages!SetSystemToken, Pages!queues

LEMMA Expires ==
  ASSUME Pages!ConversationsConstants, PagesTypeInv, NEW p \in Requests, Pages!SetExpiry(p), tokens[pages_job[p].token] # Nothing
  PROVE  LET j == [pages_job[p] EXCEPT !.at = "mail"]
             u == pages_job[p].token
             t == [tokens[u] EXCEPT !.expires = TRUE]
         IN /\ Continues(p, j) /\ j.at = "mail" /\ j.token = u /\ j.id = pages_job[p].id /\ j.what = pages_job[p].what
            /\ pages_job[p] # Nothing /\ pages_job[p].at = "hmset" /\ pages_job[p].what # "confirm" /\ u \in UserTokens
            /\ t \in TokenRec /\ t.id = tokens[u].id /\ tokens' = [tokens EXCEPT ![u] = t]
            /\ UNCHANGED <<pages_conv, rest, pages_ttl, generated, performed, Pages!worker, pages_queue, control>>
<1>1. pages_job[p] \in JobRec /\ JobIsOfUse(pages_job[p]) /\ pages_job[p].at = "hmset" /\ pages_job[p] # Nothing
  BY DEF Pages!SetExpiry, PagesTypeInv
<1>2. pages_job[p].what # "confirm" /\ pages_job[p].token \in UserTokens
  BY <1>1 DEF JobIsOfUse, Drawn, Owning
<1>3. MayGo(pages_job[p], "mail") /\ Pages!Goes(p, "mail")
  BY <1>1, <1>2 DEF MayGo, Drawn, Owning, Confirming, Pages!SetExpiry
<1>4. Continues(p, [pages_job[p] EXCEPT !.at = "mail"])
  BY <1>1, <1>3, PagesMoves
<1>5. LET j == [pages_job[p] EXCEPT !.at = "mail"]
      IN j.at = "mail" /\ j.token = pages_job[p].token /\ j.id = pages_job[p].id /\ j.what = pages_job[p].what
  BY <1>1 DEF JobRec
<1>6. tokens[pages_job[p].token] \in TokenRec
  BY <1>2 DEF PagesTypeInv
<1>7. LET t == [tokens[pages_job[p].token] EXCEPT !.expires = TRUE]
      IN t \in TokenRec /\ t.id = tokens[pages_job[p].token].id
  BY <1>6 DEF TokenRec
<1>8. tokens' = [tokens EXCEPT ![pages_job[p].token] = [tokens[pages_job[p].token] EXCEPT !.expires = TRUE]]
  BY <1>2 DEF Pages!SetExpiry, PagesTypeInv
<1> QED
  BY <1>1, <1>2, <1>4, <1>5, <1>7, <1>8 DEF Pages!SetExpiry, Pages!queues

LEMMA Mails ==
  ASSUME Pages!ConversationsConstants, PagesTypeInv, NEW p \in Requests, Pages!SendTokenUrl(p), pages_job[p].id # 0
  PROVE  LET j == [pages_job[p] EXCEPT !.at = "resave"]
             l == Pages!Link(pages_job[p].token, pages_job[p].id)
         IN /\ Continues(p, j) /\ j.at = "resave" /\ j.id = pages_job[p].id /\ j.what = pages_job[p].what
            /\ pages_job[p] # Nothing /\ pages_job[p].at = "mail" /\ pages_job[p].what # "confirm"
            /\ l \in LinkRec /\ l.token = pages_job[p].token /\ l.id = pages_job[p].id
            /\ Pages!Command("send_message", l) \in CommandRec /\ Pages!Command("send_message", l).link = l
            /\ pages_queue' = Append(pages_queue, Pages!Command("send_message", l))
            /\ UNCHANGED <<pages_conv, rest, pages_ttl, tokens, generated, performed, Pages!worker, control>>
<1>1. pages_job[p] \in JobRec /\ JobIsOfUse(pages_job[p]) /\ pages_job[p].at = "mail" /\ pages_job[p] # Nothing
  BY DEF Pages!SendTokenUrl, PagesTypeInv
<1>2. pages_job[p].what # "confirm" /\ pages_job[p].token \in UserTokens /\ pages_job[p].id \in 1..MaxTokens
  BY <1>1, ConstantsAre DEF JobIsOfUse, Drawn, Owning, JobRec
<1>3. MayGo(pages_job[p], "resave") /\ Pages!Goes(p, "resave")
  BY <1>1, <1>2 DEF MayGo, Drawn, Owning, Confirming, Pages!SendTokenUrl
<1>4. Continues(p, [pages_job[p] EXCEPT !.at = "resave"])
  BY <1>1, <1>3, PagesMoves
<1>5. LET j == [pages_job[p] EXCEPT !.at = "resave"]
      IN j.at = "resave" /\ j.id = pages_job[p].id /\ j.what = pages_job[p].what
  BY <1>1 DEF JobRec
<1>6. LET l == Pages!Link(pages_job[p].token, pages_job[p].id)
      IN /\ l \in LinkRec /\ l.token = pages_job[p].token /\ l.id = pages_job[p].id
         /\ Pages!Command("send_message", l) \in CommandRec /\ Pages!Command("send_message", l).link = l
  BY <1>2 DEF Pages!Link, LinkRec, Pages!Command, CommandRec
<1> QED
  BY <1>1, <1>2, <1>4, <1>5, <1>6 DEF Pages!SendTokenUrl, Pages!Sends, Pages!queues

LEMMA Follows ==
  ASSUME Pages!ConversationsConstants, PagesTypeInv, NEW p \in Requests, NEW link \in links, Pages!FollowLink(p, link)
  PROVE  LET j == [Pages!Request("confirm", link.token, tokens[link.token].id, link) EXCEPT !.at = "get"]
         IN /\ Continues(p, j) /\ j.at = "get" /\ j.token = link.token /\ j.link = link
            /\ j.id = tokens[link.token].id /\ j.what = "confirm"
            /\ link \in LinkRec /\ tokens[link.token] # Nothing
            /\ UNCHANGED <<pages_conv, rest, pages_ttl, tokens, generated, performed, Pages!worker, pages_queue, control>>
<1>1. link \in LinkRec /\ link.token \in UserTokens
  BY DEF PagesTypeInv, LinkRec
<1>2. tokens[link.token] # Nothing /\ tokens[link.token].id \in 1..MaxTokens
  BY <1>1 DEF Pages!FollowLink, PagesTypeInv, TokenRec
<1> DEFINE r == Pages!Request("confirm", link.token, tokens[link.token].id, link)
           j == [r EXCEPT !.at = "get"]
<1>3. j \in JobRec /\ j.at = "get" /\ j.token = link.token /\ j.link = link
      /\ j.id = tokens[link.token].id /\ j.what = "confirm"
  BY <1>1, <1>2, ConstantsAre DEF Pages!Request, JobRec, Confirming
<1>4. JobIsOfUse(j)
  <2> HIDE DEF j
  <2> QED
    BY <1>1, <1>3 DEF JobIsOfUse, Drawn, Owning, Confirming
<1>5. pages_job' = [pages_job EXCEPT ![p] = j]
  BY DEF Pages!FollowLink
<1> HIDE DEF j
<1>6. Continues(p, j)
  BY <1>3, <1>4, <1>5 DEF Continues
<1> QED
  BY <1>1, <1>2, <1>3, <1>6 DEF Pages!FollowLink, Pages!queues, j

LEMMA Deletes ==
  ASSUME Pages!ConversationsConstants, PagesTypeInv, NEW p \in Requests, Pages!DeleteToken(p)
  PROVE  /\ pages_job[p] # Nothing /\ pages_job[p].what = "confirm" /\ pages_job[p].token \in UserTokens
         /\ tokens' = [tokens EXCEPT ![pages_job[p].token] = Nothing]
         /\ IF Pages!Deleted(pages_job[p].token)
            THEN LET j == [pages_job[p] EXCEPT !.at = "perform"]
                 IN /\ Continues(p, j) /\ j.at = "perform" /\ j.id = pages_job[p].id /\ j.what = "confirm"
                    /\ j.token = pages_job[p].token /\ j.link = pages_job[p].link
            ELSE Continues(p, Nothing)
         /\ UNCHANGED <<pages_conv, rest, pages_ttl, generated, performed, Pages!worker, pages_queue, control>>
<1>1. pages_job[p] \in JobRec /\ JobIsOfUse(pages_job[p]) /\ pages_job[p].at = "delete" /\ pages_job[p] # Nothing
  BY DEF Pages!DeleteToken, PagesTypeInv
<1>2. pages_job[p].what = "confirm" /\ pages_job[p].token \in UserTokens
  BY <1>1 DEF JobIsOfUse, LinkRec
<1>3. ASSUME Pages!Deleted(pages_job[p].token)
      PROVE  LET j == [pages_job[p] EXCEPT !.at = "perform"]
             IN /\ Continues(p, j) /\ j.at = "perform" /\ j.id = pages_job[p].id /\ j.what = "confirm"
                /\ j.token = pages_job[p].token /\ j.link = pages_job[p].link
  <2>1. MayGo(pages_job[p], "perform") /\ Pages!Goes(p, "perform")
    BY <1>1, <1>2, <1>3 DEF MayGo, Drawn, Owning, Confirming, Pages!DeleteToken
  <2>2. Continues(p, [pages_job[p] EXCEPT !.at = "perform"])
    BY <1>1, <2>1, PagesMoves
  <2>3. LET j == [pages_job[p] EXCEPT !.at = "perform"]
        IN j.at = "perform" /\ j.id = pages_job[p].id /\ j.what = pages_job[p].what /\ j.token = pages_job[p].token /\ j.link = pages_job[p].link
    BY <1>1 DEF JobRec, Confirming
  <2> QED
    BY <1>2, <2>2, <2>3
<1>4. ~Pages!Deleted(pages_job[p].token) => Continues(p, Nothing)
  BY EndsWell DEF Pages!DeleteToken
<1> QED
  BY <1>1, <1>2, <1>3, <1>4 DEF Pages!DeleteToken, Pages!queues

LEMMA Performs ==
  ASSUME Pages!ConversationsConstants, PagesTypeInv, NEW p \in Requests, Pages!PerformAction(p)
  PROVE  /\ pages_job[p] # Nothing /\ pages_job[p].at = "perform" /\ pages_job[p].id \in 0..MaxTokens
         /\ Continues(p, Nothing) /\ IsQueued
         /\ \/ performed' = performed
            \/ pages_job[p].id # 0 /\ performed' = [performed EXCEPT ![pages_job[p].id] = Append(@, pages_job[p].link.id)]
         /\ UNCHANGED <<pages_conv, rest, pages_ttl, tokens, generated, Pages!worker, control>>
<1>1. pages_job[p] \in JobRec /\ pages_job[p].at = "perform" /\ pages_job[p] # Nothing /\ pages_job[p].id \in 0..MaxTokens
  BY DEF Pages!PerformAction, PagesTypeInv, JobRec
<1>2. Continues(p, Nothing)
  BY EndsWell DEF Pages!PerformAction
<1>3. Pages!Command("bulk_send", Nothing) \in CommandRec /\ Pages!Command("bulk_send", Nothing).link = Nothing
  BY DEF Pages!Command, CommandRec
<1>4. IsQueued
  BY <1>3 DEF Pages!PerformAction, Pages!Sends, IsQueued
<1> QED
  BY <1>1, <1>2, <1>4 DEF Pages!PerformAction

-----------------------------------------------------------------------------
(* The worker: what a step of it does to the types and to its copies.      *)
WorkRec == [at : {"fetched", "save"}, conv : ConvRec]

LEMMA Mutates ==
  ASSUME PagesTypeInv, RunningInv, NEW c \in ConvRec, NEW age \in Nat, age <= pages_ttl, NEW since \in Nat,
         pages_cache' = Pages!Mutated(c, age), c.status = "running" => since <= age
  PROVE  /\ pages_cache' \in [conv : ConvRec, age : Nat] \union {Nothing}
         /\ pages_cache' # Nothing => pages_cache'.age <= pages_ttl /\ (pages_cache'.conv.status = "running" => since <= pages_cache'.age)
<1>1. CASE pages_ttl = 0
  BY <1>1 DEF Pages!Mutated
<1>2. CASE pages_ttl # 0
  <2>1. pages_cache' = [conv |-> c, age |-> age]
    BY <1>2 DEF Pages!Mutated
  <2> QED
    BY <2>1
<1> QED
  BY <1>1, <1>2

LEMMA Acknowledges ==
  ASSUME PagesTypeInv, control # <<>>, Pages!Acknowledge
  PROVE  /\ control' \in Seq(CommandRec) /\ (\A c : In(control', c) => In(control, c))
         /\ work' \in [Pages!Slots -> WorkRec \union {Nothing}] /\ work'["command"] = Nothing
         /\ work'["message"] = work["message"]
<1>1. control \in Seq(CommandRec) /\ control' = Tail(control)
  BY DEF PagesTypeInv, Pages!Acknowledge
<1>2. \A c : In(control, c) <=> Head(control) = c \/ In(Tail(control), c)
  BY <1>1, InTail
<1> QED
  BY <1>1, <1>2 DEF PagesTypeInv, Pages!Acknowledge, WorkRec

LEMMA Handles ==
  ASSUME Pages!ConversationsConstants, PagesTypeInv, RunningInv, NEW s \in Pages!Slots,
         NEW c \in ConvRec, NEW age \in Nat, age <= pages_ttl, c.status = "running" => rest <= age,
         s = "command" => control # <<>>, Pages!Handle(s, c, age)
  PROVE  /\ PagesTypeInv' /\ RunningInv'
         /\ links \subseteq links' /\ \A l \in LinkRec : WasSent(l)' => WasSent(l)
<1>0. /\ pages_ttl \in Nat /\ rest \in Nat /\ handled \in Nat /\ pages_conv \in ConvRec /\ links \subseteq LinkRec
      /\ control \in Seq(CommandRec) /\ pages_queue \in Seq(CommandRec)
      /\ work \in [Pages!Slots -> WorkRec \union {Nothing}]
      /\ work["command"] # Nothing => control # <<>>
  BY DEF PagesTypeInv, WorkRec
<1>1. UNCHANGED <<pages_ttl, pages_conv, pages_job, tokens, generated, performed, pages_queue>>
  BY DEF Pages!Handle, Pages!web
<1>2. s = "command" => Pages!Name(s) \in {"start", "stop", "send_message", "bulk_send"}
  <2>1. ASSUME control # <<>> PROVE Head(control).name \in {"start", "stop", "send_message", "bulk_send"}
    <3>1. Head(control) \in CommandRec
      BY <1>0, <2>1
    <3> QED
      BY <3>1 DEF CommandRec
  <2> QED
    BY <2>1 DEF Pages!Name
<1>3. s = "message" <=> Pages!Name(s) = "message"
  BY <1>2 DEF Pages!Name
<1>4. ASSUME NEW from \in {"starting", "stopping"}, NEW to \in {"running", "stopped"},
             s = "command", Pages!ChangeStatus(c, age, from, to)
      PROVE  PagesTypeInv' /\ RunningInv' /\ links' = links /\ (\A l \in LinkRec : WasSent(l)' => WasSent(l))
  <2>1. CASE c.status # from
    <3>1. Pages!Acknowledge /\ pages_cache' = Pages!Mutated(c, age) /\ UNCHANGED <<rest, handled, links>>
      BY <1>4, <2>1 DEF Pages!ChangeStatus
    <3>2. /\ control' \in Seq(CommandRec) /\ (\A d : In(control', d) => In(control, d))
          /\ work' \in [Pages!Slots -> WorkRec \union {Nothing}] /\ work'["command"] = Nothing
          /\ work'["message"] = work["message"]
      BY <1>4, <3>1, Acknowledges
    <3>3. /\ pages_cache' \in [conv : ConvRec, age : Nat] \union {Nothing}
          /\ pages_cache' # Nothing => pages_cache'.age <= pages_ttl /\ (pages_cache'.conv.status = "running" => rest <= pages_cache'.age)
      BY <1>0, <3>1, Mutates
    <3>4. PagesTypeInv'
      BY <1>0, <1>1, <3>1, <3>2, <3>3, Stays DEF WorkRec
    <3>5. RunningInv'
      BY <1>1, <3>1, <3>2, <3>3 DEF RunningInv, Pages!HandledWhileRunning
    <3> QED
      BY <1>1, <3>1, <3>2, <3>4, <3>5 DEF WasSent
  <2>2. CASE c.status = from
    <3> DEFINE d == Pages!SetStatus(c, to)
               since == IF to = "running" THEN 0 ELSE rest
               w == [at |-> "save", conv |-> d]
    <3>1. /\ pages_cache' = Pages!Mutated(d, age) /\ rest' = since /\ UNCHANGED <<control, handled, links>>
          /\ work' = [work EXCEPT !["command"] = w]
      BY <1>4, <2>2 DEF Pages!ChangeStatus
    <3>2. d \in ConvRec /\ d.status = to /\ since \in Nat /\ (d.status = "running" => since = 0) /\ since <= rest
      BY <1>0, Copies
    <3>3. w \in WorkRec /\ w.at = "save"
      BY <3>2 DEF WorkRec
    <3> HIDE DEF d, since, w
    <3>4. /\ pages_cache' \in [conv : ConvRec, age : Nat] \union {Nothing}
          /\ pages_cache' # Nothing => pages_cache'.age <= pages_ttl /\ (pages_cache'.conv.status = "running" => since <= pages_cache'.age)
      BY <1>0, <3>1, <3>2, Mutates
    <3>5. /\ work' \in [Pages!Slots -> WorkRec \union {Nothing}] /\ work'["command"] = w
          /\ work'["message"] = work["message"]
      BY <1>0, <3>1, <3>3
    <3>6. PagesTypeInv'
      BY <1>0, <1>1, <1>4, <3>1, <3>2, <3>4, <3>5, Stays DEF WorkRec
    <3>7. rest = 0 => since = 0
      BY <1>0, <3>2
    <3>8. RunningInv'
      BY <1>0, <1>1, <3>1, <3>3, <3>4, <3>5, <3>7 DEF RunningInv, Pages!HandledWhileRunning
    <3> QED
      BY <1>1, <3>1, <3>6, <3>8 DEF WasSent
  <2> QED
    BY <2>1, <2>2
<1>5. CASE Pages!Name(s) = "start"
  BY <1>2, <1>3, <1>4, <1>5 DEF Pages!Handle
<1>6. CASE Pages!Name(s) = "stop"
  BY <1>2, <1>3, <1>4, <1>6 DEF Pages!Handle
<1>7. CASE Pages!Name(s) = "message"
  <2>1. /\ pages_cache' = Pages!Mutated(c, age) /\ work' = [work EXCEPT !["message"] = Nothing]
        /\ handled' = (IF c.status = "running" THEN rest ELSE handled) /\ UNCHANGED <<control, rest, links>>
    BY <1>7 DEF Pages!Handle, Pages!HandleMessage
  <2>2. /\ pages_cache' \in [conv : ConvRec, age : Nat] \union {Nothing}
        /\ pages_cache' # Nothing => pages_cache'.age <= pages_ttl /\ (pages_cache'.conv.status = "running" => rest <= pages_cache'.age)
    BY <1>0, <2>1, Mutates
  <2>3. /\ work' \in [Pages!Slots -> WorkRec \union {Nothing}] /\ work'["message"] = Nothing
        /\ work'["command"] = work["command"]
    BY <1>0, <2>1
  <2>4. handled' \in Nat /\ handled' <= pages_ttl
    BY <1>0, <2>1 DEF RunningInv, Pages!HandledWhileRunning
  <2>5. PagesTypeInv'
    BY <1>0, <1>1, <2>1, <2>2, <2>3, <2>4, Stays DEF WorkRec
  <2>6. RunningInv'
    BY <1>1, <2>1, <2>2, <2>3, <2>4 DEF RunningInv, Pages!HandledWhileRunning
  <2> QED
    BY <1>1, <2>1, <2>5, <2>6 DEF WasSent
<1>8. CASE Pages!Name(s) \in {"send_message", "bulk_send"}
  <2>1. /\ pages_cache' = Pages!Mutated(c, age) /\ Pages!Acknowledge /\ UNCHANGED <<rest, handled>>
        /\ links' = links \union ({Head(control).link} \ {Nothing})
    BY <1>8 DEF Pages!Handle, Pages!SendMessage
  <2>0. s = "command"
    BY <1>3, <1>8
  <2>2. /\ pages_cache' \in [conv : ConvRec, age : Nat] \union {Nothing}
        /\ pages_cache' # Nothing => pages_cache'.age <= pages_ttl /\ (pages_cache'.conv.status = "running" => rest <= pages_cache'.age)
    BY <1>0, <2>1, Mutates
  <2>3. /\ control' \in Seq(CommandRec) /\ (\A d : In(control', d) => In(control, d))
        /\ work' \in [Pages!Slots -> WorkRec \union {Nothing}] /\ work'["command"] = Nothing
        /\ work'["message"] = work["message"]
    BY <2>0, <2>1, Acknowledges
  <2>4. /\ Head(control) \in CommandRec /\ In(control, Head(control))
        /\ Head(control).link \in LinkRec \union {Nothing}
    <3>1. Head(control) \in CommandRec /\ In(control, Head(control))
      BY <1>0, <2>0 DEF In
    <3> QED
      BY <3>1 DEF CommandRec
  <2>5. PagesTypeInv'
    BY <1>0, <1>1, <2>1, <2>2, <2>3, <2>4, Stays DEF WorkRec
  <2>6. RunningInv'
    BY <1>1, <2>1, <2>2, <2>3 DEF RunningInv, Pages!HandledWhileRunning
  <2>7. \A l \in LinkRec : WasSent(l)' => WasSent(l)
    BY <1>1, <2>1, <2>3, <2>4 DEF WasSent
  <2> QED
    BY <2>1, <2>5, <2>6, <2>7
<1> QED
  BY <1>2, <1>3, <1>5, <1>6, <1>7, <1>8

\* A step of the worker or of its queues: no request notices it.
LEMMA WorkerSteps ==
  ASSUME Pages!ConversationsConstants, PagesTypeInv, RunningInv,
         \/ Pages!Dispatch \/ Pages!SaveStatus \/ Pages!WorkerDies \/ Pages!Evict \/ Pages!Tick
         \/ \E s \in Pages!Slots : Pages!GetCached(s) \/ Pages!Fetch(s) \/ Pages!Fetched(s)
  PROVE  /\ PagesTypeInv' /\ RunningInv' /\ UNCHANGED <<pages_job, tokens, generated, performed>>
         /\ links \subseteq links' /\ \A l \in LinkRec : WasSent(l)' => WasSent(l)
<1>0. /\ pages_ttl \in Nat /\ rest \in Nat /\ handled \in Nat /\ pages_conv \in ConvRec /\ links \subseteq LinkRec
      /\ control \in Seq(CommandRec) /\ pages_queue \in Seq(CommandRec)
      /\ pages_cache \in [conv : ConvRec, age : Nat] \union {Nothing}
      /\ work \in [Pages!Slots -> WorkRec \union {Nothing}]
      /\ work["command"] # Nothing => control # <<>>
  BY DEF PagesTypeInv, WorkRec
<1>1. CASE Pages!Dispatch
  <2>1. /\ UNCHANGED <<pages_ttl, pages_conv, rest, pages_job, tokens, generated, performed, pages_cache, work, handled, links>>
        /\ pages_queue # <<>> /\ control' = Append(control, Head(pages_queue)) /\ pages_queue' \in {pages_queue, Tail(pages_queue)}
    BY <1>1 DEF Pages!Dispatch, Pages!web, Pages!worker
  <2>2. Head(pages_queue) \in CommandRec /\ Tail(pages_queue) \in Seq(CommandRec) /\ control' \in Seq(CommandRec) /\ control' # <<>>
    BY <1>0, <2>1
  <2>3. \A c : In(control', c) => In(control, c) \/ Head(pages_queue) = c
    BY <1>0, <2>1, <2>2, InAppend
  <2>4. \A c : In(pages_queue, c) <=> Head(pages_queue) = c \/ In(Tail(pages_queue), c)
    BY <1>0, <2>1, InTail
  <2>5. PagesTypeInv'
    BY <1>0, <2>1, <2>2, Stays DEF WorkRec
  <2>6. RunningInv'
    BY <2>1 DEF RunningInv, Pages!HandledWhileRunning
  <2>7. \A l \in LinkRec : WasSent(l)' => WasSent(l)
    BY <2>1, <2>3, <2>4 DEF WasSent
  <2> QED
    BY <2>1, <2>5, <2>6, <2>7
<1>2. CASE Pages!SaveStatus
  <2> DEFINE c == work["command"].conv
  <2>1. /\ UNCHANGED <<pages_ttl, pages_job, tokens, generated, performed, pages_queue, pages_cache, handled, links>>
        /\ work["command"] # Nothing /\ Pages!Acknowledge /\ Pages!Stored(c)
    BY <1>2 DEF Pages!SaveStatus, Pages!web
  <2>2. c \in ConvRec
    BY <1>0, <2>1 DEF WorkRec
  <2>3. pages_conv' \in ConvRec /\ rest' \in {0, rest} /\ (pages_conv'.status = "running" => rest' = 0)
    BY <2>1, <2>2, NowStored DEF IsStored
  <2>4. /\ control' \in Seq(CommandRec) /\ (\A d : In(control', d) => In(control, d))
        /\ work' \in [Pages!Slots -> WorkRec \union {Nothing}] /\ work'["command"] = Nothing
        /\ work'["message"] = work["message"]
    BY <1>0, <2>1, Acknowledges
  <2>5. PagesTypeInv'
    BY <1>0, <2>1, <2>3, <2>4, Stays DEF WorkRec
  <2>6. rest' <= rest
    BY <1>0, <2>3
  <2>7. RunningInv'
    BY <1>0, <2>1, <2>3, <2>4, <2>6 DEF RunningInv, Pages!HandledWhileRunning
  <2> QED
    BY <2>1, <2>4, <2>5, <2>7 DEF WasSent
<1>3. CASE Pages!WorkerDies
  <2>1. /\ UNCHANGED <<pages_ttl, pages_conv, rest, pages_job, tokens, generated, performed, pages_queue, control, handled, links>>
        /\ work' = [s \in Pages!Slots |-> Nothing] /\ pages_cache' = Nothing
    BY <1>3 DEF Pages!WorkerDies, Pages!web, Pages!queues
  <2>2. PagesTypeInv'
    BY <1>0, <2>1, Stays
  <2>3. RunningInv'
    BY <2>1 DEF RunningInv, Pages!HandledWhileRunning
  <2> QED
    BY <2>1, <2>2, <2>3 DEF WasSent
<1>4. CASE Pages!Evict
  <2>1. /\ UNCHANGED <<pages_ttl, pages_conv, rest, pages_job, tokens, generated, performed, pages_queue, control, work, handled, links>>
        /\ pages_cache' = Nothing
    BY <1>4 DEF Pages!Evict, Pages!web, Pages!queues
  <2>2. PagesTypeInv'
    BY <1>0, <2>1, Stays DEF WorkRec
  <2>3. RunningInv'
    BY <2>1 DEF RunningInv, Pages!HandledWhileRunning
  <2> QED
    BY <2>1, <2>2, <2>3 DEF WasSent
<1>5. CASE Pages!Tick
  <2>1. /\ UNCHANGED <<pages_ttl, pages_conv, pages_job, tokens, generated, performed, pages_queue, control, work, handled, links>>
        /\ pages_cache # Nothing => pages_cache.age < pages_ttl
        /\ \A s \in Pages!Slots : work[s] # Nothing => work[s].at # "fetched"
        /\ pages_cache' = IF pages_cache = Nothing THEN Nothing ELSE [pages_cache EXCEPT !.age = @ + 1]
        /\ rest' = IF pages_conv.status = "running" \/ rest > pages_ttl THEN rest ELSE rest + 1
    BY <1>5 DEF Pages!Tick, Pages!web, Pages!queues, Pages!Busy
  <2>2. /\ pages_cache' \in [conv : ConvRec, age : Nat] \union {Nothing}
        /\ pages_cache' # Nothing => pages_cache # Nothing /\ pages_cache'.age = pages_cache.age + 1 /\ pages_cache'.conv = pages_cache.conv
    BY <1>0, <2>1
  <2>3. rest' \in Nat /\ rest' <= rest + 1 /\ (pages_conv.status = "running" => rest' = rest)
    BY <1>0, <2>1
  <2>4. PagesTypeInv'
    BY <1>0, <2>1, <2>2, <2>3, Stays DEF WorkRec
  <2>5. RunningInv'
    BY <1>0, <2>1, <2>2, <2>3 DEF RunningInv, Pages!HandledWhileRunning
  <2> QED
    BY <2>1, <2>4, <2>5 DEF WasSent
<1>6. ASSUME NEW s \in Pages!Slots, Pages!GetCached(s)
      PROVE  PagesTypeInv' /\ RunningInv' /\ links \subseteq links' /\ \A l \in LinkRec : WasSent(l)' => WasSent(l)
  BY <1>0, <1>6, Handles DEF Pages!GetCached, Pages!Received, RunningInv
<1>7. ASSUME NEW s \in Pages!Slots, Pages!Fetch(s) PROVE PagesTypeInv' /\ RunningInv' /\ UNCHANGED <<pages_queue, control, links>>
  <2>1. /\ UNCHANGED <<pages_ttl, pages_conv, rest, pages_job, tokens, generated, performed, pages_queue, control, pages_cache, handled, links>>
        /\ s = "command" => control # <<>>
        /\ work' = [work EXCEPT ![s] = [at |-> "fetched", conv |-> pages_conv]]
    BY <1>7 DEF Pages!Fetch, Pages!Received, Pages!web, Pages!queues
  <2>2. /\ work' \in [Pages!Slots -> WorkRec \union {Nothing}]
        /\ \A i \in Pages!Slots : work'[i] = work[i] \/ (i = s /\ work'[i] = [at |-> "fetched", conv |-> pages_conv])
    BY <1>0, <2>1 DEF WorkRec
  <2>3. PagesTypeInv'
    BY <1>0, <2>1, <2>2, Stays DEF WorkRec
  <2>4. RunningInv'
    BY <2>1, <2>2 DEF RunningInv, Pages!HandledWhileRunning
  <2> QED
    BY <2>1, <2>3, <2>4
<1>8. ASSUME NEW s \in Pages!Slots, Pages!Fetched(s)
      PROVE  PagesTypeInv' /\ RunningInv' /\ links \subseteq links' /\ \A l \in LinkRec : WasSent(l)' => WasSent(l)
  <2>1. work[s] # Nothing /\ work[s].at = "fetched" /\ work[s].conv \in ConvRec /\ Pages!Handle(s, work[s].conv, Pages!Age)
    BY <1>0, <1>8 DEF Pages!Fetched, Pages!Busy, WorkRec
  <2>2. Pages!Age \in Nat /\ Pages!Age <= pages_ttl
    BY <1>0 DEF Pages!Age, RunningInv
  <2>3. work[s].conv.status = "running" => rest = 0
    BY <2>1 DEF RunningInv
  <2>4. work[s].conv.status = "running" => rest <= Pages!Age
    BY <2>2, <2>3
  <2> QED
    BY <1>0, <2>1, <2>2, <2>4, Handles
<1>9. UNCHANGED <<pages_job, tokens, generated, performed>>
  BY DEF Pages!Dispatch, Pages!SaveStatus, Pages!WorkerDies, Pages!Evict, Pages!Tick, Pages!GetCached, Pages!Fetch, Pages!Fetched, Pages!Handle, Pages!web
<1> QED
  BY <1>1, <1>2, <1>3, <1>4, <1>5, <1>6, <1>7, <1>8, <1>9 DEF WasSent

-----------------------------------------------------------------------------
(* What a step of a request leaves of what is known about digits.          *)
LEMMA Queued ==
  ASSUME Pages!ConversationsConstants, PagesTypeInv, IsQueued, UNCHANGED <<Pages!worker, control>>
  PROVE  /\ pages_queue' \in Seq(CommandRec) /\ links' = links
         /\ \A l \in LinkRec : WasSent(l)' => WasSent(l)
<1>1. pages_queue \in Seq(CommandRec) /\ UNCHANGED <<links, control>>
  BY DEF PagesTypeInv, Pages!worker
<1>2. CASE pages_queue' = pages_queue
  BY <1>1, <1>2 DEF WasSent
<1>3. ASSUME NEW c \in CommandRec, c.link = Nothing, pages_queue' = Append(pages_queue, c)
      PROVE  pages_queue' \in Seq(CommandRec) /\ \A l \in LinkRec : WasSent(l)' => WasSent(l)
  <2>1. pages_queue' \in Seq(CommandRec) /\ \A d : In(pages_queue', d) <=> In(pages_queue, d) \/ c = d
    BY <1>1, <1>3, InAppend
  <2> QED
    BY <1>1, <1>3, <2>1, ConstantsAre DEF WasSent
<1> QED
  BY <1>1, <1>2, <1>3 DEF IsQueued

LEMMA SentBefore ==
  ASSUME \A l \in LinkRec : WasSent(l)' => WasSent(l), NEW u, WereSent(u)'
  PROVE  WereSent(u)
BY DEF WereSent

LEMMA SentByLink ==
  ASSUME PagesTypeInv, NEW l \in links
  PROVE  l \in LinkRec /\ WasSent(l) /\ WereSent(l.token) /\ l.token \in UserTokens /\ l.id \in 1..MaxTokens
<1>1. l \in LinkRec
  BY DEF PagesTypeInv
<1> QED
  BY <1>1 DEF WasSent, WereSent, LinkRec

\* The model's name for the links that were sent.
LEMMA SentIs ==
  ASSUME Pages!ConversationsConstants, PagesTypeInv, NEW u, WereSent(u)
  PROVE  u \in {l.token : l \in Pages!Sent}
<1>1. PICK l \in LinkRec : l.token = u /\ WasSent(l)
  BY DEF WereSent
<1>2. l # Nothing
  BY ConstantsAre
<1>3. ASSUME NEW s \in Seq(CommandRec), NEW c \in CommandRec, In(s, c) PROVE c \in Pages!Range(s)
  BY <1>3 DEF In, Pages!Range
<1>4. l \in Pages!Sent
  BY <1>1, <1>2, <1>3 DEF WasSent, Pages!Sent, PagesTypeInv
<1> QED
  BY <1>1, <1>4

LEMMA WorkerKeeps ==
  ASSUME PagesTypeInv, DigitsInv, TokensInv, PerformInv, UNCHANGED <<pages_job, tokens, generated, performed>>,
         links \subseteq links', \A l \in LinkRec : WasSent(l)' => WasSent(l)
  PROVE  DigitsInv' /\ TokensInv' /\ PerformInv'
<1>1. \A u : WereSent(u)' => WereSent(u)
  BY SentBefore
<1>2. DigitsInv'
  BY <1>1 DEF DigitsInv, At, IsConfirming
<1>3. TokensInv'
  BY DEF TokensInv, At
<1>4. PerformInv'
  BY DEF PerformInv, At, Pages!ConfirmedOnce
<1> QED
  BY <1>2, <1>3, <1>4

LEMMA QuietKeeps ==
  ASSUME Pages!ConversationsConstants, PagesIInv, NEW p \in Requests, Quietly(p)
  PROVE  PagesIInv'
<1> USE DEF PagesIInv
<1>1. PICK j : Continues(p, j) /\ IsQuiet(pages_job[p], j)
  BY DEF Quietly
<1>2. /\ pages_queue' \in Seq(CommandRec) /\ links' = links /\ (\A l \in LinkRec : WasSent(l)' => WasSent(l))
      /\ UNCHANGED <<pages_ttl, tokens, generated, performed, Pages!worker, control>> /\ IsStored
  BY Queued DEF Quietly
<1>3. /\ pages_job' \in [Requests -> JobRec \union {Nothing}]
      /\ \A q \in Requests : pages_job'[q] # Nothing => JobIsOfUse(pages_job'[q])
      /\ pages_job'[p] = j /\ \A q \in Requests \ {p} : pages_job'[q] = pages_job[q]
  BY <1>1, Continued
<1>4. \A u : WereSent(u)' => WereSent(u)
  BY <1>2, SentBefore
<1>5. rest' \in Nat /\ rest' <= rest
  BY <1>2 DEF IsStored, PagesTypeInv
<1>6. PagesTypeInv'
  BY <1>2, <1>3, <1>5 DEF PagesTypeInv, IsStored, Pages!worker
<1>7. RunningInv'
  BY <1>2, <1>5 DEF RunningInv, Pages!HandledWhileRunning, IsStored, Pages!worker, PagesTypeInv
<1>8. DigitsInv'
  BY <1>1, <1>2, <1>3, <1>4 DEF DigitsInv, IsQuiet, At, IsConfirming
<1>9. TokensInv'
  <2>1. ASSUME NEW q \in Requests, At(q, {"perform"})'
        PROVE  pages_job'[q].id = 0 \/ (At(q, {"perform"}) /\ pages_job'[q].id = pages_job[q].id)
    BY <1>1, <1>3, <2>1 DEF IsQuiet, At
  <2>2. \A u \in UserTokens : tokens[u] # Nothing => tokens[u].id # 0
    BY DEF PagesTypeInv, TokenRec
  <2> QED
    BY <1>2, <2>1, <2>2 DEF TokensInv
<1>10. PerformInv'
  <2>1. ASSUME NEW q \in Requests, pages_job'[q] # Nothing
        PROVE  /\ pages_job'[q].id <= generated
               /\ pages_job'[q].what # "confirm" /\ pages_job'[q].at \notin Owning => pages_job'[q].id = 0
    BY <1>1, <1>3, <2>1 DEF IsQuiet, PerformInv, PagesTypeInv
  <2>2. ASSUME NEW q \in Requests, At(q, {"perform"})', pages_job'[q].id # 0
        PROVE  At(q, {"perform"}) /\ pages_job'[q] = pages_job[q]
    BY <1>1, <1>3, <2>2 DEF IsQuiet, At
  <2> QED
    BY <1>2, <2>1, <2>2 DEF PerformInv, Pages!ConfirmedOnce
<1> QED
  BY <1>6, <1>7, <1>8, <1>9, <1>10

LEMMA RequestTypes ==
  ASSUME Pages!ConversationsConstants, PagesIInv, NEW p \in Requests, NEW j, Continues(p, j),
         UNCHANGED <<pages_conv, rest, pages_ttl, Pages!worker, control>>, pages_queue' \in Seq(CommandRec),
         tokens' \in [UserTokens -> TokenRec \union {Nothing}], generated' \in 0..MaxTokens,
         performed' \in [1..MaxTokens -> Seq(Nat)]
  PROVE  PagesTypeInv' /\ RunningInv'
<1>1. PagesTypeInv'
  BY Works DEF PagesIInv, PagesTypeInv
<1>2. RunningInv'
  BY DEF PagesIInv, RunningInv, Pages!HandledWhileRunning, Pages!worker
<1> QED
  BY <1>1, <1>2

LEMMA DrawKeeps ==
  ASSUME Pages!ConversationsConstants, PagesIInv, NEW p \in Requests, Pages!DrawToken(p)
  PROVE  PagesIInv'
<1> USE DEF PagesIInv
<1>1. PICK u, j :
        /\ u \in UserTokens
        /\ Continues(p, j) /\ j.at = "hsetnx" /\ j.token = u /\ j.id = pages_job[p].id /\ j.what = pages_job[p].what
        /\ tokens[u] = Nothing /\ u \notin {l.token : l \in Pages!Sent}
  BY Draws
<1>2. /\ pages_job[p] # Nothing /\ pages_job[p].what # "confirm" /\ pages_job[p].id = 0
      /\ UNCHANGED <<pages_conv, rest, pages_ttl, tokens, generated, performed, Pages!worker, pages_queue, control>>
  BY Draws
<1>3. /\ pages_job'[p] = j /\ \A q \in Requests \ {p} : pages_job'[q] = pages_job[q]
  BY <1>1, Continued
<1>4. PagesTypeInv' /\ RunningInv'
  BY <1>1, <1>2, RequestTypes DEF PagesTypeInv
<1>5. UNCHANGED links /\ \A l : WasSent(l)' <=> WasSent(l)
  BY <1>2 DEF WasSent, Pages!worker
<1>6. \A v : WereSent(v)' <=> WereSent(v)
  BY <1>5 DEF WereSent
<1>7. ~WereSent(u)
  BY <1>1, SentIs
<1>8. DigitsInv'
  <2>1. \A q \in Requests : IsConfirming(q) => pages_job[q].token # u
    <3>1. ASSUME NEW q \in Requests, IsConfirming(q) PROVE WereSent(pages_job[q].token)
      <4>1. pages_job[q].link \in links /\ pages_job[q].token = pages_job[q].link.token
        BY <3>1 DEF DigitsInv, PagesTypeInv, IsConfirming, JobIsOfUse
      <4> QED
        BY <4>1, SentByLink
    <3> QED
      BY <1>7, <3>1
  <2>2. ASSUME NEW q \in Requests, At(q, {"hsetnx"})'
        PROVE  /\ (tokens[pages_job[q].token] # Nothing \/ ~WereSent(pages_job[q].token))' 
               /\ \A i \in Requests : IsConfirming(i)' => pages_job'[i].token # pages_job'[q].token
    <3>1. CASE q = p
      BY <1>1, <1>2, <1>3, <1>6, <1>7, <2>1, <3>1 DEF IsConfirming
    <3>2. CASE q # p
      <4>1. At(q, {"hsetnx"}) /\ pages_job'[q] = pages_job[q]
        BY <1>3, <2>2, <3>2 DEF At
      <4> QED
        BY <1>1, <1>2, <1>3, <1>6, <4>1 DEF IsConfirming, DigitsInv
    <3> QED
      BY <3>1, <3>2
  <2> QED
    BY <1>1, <1>2, <1>3, <1>5, <1>6, <2>2 DEF DigitsInv, At, IsConfirming
<1>9. TokensInv'
  BY <1>1, <1>2, <1>3, <1>5 DEF TokensInv, At
<1>10. PerformInv'
  <2>1. \A q \in Requests : At(q, {"perform"})' => At(q, {"perform"}) /\ pages_job'[q] = pages_job[q]
    BY <1>1, <1>3 DEF At
  <2>2. ASSUME NEW q \in Requests, pages_job'[q] # Nothing
        PROVE  /\ pages_job'[q].id <= generated
               /\ pages_job'[q].what # "confirm" /\ pages_job'[q].at \notin Owning => pages_job'[q].id = 0
    <3>1. pages_job[p].id <= generated
      BY <1>2 DEF PerformInv
    <3> QED
      BY <1>1, <1>2, <1>3, <2>2, <3>1 DEF PerformInv
  <2> QED
    BY <1>2, <2>1, <2>2 DEF PerformInv, Pages!ConfirmedOnce
<1> QED
  BY <1>4, <1>8, <1>9, <1>10

LEMMA PagesStoreKeeps ==
  ASSUME Pages!ConversationsConstants, PagesIInv, NEW p \in Requests, Pages!SetSystemToken(p)
  PROVE  PagesIInv'
<1> USE DEF PagesIInv
<1>a. CASE Pages!Exists(pages_job[p].token)
  <2>1. PICK j : /\ Continues(p, j) /\ j.at = "draw" /\ j.id = pages_job[p].id /\ j.what = pages_job[p].what
                 /\ pages_job[p] # Nothing /\ pages_job[p].at = "hsetnx" /\ pages_job[p].what # "confirm"
                 /\ UNCHANGED <<pages_conv, rest, pages_ttl, tokens, generated, performed, Pages!worker, pages_queue, control>>
    BY <1>a, FindsTaken
  <2>2. pages_job[p].id = 0
    BY <2>1 DEF PerformInv, Owning
  <2>3. IsQuiet(pages_job[p], j)
    BY <2>1, <2>2 DEF IsQuiet
  <2>4. Quietly(p)
    BY <2>1, <2>3, NotStored DEF Quietly, IsQueued
  <2> QED
    BY <2>4, QuietKeeps
<1>b. CASE ~Pages!Exists(pages_job[p].token)
  <2> DEFINE u == pages_job[p].token
             n == generated + 1
  <2>1. PICK j, t :
          /\ Continues(p, j) /\ j.at = "hmset" /\ j.token = u /\ j.id = n /\ j.what = pages_job[p].what
          /\ pages_job[p] # Nothing /\ pages_job[p].at = "hsetnx" /\ pages_job[p].what # "confirm"
          /\ u \in UserTokens /\ tokens[u] = Nothing
          /\ generated' = n /\ n \in 1..MaxTokens
          /\ t \in TokenRec /\ t.id = n /\ tokens' = [tokens EXCEPT ![u] = t]
          /\ UNCHANGED <<pages_conv, rest, pages_ttl, performed, Pages!worker, pages_queue, control>>
    BY <1>b, Stores
  <2>2. /\ pages_job'[p] = j /\ \A q \in Requests \ {p} : pages_job'[q] = pages_job[q]
    BY <2>1, Continued
  <2>3. /\ tokens' \in [UserTokens -> TokenRec \union {Nothing}]
        /\ tokens'[u] = t /\ t # Nothing /\ \A v \in UserTokens \ {u} : tokens'[v] = tokens[v]
    BY <2>1, ConstantsAre DEF PagesTypeInv
  <2>4. generated \in Nat /\ generated < n /\ n \in 0..MaxTokens
    BY <2>1, ConstantsAre DEF PagesTypeInv
  <2>5. PagesTypeInv' /\ RunningInv'
    BY <2>1, <2>3, <2>4, RequestTypes DEF PagesTypeInv
  <2>6. UNCHANGED links /\ \A l : WasSent(l)' <=> WasSent(l)
    BY <2>1 DEF WasSent, Pages!worker
  <2>7. \A v : WereSent(v)' <=> WereSent(v)
    BY <2>6 DEF WereSent
  <2>8. ~WereSent(u)
    BY <2>1 DEF DigitsInv, At
  <2>9. \A q \in Requests \ {p} : At(q, {"hmset", "mail"}) => pages_job[q].token # u
    BY <2>1 DEF DigitsInv
  <2> HIDE DEF u, n
  <2>10. DigitsInv'
    <3>1. ASSUME NEW q \in Requests, At(q, {"hsetnx"})' 
          PROVE  (tokens[pages_job[q].token] # Nothing \/ ~WereSent(pages_job[q].token))'
      <4>1. At(q, {"hsetnx"}) /\ pages_job'[q] = pages_job[q]
        BY <2>1, <2>2, <3>1 DEF At
      <4>2. pages_job[q].token \in UserTokens
        BY <4>1 DEF At, PagesTypeInv, JobIsOfUse, Drawn, Owning
      <4> QED
        BY <2>3, <2>7, <4>1, <4>2 DEF DigitsInv
    <3>2. ASSUME NEW q \in Requests, At(q, {"hmset", "mail"})'
          PROVE  /\ (tokens[pages_job[q].token] # Nothing /\ tokens[pages_job[q].token].id = pages_job[q].id)'
                 /\ ~WereSent(pages_job[q].token)'
                 /\ \A i \in Requests \ {q} : At(i, {"hmset", "mail"})' => pages_job'[i].token # pages_job'[q].token
      <4>1. CASE q = p
        <5>1. ASSUME NEW i \in Requests \ {p}, At(i, {"hmset", "mail"})' PROVE pages_job'[i].token # u
          BY <2>2, <2>9, <5>1 DEF At
        <5> QED
          BY <2>1, <2>2, <2>3, <2>7, <2>8, <4>1, <5>1
      <4>2. CASE q # p
        <5>1. At(q, {"hmset", "mail"}) /\ pages_job'[q] = pages_job[q]
          BY <2>2, <3>2, <4>2 DEF At
        <5>2. pages_job[q].token \in UserTokens /\ pages_job[q].token # u
          BY <2>9, <4>2, <5>1 DEF At, PagesTypeInv, JobIsOfUse, Drawn, Owning
        <5> QED
          BY <2>1, <2>2, <2>3, <2>7, <4>2, <5>1, <5>2 DEF DigitsInv, At
      <4> QED
        BY <4>1, <4>2
    <3>3. ASSUME NEW q \in Requests, IsConfirming(q)'
          PROVE  /\ pages_job'[q].link \in links' /\ pages_job'[q].id = pages_job'[q].link.id
                 /\ \A i \in Requests : At(i, {"hsetnx"})' => pages_job'[i].token # pages_job'[q].token
      <4>1. IsConfirming(q) /\ pages_job'[q] = pages_job[q]
        BY <2>1, <2>2, <3>3 DEF IsConfirming
      <4> QED
        BY <2>1, <2>2, <2>6, <4>1 DEF DigitsInv, At
    <3> QED
      BY <3>1, <3>2, <3>3 DEF DigitsInv
  <2>11. TokensInv'
    <3>1. ASSUME NEW l \in LinkRec, WasSent(l)', tokens'[l.token] # Nothing PROVE tokens'[l.token].id = l.id
      <4>1. l.token # u /\ l.token \in UserTokens /\ WasSent(l)
        BY <2>6, <2>8, <3>1 DEF WereSent, LinkRec
      <4> QED
        BY <2>3, <3>1, <4>1 DEF TokensInv
    <3>2. \A v \in UserTokens \ {u} : tokens[v] # Nothing => tokens[v].id <= generated /\ tokens[v].id \in Nat
      BY DEF TokensInv, PagesTypeInv, TokenRec
    <3>3. \A q \in Requests : pages_job[q] # Nothing => pages_job[q].id <= generated /\ pages_job[q].id \in Nat
      BY DEF PerformInv, PagesTypeInv, JobRec
    <3>4. ASSUME NEW v \in UserTokens, tokens'[v] # Nothing
          PROVE  /\ tokens'[v].id <= generated' /\ performed'[tokens'[v].id] = <<>>
                 /\ \A w \in UserTokens : tokens'[w] # Nothing /\ tokens'[w].id = tokens'[v].id => v = w
                 /\ \A q \in Requests : At(q, {"perform"})' => pages_job'[q].id # tokens'[v].id
      <4>1. CASE v = u
        <5>1. performed[n] = <<>>
          BY <2>1, <2>4 DEF PerformInv
        <5>2. \A w \in UserTokens : tokens'[w] # Nothing /\ tokens'[w].id = n => w = u
          BY <2>1, <2>3, <2>4, <3>2
        <5>3. \A q \in Requests : At(q, {"perform"})' => pages_job'[q].id # n
          BY <2>1, <2>2, <2>4, <3>3 DEF At
        <5> QED
          BY <2>1, <2>3, <2>4, <4>1, <5>1, <5>2, <5>3
      <4>2. CASE v # u
        <5>1. tokens'[v] = tokens[v] /\ tokens[v].id <= generated /\ tokens[v].id \in Nat /\ tokens[v].id # n
          BY <2>3, <2>4, <3>2, <3>4, <4>2
        <5>2. tokens[v].id <= n
          BY <2>4, <5>1
        <5>3. \A w \in UserTokens : tokens'[w] # Nothing /\ tokens'[w].id = tokens[v].id => v = w
          BY <2>1, <2>3, <3>4, <5>1 DEF TokensInv
        <5>4. \A q \in Requests : At(q, {"perform"})' => pages_job'[q].id # tokens[v].id
          BY <2>1, <2>2, <3>4, <5>1 DEF TokensInv, At
        <5> QED
          BY <2>1, <3>4, <5>1, <5>2, <5>3, <5>4 DEF TokensInv
      <4> QED
        BY <4>1, <4>2
    <3> QED
      BY <3>1, <3>4 DEF TokensInv
  <2>12. PerformInv'
    <3>1. ASSUME NEW q \in Requests, pages_job'[q] # Nothing
          PROVE  /\ pages_job'[q].id <= n
                 /\ pages_job'[q].what # "confirm" /\ pages_job'[q].at \notin Owning => pages_job'[q].id = 0
      <4>1. CASE q = p
        BY <2>1, <2>2, <2>4, <4>1 DEF Owning
      <4>2. CASE q # p
        <5>1. pages_job'[q] = pages_job[q] /\ pages_job[q].id <= generated /\ pages_job[q].id \in Nat
          BY <2>2, <3>1, <4>2 DEF PerformInv, PagesTypeInv, JobRec
        <5> QED
          BY <2>4, <3>1, <5>1 DEF PerformInv
      <4> QED
        BY <4>1, <4>2
    <3>2. \A q \in Requests : At(q, {"perform"})' => At(q, {"perform"}) /\ pages_job'[q] = pages_job[q]
      BY <2>1, <2>2 DEF At
    <3>3. \A m \in 1..MaxTokens : m > n => m > generated
      BY <2>4
    <3> QED
      BY <2>1, <3>1, <3>2, <3>3 DEF PerformInv, Pages!ConfirmedOnce
  <2> QED
    BY <2>5, <2>10, <2>11, <2>12
<1> QED
  BY <1>a, <1>b

LEMMA ExpiryKeeps ==
  ASSUME Pages!ConversationsConstants, PagesIInv, NEW p \in Requests, Pages!SetExpiry(p)
  PROVE  PagesIInv'
<1> USE DEF PagesIInv
<1> DEFINE u == pages_job[p].token
<1>0. tokens[u] # Nothing
  <2>1. At(p, {"hmset", "mail"})
    BY DEF Pages!SetExpiry, At
  <2> QED
    BY <2>1 DEF DigitsInv
<1>1. PICK j, t :
        /\ Continues(p, j) /\ j.at = "mail" /\ j.token = u /\ j.id = pages_job[p].id /\ j.what = pages_job[p].what
        /\ pages_job[p] # Nothing /\ pages_job[p].at = "hmset" /\ pages_job[p].what # "confirm" /\ u \in UserTokens
        /\ t \in TokenRec /\ t.id = tokens[u].id /\ tokens' = [tokens EXCEPT ![u] = t]
        /\ UNCHANGED <<pages_conv, rest, pages_ttl, generated, performed, Pages!worker, pages_queue, control>>
  BY <1>0, Expires
<1>2. /\ pages_job'[p] = j /\ \A q \in Requests \ {p} : pages_job'[q] = pages_job[q]
  BY <1>1, Continued
<1>3. /\ tokens' \in [UserTokens -> TokenRec \union {Nothing}]
      /\ \A v \in UserTokens :
           /\ tokens'[v] = Nothing <=> tokens[v] = Nothing
           /\ tokens[v] # Nothing => tokens'[v].id = tokens[v].id
  BY <1>0, <1>1, ConstantsAre DEF PagesTypeInv
<1> HIDE DEF u
<1>4. PagesTypeInv' /\ RunningInv'
  BY <1>1, <1>3, RequestTypes DEF PagesTypeInv
<1>5. UNCHANGED links /\ \A l : WasSent(l)' <=> WasSent(l)
  BY <1>1 DEF WasSent, Pages!worker
<1>6. \A v : WereSent(v)' <=> WereSent(v)
  BY <1>5 DEF WereSent
<1>7. \A q \in Requests : pages_job'[q] # Nothing =>
        /\ pages_job[q] # Nothing /\ pages_job'[q].token = pages_job[q].token /\ pages_job'[q].id = pages_job[q].id /\ pages_job'[q].what = pages_job[q].what
        /\ q # p => pages_job'[q] = pages_job[q]
  BY <1>1, <1>2 DEF u
<1>8. /\ pages_job[p] # Nothing /\ pages_job[p].at = "hmset" /\ pages_job'[p].at = "mail" /\ pages_job[p].what # "confirm"
  BY <1>1, <1>2
<1>9. DigitsInv'
  <2>1. ASSUME NEW q \in Requests, At(q, {"hsetnx"})' \/ At(q, {"hmset", "mail"})' PROVE pages_job'[q].token \in UserTokens
    BY <1>4, <2>1 DEF PagesTypeInv, At, JobIsOfUse, Drawn, Owning
  <2>2. \A q \in Requests : At(q, {"hsetnx"})' => At(q, {"hsetnx"})
    BY <1>7, <1>8 DEF At
  <2>3. \A q \in Requests : At(q, {"hmset", "mail"})' => At(q, {"hmset", "mail"})
    BY <1>7, <1>8 DEF At
  <2>4. \A q \in Requests : IsConfirming(q)' => IsConfirming(q) /\ pages_job'[q] = pages_job[q]
    BY <1>7, <1>8 DEF IsConfirming
  <2>5. \A q \in Requests : At(q, {"hsetnx"})' \/ At(q, {"hmset", "mail"})' =>
          pages_job'[q].token = pages_job[q].token /\ pages_job'[q].id = pages_job[q].id
    BY <1>7 DEF At
  <2>6. ASSUME NEW q \in Requests, At(q, {"hsetnx"})'
        PROVE  (tokens[pages_job[q].token] # Nothing \/ ~WereSent(pages_job[q].token))'
    BY <1>3, <1>6, <2>1, <2>2, <2>5, <2>6 DEF DigitsInv
  <2>7. ASSUME NEW q \in Requests, At(q, {"hmset", "mail"})'
        PROVE  /\ (tokens[pages_job[q].token] # Nothing /\ tokens[pages_job[q].token].id = pages_job[q].id /\ ~WereSent(pages_job[q].token))'
               /\ \A i \in Requests \ {q} : At(i, {"hmset", "mail"})' => pages_job'[i].token # pages_job'[q].token
    BY <1>3, <1>6, <2>1, <2>3, <2>5, <2>7 DEF DigitsInv
  <2>8. ASSUME NEW q \in Requests, IsConfirming(q)'
        PROVE  /\ pages_job'[q].link \in links' /\ pages_job'[q].id = pages_job'[q].link.id
               /\ \A i \in Requests : At(i, {"hsetnx"})' => pages_job'[i].token # pages_job'[q].token
    BY <1>5, <2>2, <2>4, <2>5, <2>8 DEF DigitsInv
  <2> QED
    BY <2>6, <2>7, <2>8 DEF DigitsInv
<1>10. \A q \in Requests : At(q, {"perform"})' => At(q, {"perform"}) /\ pages_job'[q] = pages_job[q]
  BY <1>7, <1>8 DEF At
<1>11. TokensInv'
  <2>1. \A l \in LinkRec : l.token \in UserTokens
    BY DEF LinkRec
  <2> QED
    BY <1>1, <1>3, <1>5, <1>10, <2>1 DEF TokensInv
<1>12. PerformInv'
  <2>1. ASSUME NEW q \in Requests, pages_job'[q] # Nothing
        PROVE  /\ pages_job'[q].id <= generated
               /\ pages_job'[q].what # "confirm" /\ pages_job'[q].at \notin Owning => pages_job'[q].id = 0
    BY <1>7, <1>8, <2>1 DEF PerformInv, Owning
  <2> QED
    BY <1>1, <1>10, <2>1 DEF PerformInv, Pages!ConfirmedOnce
<1> QED
  BY <1>4, <1>9, <1>11, <1>12

LEMMA MailKeeps ==
  ASSUME Pages!ConversationsConstants, PagesIInv, NEW p \in Requests, Pages!SendTokenUrl(p)
  PROVE  PagesIInv'
<1> USE DEF PagesIInv
<1> DEFINE u == pages_job[p].token
           n == pages_job[p].id
<1>0. /\ tokens[u] # Nothing /\ tokens[u].id = n /\ ~WereSent(u) /\ u \in UserTokens /\ n # 0
      /\ \A q \in Requests \ {p} : At(q, {"hmset", "mail"}) => pages_job[q].token # u
  <2>1. At(p, {"hmset", "mail"}) /\ pages_job[p].at = "mail"
    BY DEF Pages!SendTokenUrl, At
  <2>2. u \in UserTokens
    BY <2>1 DEF PagesTypeInv, At, JobIsOfUse, Drawn, Owning
  <2>3. tokens[u] # Nothing /\ tokens[u].id = n
    BY <2>1 DEF DigitsInv
  <2>4. tokens[u].id # 0
    BY <2>2, <2>3 DEF PagesTypeInv, TokenRec
  <2> QED
    BY <2>1, <2>2, <2>3, <2>4 DEF DigitsInv
<1>1. PICK j, l, c :
        /\ Continues(p, j) /\ j.at = "resave" /\ j.id = n /\ j.what = pages_job[p].what
        /\ pages_job[p] # Nothing /\ pages_job[p].at = "mail" /\ pages_job[p].what # "confirm"
        /\ l \in LinkRec /\ l.token = u /\ l.id = n
        /\ c \in CommandRec /\ c.link = l /\ pages_queue' = Append(pages_queue, c)
        /\ UNCHANGED <<pages_conv, rest, pages_ttl, tokens, generated, performed, Pages!worker, control>>
  <2> DEFINE k == [pages_job[p] EXCEPT !.at = "resave"]
             m == Pages!Link(u, n)
             d == Pages!Command("send_message", m)
  <2>1. /\ Continues(p, k) /\ k.at = "resave" /\ k.id = n /\ k.what = pages_job[p].what
        /\ pages_job[p] # Nothing /\ pages_job[p].at = "mail" /\ pages_job[p].what # "confirm"
        /\ m \in LinkRec /\ m.token = u /\ m.id = n
        /\ d \in CommandRec /\ d.link = m /\ pages_queue' = Append(pages_queue, d)
        /\ UNCHANGED <<pages_conv, rest, pages_ttl, tokens, generated, performed, Pages!worker, control>>
    BY <1>0, Mails
  <2> HIDE DEF k, m, d, u, n
  <2> QED
    BY <2>1
<1>2. /\ pages_job'[p] = j /\ \A q \in Requests \ {p} : pages_job'[q] = pages_job[q]
  BY <1>1, Continued
<1> HIDE DEF u, n
<1>3. pages_queue \in Seq(CommandRec) /\ pages_queue' \in Seq(CommandRec) /\ \A d : In(pages_queue', d) <=> In(pages_queue, d) \/ c = d
  BY <1>1, InAppend DEF PagesTypeInv
<1>4. PagesTypeInv' /\ RunningInv'
  BY <1>1, <1>3, RequestTypes DEF PagesTypeInv
<1>5. UNCHANGED links /\ \A k \in LinkRec : WasSent(k)' => WasSent(k) \/ k = l
  BY <1>1, <1>3 DEF WasSent, Pages!worker
<1>6. \A v : WereSent(v)' => WereSent(v) \/ v = u
  BY <1>1, <1>5 DEF WereSent
<1>7. \A q \in Requests : At(q, {"hsetnx"})' => At(q, {"hsetnx"}) /\ pages_job'[q] = pages_job[q]
  BY <1>1, <1>2 DEF At
<1>8. \A q \in Requests : At(q, {"hmset", "mail"})' => q # p /\ At(q, {"hmset", "mail"}) /\ pages_job'[q] = pages_job[q]
  BY <1>1, <1>2 DEF At
<1>9. \A q \in Requests : IsConfirming(q)' => IsConfirming(q) /\ pages_job'[q] = pages_job[q]
  BY <1>1, <1>2 DEF IsConfirming
<1>10. \A q \in Requests : At(q, {"perform"})' => At(q, {"perform"}) /\ pages_job'[q] = pages_job[q]
  BY <1>1, <1>2 DEF At
<1>11. DigitsInv'
  <2>1. ASSUME NEW q \in Requests, At(q, {"hsetnx"})'
        PROVE  (tokens[pages_job[q].token] # Nothing \/ ~WereSent(pages_job[q].token))'
    BY <1>0, <1>1, <1>6, <1>7, <2>1 DEF DigitsInv
  <2>2. ASSUME NEW q \in Requests, At(q, {"hmset", "mail"})'
        PROVE  /\ (tokens[pages_job[q].token] # Nothing /\ tokens[pages_job[q].token].id = pages_job[q].id /\ ~WereSent(pages_job[q].token))'
               /\ \A i \in Requests \ {q} : At(i, {"hmset", "mail"})' => pages_job'[i].token # pages_job'[q].token
    BY <1>0, <1>1, <1>6, <1>8, <2>2 DEF DigitsInv
  <2>3. ASSUME NEW q \in Requests, IsConfirming(q)'
        PROVE  /\ pages_job'[q].link \in links' /\ pages_job'[q].id = pages_job'[q].link.id
               /\ \A i \in Requests : At(i, {"hsetnx"})' => pages_job'[i].token # pages_job'[q].token
    BY <1>5, <1>7, <1>9, <2>3 DEF DigitsInv
  <2> QED
    BY <2>1, <2>2, <2>3 DEF DigitsInv
<1>12. TokensInv'
  BY <1>0, <1>1, <1>5, <1>10 DEF TokensInv
<1>13. PerformInv'
  <2>1. ASSUME NEW q \in Requests, pages_job'[q] # Nothing
        PROVE  /\ pages_job'[q].id <= generated
               /\ pages_job'[q].what # "confirm" /\ pages_job'[q].at \notin Owning => pages_job'[q].id = 0
    BY <1>1, <1>2, <2>1 DEF PerformInv, Owning, n
  <2> QED
    BY <1>1, <1>10, <2>1 DEF PerformInv, Pages!ConfirmedOnce
<1> QED
  BY <1>4, <1>11, <1>12, <1>13

LEMMA FollowKeeps ==
  ASSUME Pages!ConversationsConstants, PagesIInv, NEW p \in Requests, NEW link \in links, Pages!FollowLink(p, link)
  PROVE  PagesIInv'
<1> USE DEF PagesIInv
<1> DEFINE u == link.token
<1>1. PICK j :
        /\ Continues(p, j) /\ j.at = "get" /\ j.token = u /\ j.link = link
        /\ j.id = tokens[u].id /\ j.what = "confirm" /\ tokens[u] # Nothing
        /\ UNCHANGED <<pages_conv, rest, pages_ttl, tokens, generated, performed, Pages!worker, pages_queue, control>>
  BY Follows
<1>0. /\ link \in LinkRec /\ WasSent(link) /\ u \in UserTokens /\ tokens[u].id = link.id
      /\ tokens[u].id <= generated
      /\ \A q \in Requests : At(q, {"hsetnx"}) => pages_job[q].token # u
  BY <1>1, SentByLink DEF TokensInv, Pages!FollowLink, At
<1>2. /\ pages_job'[p] = j /\ \A q \in Requests \ {p} : pages_job'[q] = pages_job[q]
  BY <1>1, Continued
<1> HIDE DEF u
<1>4. PagesTypeInv' /\ RunningInv'
  BY <1>1, RequestTypes DEF PagesTypeInv
<1>5. UNCHANGED links /\ \A k : WasSent(k)' <=> WasSent(k)
  BY <1>1 DEF WasSent, Pages!worker
<1>6. \A v : WereSent(v)' <=> WereSent(v)
  BY <1>5 DEF WereSent
<1>7. \A q \in Requests : At(q, {"hsetnx"})' => At(q, {"hsetnx"}) /\ pages_job'[q] = pages_job[q]
  BY <1>1, <1>2 DEF At
<1>8. \A q \in Requests : At(q, {"hmset", "mail"})' => At(q, {"hmset", "mail"}) /\ pages_job'[q] = pages_job[q]
  BY <1>1, <1>2 DEF At
<1>9. \A q \in Requests : IsConfirming(q)' => q = p \/ (IsConfirming(q) /\ pages_job'[q] = pages_job[q])
  BY <1>2 DEF IsConfirming
<1>10. \A q \in Requests : At(q, {"perform"})' => At(q, {"perform"}) /\ pages_job'[q] = pages_job[q]
  BY <1>1, <1>2 DEF At
<1>11. DigitsInv'
  <2>1. ASSUME NEW q \in Requests, At(q, {"hsetnx"})'
        PROVE  (tokens[pages_job[q].token] # Nothing \/ ~WereSent(pages_job[q].token))'
    BY <1>1, <1>6, <1>7, <2>1 DEF DigitsInv
  <2>2. ASSUME NEW q \in Requests, At(q, {"hmset", "mail"})'
        PROVE  /\ (tokens[pages_job[q].token] # Nothing /\ tokens[pages_job[q].token].id = pages_job[q].id /\ ~WereSent(pages_job[q].token))'
               /\ \A i \in Requests \ {q} : At(i, {"hmset", "mail"})' => pages_job'[i].token # pages_job'[q].token
    BY <1>1, <1>6, <1>8, <2>2 DEF DigitsInv
  <2>3. ASSUME NEW q \in Requests, IsConfirming(q)'
        PROVE  /\ pages_job'[q].link \in links' /\ pages_job'[q].id = pages_job'[q].link.id
               /\ \A i \in Requests : At(i, {"hsetnx"})' => pages_job'[i].token # pages_job'[q].token
    BY <1>0, <1>1, <1>2, <1>5, <1>7, <1>9, <2>3 DEF DigitsInv
  <2> QED
    BY <2>1, <2>2, <2>3 DEF DigitsInv
<1>12. TokensInv'
  BY <1>1, <1>5, <1>10 DEF TokensInv
<1>13. PerformInv'
  <2>1. ASSUME NEW q \in Requests, pages_job'[q] # Nothing
        PROVE  /\ pages_job'[q].id <= generated
               /\ pages_job'[q].what # "confirm" /\ pages_job'[q].at \notin Owning => pages_job'[q].id = 0
    BY <1>0, <1>1, <1>2, <2>1 DEF PerformInv
  <2> QED
    BY <1>1, <1>10, <2>1 DEF PerformInv, Pages!ConfirmedOnce
<1> QED
  BY <1>4, <1>11, <1>12, <1>13

\* A token is gone that no request owns or is about to store.
LEMMA GoneKeeps ==
  ASSUME Pages!ConversationsConstants, PagesIInv, NEW u \in UserTokens,
         tokens' = [tokens EXCEPT ![u] = Nothing],
         \A q \in Requests : At(q, {"hsetnx", "hmset", "mail"}) => pages_job[q].token # u
  PROVE  /\ tokens' \in [UserTokens -> TokenRec \union {Nothing}]
         /\ \A v \in UserTokens : tokens'[v] # Nothing => v # u /\ tokens'[v] = tokens[v]
         /\ \A q \in Requests : At(q, {"hsetnx", "hmset", "mail"}) => tokens'[pages_job[q].token] = tokens[pages_job[q].token]
<1>1. /\ tokens' \in [UserTokens -> TokenRec \union {Nothing}] /\ tokens'[u] = Nothing
      /\ \A v \in UserTokens \ {u} : tokens'[v] = tokens[v]
  BY DEF PagesIInv, PagesTypeInv
<1>2. \A q \in Requests : At(q, {"hsetnx", "hmset", "mail"}) => pages_job[q].token \in UserTokens
  BY DEF PagesIInv, PagesTypeInv, At, JobIsOfUse, Drawn, Owning
<1> QED
  BY <1>1, <1>2

LEMMA ExpiredKeeps ==
  ASSUME Pages!ConversationsConstants, PagesIInv, NEW u \in UserTokens, Pages!TokenExpires(u)
  PROVE  PagesIInv'
<1> USE DEF PagesIInv
<1>1. /\ tokens' = [tokens EXCEPT ![u] = Nothing]
      /\ UNCHANGED <<pages_conv, rest, pages_ttl, pages_job, generated, performed, Pages!worker, pages_queue, control>>
  BY DEF Pages!TokenExpires, Pages!queues
<1>2. \A q \in Requests : At(q, {"hsetnx", "hmset", "mail"}) => pages_job[q].token # u
  BY DEF Pages!TokenExpires, At, PagesTypeInv, JobIsOfUse, Drawn, Owning
<1>3. /\ tokens' \in [UserTokens -> TokenRec \union {Nothing}]
      /\ \A v \in UserTokens : tokens'[v] # Nothing => v # u /\ tokens'[v] = tokens[v]
      /\ \A q \in Requests : At(q, {"hsetnx", "hmset", "mail"}) => tokens'[pages_job[q].token] = tokens[pages_job[q].token]
  BY <1>1, <1>2, GoneKeeps
<1>4. PagesTypeInv' /\ RunningInv'
  BY <1>1, <1>3 DEF PagesTypeInv, RunningInv, Pages!HandledWhileRunning, Pages!worker
<1>5. UNCHANGED links /\ \A k : WasSent(k)' <=> WasSent(k)
  BY <1>1 DEF WasSent, Pages!worker
<1>6. \A v : WereSent(v)' <=> WereSent(v)
  BY <1>5 DEF WereSent
<1>7. DigitsInv'
  BY <1>1, <1>3, <1>5, <1>6 DEF DigitsInv, At, IsConfirming
<1>8. TokensInv'
  <2>1. \A l \in LinkRec : l.token \in UserTokens
    BY DEF LinkRec
  <2> QED
    BY <1>1, <1>3, <1>5, <2>1 DEF TokensInv, At
<1>9. PerformInv'
  BY <1>1 DEF PerformInv, At, Pages!ConfirmedOnce
<1> QED
  BY <1>4, <1>7, <1>8, <1>9

LEMMA PagesDeleteKeeps ==
  ASSUME Pages!ConversationsConstants, PagesIInv, NEW p \in Requests, Pages!DeleteToken(p)
  PROVE  PagesIInv'
<1> USE DEF PagesIInv
<1> DEFINE u == pages_job[p].token
           n == pages_job[p].id
<1>1. PICK j :
        /\ pages_job[p] # Nothing /\ pages_job[p].what = "confirm" /\ u \in UserTokens
        /\ tokens' = [tokens EXCEPT ![u] = Nothing] /\ Continues(p, j)
        /\ j # Nothing => /\ tokens[u] # Nothing /\ j.at = "perform" /\ j.id = n /\ j.what = "confirm"
                          /\ j.token = u /\ j.link = pages_job[p].link
        /\ UNCHANGED <<pages_conv, rest, pages_ttl, generated, performed, Pages!worker, pages_queue, control>>
  BY Deletes DEF Pages!Deleted
<1>2. /\ pages_job'[p] = j /\ \A q \in Requests \ {p} : pages_job'[q] = pages_job[q]
  BY <1>1, Continued
<1>3. /\ pages_job[p].link \in links /\ n = pages_job[p].link.id /\ u = pages_job[p].link.token
      /\ \A q \in Requests : At(q, {"hsetnx"}) => pages_job[q].token # u
  BY <1>1 DEF DigitsInv, IsConfirming, PagesTypeInv, JobIsOfUse
<1>4. WereSent(u) /\ (tokens[u] # Nothing => tokens[u].id = n) /\ n \in 1..MaxTokens
  BY <1>3, SentByLink DEF TokensInv
<1>5. \A q \in Requests : At(q, {"hsetnx", "hmset", "mail"}) => pages_job[q].token # u
  BY <1>3, <1>4 DEF DigitsInv, At
<1> HIDE DEF u, n
<1>6. /\ tokens' \in [UserTokens -> TokenRec \union {Nothing}]
      /\ \A v \in UserTokens : tokens'[v] # Nothing => v # u /\ tokens'[v] = tokens[v]
      /\ \A q \in Requests : At(q, {"hsetnx", "hmset", "mail"}) => tokens'[pages_job[q].token] = tokens[pages_job[q].token]
  BY <1>1, <1>5, GoneKeeps
<1>7. PagesTypeInv' /\ RunningInv'
  BY <1>1, <1>6, RequestTypes DEF PagesTypeInv
<1>8. UNCHANGED links /\ \A k : WasSent(k)' <=> WasSent(k)
  BY <1>1 DEF WasSent, Pages!worker
<1>9. \A v : WereSent(v)' <=> WereSent(v)
  BY <1>8 DEF WereSent
<1>10. \A q \in Requests : At(q, {"hsetnx"})' => At(q, {"hsetnx"}) /\ At(q, {"hsetnx", "hmset", "mail"}) /\ pages_job'[q] = pages_job[q]
  BY <1>1, <1>2 DEF At
<1>11. \A q \in Requests :
         At(q, {"hmset", "mail"})' => At(q, {"hmset", "mail"}) /\ At(q, {"hsetnx", "hmset", "mail"}) /\ pages_job'[q] = pages_job[q]
  BY <1>1, <1>2 DEF At
<1>12. \A q \in Requests : IsConfirming(q)' =>
         IsConfirming(q) /\ pages_job'[q].link = pages_job[q].link /\ pages_job'[q].id = pages_job[q].id /\ pages_job'[q].token = pages_job[q].token
  BY <1>1, <1>2 DEF IsConfirming, u, n
<1>13. \A q \in Requests : At(q, {"perform"})' =>
         \/ At(q, {"perform"}) /\ pages_job'[q] = pages_job[q]
         \/ q = p /\ pages_job'[q].id = n /\ tokens[u] # Nothing
  BY <1>1, <1>2 DEF At
<1>14. DigitsInv'
  <2>1. ASSUME NEW q \in Requests, At(q, {"hsetnx"})'
        PROVE  (tokens[pages_job[q].token] # Nothing \/ ~WereSent(pages_job[q].token))'
    BY <1>6, <1>9, <1>10, <2>1 DEF DigitsInv
  <2>2. ASSUME NEW q \in Requests, At(q, {"hmset", "mail"})'
        PROVE  /\ (tokens[pages_job[q].token] # Nothing /\ tokens[pages_job[q].token].id = pages_job[q].id /\ ~WereSent(pages_job[q].token))'
               /\ \A i \in Requests \ {q} : At(i, {"hmset", "mail"})' => pages_job'[i].token # pages_job'[q].token
    BY <1>6, <1>9, <1>11, <2>2 DEF DigitsInv
  <2>3. ASSUME NEW q \in Requests, IsConfirming(q)'
        PROVE  /\ pages_job'[q].link \in links' /\ pages_job'[q].id = pages_job'[q].link.id
               /\ \A i \in Requests : At(i, {"hsetnx"})' => pages_job'[i].token # pages_job'[q].token
    BY <1>8, <1>10, <1>12, <2>3 DEF DigitsInv
  <2> QED
    BY <2>1, <2>2, <2>3 DEF DigitsInv
<1>15. tokens[u] # Nothing =>
         /\ performed[n] = <<>> /\ \A q \in Requests : At(q, {"perform"}) => pages_job[q].id # n
         /\ \A v \in UserTokens : tokens[v] # Nothing /\ v # u => tokens[v].id # n
  BY <1>1, <1>4 DEF TokensInv
<1>16. TokensInv'
  <2>1. ASSUME NEW l \in LinkRec, WasSent(l)', tokens'[l.token] # Nothing PROVE tokens'[l.token].id = l.id
    <3>1. l.token \in UserTokens
      BY DEF LinkRec
    <3> QED
      BY <1>6, <1>8, <2>1, <3>1 DEF TokensInv
  <2>2. ASSUME NEW v \in UserTokens, tokens'[v] # Nothing
        PROVE  /\ tokens'[v].id <= generated' /\ performed'[tokens'[v].id] = <<>>
               /\ \A w \in UserTokens : tokens'[w] # Nothing /\ tokens'[w].id = tokens'[v].id => v = w
               /\ \A q \in Requests : At(q, {"perform"})' => pages_job'[q].id # tokens'[v].id
    <3>1. v # u /\ tokens'[v] = tokens[v] /\ tokens[v] # Nothing
      BY <1>6, <2>2
    <3>2. \A q \in Requests : At(q, {"perform"})' => pages_job'[q].id # tokens[v].id
      BY <1>13, <1>15, <3>1 DEF TokensInv
    <3> QED
      BY <1>1, <1>6, <3>1, <3>2 DEF TokensInv
  <2> QED
    BY <2>1, <2>2 DEF TokensInv
<1>17. PerformInv'
  <2>1. ASSUME NEW q \in Requests, pages_job'[q] # Nothing
        PROVE  /\ pages_job'[q].id <= generated
               /\ pages_job'[q].what # "confirm" /\ pages_job'[q].at \notin Owning => pages_job'[q].id = 0
    BY <1>1, <1>2, <2>1 DEF PerformInv, n
  <2>2. ASSUME NEW q \in Requests, At(q, {"perform"})', pages_job'[q].id # 0
        PROVE  /\ performed[pages_job'[q].id] = <<>>
               /\ \A i \in Requests \ {q} : At(i, {"perform"})' => pages_job'[i].id # pages_job'[q].id
    BY <1>13, <1>15, <2>2 DEF PerformInv
  <2> QED
    BY <1>1, <2>1, <2>2 DEF PerformInv, Pages!ConfirmedOnce
<1> QED
  BY <1>7, <1>14, <1>16, <1>17

LEMMA PerformKeeps ==
  ASSUME Pages!ConversationsConstants, PagesIInv, NEW p \in Requests, Pages!PerformAction(p)
  PROVE  PagesIInv'
<1> USE DEF PagesIInv
<1> DEFINE n == pages_job[p].id
<1>1. /\ pages_job[p] # Nothing /\ pages_job[p].at = "perform" /\ n \in 0..MaxTokens
      /\ Continues(p, Nothing) /\ IsQueued
      /\ \/ performed' = performed
         \/ n # 0 /\ performed' = [performed EXCEPT ![n] = Append(@, pages_job[p].link.id)]
      /\ UNCHANGED <<pages_conv, rest, pages_ttl, tokens, generated, Pages!worker, control>>
  BY Performs
<1>2. CASE performed' = performed
  <2>1. Quietly(p)
    BY <1>1, <1>2, NotStored DEF Quietly, IsQuiet
  <2> QED
    BY <2>1, QuietKeeps
<1>3. CASE n # 0 /\ performed' = [performed EXCEPT ![n] = Append(@, pages_job[p].link.id)]
  <2>1. /\ pages_job'[p] = Nothing /\ \A q \in Requests \ {p} : pages_job'[q] = pages_job[q]
    BY <1>1, Continued
  <2>2. /\ pages_queue' \in Seq(CommandRec) /\ links' = links /\ (\A l \in LinkRec : WasSent(l)' => WasSent(l))
    BY <1>1, Queued
  <2>3. \A v : WereSent(v)' => WereSent(v)
    BY <2>2, SentBefore
  <2>4. At(p, {"perform"}) /\ performed[n] = <<>> /\ n <= generated /\ n \in 1..MaxTokens
    BY <1>1, <1>3, ConstantsAre DEF At, PerformInv
  <2>5. pages_job[p].what = "confirm" /\ pages_job[p].link.id = n
    BY <1>1, <1>3 DEF PerformInv, DigitsInv, IsConfirming, Owning
  <2>6. \A q \in Requests : At(q, {"perform"})' => q # p /\ At(q, {"perform"}) /\ pages_job'[q] = pages_job[q] /\ pages_job[q].id # n
    BY <1>3, <2>1, <2>4 DEF At, PerformInv
  <2> HIDE DEF n
  <2>7. n \in Nat /\ Append(<<>>, n) = <<n>> /\ <<n>> \in Seq(Nat)
    <3>1. n \in Nat
      BY <2>4
    <3> QED
      BY <3>1
  <2>8. /\ performed' \in [1..MaxTokens -> Seq(Nat)] /\ performed'[n] = <<n>>
        /\ \A m \in 1..MaxTokens \ {n} : performed'[m] = performed[m]
    BY <1>3, <2>4, <2>5, <2>7 DEF PagesTypeInv
  <2>9. PagesTypeInv' /\ RunningInv'
    BY <1>1, <2>2, <2>8, RequestTypes DEF PagesTypeInv
  <2>10. \A q \in Requests : pages_job'[q] # Nothing => q # p /\ pages_job'[q] = pages_job[q]
    BY <2>1
  <2>11. DigitsInv'
    BY <1>1, <2>2, <2>3, <2>10 DEF DigitsInv, At, IsConfirming
  <2>12. \A v \in UserTokens : tokens[v] # Nothing => tokens[v].id # n /\ tokens[v].id \in 1..MaxTokens
    BY <2>4 DEF TokensInv, PagesTypeInv, TokenRec, n
  <2>13. TokensInv'
    BY <1>1, <2>2, <2>6, <2>8, <2>12 DEF TokensInv
  <2>14. PerformInv'
    <3>1. ASSUME NEW q \in Requests, At(q, {"perform"})', pages_job'[q].id # 0
          PROVE  /\ performed'[pages_job'[q].id] = <<>>
                 /\ \A i \in Requests \ {q} : At(i, {"perform"})' => pages_job'[i].id # pages_job'[q].id
      <4>1. pages_job[q].id \in 0..MaxTokens
        BY <2>6, <3>1 DEF PagesTypeInv, JobRec, At
      <4>2. pages_job[q].id \in 1..MaxTokens \ {n}
        BY <2>6, <3>1, <4>1, ConstantsAre
      <4> QED
        BY <2>6, <2>8, <3>1, <4>2 DEF PerformInv
    <3>2. ASSUME NEW m \in 1..MaxTokens, m > generated PROVE performed'[m] = <<>>
      <4>1. m # n
        BY <2>4, <3>2 DEF PagesTypeInv
      <4> QED
        BY <2>8, <3>2, <4>1 DEF PerformInv
    <3>3. Pages!ConfirmedOnce'
      BY <2>8 DEF Pages!ConfirmedOnce, PerformInv
    <3> QED
      BY <1>1, <2>10, <3>1, <3>2, <3>3 DEF PerformInv
  <2> QED
    BY <2>9, <2>11, <2>13, <2>14
<1> QED
  BY <1>1, <1>2, <1>3

LEMMA StepInv == Pages!ConversationsConstants /\ PagesIInv /\ [Pages!Next]_(Pages!vars) => PagesIInv'
<1> SUFFICES ASSUME Pages!ConversationsConstants, PagesIInv, [Pages!Next]_(Pages!vars) PROVE PagesIInv'
  OBVIOUS
<1>0. PagesTypeInv /\ RunningInv /\ DigitsInv /\ TokensInv /\ PerformInv
  BY DEF PagesIInv
<1>1. ASSUME NEW p \in Requests, Pages!Serve(p) PROVE PagesIInv'
  <2>1. ASSUME Quietly(p) PROVE PagesIInv'
    BY <2>1, QuietKeeps
  <2>2. ASSUME NEW what \in Pages!ConversationWork, Pages!Begin(p, what) \/ Pages!Tool(p, what) PROVE PagesIInv'
    BY <1>0, <2>1, <2>2, QuietBegins
  <2>3. CASE Pages!Load(p)
    BY <1>0, <2>1, <2>3, QuietLoad
  <2>4. CASE Pages!StartConversation(p) \/ Pages!StopConversation(p) \/ Pages!ArchiveConversation(p) \/ Pages!SaveEdits(p) \/ Pages!Resave(p)
    BY <1>0, <2>1, <2>4, QuietSaves
  <2>5. CASE \/ Pages!DispatchCommand(p) \/ Pages!SendOneOffReply(p) \/ Pages!PostAction(p)
             \/ Pages!GetConfirmation(p) \/ Pages!PostConfirmation(p) \/ Pages!RequestDies(p)
    BY <1>0, <2>1, <2>5, QuietRest
  <2>6. CASE Pages!DrawToken(p) \/ Pages!SetSystemToken(p) \/ Pages!SetExpiry(p) \/ Pages!SendTokenUrl(p)
    BY <2>6, DrawKeeps, PagesStoreKeeps, ExpiryKeeps, MailKeeps
  <2>7. CASE (\E link \in links : Pages!FollowLink(p, link)) \/ Pages!DeleteToken(p) \/ Pages!PerformAction(p)
    BY <2>7, FollowKeeps, PagesDeleteKeeps, PerformKeeps
  <2> QED
    BY <1>1, <2>2, <2>3, <2>4, <2>5, <2>6, <2>7, ManageIsTool
<1>2. ASSUME NEW u \in UserTokens, Pages!TokenExpires(u) PROVE PagesIInv'
  BY <1>2, ExpiredKeeps
<1>3. CASE \/ Pages!Dispatch \/ Pages!SaveStatus \/ Pages!WorkerDies \/ Pages!Evict \/ Pages!Tick
           \/ \E s \in Pages!Slots : Pages!GetCached(s) \/ Pages!Fetch(s) \/ Pages!Fetched(s)
  <2>1. /\ PagesTypeInv' /\ RunningInv' /\ UNCHANGED <<pages_job, tokens, generated, performed>>
        /\ links \subseteq links' /\ \A l \in LinkRec : WasSent(l)' => WasSent(l)
    BY <1>0, <1>3, WorkerSteps
  <2>2. DigitsInv' /\ TokensInv' /\ PerformInv'
    BY <1>0, <2>1, WorkerKeeps
  <2> QED
    BY <2>1, <2>2 DEF PagesIInv
<1>4. CASE UNCHANGED Pages!vars
  <2>1. UNCHANGED <<pages_ttl, pages_conv, rest, pages_job, tokens, generated, performed, pages_queue, control, pages_cache, work, handled, links>>
    BY <1>4 DEF Pages!vars, Pages!web, Pages!queues, Pages!worker
  <2>2. PagesTypeInv' /\ RunningInv'
    BY <1>0, <2>1 DEF PagesTypeInv, RunningInv, Pages!HandledWhileRunning
  <2>3. DigitsInv' /\ TokensInv' /\ PerformInv'
    BY <1>0, <2>1, WorkerKeeps DEF WasSent
  <2> QED
    BY <2>2, <2>3 DEF PagesIInv
<1> QED
  BY <1>1, <1>2, <1>3, <1>4 DEF Pages!Next

(* Whatever requests, tools, commands, messages, evictions and deaths of   *)
(* the worker interleave, a message is handled only by a conversation that *)
(* ran within the last ttl.                                                *)
THEOREM OnlyRunningHandle ==
  ASSUME Pages!ConversationsConstants
  PROVE  Pages!Spec => []Pages!HandledWhileRunning
<1>1. PagesIInv => Pages!HandledWhileRunning
  BY DEF PagesIInv, RunningInv
<1> QED
  BY PagesInitInv, StepInv, <1>1, PTL DEF Pages!Spec

(* However many requests draw the same digits, follow a link or post a     *)
(* form twice, an action that has to be confirmed is performed at most     *)
(* once, for the link with its token.                                      *)
THEOREM ActionsAreConfirmedOnce ==
  ASSUME Pages!ConversationsConstants
  PROVE  Pages!Spec => []Pages!ConfirmedOnce
<1>1. PagesIInv => Pages!ConfirmedOnce
  BY DEF PagesIInv, PerformInv
<1> QED
  BY PagesInitInv, StepInv, <1>1, PTL DEF Pages!Spec

-----------------------------------------------------------------------------
(* The scheduler and its pages (Scheduler): a task is pending until its    *)
(* row is taken, and where the row is gone its message was sent.           *)
Performing == {"start", "action", "delete", "complete"}

\* What a worker or a request that is somewhere has loaded.
PerformJob(j) ==
  /\ j.at \in {"load", "task"} \union Performing
  /\ j.pending \in Pending
  /\ j.at \in Performing => j.task \in Planned!TaskState
RequestJob(j) ==
  /\ j.at \in {"load", "create", "save", "row", "write"}
  /\ j.at # "load" => j.task \in Planned!TaskState
  /\ j.at = "create" => j.what = "reactivate"
  /\ j.at \in {"row", "write"} => j.what \in {"cancel", "modify"}
  /\ j.at = "write" => j.pending \in Pending
JobOK(j) == IF j.what = "perform" THEN PerformJob(j) ELSE RequestJob(j)

PlannedTypeInv ==
  /\ planned_deaths \in Nat /\ task \in Planned!TaskState /\ planned_performed \in Nat /\ withdrawn \in BOOLEAN /\ planned_excused \in BOOLEAN
  /\ pending \in [Pending -> Planned!Dates \union {Nothing}]
  /\ planned_job \in [Procs -> Planned!JobState \union {Nothing}]
  /\ \A p \in Procs : planned_job[p] # Nothing => JobOK(planned_job[p])

LEMMA NotNothing ==
  ASSUME Planned!SchedulerConstants
  PROVE  Nothing \notin Planned!Dates /\ Nothing \notin Planned!TaskState /\ Nothing \notin Planned!JobState
BY DEF Planned!SchedulerConstants

\* A process that goes on, or ends, and the rest of the state is of its type.
LEMMA TypeKept ==
  ASSUME PlannedTypeInv, NEW p \in Procs, NEW j \in Planned!JobState \union {Nothing}, planned_job' = [planned_job EXCEPT ![p] = j],
         j # Nothing => JobOK(j),
         task' \in Planned!TaskState, planned_performed' \in Nat, withdrawn' \in BOOLEAN, planned_excused' \in BOOLEAN,
         planned_deaths' \in Nat,
         pending' \in [Pending -> Planned!Dates \union {Nothing}]
  PROVE  PlannedTypeInv'
<1>1. planned_job' \in [Procs -> Planned!JobState \union {Nothing}]
  BY DEF PlannedTypeInv
<1>2. ASSUME NEW q \in Procs, planned_job'[q] # Nothing PROVE JobOK(planned_job'[q])
  <2>1. planned_job'[q] = IF q = p THEN j ELSE planned_job[q]
    BY DEF PlannedTypeInv
  <2> QED
    BY <1>2, <2>1 DEF PlannedTypeInv
<1> QED
  BY <1>1, <1>2 DEF PlannedTypeInv

LEMMA InitType == Planned!Init => PlannedTypeInv
<1> SUFFICES ASSUME Planned!Init PROVE PlannedTypeInv
  OBVIOUS
<1>1. PICK d \in Planned!Dates, i \in Pending :
        task = Planned!NewTask(d) /\ pending = [j \in Pending |-> IF j = i THEN d ELSE Nothing]
  BY DEF Planned!Init
<1>2. task \in Planned!TaskState
  BY <1>1 DEF Planned!NewTask, Planned!TaskState
<1>3. pending \in [Pending -> Planned!Dates \union {Nothing}]
  BY <1>1
<1> QED
  BY <1>2, <1>3 DEF Planned!Init, PlannedTypeInv

LEMMA PlannedTypeStep ==
  ASSUME Planned!SchedulerConstants
  PROVE  PlannedTypeInv /\ [Planned!Next]_(Planned!vars) => PlannedTypeInv'
<1> SUFFICES ASSUME PlannedTypeInv, Planned!Next PROVE PlannedTypeInv'
  BY DEF PlannedTypeInv, Planned!vars
<1>1. planned_excused' \in BOOLEAN /\ planned_deaths' \in Nat
  <2>1. planned_excused' \in BOOLEAN
    BY DEF Planned!Next
  <2>2. planned_deaths' = planned_deaths \/ planned_deaths' = planned_deaths + 1
    BY DEF Planned!Next, Planned!Steps, Planned!PerformTask, Planned!GetPending, Planned!GetTask, Planned!StartTask, Planned!PerformAction, Planned!DeletePending,
           Planned!CompleteTask, Planned!Request, Planned!GetObject, Planned!CreatePending, Planned!SaveTask, Planned!GetRow, Planned!WriteRow, Planned!Die, Planned!Begin,
           Planned!PollTasks, Planned!Tick
  <2> QED
    BY <2>1, <2>2 DEF PlannedTypeInv
<1>2. ASSUME NEW p \in Procs PROVE planned_job[p] \in Planned!JobState \union {Nothing} /\ (planned_job[p] # Nothing => JobOK(planned_job[p]))
  BY DEF PlannedTypeInv
<1>3. task \in Planned!TaskState /\ planned_performed \in Nat /\ withdrawn \in BOOLEAN
      /\ pending \in [Pending -> Planned!Dates \union {Nothing}]
  BY DEF PlannedTypeInv
<1>4. ASSUME NEW p \in Procs, Planned!Steps(p) PROVE PlannedTypeInv'
  <2> DEFINE j == planned_job[p]
  <2>0. j \in Planned!JobState \union {Nothing} /\ (j # Nothing => JobOK(j))
    BY <1>2
  <2>a. ASSUME NEW k \in Planned!JobState \union {Nothing}, planned_job' = [planned_job EXCEPT ![p] = k], k # Nothing => JobOK(k),
               task' \in Planned!TaskState, planned_performed' \in Nat, withdrawn' \in BOOLEAN,
               pending' \in [Pending -> Planned!Dates \union {Nothing}]
        PROVE  PlannedTypeInv'
    BY <2>a, <1>1, TypeKept
  <2>b. ASSUME Planned!Ends(p), task' \in Planned!TaskState, planned_performed' \in Nat, withdrawn' \in BOOLEAN,
               pending' \in [Pending -> Planned!Dates \union {Nothing}]
        PROVE  PlannedTypeInv'
    BY <2>b, <2>a DEF Planned!Ends
  <2>c. ASSUME NEW at, Planned!Goes(p, at), [j EXCEPT !.at = at] \in Planned!JobState, JobOK([j EXCEPT !.at = at]),
               task' \in Planned!TaskState, planned_performed' \in Nat, withdrawn' \in BOOLEAN,
               pending' \in [Pending -> Planned!Dates \union {Nothing}]
        PROVE  PlannedTypeInv'
    <3>1. planned_job' = [planned_job EXCEPT ![p] = [j EXCEPT !.at = at]]
      BY <2>c DEF Planned!Goes, PlannedTypeInv
    <3> QED
      BY <3>1, <2>a, <2>c
  <2> HIDE DEF j
  <2>d. ASSUME NEW what \in {"perform", "cancel", "reactivate", "modify"}, NEW i \in Pending \union {Nothing},
               Planned!Begin(p, what, i), what = "perform" => i \in Pending, pending' = pending
        PROVE  PlannedTypeInv'
    <3> DEFINE k == [what |-> what, at |-> "load", pending |-> i, task |-> Nothing]
    <3>1. k \in Planned!JobState /\ JobOK(k)
      BY <2>d DEF Planned!JobState, JobOK, PerformJob, RequestJob, Performing
    <3>2. planned_job' = [planned_job EXCEPT ![p] = k] /\ UNCHANGED <<task, planned_performed, withdrawn>>
      BY <2>d DEF Planned!Begin
    <3> QED
      BY <3>1, <3>2, <2>d, <2>a, <1>3
  <2>1. ASSUME NEW i \in Pending, Planned!PerformTask(p, i) PROVE PlannedTypeInv'
    BY <2>1, <2>d DEF Planned!PerformTask
  <2>2. CASE Planned!GetPending(p)
    <3>1. j # Nothing /\ j.what = "perform" /\ UNCHANGED <<task, planned_performed, withdrawn, pending>>
          /\ (Planned!Goes(p, "task") \/ Planned!Ends(p))
      BY <2>2 DEF Planned!GetPending, j
    <3>2. [j EXCEPT !.at = "task"] \in Planned!JobState /\ JobOK([j EXCEPT !.at = "task"])
      BY <3>1, <2>0 DEF Planned!JobState, JobOK, PerformJob, Performing
    <3> QED
      BY <3>1, <3>2, <2>b, <2>c, <1>3
  <2>3. CASE Planned!GetTask(p)
    <3>1. j # Nothing /\ j.at = "task" /\ UNCHANGED <<task, planned_performed, withdrawn, pending>>
          /\ (Planned!Loads(p, "start") \/ Planned!Ends(p))
      BY <2>3 DEF Planned!GetTask, j
    <3> DEFINE k == [j EXCEPT !.task = task, !.at = "start"]
    <3>2. k \in Planned!JobState /\ JobOK(k)
      BY <3>1, <2>0, <1>3 DEF Planned!JobState, JobOK, PerformJob, RequestJob, Performing
    <3>3. CASE Planned!Loads(p, "start")
      <4>1. planned_job' = [planned_job EXCEPT ![p] = k]
        BY <3>3 DEF Planned!Loads, j, PlannedTypeInv
      <4> QED
        BY <4>1, <3>1, <3>2, <2>a, <1>3
    <3> QED
      BY <3>1, <3>3, <2>b, <1>3
  <2>4. CASE Planned!StartTask(p)
    <3>1. j # Nothing /\ j.at = "start" /\ UNCHANGED <<planned_performed, withdrawn, pending>>
          /\ Planned!Goes(p, "action") /\ task' = [j.task EXCEPT !.started = TRUE]
      BY <2>4 DEF Planned!StartTask, j, Planned!Saves
    <3>2. [j EXCEPT !.at = "action"] \in Planned!JobState /\ JobOK([j EXCEPT !.at = "action"]) /\ j.task \in Planned!TaskState
      BY <3>1, <2>0 DEF Planned!JobState, JobOK, PerformJob, RequestJob, Performing
    <3>3. task' \in Planned!TaskState
      BY <3>1, <3>2 DEF Planned!TaskState
    <3> QED
      BY <3>1, <3>2, <3>3, <2>c, <1>3
  <2>5. CASE Planned!PerformAction(p)
    <3>1. /\ j # Nothing /\ j.at = "action" /\ UNCHANGED <<task, pending>>
          /\ \/ Planned!Goes(p, "delete") /\ planned_performed' = planned_performed + 1 /\ withdrawn' \in BOOLEAN
             \/ Planned!Ends(p) /\ UNCHANGED <<planned_performed, withdrawn>>
      BY <2>5, <1>3 DEF Planned!PerformAction, j
    <3>2. [j EXCEPT !.at = "delete"] \in Planned!JobState /\ JobOK([j EXCEPT !.at = "delete"])
      BY <3>1, <2>0 DEF Planned!JobState, JobOK, PerformJob, RequestJob, Performing
    <3>3. planned_performed' \in Nat
      BY <3>1, <1>3
    <3> QED
      BY <3>1, <3>2, <3>3, <2>b, <2>c, <1>3
  <2>6. CASE Planned!DeletePending(p)
    <3>1. /\ j # Nothing /\ j.at = "delete" /\ UNCHANGED <<task, planned_performed, withdrawn>>
          /\ Planned!Goes(p, "complete") /\ pending' = [pending EXCEPT ![j.pending] = Nothing]
      BY <2>6 DEF Planned!DeletePending, j
    <3>2. [j EXCEPT !.at = "complete"] \in Planned!JobState /\ JobOK([j EXCEPT !.at = "complete"])
      BY <3>1, <2>0 DEF Planned!JobState, JobOK, PerformJob, RequestJob, Performing
    <3>3. pending' \in [Pending -> Planned!Dates \union {Nothing}]
      BY <3>1, <1>3
    <3> QED
      BY <3>1, <3>2, <3>3, <2>c, <1>3
  <2>7. CASE Planned!CompleteTask(p)
    <3>1. /\ j # Nothing /\ j.at = "complete" /\ UNCHANGED <<pending, planned_performed, withdrawn>> /\ Planned!Ends(p)
          /\ task' = [[j.task EXCEPT !.started = TRUE] EXCEPT !.status = "completed"]
      BY <2>7 DEF Planned!CompleteTask, j, Planned!Saves
    <3>2. j.task \in Planned!TaskState
      BY <3>1, <2>0 DEF Planned!JobState, JobOK, PerformJob, RequestJob, Performing
    <3>3. task' \in Planned!TaskState
      BY <3>1, <3>2 DEF Planned!TaskState
    <3> QED
      BY <3>1, <3>3, <2>b, <1>3
  <2>8. ASSUME NEW what \in {"cancel", "reactivate", "modify"}, Planned!Request(p, what) PROVE PlannedTypeInv'
    BY <2>8, <2>d DEF Planned!Request
  <2>9. CASE Planned!GetObject(p)
    <3> DEFINE at == IF j.what = "reactivate" THEN "create" ELSE "save"
               k == [j EXCEPT !.task = task, !.at = at]
    <3>1. j # Nothing /\ j.what # "perform" /\ UNCHANGED <<task, planned_performed, withdrawn, pending>>
          /\ (Planned!Loads(p, at) \/ Planned!Ends(p))
      BY <2>9 DEF Planned!GetObject, j
    <3>2. k \in Planned!JobState /\ JobOK(k)
      BY <3>1, <2>0, <1>3 DEF Planned!JobState, JobOK, PerformJob, RequestJob, Performing
    <3>3. CASE Planned!Loads(p, at)
      <4>1. planned_job' = [planned_job EXCEPT ![p] = k]
        BY <3>3 DEF Planned!Loads, j, PlannedTypeInv
      <4> QED
        BY <4>1, <3>1, <3>2, <2>a, <1>3
    <3> QED
      BY <3>1, <3>3, <2>b, <1>3
  <2>10. CASE Planned!CreatePending(p)
    <3>1. /\ j # Nothing /\ j.at = "create" /\ UNCHANGED <<task, planned_performed, withdrawn>> /\ Planned!Goes(p, "save")
          /\ \E i \in Pending : pending' = [pending EXCEPT ![i] = j.task.scheduled_for]
      BY <2>10 DEF Planned!CreatePending, j
    <3>2. [j EXCEPT !.at = "save"] \in Planned!JobState /\ JobOK([j EXCEPT !.at = "save"]) /\ j.task \in Planned!TaskState
      BY <3>1, <2>0 DEF Planned!JobState, JobOK, PerformJob, RequestJob, Performing
    <3>3. pending' \in [Pending -> Planned!Dates \union {Nothing}]
      BY <3>1, <3>2, <1>3 DEF Planned!TaskState
    <3> QED
      BY <3>1, <3>2, <3>3, <2>c, <1>3
  <2>11. CASE Planned!SaveTask(p)
    <3>1. j # Nothing /\ j.at = "save" /\ UNCHANGED <<planned_performed, withdrawn, pending>>
      BY <2>11 DEF Planned!SaveTask, j
    <3>2. j.what \in {"cancel", "reactivate", "modify"} /\ j.task \in Planned!TaskState
      BY <3>1, <2>0 DEF Planned!JobState, JobOK, PerformJob, RequestJob, Performing
    <3>3. CASE j.what = "cancel"
      <4>1. Planned!Goes(p, "row") /\ task' = [j.task EXCEPT !.status = "cancelled"]
        BY <2>11, <3>3 DEF Planned!SaveTask, j, Planned!Saves
      <4>2. [j EXCEPT !.at = "row"] \in Planned!JobState /\ JobOK([j EXCEPT !.at = "row"])
        BY <3>1, <3>3, <2>0 DEF Planned!JobState, JobOK, RequestJob
      <4>3. task' \in Planned!TaskState
        BY <4>1, <3>2 DEF Planned!TaskState
      <4> QED
        BY <3>1, <4>1, <4>2, <4>3, <2>c, <1>3
    <3>4. CASE j.what = "reactivate"
      <4>1. Planned!Ends(p) /\ task' = [j.task EXCEPT !.status = "pending"]
        BY <2>11, <3>4 DEF Planned!SaveTask, j, Planned!Saves
      <4>3. task' \in Planned!TaskState
        BY <4>1, <3>2 DEF Planned!TaskState
      <4> QED
        BY <3>1, <4>1, <4>3, <2>b, <1>3
    <3>5. CASE j.what = "modify"
      <4>1. PICK d \in Planned!Dates :
              LET t == [j.task EXCEPT !.scheduled_for = d] IN
              task' = t /\ planned_job' = [planned_job EXCEPT ![p].task = t, ![p].at = "row"]
        BY <2>11, <3>5 DEF Planned!SaveTask, j, Planned!Saves
      <4> DEFINE k == [j EXCEPT !.task = [j.task EXCEPT !.scheduled_for = d], !.at = "row"]
      <4>2. planned_job' = [planned_job EXCEPT ![p] = k]
        BY <4>1 DEF j, PlannedTypeInv
      <4>3. task' \in Planned!TaskState
        BY <4>1, <3>2 DEF Planned!TaskState
      <4>4. k \in Planned!JobState /\ JobOK(k)
        BY <4>1, <4>3, <3>1, <3>5, <2>0 DEF Planned!JobState, JobOK, RequestJob
      <4> QED
        BY <3>1, <4>2, <4>3, <4>4, <2>a, <1>3
    <3> QED
      BY <3>2, <3>3, <3>4, <3>5
  <2>12. CASE Planned!GetRow(p)
    <3>1. j # Nothing /\ j.at = "row" /\ UNCHANGED <<task, planned_performed, withdrawn, pending>>
      BY <2>12 DEF Planned!GetRow, j
    <3>2. CASE ~\E i \in Pending : Planned!Rows = {i}
      <4>1. Planned!Ends(p)
        BY <2>12, <3>2 DEF Planned!GetRow
      <4> QED
        BY <4>1, <3>1, <2>b, <1>3
    <3>3. ASSUME NEW i \in Pending, Planned!Rows = {i} PROVE PlannedTypeInv'
      <4> DEFINE k == [j EXCEPT !.at = "write", !.pending = i]
      <4>2. planned_job' = [planned_job EXCEPT ![p] = k]
        BY <2>12, <3>3 DEF Planned!GetRow, j, PlannedTypeInv
      <4>3. k \in Planned!JobState /\ JobOK(k)
        BY <3>1, <2>0 DEF Planned!JobState, JobOK, PerformJob, RequestJob, Performing
      <4> QED
        BY <4>2, <4>3, <3>1, <2>a, <1>3
    <3> QED
      BY <3>2, <3>3
  <2>13. CASE Planned!WriteRow(p)
    <3>1. /\ j # Nothing /\ j.at = "write" /\ UNCHANGED <<task, planned_performed, withdrawn>> /\ Planned!Ends(p)
          /\ pending' = [pending EXCEPT ![j.pending] =
                           IF j.what = "cancel" THEN Nothing ELSE j.task.scheduled_for]
      BY <2>13 DEF Planned!WriteRow, j
    <3>2. j.task \in Planned!TaskState
      BY <3>1, <2>0 DEF Planned!JobState, JobOK, PerformJob, RequestJob, Performing
    <3>3. pending' \in [Pending -> Planned!Dates \union {Nothing}]
      BY <3>1, <3>2, <1>3 DEF Planned!TaskState
    <3> QED
      BY <3>1, <3>3, <2>b, <1>3
  <2>14. CASE Planned!Die(p)
    BY <2>14, <2>b, <1>3 DEF Planned!Die
  <2> QED
    BY <1>4, <2>1, <2>2, <2>3, <2>4, <2>5, <2>6, <2>7, <2>8, <2>9, <2>10, <2>11, <2>12, <2>13, <2>14 DEF Planned!Steps
<1>5. CASE Planned!PollTasks
  BY <1>5, <1>1 DEF Planned!PollTasks, PlannedTypeInv
<1>6. CASE Planned!Tick
  BY <1>6, <1>1 DEF Planned!Tick, PlannedTypeInv
<1> QED
  BY <1>4, <1>5, <1>6 DEF Planned!Next

-----------------------------------------------------------------------------
IsAt(p, at) == planned_job[p] # Nothing /\ planned_job[p].at = at
Past(p) == IsAt(p, "action") \/ IsAt(p, "delete") \/ IsAt(p, "complete")

\* Who performs the task has found it neither started nor cancelled, and is alone.
Once ==
  /\ ~withdrawn /\ planned_performed <= 1
  /\ planned_performed = 1 => task.started
  /\ \A p \in Procs :
       /\ Past(p) => task.started
       /\ IsAt(p, "start") => ~task.started
       /\ IsAt(p, "action") => planned_performed = 0
       /\ IsAt(p, "start") \/ IsAt(p, "action") => planned_job[p].task.status # "cancelled"
       /\ IsAt(p, "task") /\ ~task.started => task.status # "cancelled"
       /\ Planned!Holds(p) /\ task.started => planned_job[p].task.started
  /\ \A p, q \in Procs : IsAt(p, "action") /\ IsAt(q, "action") => p = q

\* What a request holds, and the row there is, before the task is started.
Held(p) ==
  LET at == planned_job[p].at IN
  /\ planned_job[p].what = "reactivate" =>
       /\ task.status = "cancelled" /\ planned_job[p].task = task
       /\ at = "create" => Planned!Rows = {}
  /\ planned_job[p].what = "cancel" =>
       /\ at = "save" => task.status = "pending" /\ planned_job[p].task = task
       /\ at \in {"row", "write"} => task.status = "cancelled"
  /\ planned_job[p].what = "modify" =>
       /\ task.status = "pending"
       /\ at = "save" => planned_job[p].task = task
  /\ at = "write" => Planned!Rows \subseteq {planned_job[p].pending}
RowsFit ==
  ~task.started =>
    /\ task.status \in {"pending", "cancelled"}
    /\ \A i, j \in Planned!Rows : i = j
    /\ \A p \in Procs : Planned!Holds(p) => Held(p)
    /\ (\A p \in Procs : ~Planned!Holds(p)) /\ task.status = "cancelled" => Planned!Rows = {}

PlannedIInv == PlannedTypeInv /\ (~planned_excused => ~Planned!Overlap /\ Once /\ RowsFit)

LEMMA OnceStep ==
  ASSUME Planned!SchedulerConstants, PlannedTypeInv, PlannedTypeInv', ~Planned!Overlap, ~Planned!Overlap', Once, RowsFit, ~Planned!DiesHalfWay,
         NEW p \in Procs, Planned!Steps(p)
  PROVE  Once'
<1> USE DEF Once, IsAt, Past
<1>0. /\ planned_job \in [Procs -> Planned!JobState \union {Nothing}]
      /\ planned_job[p] # Nothing => planned_job[p] \in Planned!JobState /\ JobOK(planned_job[p])
      /\ task \in Planned!TaskState /\ planned_performed \in Nat
  BY DEF PlannedTypeInv
<1>1. ASSUME NEW what, NEW i, Planned!Begin(p, what, i) PROVE Once'
  <2>1. /\ planned_job'[p].at = "load" /\ \A q \in Procs \ {p} : planned_job'[q] = planned_job[q]
        /\ UNCHANGED <<task, planned_performed, withdrawn>>
    BY <1>1, <1>0 DEF Planned!Begin
  <2> QED
    BY <2>1 DEF Planned!Holds
<1>2. ASSUME Planned!Ends(p), UNCHANGED <<task, planned_performed, withdrawn>> PROVE Once'
  <2>1. planned_job'[p] = Nothing /\ \A q \in Procs \ {p} : planned_job'[q] = planned_job[q]
    BY <1>2, <1>0 DEF Planned!Ends
  <2> QED
    BY <2>1, <1>2 DEF Planned!Holds
<1>3. CASE Planned!GetPending(p)
  <2>1. CASE Planned!Ends(p)
    BY <2>1, <1>2, <1>3 DEF Planned!GetPending
  <2>2. CASE Planned!Goes(p, "task") /\ Planned!Exists(planned_job[p].pending)
    <3>1. planned_job[p].what = "perform" /\ planned_job[p].pending \in Pending
      BY <1>3, <1>0 DEF Planned!GetPending, JobOK, PerformJob
    <3>2. /\ planned_job'[p] # Nothing /\ planned_job'[p].at = "task" /\ planned_job'[p].what = "perform"
          /\ \A q \in Procs \ {p} : planned_job'[q] = planned_job[q]
      BY <1>3, <1>0, <2>2, <3>1, NotNothing DEF Planned!GetPending, Planned!Goes, Planned!JobState
    <3>3. \A q \in Procs \ {p} : ~Planned!Holds(q)
      BY <3>2 DEF Planned!Overlap, Planned!Starting, Planned!Holds
    <3>4. ~Planned!Holds(p)
      BY <3>1 DEF Planned!Holds
    <3>5. ~task.started => task.status # "cancelled"
      BY <2>2, <3>1, <3>3, <3>4 DEF RowsFit, Planned!Rows
    <3>6. UNCHANGED <<task, planned_performed, withdrawn>>
      BY <1>3 DEF Planned!GetPending
    <3> QED
      BY <3>2, <3>5, <3>6 DEF Planned!Holds
  <2> QED
    BY <1>3, <2>1, <2>2 DEF Planned!GetPending
<1>4. ASSUME NEW at \in {"task", "action", "delete", "complete", "save", "row"}, Planned!Goes(p, at), planned_job[p] # Nothing
      PROVE  /\ planned_job'[p] # Nothing /\ planned_job'[p] = [planned_job[p] EXCEPT !.at = at]
             /\ planned_job'[p].at = at /\ planned_job'[p].what = planned_job[p].what /\ planned_job'[p].task = planned_job[p].task
             /\ \A q \in Procs \ {p} : planned_job'[q] = planned_job[q]
  <2>1. planned_job'[p] = [planned_job[p] EXCEPT !.at = at] /\ \A q \in Procs \ {p} : planned_job'[q] = planned_job[q]
    BY <1>4, <1>0 DEF Planned!Goes
  <2>2. planned_job'[p] \in Planned!JobState \union {Nothing} /\ planned_job[p] \in Planned!JobState
    BY <1>4, <1>0 DEF PlannedTypeInv
  <2>3. planned_job'[p] # Nothing
    <3>1. planned_job[p] \in Planned!JobState
      BY <1>4, <1>0
    <3>2. planned_job'[p] \in Planned!JobState
      BY <2>1, <3>1 DEF Planned!JobState
    <3> QED
      BY <3>2, NotNothing
  <2> QED
    BY <2>1, <2>2, <2>3 DEF Planned!JobState
<1>5. CASE Planned!GetTask(p)
  <2>1. CASE Planned!Ends(p)
    BY <2>1, <1>2, <1>5 DEF Planned!GetTask
  <2>2. CASE ~task.started /\ Planned!Loads(p, "start")
    <3>1. planned_job[p] # Nothing /\ planned_job[p].at = "task" /\ UNCHANGED <<task, planned_performed, withdrawn>>
      BY <1>5 DEF Planned!GetTask
    <3>2. planned_job[p].what = "perform"
      BY <3>1, <1>0 DEF JobOK, RequestJob
    <3>3. /\ planned_job'[p].at = "start" /\ planned_job'[p].task = task /\ planned_job'[p].what = "perform"
          /\ \A q \in Procs \ {p} : planned_job'[q] = planned_job[q]
      BY <1>0, <2>2, <3>1, <3>2 DEF Planned!Loads, Planned!JobState
    <3> QED
      BY <2>2, <3>1, <3>3 DEF Planned!Holds
  <2> QED
    BY <1>5, <2>1, <2>2 DEF Planned!GetTask, Planned!AlreadyStarted
<1>6. CASE Planned!StartTask(p)
  <2>1. /\ planned_job[p] # Nothing /\ planned_job[p].at = "start" /\ Planned!Goes(p, "action") /\ UNCHANGED <<planned_performed, withdrawn>>
        /\ task' = [planned_job[p].task EXCEPT !.started = TRUE]
    BY <1>6 DEF Planned!StartTask, Planned!Saves
  <2>2. planned_job[p].what = "perform" /\ planned_job[p].task \in Planned!TaskState
    BY <2>1, <1>0 DEF JobOK, RequestJob, PerformJob, Performing
  <2>3. task'.started
    BY <2>1, <2>2 DEF Planned!TaskState
  <2>4. \A q \in Procs \ {p} : ~Planned!Holds(q) /\ ~(planned_job[q] # Nothing /\ planned_job[q].what = "perform" /\ planned_job[q].at \in {"task", "start"})
    BY <2>1, <2>2 DEF Planned!Overlap, Planned!Starting
  <2>5. \A q \in Procs \ {p} : ~IsAt(q, "start") /\ ~IsAt(q, "task")
    <3> SUFFICES ASSUME NEW q \in Procs \ {p}, IsAt(q, "start") \/ IsAt(q, "task") PROVE FALSE
      OBVIOUS
    <3>1. JobOK(planned_job[q])
      BY DEF PlannedTypeInv
    <3> QED
      BY <3>1, <2>4 DEF JobOK, RequestJob
  <2>6. ~task.started /\ planned_performed = 0 /\ \A q \in Procs : ~Past(q)
    BY <2>1, <1>0
  <2> QED
    BY <1>4, <2>1, <2>2, <2>3, <2>4, <2>5, <2>6 DEF Planned!Holds
<1>7. CASE Planned!PerformAction(p)
  <2>1. planned_job[p] # Nothing /\ planned_job[p].at = "action" /\ UNCHANGED task
    BY <1>7 DEF Planned!PerformAction
  <2>2. CASE Planned!Ends(p) /\ UNCHANGED <<planned_performed, withdrawn>>
    BY <1>2, <2>1, <2>2
  <2>3. CASE Planned!Goes(p, "delete") /\ planned_performed' = planned_performed + 1 /\ withdrawn' = (withdrawn \/ planned_job[p].task.status = "cancelled")
    <3>1. planned_performed' = 1 /\ ~withdrawn' /\ task.started
      <4>1. planned_performed = 0 /\ task.started /\ planned_job[p].task.status # "cancelled" /\ ~withdrawn
        BY <2>1
      <4>2. planned_performed' = 1
        BY <2>3, <4>1
      <4>3. ~withdrawn'
        BY <2>3, <4>1, Zenon
      <4> QED
        BY <4>1, <4>2, <4>3
    <3>2. \A q \in Procs \ {p} : ~IsAt(q, "action")
      BY <2>1
    <3> QED
      BY <1>4, <2>1, <2>3, <3>1, <3>2 DEF Planned!Holds
  <2> QED
    BY <1>7, <2>2, <2>3 DEF Planned!PerformAction
<1>8. CASE Planned!DeletePending(p)
  <2>1. /\ planned_job[p] # Nothing /\ planned_job[p].at = "delete" /\ Planned!Goes(p, "complete") /\ UNCHANGED <<task, planned_performed, withdrawn>>
        /\ planned_job[p].what = "perform"
    BY <1>8 DEF Planned!DeletePending
  <2> QED
    BY <1>4, <2>1 DEF Planned!Holds
<1>9. CASE Planned!CompleteTask(p)
  <2>1. /\ planned_job[p] # Nothing /\ planned_job[p].at = "complete" /\ Planned!Ends(p) /\ UNCHANGED <<planned_performed, withdrawn>>
        /\ task' = [[planned_job[p].task EXCEPT !.started = TRUE] EXCEPT !.status = "completed"]
    BY <1>9 DEF Planned!CompleteTask, Planned!Saves
  <2>2. planned_job[p].task \in Planned!TaskState
    BY <2>1, <1>0 DEF JobOK, RequestJob, PerformJob, Performing
  <2>3. task'.started /\ task.started
    BY <2>1, <2>2, <1>0 DEF Planned!TaskState
  <2>4. planned_job'[p] = Nothing /\ \A q \in Procs \ {p} : planned_job'[q] = planned_job[q]
    BY <2>1, <1>0 DEF Planned!Ends
  <2> QED
    BY <2>1, <2>3, <2>4 DEF Planned!Holds
<1>10. CASE Planned!GetObject(p)
  <2>1. planned_job[p] # Nothing /\ planned_job[p].what # "perform" /\ planned_job[p].at = "load" /\ UNCHANGED <<task, planned_performed, withdrawn>>
    BY <1>10 DEF Planned!GetObject
  <2>2. CASE Planned!Ends(p)
    BY <2>1, <2>2, <1>2
  <2>3. ASSUME NEW at \in {"create", "save"}, Planned!Loads(p, at) PROVE Once'
    <3>1. /\ planned_job'[p].at = at /\ planned_job'[p].task = task /\ planned_job'[p].what = planned_job[p].what
          /\ \A q \in Procs \ {p} : planned_job'[q] = planned_job[q]
      BY <1>0, <2>1, <2>3 DEF Planned!Loads, Planned!JobState
    <3> QED
      BY <2>1, <3>1 DEF Planned!Holds
  <2> QED
    BY <1>10, <2>2, <2>3 DEF Planned!GetObject
<1>11. CASE Planned!CreatePending(p)
  <2>1. planned_job[p] # Nothing /\ planned_job[p].at = "create" /\ Planned!Goes(p, "save") /\ UNCHANGED <<task, planned_performed, withdrawn>>
    BY <1>11 DEF Planned!CreatePending
  <2>2. Planned!Holds(p)
    BY <2>1, <1>0 DEF JobOK, PerformJob, Performing, Planned!Holds
  <2> QED
    BY <1>4, <2>1, <2>2 DEF Planned!Holds
\* A request that saves the task is the only one that holds it.
<1>12. ASSUME IsAt(p, "save"), task'.started = planned_job[p].task.started, UNCHANGED <<planned_performed, withdrawn>>,
              \/ Planned!Ends(p)
              \/ /\ planned_job'[p].at = "row" /\ planned_job'[p].what = planned_job[p].what /\ planned_job'[p].task.started = task'.started
                 /\ \A q \in Procs \ {p} : planned_job'[q] = planned_job[q]
       PROVE  Once'
  <2>1. Planned!Holds(p)
    BY <1>12, <1>0 DEF JobOK, PerformJob, Performing, Planned!Holds
  <2>2. \A q \in Procs \ {p} : ~Planned!Holds(q) /\ ~Planned!Starting(q)
    BY <2>1 DEF Planned!Overlap
  <2>3. \A q \in Procs \ {p} : ~IsAt(q, "start") /\ ~IsAt(q, "task")
    <3> SUFFICES ASSUME NEW q \in Procs \ {p}, IsAt(q, "start") \/ IsAt(q, "task") PROVE FALSE
      OBVIOUS
    <3>1. JobOK(planned_job[q])
      BY DEF PlannedTypeInv
    <3> QED
      BY <3>1, <2>2 DEF JobOK, RequestJob, Planned!Starting
  <2>4. task.started => task'.started
    BY <1>12, <2>1
  <2>5. task'.started \in BOOLEAN /\ task.started \in BOOLEAN
    BY DEF PlannedTypeInv, Planned!TaskState
  <2>6. CASE Planned!Ends(p)
    <3>1. planned_job'[p] = Nothing /\ \A q \in Procs \ {p} : planned_job'[q] = planned_job[q]
      BY <2>6, <1>0 DEF Planned!Ends
    <3> QED
      BY <1>12, <2>1, <2>2, <2>3, <2>4, <3>1 DEF Planned!Holds
  <2>7. CASE ~Planned!Ends(p)
    BY <1>12, <2>1, <2>2, <2>3, <2>4, <2>7 DEF Planned!Holds
  <2> QED
    BY <2>6, <2>7
<1>13. CASE Planned!SaveTask(p)
  <2>1. IsAt(p, "save") /\ UNCHANGED <<planned_performed, withdrawn>>
    BY <1>13 DEF Planned!SaveTask
  <2>2. planned_job[p].what \in {"cancel", "reactivate", "modify"} /\ planned_job[p].task \in Planned!TaskState /\ planned_job[p] \in Planned!JobState
    BY <2>1, <1>0, NotNothing DEF JobOK, PerformJob, RequestJob, Performing, Planned!JobState
  <2>3. CASE planned_job[p].what = "cancel"
    <3>1. Planned!Goes(p, "row") /\ task' = [planned_job[p].task EXCEPT !.status = "cancelled"]
      BY <1>13, <2>3 DEF Planned!SaveTask, Planned!Saves
    <3>2. task'.started = planned_job[p].task.started
      BY <3>1, <2>2 DEF Planned!TaskState
    <3> QED
      BY <1>4, <1>12, <2>1, <3>1, <3>2
  <2>4. CASE planned_job[p].what = "reactivate"
    <3>1. Planned!Ends(p) /\ task' = [planned_job[p].task EXCEPT !.status = "pending"]
      BY <1>13, <2>4 DEF Planned!SaveTask, Planned!Saves
    <3>2. task'.started = planned_job[p].task.started
      BY <3>1, <2>2 DEF Planned!TaskState
    <3> QED
      BY <1>12, <2>1, <3>1, <3>2
  <2>5. CASE planned_job[p].what = "modify"
    <3>1. PICK d \in Planned!Dates :
            LET t == [planned_job[p].task EXCEPT !.scheduled_for = d] IN
            task' = t /\ planned_job' = [planned_job EXCEPT ![p].task = t, ![p].at = "row"]
      BY <1>13, <2>5 DEF Planned!SaveTask, Planned!Saves
    <3>2. task'.started = planned_job[p].task.started
      BY <3>1, <2>2 DEF Planned!TaskState
    <3>3. /\ planned_job'[p].at = "row" /\ planned_job'[p].what = planned_job[p].what /\ planned_job'[p].task = task'
          /\ \A q \in Procs \ {p} : planned_job'[q] = planned_job[q]
      BY <3>1, <2>2, <1>0 DEF Planned!JobState
    <3> QED
      BY <1>12, <2>1, <3>2, <3>3
  <2> QED
    BY <2>2, <2>3, <2>4, <2>5
<1>14. CASE Planned!GetRow(p)
  <2>1. planned_job[p] # Nothing /\ planned_job[p].at = "row" /\ UNCHANGED <<task, planned_performed, withdrawn>>
    BY <1>14 DEF Planned!GetRow
  <2>2. CASE Planned!Ends(p)
    BY <2>1, <2>2, <1>2
  <2>3. ASSUME NEW i, planned_job' = [planned_job EXCEPT ![p] = [@ EXCEPT !.at = "write", !.pending = i]] PROVE Once'
    <3>1. planned_job[p] \in Planned!JobState
      BY <2>1, <1>0
    <3>2. /\ planned_job'[p].at = "write" /\ planned_job'[p].what = planned_job[p].what /\ planned_job'[p].task = planned_job[p].task
          /\ \A q \in Procs \ {p} : planned_job'[q] = planned_job[q]
      BY <1>0, <2>3, <3>1 DEF Planned!JobState
    <3>3. Planned!Holds(p)
      BY <2>1, <1>0 DEF JobOK, PerformJob, Performing, Planned!Holds
    <3> QED
      BY <2>1, <3>2, <3>3 DEF Planned!Holds
  <2> QED
    BY <1>14, <2>2, <2>3 DEF Planned!GetRow
<1>15. CASE Planned!WriteRow(p)
  BY <1>2, <1>15 DEF Planned!WriteRow
<1>16. CASE Planned!Die(p)
  BY <1>2, <1>16 DEF Planned!Die
<1> QED
  BY <1>1, <1>3, <1>5, <1>6, <1>7, <1>8, <1>9, <1>10, <1>11, <1>13, <1>14, <1>15, <1>16
     DEF Planned!Steps, Planned!PerformTask, Planned!Request

\* What a step does to the other processes, and to what they hold.
LEMMA RowsStep ==
  ASSUME Planned!SchedulerConstants, PlannedTypeInv, PlannedTypeInv', ~Planned!Overlap, ~Planned!Overlap', Once, RowsFit, ~Planned!DiesHalfWay,
         NEW p \in Procs, Planned!Steps(p)
  PROVE  RowsFit'
<1>0. /\ planned_job \in [Procs -> Planned!JobState \union {Nothing}]
      /\ planned_job[p] # Nothing => planned_job[p] \in Planned!JobState /\ JobOK(planned_job[p])
      /\ task \in Planned!TaskState /\ pending \in [Pending -> Planned!Dates \union {Nothing}]
  BY DEF PlannedTypeInv
<1> DEFINE others == \A q \in Procs \ {p} : planned_job'[q] = planned_job[q]
\* A step that changes neither the task nor its rows, by a process that holds nothing.
<1>1. ASSUME others, UNCHANGED <<task, pending>>, ~Planned!Holds(p), ~Planned!Holds(p)' PROVE RowsFit'
  BY <1>1 DEF RowsFit, Held, Planned!Rows, Planned!Exists, Planned!Holds
<1>2. ASSUME Planned!Ends(p), UNCHANGED <<task, pending>>, ~Planned!Holds(p) PROVE RowsFit'
  BY <1>2, <1>1, <1>0 DEF Planned!Ends, Planned!Holds
\* Who holds the task is alone.
<1>3. ASSUME Planned!Holds(p) PROVE \A q \in Procs \ {p} : ~Planned!Holds(q)
  BY <1>3 DEF Planned!Overlap
<1>4. ASSUME Planned!Holds(p)' PROVE \A q \in Procs \ {p} : ~Planned!Holds(q)'
  BY <1>4 DEF Planned!Overlap
\* What marks the task as started leaves nothing to show.
<1>5. CASE task'.started
  BY <1>5 DEF RowsFit
<1>6. ASSUME Past(p), UNCHANGED task PROVE task'.started
  BY <1>6 DEF Once
<1>7. ASSUME NEW what, NEW i, Planned!Begin(p, what, i), UNCHANGED pending PROVE RowsFit'
  <2>1. planned_job'[p].at = "load" /\ others /\ UNCHANGED task /\ planned_job[p] = Nothing
    BY <1>7, <1>0 DEF Planned!Begin
  <2> QED
    BY <1>1, <1>7, <2>1 DEF Planned!Holds
<1>8. CASE Planned!GetPending(p)
  <2>1. planned_job[p].what = "perform" /\ UNCHANGED <<task, pending>> /\ planned_job[p] # Nothing
    BY <1>8 DEF Planned!GetPending
  <2>2. CASE Planned!Goes(p, "task")
    <3>1. planned_job'[p].what = "perform" /\ others
      BY <1>0, <2>1, <2>2 DEF Planned!Goes, Planned!JobState
    <3> QED
      BY <1>1, <2>1, <3>1 DEF Planned!Holds
  <2> QED
    BY <1>2, <1>8, <2>1, <2>2 DEF Planned!GetPending, Planned!Holds
<1>9. CASE Planned!GetTask(p)
  <2>1. planned_job[p] # Nothing /\ planned_job[p].at = "task" /\ UNCHANGED <<task, pending>>
    BY <1>9 DEF Planned!GetTask
  <2>2. planned_job[p].what = "perform"
    BY <2>1, <1>0 DEF JobOK, RequestJob
  <2>3. CASE Planned!Loads(p, "start")
    <3>1. planned_job'[p].what = "perform" /\ others
      BY <1>0, <2>1, <2>2, <2>3 DEF Planned!Loads, Planned!JobState
    <3> QED
      BY <1>1, <2>1, <2>2, <3>1 DEF Planned!Holds
  <2> QED
    BY <1>2, <1>9, <2>1, <2>2, <2>3 DEF Planned!GetTask, Planned!Holds
<1>10. CASE Planned!StartTask(p) \/ Planned!CompleteTask(p)
  <2>1. planned_job[p] # Nothing /\ planned_job[p].at \in {"start", "complete"}
        /\ (task' = [planned_job[p].task EXCEPT !.started = TRUE]
            \/ task' = [[planned_job[p].task EXCEPT !.started = TRUE] EXCEPT !.status = "completed"])
    BY <1>10 DEF Planned!StartTask, Planned!CompleteTask, Planned!Saves
  <2>2. planned_job[p].task \in Planned!TaskState
    BY <2>1, <1>0 DEF JobOK, RequestJob, PerformJob, Performing
  <2>3. task'.started
    BY <2>1, <2>2 DEF Planned!TaskState
  <2> QED
    BY <2>3, <1>5
<1>11. CASE Planned!PerformAction(p) \/ Planned!DeletePending(p)
  BY <1>5, <1>6, <1>11 DEF Planned!PerformAction, Planned!DeletePending, Past, IsAt
<1>12. CASE Planned!GetObject(p)
  <2>1. planned_job[p] # Nothing /\ planned_job[p].what # "perform" /\ planned_job[p].at = "load" /\ UNCHANGED <<task, pending>>
    BY <1>12 DEF Planned!GetObject
  <2>2. CASE Planned!Ends(p)
    BY <1>2, <2>1, <2>2 DEF Planned!Holds
  <2>3. CASE task.status \in Planned!Expected(planned_job[p].what) /\ Planned!Loads(p, IF planned_job[p].what = "reactivate" THEN "create" ELSE "save")
    <3> DEFINE at == IF planned_job[p].what = "reactivate" THEN "create" ELSE "save"
    <3>1. planned_job'[p].at = at /\ planned_job'[p].what = planned_job[p].what /\ planned_job'[p].task = task /\ others
      BY <1>0, <2>1, <2>3 DEF Planned!Loads, Planned!JobState
    <3>2. planned_job'[p] # Nothing
      <4>1. planned_job'[p] = [planned_job[p] EXCEPT !.task = task, !.at = at] /\ planned_job[p] \in Planned!JobState
        BY <1>0, <2>1, <2>3 DEF Planned!Loads
      <4>2. planned_job'[p] \in Planned!JobState
        BY <4>1, <1>0 DEF Planned!JobState
      <4> QED
        BY <4>2, NotNothing
    <3>3. Planned!Holds(p)' /\ \A q \in Procs : ~Planned!Holds(q)
      BY <2>1, <3>1, <3>2, <1>4 DEF Planned!Holds
    <3>4. ~task.started => Held(p)'
      BY <2>1, <2>3, <3>1, <3>3 DEF Held, Planned!Expected, RowsFit, Planned!Rows, Planned!Exists
    <3> QED
      BY <2>1, <3>1, <3>3, <3>4, <1>4 DEF RowsFit, Planned!Rows, Planned!Exists
  <2> QED
    BY <1>12, <2>2, <2>3 DEF Planned!GetObject
\* The one that holds the task goes on.
<1>13. ASSUME Planned!Holds(p), Planned!Holds(p)', task'.status \in {"pending", "cancelled"},
              \A i, k \in Planned!Rows' : i = k, task.started => task'.started, ~task.started => Held(p)'
       PROVE  RowsFit'
  BY <1>13, <1>4 DEF RowsFit
\* ... or ends.
<1>14. ASSUME Planned!Holds(p), Planned!Ends(p), task'.status \in {"pending", "cancelled"}, \A i, k \in Planned!Rows' : i = k,
              task'.status = "cancelled" => Planned!Rows' = {}
       PROVE  RowsFit'
  <2>1. \A q \in Procs : ~Planned!Holds(q)'
    BY <1>3, <1>14, <1>0 DEF Planned!Ends, Planned!Holds
  <2> QED
    BY <1>14, <2>1 DEF RowsFit
<1>15. CASE Planned!CreatePending(p)
  <2>1. planned_job[p] # Nothing /\ planned_job[p].at = "create" /\ UNCHANGED task /\ Planned!Goes(p, "save")
        /\ \E i \in Pending \ Planned!Rows : pending' = [pending EXCEPT ![i] = planned_job[p].task.scheduled_for]
    BY <1>15 DEF Planned!CreatePending
  <2>2. planned_job[p].what = "reactivate" /\ Planned!Holds(p)
    BY <2>1, <1>0 DEF JobOK, RequestJob, PerformJob, Performing, Planned!Holds
  <2>3. planned_job'[p] = [planned_job[p] EXCEPT !.at = "save"] /\ planned_job[p] \in Planned!JobState
    BY <2>1, <1>0 DEF Planned!Goes
  <2>4. planned_job'[p] \in Planned!JobState /\ planned_job'[p].at = "save" /\ planned_job'[p].what = "reactivate" /\ planned_job'[p].task = planned_job[p].task
    BY <2>2, <2>3 DEF Planned!JobState
  <2>5. Planned!Holds(p)'
    BY <2>4, NotNothing DEF Planned!Holds
  <2>6. ASSUME ~task.started PROVE RowsFit'
    <3>1. Planned!Rows = {} /\ task.status = "cancelled" /\ planned_job[p].task = task
      BY <2>6, <2>1, <2>2 DEF RowsFit, Held
    <3>2. \A i, k \in Planned!Rows' : i = k
      BY <2>1, <3>1, <1>0 DEF Planned!Rows, Planned!Exists
    <3>3. Held(p)'
      BY <2>1, <2>4, <3>1 DEF Held
    <3> QED
      BY <1>13, <2>1, <2>2, <2>5, <3>1, <3>2, <3>3
  <2> QED
    BY <1>5, <2>1, <2>6
<1>16. CASE Planned!SaveTask(p)
  <2>1. planned_job[p] # Nothing /\ planned_job[p].at = "save" /\ UNCHANGED pending
    BY <1>16 DEF Planned!SaveTask
  <2>2. /\ planned_job[p].what \in {"cancel", "reactivate", "modify"} /\ planned_job[p].task \in Planned!TaskState /\ planned_job[p] \in Planned!JobState
        /\ Planned!Holds(p)
    BY <2>1, <1>0 DEF JobOK, PerformJob, RequestJob, Performing, Planned!JobState, Planned!Holds
  <2> SUFFICES ASSUME ~task'.started PROVE RowsFit'
    BY <1>5
  <2>3. ~task.started /\ Held(p) /\ (\A i, k \in Planned!Rows : i = k) /\ Planned!Rows' = Planned!Rows
    <3>1. task'.started = planned_job[p].task.started
      BY <1>16, <2>2 DEF Planned!SaveTask, Planned!Saves, Planned!TaskState
    <3>2. ~task.started
      BY <3>1, <2>2 DEF Once
    <3> QED
      BY <2>1, <2>2, <3>2 DEF RowsFit, Planned!Rows, Planned!Exists
  <2>4. CASE planned_job[p].what = "cancel"
    <3>1. Planned!Goes(p, "row") /\ task' = [planned_job[p].task EXCEPT !.status = "cancelled"]
      BY <1>16, <2>4 DEF Planned!SaveTask, Planned!Saves
    <3>2. planned_job'[p] = [planned_job[p] EXCEPT !.at = "row"]
      BY <3>1, <1>0 DEF Planned!Goes
    <3>3. planned_job'[p] \in Planned!JobState /\ planned_job'[p].at = "row" /\ planned_job'[p].what = "cancel"
      BY <2>2, <2>4, <3>2 DEF Planned!JobState
    <3>4. task'.status = "cancelled"
      BY <3>1, <2>2 DEF Planned!TaskState
    <3>5. Planned!Holds(p)' /\ Held(p)'
      BY <3>3, <3>4, NotNothing DEF Planned!Holds, Held
    <3> QED
      BY <1>13, <2>2, <2>3, <3>4, <3>5
  <2>5. CASE planned_job[p].what = "reactivate"
    <3>1. Planned!Ends(p) /\ task' = [planned_job[p].task EXCEPT !.status = "pending"]
      BY <1>16, <2>5 DEF Planned!SaveTask, Planned!Saves
    <3>2. task'.status = "pending"
      BY <3>1, <2>2 DEF Planned!TaskState
    <3> QED
      BY <1>14, <2>2, <2>3, <3>1, <3>2
  <2>6. CASE planned_job[p].what = "modify"
    <3>1. PICK d \in Planned!Dates :
            LET t == [planned_job[p].task EXCEPT !.scheduled_for = d] IN
            task' = t /\ planned_job' = [planned_job EXCEPT ![p].task = t, ![p].at = "row"]
      BY <1>16, <2>6 DEF Planned!SaveTask, Planned!Saves
    <3>2. task'.status = "pending"
      BY <2>1, <2>2, <2>3, <2>6, <3>1 DEF Planned!TaskState, Held
    <3>3. planned_job'[p] \in Planned!JobState /\ planned_job'[p].at = "row" /\ planned_job'[p].what = "modify"
      BY <3>1, <2>2, <2>6, <1>0 DEF Planned!JobState, Planned!TaskState
    <3>4. Planned!Holds(p)' /\ Held(p)'
      BY <3>2, <3>3, NotNothing DEF Planned!Holds, Held
    <3> QED
      BY <1>13, <2>2, <2>3, <3>2, <3>4
  <2> QED
    BY <2>2, <2>4, <2>5, <2>6
<1>17. CASE Planned!GetRow(p)
  <2>1. planned_job[p] # Nothing /\ planned_job[p].at = "row" /\ UNCHANGED <<task, pending>>
    BY <1>17 DEF Planned!GetRow
  <2>2. planned_job[p].what \in {"cancel", "modify"} /\ planned_job[p] \in Planned!JobState /\ Planned!Holds(p)
    BY <2>1, <1>0 DEF JobOK, PerformJob, RequestJob, Performing, Planned!Holds
  <2> SUFFICES ASSUME ~task.started PROVE RowsFit'
    BY <1>5, <2>1
  <2>3. /\ Held(p) /\ (\A i, k \in Planned!Rows : i = k) /\ Planned!Rows' = Planned!Rows
        /\ task.status \in {"pending", "cancelled"}
    BY <2>1, <2>2 DEF RowsFit, Planned!Rows, Planned!Exists
  <2>4. CASE ~\E i \in Pending : Planned!Rows = {i}
    <3>1. Planned!Rows = {}
      <4> SUFFICES ASSUME NEW i \in Planned!Rows PROVE FALSE
        OBVIOUS
      <4>1. Planned!Rows = {i} /\ i \in Pending
        BY <2>3 DEF Planned!Rows
      <4> QED
        BY <4>1, <2>4
    <3>2. Planned!Ends(p)
      BY <1>17, <2>4 DEF Planned!GetRow
    <3>3. /\ task'.status \in {"pending", "cancelled"} /\ Planned!Rows' = {}
          /\ \A i, k \in Planned!Rows' : i = k
      BY <2>1, <2>3, <3>1
    <3> QED
      BY <1>14, <2>2, <3>2, <3>3
  <2>5. ASSUME NEW i \in Pending, Planned!Rows = {i} PROVE RowsFit'
    <3>3. planned_job'[p] = [planned_job[p] EXCEPT !.at = "write", !.pending = i]
      BY <1>17, <2>5, <1>0 DEF Planned!GetRow
    <3>4. planned_job'[p] \in Planned!JobState /\ planned_job'[p].at = "write" /\ planned_job'[p].what = planned_job[p].what /\ planned_job'[p].pending = i
      BY <2>2, <3>3 DEF Planned!JobState
    <3>5. Planned!Holds(p)' /\ Held(p)'
      BY <2>1, <2>2, <2>3, <2>5, <3>4, NotNothing DEF Planned!Holds, Held
    <3> QED
      BY <1>13, <2>1, <2>2, <2>3, <3>5
  <2> QED
    BY <2>4, <2>5
<1>18. CASE Planned!WriteRow(p)
  <2>1. /\ planned_job[p] # Nothing /\ planned_job[p].at = "write" /\ UNCHANGED task /\ Planned!Ends(p)
        /\ pending' = [pending EXCEPT ![planned_job[p].pending] =
                         IF planned_job[p].what = "cancel" THEN Nothing ELSE planned_job[p].task.scheduled_for]
    BY <1>18 DEF Planned!WriteRow
  <2>2. planned_job[p].what \in {"cancel", "modify"} /\ Planned!Holds(p)
    BY <2>1, <1>0 DEF JobOK, PerformJob, RequestJob, Performing, Planned!Holds
  <2> SUFFICES ASSUME ~task.started PROVE RowsFit'
    BY <1>5, <2>1
  <2>3. Held(p) /\ Planned!Rows \subseteq {planned_job[p].pending}
    BY <2>1, <2>2 DEF RowsFit, Held
  <2>4. Planned!Rows' \subseteq {planned_job[p].pending} /\ (planned_job[p].what = "cancel" => Planned!Rows' = {})
    BY <2>1, <2>3, <1>0 DEF Planned!Rows, Planned!Exists
  <2>5. /\ planned_job[p].what = "cancel" => task.status = "cancelled"
        /\ planned_job[p].what = "modify" => task.status = "pending"
    BY <2>1, <2>3 DEF Held
  <2>6. Planned!Ends(p) /\ task' = task
    BY <2>1
  <2>7. task'.status \in {"pending", "cancelled"} /\ \A i, k \in Planned!Rows' : i = k
    BY <2>2, <2>4, <2>5, <2>6
  <2>8. task'.status = "cancelled" => Planned!Rows' = {}
    BY <2>2, <2>4, <2>5, <2>6
  <2> QED
    BY <1>14, <2>2, <2>6, <2>7, <2>8
<1>19. CASE Planned!Die(p)
  <2>1. planned_deaths' = planned_deaths + 1 /\ Planned!Ends(p) /\ UNCHANGED <<task, pending>>
    BY <1>19 DEF Planned!Die
  <2>2. ~Planned!Holds(p)
    BY <2>1, <1>0 DEF Planned!DiesHalfWay, Planned!Ends, PlannedTypeInv
  <2> QED
    BY <1>2, <2>1, <2>2
<1> QED
  BY <1>7, <1>8, <1>9, <1>10, <1>11, <1>12, <1>15, <1>16, <1>17, <1>18, <1>19
     DEF Planned!Steps, Planned!PerformTask, Planned!Request

LEMMA IInvInit == Planned!Init => PlannedIInv
<1> SUFFICES ASSUME Planned!Init PROVE PlannedIInv
  OBVIOUS
<1>1. /\ \A p \in Procs : planned_job[p] = Nothing
      /\ planned_performed = 0 /\ ~withdrawn
  BY DEF Planned!Init
<1>2. PICK d \in Planned!Dates, i \in Pending :
        task = Planned!NewTask(d) /\ pending = [j \in Pending |-> IF j = i THEN d ELSE Nothing]
  BY DEF Planned!Init
<1>3. task.status = "pending" /\ ~task.started
  BY <1>2 DEF Planned!NewTask
<1>4. Planned!Rows \subseteq {i}
  BY <1>2 DEF Planned!Rows, Planned!Exists
<1> QED
  BY <1>1, <1>3, <1>4, InitType DEF PlannedIInv, Planned!Overlap, Planned!Starting, Planned!Holds, Once, IsAt, Past, RowsFit

LEMMA PlannedIInvStep ==
  ASSUME Planned!SchedulerConstants
  PROVE  PlannedIInv /\ [Planned!Next]_(Planned!vars) => PlannedIInv'
<1> SUFFICES ASSUME PlannedIInv, [Planned!Next]_(Planned!vars) PROVE PlannedIInv'
  OBVIOUS
<1>1. PlannedTypeInv /\ PlannedTypeInv'
  BY PlannedTypeStep DEF PlannedIInv
<1>2. CASE UNCHANGED Planned!vars
  BY <1>1, <1>2 DEF PlannedIInv, Planned!vars, Planned!Overlap, Planned!Starting, Planned!Holds, Once, IsAt, Past, RowsFit, Held, Planned!Rows, Planned!Exists
<1>3. CASE Planned!Next
  <2> SUFFICES ASSUME ~planned_excused' PROVE ~Planned!Overlap' /\ Once' /\ RowsFit'
    BY <1>1 DEF PlannedIInv
  <2>1. ~planned_excused /\ ~Planned!Overlap' /\ ~Planned!DiesHalfWay
    BY <1>3, Zenon DEF Planned!Next
  <2>2. ~Planned!Overlap /\ Once /\ RowsFit
    BY <2>1 DEF PlannedIInv
  <2>3. ASSUME NEW p \in Procs, Planned!Steps(p) PROVE Once' /\ RowsFit'
    <3>1. Once'
      BY <1>1, <2>1, <2>2, <2>3, OnceStep
    <3> QED
      BY <1>1, <2>1, <2>2, <2>3, <3>1, RowsStep
  <2>4. ASSUME Planned!PollTasks \/ Planned!Tick PROVE Once' /\ RowsFit'
    <3>1. UNCHANGED <<task, pending, planned_job, planned_performed, withdrawn>>
      BY <2>4 DEF Planned!PollTasks, Planned!Tick
    <3>2. Once'
      BY <2>2, <3>1 DEF Once, IsAt, Past, Planned!Holds
    <3>3. RowsFit'
      BY <2>2, <3>1 DEF Planned!Holds, RowsFit, Held, Planned!Rows, Planned!Exists
    <3> QED
      BY <3>2, <3>3
  <2>5. (\E p \in Procs : Planned!Steps(p)) \/ Planned!PollTasks \/ Planned!Tick
    BY <1>3 DEF Planned!Next
  <2> QED
    BY <2>1, <2>3, <2>4, <2>5
<1> QED
  BY <1>2, <1>3

(* A task is performed once at most, and not at all if it was cancelled    *)
(* before it was due (poll_tasks and perform_task of the scheduler).       *)
THEOREM TasksOnce ==
  ASSUME Planned!SchedulerConstants
  PROVE  Planned!Spec => []Planned!PerformedOnce
<1>1. PlannedIInv => Planned!PerformedOnce
  BY DEF PlannedIInv, Planned!PerformedOnce, Once
<1> QED
  BY IInvInit, PlannedIInvStep, <1>1, PTL DEF Planned!Spec

-----------------------------------------------------------------------------
(* The migrations of a conversation (ConversationMigrations): whatever     *)
(* version it is stored in, its fields agree with its index, and the       *)
(* objects that jobs hold have all of its messages.                        *)
\* A record as the code of its version leaves it.
SplitGood(rec) ==
  /\ rec \in Split!ConversationState
  /\ rec.version = 1 => /\ rec.data.status \in {"draft", "running", "finished"}
                        /\ rec.index.status = rec.data.status
  /\ rec.version \in {2, 3} => /\ rec.data.archive_status \in {"active", "archived"}
                               /\ rec.index.archive_status = rec.data.archive_status
  /\ rec.version = 3 => rec.data.batches # {}

\* What rec's batches hold, and that the messages that were there are among it.
ContentOf(rec) == UNION {content[b] : b \in rec.data.batches}
SplitKeeps(rec) == kept \subseteq ContentOf(rec)

(* An object that a job holds keeps the messages; its new batch is not free *)
(* and has them, or they are to be copied; and as long as all of the new   *)
(* batches are free nobody has replaced any.                               *)
SplitJobGood(j) ==
  /\ j \in Split!JobState /\ SplitGood(j.conv) /\ j.conv.version \in {2, 3} /\ SplitKeeps(j.conv)
  /\ j.kind # "fix-batches" => j.conv.version = 3
  /\ j.new # Nothing => /\ j.new \in NewBatches \ free
                        /\ ~j.done => kept \subseteq content[j.new] \union j.copying
  /\ free = NewBatches => j.conv.data.batches = split_stored.data.batches

SplitIInv ==
  /\ content \in [Split!Batches -> SUBSET Messages] /\ free \subseteq NewBatches
  /\ split_job \in [Procs -> Split!JobState \union {Nothing}]
  /\ SplitGood(split_stored) /\ SplitKeeps(split_stored)
  /\ \A p \in Procs : ~Split!Idle(p) => SplitJobGood(split_job[p])

-----------------------------------------------------------------------------
(* The migrators *)
LEMMA RecordType ==
  ASSUME NEW version \in 0..3, NEW data \in Split!Fields, NEW index \in Split!Index
  PROVE  LET r == Split!Record(version, data, index) IN
         /\ r \in Split!ConversationState
         /\ r.version = version /\ r.data = data /\ r.index = index
BY DEF Split!Record, Split!ConversationState

LEMMA RecordParts ==
  ASSUME NEW rec \in Split!ConversationState
  PROVE  rec.version \in {0, 1, 2, 3} /\ rec.data \in Split!Fields /\ rec.index \in Split!Index
BY DEF Split!ConversationState

LEMMA FromUnversioned ==
  ASSUME NEW rec \in Split!ConversationState, rec.version = 0
  PROVE  LET r == Split!MigrateFromUnversioned(rec) IN
         /\ SplitGood(r) /\ r.version = 1 /\ r.data.batches = rec.data.batches /\ Split!Life(r) = Split!Life(rec)
<1> DEFINE status == IF rec.data.ended THEN "finished"
                     ELSE IF rec.data.batches # {} THEN "running" ELSE "draft"
           data == [rec.data EXCEPT !.status = status]
           index == Split!IndexOfTwo(status, Nothing)
           r == Split!MigrateFromUnversioned(rec)
<1>1. r = Split!Record(1, data, index)
  BY DEF Split!MigrateFromUnversioned
<1>3. rec.data \in Split!Fields
  BY RecordParts
<1>2. status \in {"draft", "running", "finished"} /\ status = Split!StatusOfNone(rec.data)
  BY DEF Split!StatusOfNone
<1> HIDE DEF status
<1>4. data \in Split!Fields /\ data.status = status /\ data.batches = rec.data.batches
  BY <1>2, <1>3 DEF Split!Fields, Split!Statuses
<1>5. index \in Split!Index /\ index.status = status
  BY <1>2 DEF Split!IndexOfTwo, Split!Index, Split!Statuses
<1> HIDE DEF data, index, r
<1>6. r \in Split!ConversationState /\ r.version = 1 /\ r.data = data /\ r.index = index
  BY <1>1, <1>4, <1>5, RecordType
<1>7. Split!Life(r) = status /\ Split!Life(rec) = status
  BY <1>2, <1>4, <1>6 DEF Split!Life, Split!StatusOf1
<1> QED
  BY <1>2, <1>4, <1>5, <1>6, <1>7 DEF SplitGood, r

LEMMA SplitFrom1 ==
  ASSUME NEW rec, SplitGood(rec), rec.version = 1
  PROVE  LET r == Split!MigrateFrom1(rec) IN
         /\ SplitGood(r) /\ r.version = 2 /\ r.data.batches = rec.data.batches /\ Split!Life(r) = Split!Life(rec)
<1> DEFINE status == IF rec.data.status = "running" THEN "running" ELSE "stopped"
           archive_status == IF rec.data.status = "finished" THEN "archived" ELSE "active"
           data == Split!Data(status, archive_status, {}, rec.data.ended, rec.data.batches)
           index == Split!IndexOfTwo(status, archive_status)
           r == Split!MigrateFrom1(rec)
<1>1. r = Split!Record(2, data, index)
  BY DEF Split!MigrateFrom1
<1>2. rec.data \in Split!Fields /\ rec.data.status \in {"draft", "running", "finished"}
  BY RecordParts DEF SplitGood
<1>3. rec.data.ended \in BOOLEAN /\ rec.data.batches \in SUBSET Split!Batches
  BY <1>2 DEF Split!Fields
<1>4. status \in Split!Statuses /\ archive_status \in {"active", "archived"}
  BY DEF Split!Statuses
<1>5. Split!Life(rec) = (IF archive_status = "archived" THEN "finished" ELSE IF status = "stopped" THEN "draft" ELSE status)
  BY <1>2 DEF Split!Life, Split!StatusOf1
<1> HIDE DEF status, archive_status
<1>6. data \in Split!Fields /\ data.status = status /\ data.archive_status = archive_status /\ data.batches = rec.data.batches
  BY <1>3, <1>4 DEF Split!Data, Split!Fields
<1>7. index \in Split!Index /\ index.archive_status = archive_status
  BY <1>4 DEF Split!IndexOfTwo, Split!Index
<1> HIDE DEF data, index, r
<1>8. r \in Split!ConversationState /\ r.version = 2 /\ r.data = data /\ r.index = index
  BY <1>1, <1>6, <1>7, RecordType
<1>9. Split!Life(r) = Split!StatusSince2(data)
  BY <1>8 DEF Split!Life
<1> QED
  BY <1>4, <1>5, <1>6, <1>7, <1>8, <1>9 DEF SplitGood, Split!StatusSince2, r

\* Loading for the model of version 2 fails for newer records only, and keeps the rest.
LEMMA LoadV2Keeps ==
  ASSUME Split!MigrationsConstants, NEW rec, SplitGood(rec)
  PROVE  /\ Split!LoadV2(rec) # Nothing <=> rec.version # 3
         /\ Split!LoadV2(rec) # Nothing =>
              /\ SplitGood(Split!LoadV2(rec)) /\ Split!LoadV2(rec).version = 2
              /\ Split!LoadV2(rec).data.batches = rec.data.batches /\ Split!Life(Split!LoadV2(rec)) = Split!Life(rec)
<1> DEFINE r == Split!LoadV2(rec)
<1>1. rec \in Split!ConversationState /\ rec.version \in {0, 1, 2, 3}
  BY RecordParts DEF SplitGood
<1>2. \A s : SplitGood(s) => s # Nothing
  BY DEF SplitGood, Split!MigrationsConstants
<1>3. CASE rec.version = 0
  <2>1. LET s == Split!MigrateFromUnversioned(rec) IN
        SplitGood(s) /\ s.version = 1 /\ s.data.batches = rec.data.batches /\ Split!Life(s) = Split!Life(rec)
    BY <1>1, <1>3, FromUnversioned
  <2>2. r = Split!MigrateFrom1(Split!MigrateFromUnversioned(rec))
    BY <1>3 DEF Split!LoadV2
  <2>3. SplitGood(r) /\ r.version = 2 /\ r.data.batches = rec.data.batches /\ Split!Life(r) = Split!Life(rec)
    BY <2>1, <2>2, SplitFrom1
  <2> QED
    BY <1>2, <1>3, <2>3
<1>4. CASE rec.version = 1
  <2>1. r = Split!MigrateFrom1(rec)
    BY <1>4 DEF Split!LoadV2
  <2>2. SplitGood(r) /\ r.version = 2 /\ r.data.batches = rec.data.batches /\ Split!Life(r) = Split!Life(rec)
    BY <1>4, <2>1, SplitFrom1
  <2> QED
    BY <1>2, <1>4, <2>2
<1>5. CASE rec.version = 2
  BY <1>2, <1>5 DEF Split!LoadV2
<1>6. CASE rec.version = 3
  BY <1>6 DEF Split!LoadV2
<1> QED
  BY <1>1, <1>3, <1>4, <1>5, <1>6

LEMMA SplitLoadKeeps ==
  ASSUME Split!MigrationsConstants, NEW rec, SplitGood(rec), Split!Load(rec) # Nothing
  PROVE  /\ SplitGood(Split!Load(rec)) /\ Split!Load(rec).version = 3
         /\ Split!Load(rec).data.batches = rec.data.batches /\ Split!Life(Split!Load(rec)) = Split!Life(rec)
<1>1. CASE rec.version = 3
  BY <1>1 DEF Split!Load
<1>2. CASE rec.version # 3
  <2> DEFINE old == Split!LoadV2(rec)
  <2>1. SplitGood(old) /\ old.version = 2 /\ old.data.batches = rec.data.batches /\ Split!Life(old) = Split!Life(rec)
    BY <1>2, LoadV2Keeps
  <2>2. Split!Load(rec) = Split!MigrateFrom2(old)
    BY <1>2 DEF Split!Load
  <2> HIDE DEF old
  <2>3. Split!CanBeMigrated(old) /\ Split!Load(rec) = Split!Record(3, old.data, old.index)
    BY <2>2 DEF Split!MigrateFrom2
  <2>4. old.data.batches # {}
    BY <2>3 DEF Split!CanBeMigrated
  <2>5. old.data \in Split!Fields /\ old.index \in Split!Index
    BY <2>1, RecordParts DEF SplitGood
  <2>6. /\ Split!Load(rec) \in Split!ConversationState /\ Split!Load(rec).version = 3
        /\ Split!Load(rec).data = old.data /\ Split!Load(rec).index = old.index
    BY <2>3, <2>5, RecordType
  <2>7. Split!Life(Split!Load(rec)) = Split!Life(old)
    BY <2>1, <2>6 DEF Split!Life
  <2> QED
    BY <2>1, <2>4, <2>6, <2>7 DEF SplitGood
<1> QED
  BY <1>1, <1>2

-----------------------------------------------------------------------------
LEMMA SplitInitIInv ==
  ASSUME Split!MigrationsConstants PROVE Split!Init => SplitIInv
<1> SUFFICES ASSUME Split!Init PROVE SplitIInv
  OBVIOUS
<1>1. PICK version \in 0..2, status \in {"draft", "running", "finished"}, over \in BOOLEAN, batches \in SUBSET OldBatches :
        split_stored = Split!Stored(version, status, over, batches)
  BY DEF Split!Init
<1> DEFINE d0 == Split!Data(Nothing, Nothing, Nothing, over, batches)
           d1 == Split!Data(status, Nothing, Nothing, over, batches)
           i1 == Split!IndexOfTwo(status, Nothing)
<1>2. d0 \in Split!Fields /\ d1 \in Split!Fields /\ d1.status = status /\ Split!NoIndex \in Split!Index /\ i1 \in Split!Index /\ i1.status = status
  BY DEF Split!Data, Split!Fields, Split!IndexOfTwo, Split!NoIndex, Split!Index, Split!Statuses, Split!Batches
<1>3. /\ version = 0 => split_stored = Split!Record(0, d0, Split!NoIndex)
      /\ version = 1 => split_stored = Split!Record(1, d1, i1)
      /\ version = 2 => split_stored = Split!MigrateFrom1(Split!Record(1, d1, i1))
  BY <1>1 DEF Split!Stored
<1> HIDE DEF d0, d1, i1
<1>4. SplitGood(Split!Record(0, d0, Split!NoIndex)) /\ SplitGood(Split!Record(1, d1, i1)) /\ Split!Record(1, d1, i1).version = 1
  BY <1>2, RecordType DEF SplitGood
<1>5. SplitGood(split_stored)
  BY <1>3, <1>4, SplitFrom1
<1>6. SplitKeeps(split_stored)
  BY DEF Split!Init, SplitKeeps, ContentOf
<1> QED
  BY <1>5, <1>6 DEF Split!Init, SplitIInv, Split!Idle

\* A process has another job, what is stored stays, and batches only grow.
LEMMA SplitOneJob ==
  ASSUME SplitIInv, NEW p \in Procs, NEW j, j = Nothing \/ SplitJobGood(j)', j \in Split!JobState \union {Nothing},
         split_job' = [split_job EXCEPT ![p] = j], split_stored' = split_stored, kept' = kept, free' \subseteq free,
         content' \in [Split!Batches -> SUBSET Messages], \A b \in Split!Batches : content[b] \subseteq content'[b]
  PROVE  SplitIInv'
<1>1. split_job' \in [Procs -> Split!JobState \union {Nothing}] /\ split_job'[p] = j /\ \A q \in Procs \ {p} : split_job'[q] = split_job[q]
  BY DEF SplitIInv
<1>2. ASSUME NEW rec, SplitGood(rec), SplitKeeps(rec) PROVE SplitKeeps(rec)'
  <2>1. rec.data.batches \subseteq Split!Batches
    BY <1>2 DEF SplitGood, Split!ConversationState, Split!Fields
  <2> QED
    BY <1>2, <2>1 DEF SplitKeeps, ContentOf
<1>3. ASSUME NEW q \in Procs, q # p, ~Split!Idle(q) PROVE SplitJobGood(split_job[q])'
  <2> DEFINE k == split_job[q]
  <2>1. SplitJobGood(k) /\ split_job'[q] = k
    BY <1>1, <1>3 DEF SplitIInv
  <2>2. free' = NewBatches => free = NewBatches
    BY DEF SplitIInv
  <2>3. SplitKeeps(k.conv)'
    BY <1>2, <2>1 DEF SplitJobGood, SplitKeeps, ContentOf
  <2>4. k.new # Nothing => k.new \in NewBatches \ free' /\ (~k.done => kept' \subseteq content'[k.new] \union k.copying)
    BY <2>1 DEF SplitJobGood, Split!Batches
  <2> HIDE DEF k
  <2>5. /\ k \in Split!JobState /\ SplitGood(k.conv) /\ k.conv.version \in {2, 3}
        /\ k.kind # "fix-batches" => k.conv.version = 3
        /\ free' = NewBatches => k.conv.data.batches = split_stored'.data.batches
    BY <2>1, <2>2 DEF SplitJobGood
  <2>6. split_job'[q] = k
    BY <2>1 DEF k
  <2> QED
    BY <2>3, <2>4, <2>5, <2>6 DEF SplitJobGood, SplitKeeps, ContentOf, SplitGood, k
<1>4. SplitGood(split_stored)' /\ SplitKeeps(split_stored)'
  BY <1>2 DEF SplitIInv, SplitGood, SplitKeeps, ContentOf
<1>5. ASSUME NEW q \in Procs, ~Split!Idle(q)' PROVE SplitJobGood(split_job[q])'
  <2>1. CASE q = p
    <3>1. split_job'[q] = j /\ j # Nothing
      BY <1>1, <1>5, <2>1 DEF Split!Idle
    <3>2. SplitJobGood(j)'
      BY <3>1
    <3> QED
      BY <3>1, <3>2 DEF SplitJobGood, SplitGood, SplitKeeps, ContentOf
  <2>2. CASE q # p
    BY <1>1, <1>3, <1>5, <2>2 DEF Split!Idle
  <2> QED
    BY <2>1, <2>2
<1> QED
  BY <1>1, <1>4, <1>5 DEF SplitIInv

\* The parts of a job, and that a job can be put together.
LEMMA JobType ==
  ASSUME NEW kind \in Split!Kinds, NEW conv \in Split!ConversationState, NEW new \in NewBatches \union {Nothing},
         NEW copying \in SUBSET Messages, NEW done \in BOOLEAN
  PROVE  /\ Split!Job(kind, conv, new, copying, done) \in Split!JobState
         /\ Split!Job(kind, conv, new, copying, done).kind = kind /\ Split!Job(kind, conv, new, copying, done).conv = conv
         /\ Split!Job(kind, conv, new, copying, done).new = new /\ Split!Job(kind, conv, new, copying, done).done = done
         /\ Split!Job(kind, conv, new, copying, done).copying = copying
BY DEF Split!Job, Split!JobState

LEMMA JobParts ==
  ASSUME NEW j \in Split!JobState
  PROVE  j.kind \in Split!Kinds /\ j.conv \in Split!ConversationState /\ j.new \in NewBatches \union {Nothing}
         /\ j.copying \in SUBSET Messages /\ j.done \in BOOLEAN
BY DEF Split!JobState

LEMMA JobOf ==
  ASSUME SplitIInv, NEW p \in Procs, ~Split!Idle(p) PROVE split_job[p] \in Split!JobState /\ SplitJobGood(split_job[p])
BY DEF SplitIInv, SplitJobGood

-----------------------------------------------------------------------------
(* The steps *)
LEMMA StartIInv ==
  ASSUME Split!MigrationsConstants, SplitIInv, NEW p \in Procs, NEW kind \in Split!Kinds, NEW conv, Split!Start(p, kind, conv),
         SplitGood(conv), conv.version \in {2, 3}, kind # "fix-batches" => conv.version = 3,
         conv.data.batches = split_stored.data.batches
  PROVE  SplitIInv'
<1> DEFINE j == Split!Job(kind, conv, Nothing, {}, FALSE)
<1>1. conv \in Split!ConversationState
  BY DEF SplitGood
<1>2. j \in Split!JobState /\ j.kind = kind /\ j.conv = conv /\ j.new = Nothing
  BY <1>1 DEF Split!Job, Split!JobState
<1>3. /\ split_job' = [split_job EXCEPT ![p] = j] /\ split_stored' = split_stored /\ kept' = kept /\ free' = free /\ content' = content
  BY DEF Split!Start
<1>4. SplitKeeps(conv)'
  BY <1>3 DEF SplitIInv, SplitKeeps, ContentOf
<1> HIDE DEF j
<1>5. SplitJobGood(j)'
  BY <1>2, <1>3, <1>4 DEF SplitJobGood, SplitKeeps, ContentOf, SplitGood
<1> QED
  BY <1>2, <1>3, <1>5, SplitOneJob DEF SplitIInv

LEMMA StartsIInv ==
  ASSUME Split!MigrationsConstants, SplitIInv, NEW p \in Procs,
         Split!UpdateModels(p) \/ Split!FixBatches(p) \/ Split!SplitBatches(p) \/ Split!FixJsboxEndpoint(p) \/ Split!Use(p)
  PROVE  SplitIInv'
<1>1. SplitGood(split_stored)
  BY DEF SplitIInv
<1>2. CASE Split!FixBatches(p)
  <2>1. SplitGood(Split!LoadV2(split_stored)) /\ Split!LoadV2(split_stored).version = 2 /\ Split!LoadV2(split_stored).data.batches = split_stored.data.batches
    BY <1>1, <1>2, LoadV2Keeps DEF Split!FixBatches
  <2> QED
    BY <1>2, <2>1, StartIInv DEF Split!FixBatches, Split!Kinds
<1>3. CASE Split!UpdateModels(p) \/ Split!SplitBatches(p) \/ Split!FixJsboxEndpoint(p) \/ Split!Use(p)
  <2>1. Split!Load(split_stored) # Nothing
    BY <1>3 DEF Split!UpdateModels, Split!SplitBatches, Split!FixJsboxEndpoint, Split!Use
  <2>2. SplitGood(Split!Load(split_stored)) /\ Split!Load(split_stored).version = 3 /\ Split!Load(split_stored).data.batches = split_stored.data.batches
    BY <1>1, <2>1, SplitLoadKeeps
  <2>3. \E kind \in Split!Kinds : Split!Start(p, kind, Split!Load(split_stored))
    BY <1>3 DEF Split!UpdateModels, Split!SplitBatches, Split!FixJsboxEndpoint, Split!Use, Split!Kinds
  <2> QED
    BY <2>2, <2>3, StartIInv
<1> QED
  BY <1>2, <1>3

LEMMA NewBatchIInv ==
  ASSUME Split!MigrationsConstants, SplitIInv, NEW p \in Procs, Split!NewBatch(p) PROVE SplitIInv'
<1> DEFINE j == split_job[p]
           all == UNION {content[old] : old \in j.conv.data.batches}
<1>1. j \in Split!JobState /\ SplitJobGood(j)
  BY JobOf DEF Split!NewBatch
<1>2. PICK b \in free : free' = free \ {b} /\ Split!Goes(p, b, all)
  BY DEF Split!NewBatch
<1>3. split_stored' = split_stored /\ content' = content /\ kept' = kept
  BY DEF Split!NewBatch
<1>4. b \in NewBatches /\ free \subseteq NewBatches /\ content \in [Split!Batches -> SUBSET Messages]
  BY DEF SplitIInv
<1>5. all \in SUBSET Messages /\ kept \subseteq all
  <2>1. j.conv.data.batches \subseteq Split!Batches
    BY <1>1, JobParts, RecordParts DEF Split!Fields
  <2> QED
    BY <1>1, <1>4, <2>1 DEF SplitJobGood, SplitKeeps, ContentOf
<1> HIDE DEF all
<1> DEFINE k == Split!Job(j.kind, j.conv, b, all, j.done)
<1>6. /\ k \in Split!JobState /\ k.kind = j.kind /\ k.conv = j.conv /\ k.new = b /\ k.copying = all /\ k.done = j.done
  BY <1>1, <1>4, <1>5, JobParts, JobType
<1>7. split_job' = [split_job EXCEPT ![p] = k]
  BY <1>2 DEF Split!Goes
<1> HIDE DEF k, j
<1>8. ASSUME NEW x, x = k PROVE SplitJobGood(x)'
  BY <1>1, <1>2, <1>3, <1>4, <1>5, <1>6, <1>8 DEF SplitJobGood, SplitKeeps, ContentOf, SplitGood
<1>9. \E x : x = k /\ SplitJobGood(x)' /\ x \in Split!JobState
  BY <1>6, <1>8
<1> QED
  BY <1>2, <1>3, <1>4, <1>6, <1>7, <1>9, SplitOneJob

LEMMA CopyMessageIInv ==
  ASSUME Split!MigrationsConstants, SplitIInv, NEW p \in Procs, NEW m \in Messages, Split!CopyMessage(p, m) PROVE SplitIInv'
<1> DEFINE j == split_job[p]
           k == Split!Job(j.kind, j.conv, j.new, j.copying \ {m}, j.done)
<1>1. j \in Split!JobState /\ SplitJobGood(j)
  BY JobOf DEF Split!CopyMessage
<1>2. j.new \in NewBatches /\ j.new \in Split!Batches /\ j.new # Nothing /\ ~j.done
  BY <1>1 DEF Split!CopyMessage, SplitJobGood, Split!Batches
<1>3. /\ split_stored' = split_stored /\ kept' = kept /\ free' = free /\ split_job' = [split_job EXCEPT ![p] = k]
      /\ content' = [content EXCEPT ![j.new] = @ \union {m}]
  BY DEF Split!CopyMessage, Split!Goes
<1>4. /\ content' \in [Split!Batches -> SUBSET Messages] /\ \A b \in Split!Batches : content[b] \subseteq content'[b]
      /\ content'[j.new] = content[j.new] \union {m}
  BY <1>2, <1>3 DEF SplitIInv
<1>5. k \in Split!JobState /\ k.kind = j.kind /\ k.conv = j.conv /\ k.new = j.new /\ k.copying = j.copying \ {m} /\ k.done = j.done
  <2>1. /\ j.kind \in Split!Kinds /\ j.conv \in Split!ConversationState /\ j.new \in NewBatches \union {Nothing}
        /\ j.copying \ {m} \in SUBSET Messages /\ j.done \in BOOLEAN
    BY <1>1, JobParts
  <2> HIDE DEF j
  <2> QED
    BY <2>1 DEF Split!Job, Split!JobState
<1> HIDE DEF k, j
<1>6. j.conv.data.batches \subseteq Split!Batches
  BY <1>1, JobParts, RecordParts DEF Split!Fields
<1>8. kept \subseteq content'[k.new] \union k.copying
  BY <1>1, <1>2, <1>4, <1>5 DEF SplitJobGood
<1>9. /\ SplitGood(k.conv) /\ k.conv.version \in {2, 3} /\ k.kind # "fix-batches" => k.conv.version = 3
  BY <1>1, <1>5 DEF SplitJobGood
<1>10. k.new \in NewBatches \ free' /\ (free' = NewBatches => k.conv.data.batches = split_stored'.data.batches)
  BY <1>1, <1>2, <1>3, <1>5 DEF SplitJobGood
<1>11. kept' \subseteq UNION {content'[b] : b \in k.conv.data.batches}
  BY <1>3, <1>4, <1>5, <1>6, <1>1 DEF SplitJobGood, SplitKeeps, ContentOf
<1>12. ASSUME NEW x, x = k PROVE SplitJobGood(x)'
  BY <1>1, <1>3, <1>5, <1>8, <1>9, <1>10, <1>11, <1>12 DEF SplitJobGood, SplitKeeps, ContentOf, SplitGood
<1>13. \E x : x = k /\ SplitJobGood(x)' /\ x \in Split!JobState
  BY <1>5, <1>12
<1> QED
  BY <1>3, <1>4, <1>5, <1>13, SplitOneJob

\* An object with other data in the same batches, or in a new one that holds the messages.
LEMMA ChangesIInv ==
  ASSUME Split!MigrationsConstants, SplitIInv, NEW p \in Procs, ~Split!Idle(p),
         NEW data \in Split!Fields, NEW index \in Split!Index, Split!Changes(p, data, index),
         data.archive_status \in {"active", "archived"}, index.archive_status = data.archive_status,
         \/ data.batches = split_job[p].conv.data.batches
         \/ split_job[p].new # Nothing /\ kept \subseteq content[split_job[p].new] /\ data.batches = {split_job[p].new},
         UNCHANGED <<split_stored, content, free, kept>>
  PROVE  SplitIInv'
<1> DEFINE j == split_job[p]
           conv == Split!Record(j.conv.version, data, index)
           k == Split!Job(j.kind, conv, j.new, j.copying, TRUE)
<1>1. j \in Split!JobState /\ SplitJobGood(j)
  BY JobOf
<1>2. j.conv.version \in {2, 3} /\ SplitGood(j.conv)
  BY <1>1 DEF SplitJobGood
<1>3. conv \in Split!ConversationState /\ conv.version = j.conv.version /\ conv.data = data /\ conv.index = index
  BY <1>2, RecordType
<1>4. split_job' = [split_job EXCEPT ![p] = k]
  BY DEF Split!Changes
<1> HIDE DEF conv, j
<1>5. k \in Split!JobState /\ k.kind = j.kind /\ k.conv = conv /\ k.new = j.new /\ k.copying = j.copying /\ k.done = TRUE
  BY <1>1, <1>3, JobParts DEF Split!Job, Split!JobState, k
<1> HIDE DEF k
<1>6. data.batches = j.conv.data.batches \/ (j.new # Nothing /\ kept \subseteq content[j.new] /\ data.batches = {j.new})
  BY DEF j
<1>7. SplitGood(conv)
  BY <1>2, <1>3, <1>6 DEF SplitGood
<1>8. kept \subseteq UNION {content[b] : b \in data.batches}
  BY <1>1, <1>6 DEF SplitJobGood, SplitKeeps, ContentOf
<1>9. free = NewBatches => data.batches = split_stored.data.batches
  BY <1>1, <1>6 DEF SplitJobGood
<1>10. /\ k.kind # "fix-batches" => k.conv.version = 3
       /\ k.new # Nothing => k.new \in NewBatches \ free
  BY <1>1, <1>3, <1>5 DEF SplitJobGood
<1>11. SplitJobGood(k)
  BY <1>2, <1>3, <1>5, <1>7, <1>8, <1>9, <1>10 DEF SplitJobGood, SplitKeeps, ContentOf
<1>12. split_stored' = split_stored /\ content' = content /\ free' = free /\ kept' = kept
  OBVIOUS
<1>13. ASSUME NEW x, x = k PROVE SplitJobGood(x)'
  BY <1>11, <1>12, <1>13 DEF SplitJobGood, SplitKeeps, ContentOf, SplitGood
<1>14. \E x : x = k /\ SplitJobGood(x)' /\ x \in Split!JobState
  BY <1>5, <1>13
<1> QED
  BY <1>4, <1>5, <1>12, <1>14, SplitOneJob DEF SplitIInv

\* The data of a loaded object, field by field.
LEMMA DataParts ==
  ASSUME SplitIInv, NEW p \in Procs, ~Split!Idle(p)
  PROVE  /\ split_job[p].conv.data \in Split!Fields /\ split_job[p].conv.index \in Split!Index
         /\ split_job[p].conv.data.archive_status \in {"active", "archived"}
         /\ split_job[p].conv.index.archive_status = split_job[p].conv.data.archive_status
<1>1. split_job[p].conv.version \in {2, 3} /\ SplitGood(split_job[p].conv)
  BY JobOf DEF SplitJobGood
<1> QED
  BY <1>1, RecordParts DEF SplitGood

LEMMA ReplaceIInv ==
  ASSUME Split!MigrationsConstants, SplitIInv, NEW p \in Procs, Split!Replace(p) PROVE SplitIInv'
<1> DEFINE data == [split_job[p].conv.data EXCEPT !.batches = {split_job[p].new}]
<1>1. ~Split!Idle(p) /\ Split!Changes(p, data, split_job[p].conv.index) /\ UNCHANGED <<split_stored, content, free, kept>>
  BY DEF Split!Replace
<1>2. SplitJobGood(split_job[p]) /\ split_job[p].new # Nothing /\ ~split_job[p].done /\ split_job[p].copying = {}
  BY <1>1, JobOf DEF Split!Replace, Split!AllCopied
<1>3. split_job[p].new \in Split!Batches /\ kept \subseteq content[split_job[p].new]
  BY <1>2 DEF SplitJobGood, Split!Batches
<1>4. split_job[p].conv.data \in Split!Fields
  BY <1>1, DataParts
<1>5. /\ data \in Split!Fields /\ data.batches = {split_job[p].new}
      /\ data.archive_status = split_job[p].conv.data.archive_status
  BY <1>3, <1>4 DEF Split!Fields
<1> HIDE DEF data
<1> QED
  BY <1>1, <1>2, <1>3, <1>5, DataParts, ChangesIInv

LEMMA SetEndpointsIInv ==
  ASSUME Split!MigrationsConstants, SplitIInv, NEW p \in Procs, Split!SetEndpoints(p) PROVE SplitIInv'
<1> DEFINE data == [split_job[p].conv.data EXCEPT !.extra_endpoints = {"configured"}]
<1>1. ~Split!Idle(p) /\ Split!Changes(p, data, split_job[p].conv.index) /\ UNCHANGED <<split_stored, content, free, kept>>
  BY DEF Split!SetEndpoints
<1>2. split_job[p].conv.data \in Split!Fields
  BY <1>1, DataParts
<1>3. /\ data \in Split!Fields /\ data.batches = split_job[p].conv.data.batches
      /\ data.archive_status = split_job[p].conv.data.archive_status
  BY <1>2 DEF Split!Fields
<1> HIDE DEF data
<1> QED
  BY <1>1, <1>3, DataParts, ChangesIInv

LEMMA SetStatusIInv ==
  ASSUME Split!MigrationsConstants, SplitIInv, NEW p \in Procs,
         NEW status \in {"starting", "running", "stopping", "stopped"},
         NEW archive_status \in {"active", "archived"}, Split!SetStatus(p, status, archive_status)
  PROVE  SplitIInv'
<1> DEFINE old == split_job[p].conv.data
           data == Split!Data(status, archive_status, old.extra_endpoints, old.ended, old.batches)
           index == Split!IndexOfTwo(status, archive_status)
<1>1. ~Split!Idle(p) /\ Split!Changes(p, data, index) /\ UNCHANGED <<split_stored, content, free, kept>>
  BY DEF Split!SetStatus
<1>2. /\ old.extra_endpoints \in {{}, {"configured"}, Nothing}
      /\ old.ended \in BOOLEAN /\ old.batches \in SUBSET Split!Batches
  BY <1>1, DataParts DEF Split!Fields
<1> HIDE DEF old
<1>3. status \in Split!Statuses
  BY DEF Split!Statuses
<1>4. data \in Split!Fields /\ data.batches = old.batches /\ data.archive_status = archive_status
  BY <1>2, <1>3 DEF Split!Data, Split!Fields
<1>5. index \in Split!Index /\ index.archive_status = archive_status
  BY <1>3 DEF Split!IndexOfTwo, Split!Index
<1> HIDE DEF data, index
<1>6. data.batches = split_job[p].conv.data.batches
  BY <1>4 DEF old
<1> QED
  BY <1>1, <1>4, <1>5, <1>6, ChangesIInv

LEMMA StoreMessageIInv ==
  ASSUME Split!MigrationsConstants, SplitIInv, NEW p \in Procs, NEW m \in Messages, Split!StoreMessage(p, m) PROVE SplitIInv'
<1> DEFINE conv == split_job[p].conv
           b0 == Split!Batch(conv)
<1>1. SplitJobGood(split_job[p]) /\ split_job[p].kind = "use"
  BY JobOf DEF Split!StoreMessage
<1>2. conv.data.batches # {} /\ conv.data.batches \subseteq Split!Batches
  BY <1>1, RecordParts DEF SplitJobGood, SplitGood, Split!Fields
<1>3. b0 \in conv.data.batches
  BY <1>2 DEF Split!Batch
<1> HIDE DEF b0
<1>4. /\ split_stored' = split_stored /\ free' = free /\ split_job' = split_job
      /\ content' = [content EXCEPT ![b0] = @ \union {m}]
      /\ kept' = IF free = NewBatches THEN kept \union {m} ELSE kept
  BY DEF Split!StoreMessage, b0
<1>5. /\ content' \in [Split!Batches -> SUBSET Messages] /\ \A b \in Split!Batches : content[b] \subseteq content'[b]
      /\ m \in content'[b0]
  BY <1>2, <1>3, <1>4 DEF SplitIInv
<1>6. free = NewBatches => b0 \in split_stored.data.batches
  BY <1>1, <1>3 DEF SplitJobGood
<1>7. ASSUME NEW rec, SplitGood(rec), SplitKeeps(rec), free = NewBatches => rec.data.batches = split_stored.data.batches
      PROVE  kept' \subseteq UNION {content'[b] : b \in rec.data.batches}
  <2>1. rec.data.batches \subseteq Split!Batches
    BY <1>7 DEF SplitGood, Split!ConversationState, Split!Fields
  <2>2. kept \subseteq UNION {content'[b] : b \in rec.data.batches}
    BY <1>5, <1>7, <2>1 DEF SplitKeeps, ContentOf
  <2>3. free = NewBatches => m \in UNION {content'[b] : b \in rec.data.batches}
    BY <1>5, <1>6, <1>7
  <2> QED
    BY <1>4, <2>2, <2>3
<1>8. SplitGood(split_stored)' /\ SplitKeeps(split_stored)'
  BY <1>4, <1>7 DEF SplitIInv, SplitGood, SplitKeeps, ContentOf
<1>9. ASSUME NEW q \in Procs, ~Split!Idle(q)' PROVE SplitJobGood(split_job[q])'
  <2> DEFINE k == split_job[q]
  <2>1. SplitJobGood(k) /\ split_job'[q] = k
    BY <1>4, <1>9 DEF SplitIInv, Split!Idle
  <2>2. kept' \subseteq UNION {content'[b] : b \in k.conv.data.batches}
    BY <1>7, <2>1 DEF SplitJobGood
  <2>3. k.new # Nothing => k.new \in NewBatches /\ free # NewBatches
    BY <2>1 DEF SplitJobGood
  <2>4. k.new # Nothing => k.new \in NewBatches \ free' /\ (~k.done => kept' \subseteq content'[k.new] \union k.copying)
    BY <1>4, <1>5, <2>1, <2>3 DEF SplitJobGood, Split!Batches
  <2> HIDE DEF k
  <2> QED
    BY <1>4, <2>1, <2>2, <2>4 DEF SplitJobGood, SplitKeeps, ContentOf, SplitGood, k
<1> QED
  BY <1>4, <1>5, <1>8, <1>9 DEF SplitIInv

LEMMA SplitSaveIInv ==
  ASSUME Split!MigrationsConstants, SplitIInv, NEW p \in Procs, Split!Save(p) PROVE SplitIInv'
<1>1. SplitJobGood(split_job[p])
  BY JobOf DEF Split!Save
<1>2. split_stored' = split_job[p].conv /\ split_job' = [split_job EXCEPT ![p] = Nothing] /\ content' = content /\ free' = free /\ kept' = kept
  BY DEF Split!Save
<1>3. /\ split_job' \in [Procs -> Split!JobState \union {Nothing}]
      /\ \A q \in Procs : ~Split!Idle(q)' => ~Split!Idle(q) /\ split_job'[q] = split_job[q]
  BY <1>2 DEF SplitIInv, Split!Idle
<1>4. SplitGood(split_stored)' /\ SplitKeeps(split_stored)'
  BY <1>1, <1>2 DEF SplitJobGood, SplitGood, SplitKeeps, ContentOf
<1>5. free = NewBatches => split_stored'.data.batches = split_stored.data.batches
  BY <1>1, <1>2 DEF SplitJobGood
<1>6. ASSUME NEW q \in Procs, ~Split!Idle(q)' PROVE SplitJobGood(split_job[q])'
  <2> DEFINE k == split_job[q]
  <2>1. SplitJobGood(k) /\ split_job'[q] = k
    BY <1>3, <1>6 DEF SplitIInv
  <2> HIDE DEF k
  <2> QED
    BY <1>2, <1>5, <2>1 DEF SplitJobGood, SplitKeeps, ContentOf, SplitGood, k
<1> QED
  BY <1>2, <1>3, <1>4, <1>6 DEF SplitIInv

LEMMA DieIInv ==
  ASSUME Split!MigrationsConstants, SplitIInv, NEW p \in Procs, Split!Die(p) PROVE SplitIInv'
BY SplitOneJob DEF Split!Die, SplitIInv

LEMMA SplitNextIInv ==
  ASSUME Split!MigrationsConstants PROVE SplitIInv /\ [Split!Next]_(Split!vars) => SplitIInv'
<1> SUFFICES ASSUME SplitIInv, [Split!Next]_(Split!vars) PROVE SplitIInv'
  OBVIOUS
<1>1. CASE UNCHANGED Split!vars
  BY <1>1 DEF Split!vars, SplitIInv, SplitGood, SplitKeeps, ContentOf, Split!Idle, SplitJobGood
<1>2. CASE Split!Next
  BY <1>2, StartsIInv, NewBatchIInv, ReplaceIInv, SetEndpointsIInv, SplitSaveIInv, DieIInv,
     CopyMessageIInv, StoreMessageIInv, SetStatusIInv DEF Split!Next
<1> QED
  BY <1>1, <1>2

LEMMA SplitHolds ==
  ASSUME Split!MigrationsConstants PROVE Split!Spec => []SplitIInv
BY SplitInitIInv, SplitNextIInv, PTL DEF Split!Spec

(* MigrationKeepsLife (go_migrate_conversations and the migrators): what a *)
(* load makes of a conversation is alive just as the one stored.           *)
THEOREM LifeIsKept ==
  ASSUME Split!MigrationsConstants PROVE Split!Spec => []Split!MigrationKeepsLife
<1>1. SplitIInv => Split!MigrationKeepsLife
  <2> SUFFICES ASSUME SplitIInv PROVE Split!MigrationKeepsLife
    OBVIOUS
  <2>1. SplitGood(split_stored)
    BY DEF SplitIInv
  <2>2. (Split!Load(split_stored) # Nothing => Split!Life(Split!Load(split_stored)) = Split!Life(split_stored))
        /\ (Split!LoadV2(split_stored) # Nothing => Split!Life(Split!LoadV2(split_stored)) = Split!Life(split_stored))
    BY <2>1, SplitLoadKeeps, LoadV2Keeps
  <2>3. split_stored.version > 0 /\ Split!Life(split_stored) # "finished" => Split!Listed(split_stored)
    <3>1. split_stored.version \in {0, 1, 2, 3}
      BY <2>1, RecordParts DEF SplitGood
    <3>2. CASE split_stored.version = 1
      BY <2>1, <3>2 DEF SplitGood, Split!Life, Split!StatusOf1, Split!Listed
    <3>3. CASE split_stored.version \in {2, 3}
      BY <2>1, <3>3 DEF SplitGood, Split!Life, Split!StatusSince2, Split!Listed
    <3> QED
      BY <3>1, <3>2, <3>3
  <2> QED
    BY <2>2, <2>3 DEF Split!MigrationKeepsLife
<1> QED
  BY <1>1, SplitHolds, PTL

(* MessagesAreKept (go_migrate_conversations): the batches of the stored   *)
(* conversation hold every message that it had before the migrations.      *)
THEOREM MessagesStayInBatches ==
  ASSUME Split!MigrationsConstants PROVE Split!Spec => []Split!MessagesAreKept
<1>1. SplitIInv => Split!MessagesAreKept
  BY DEF SplitIInv, SplitKeeps, ContentOf, Split!MessagesAreKept
<1> QED
  BY <1>1, SplitHolds, PTL

-----------------------------------------------------------------------------
(* The migrations of a contact (ContactMigrations): its addresses and      *)
(* their indexes agree.                                                    *)
\* What a process does to a contact it has loaded.
Work == [at : {"loaded"}, does : {"change", "delete", "migrate"}, contact : Contacts, copy : Reindex!ContactState]

ReindexTypeInv ==
  /\ reindex_stored \in [Contacts -> Reindex!ContactState \union {Nothing}]
  /\ reindex_job \in [Procs -> Work \union {Reindex!Idle}]
  /\ truth \in [Contacts -> Reindex!Addresses]

\* A contact is indexed by its addresses as soon as it is of the latest version.
Indexed(c) == c.version = 2 /\ c.index = c.values

\* Of a contact that was not saved under anybody's feet: what is stored, and every copy of it.
ReindexKeeps(k) ==
  /\ IF reindex_stored[k] = Nothing THEN truth[k] = Reindex!NoneSet
     ELSE Reindex!Loaded(reindex_stored[k]).values = truth[k] /\ Indexed(Reindex!Loaded(reindex_stored[k]))
  /\ k \in listed => reindex_stored[k] = Nothing \/ reindex_stored[k].version = 2
  /\ \A p \in Procs : reindex_job[p].at = "loaded" /\ reindex_job[p].contact = k =>
       reindex_stored[k] # Nothing /\ reindex_job[p].copy = Reindex!Loaded(reindex_stored[k])

ReindexIInv == ReindexTypeInv /\ \A k \in Contacts \ reindex_excused : ReindexKeeps(k)

-----------------------------------------------------------------------------
\* A loaded contact is of the latest version, and loading it again changes nothing.
LEMMA LoadedType ==
  ASSUME NEW c \in Reindex!ContactState
  PROVE  Reindex!Loaded(c) \in Reindex!ContactState /\ Reindex!Loaded(c).version = 2
<1>1. c.version \in 0..2 /\ c.values \in Reindex!Addresses /\ c.index \in Reindex!Addresses
  BY DEF Reindex!ContactState
<1>2. [c.values EXCEPT !["wechat_id"] = Nothing] \in Reindex!Addresses
  BY <1>1 DEF Reindex!Addresses
<1>3. \A values \in Reindex!Addresses : Reindex!Contact(2, values, values) \in Reindex!ContactState
                             /\ Reindex!Contact(2, values, values).version = 2
  BY DEF Reindex!Contact, Reindex!ContactState
<1>4. Reindex!MigrateFromUnversioned(c).values = [c.values EXCEPT !["wechat_id"] = Nothing]
  BY DEF Reindex!MigrateFromUnversioned, Reindex!Contact
<1> QED
  BY <1>1, <1>2, <1>3, <1>4 DEF Reindex!Loaded, Reindex!MigrateFrom1

LEMMA LoadedAgain ==
  ASSUME NEW c \in Reindex!ContactState, c.version = 2
  PROVE  Reindex!Loaded(c) = c
BY DEF Reindex!Loaded

\* What the releases have stored is indexed once it is loaded, and keeps its addresses.
LEMMA ContactOfLoads ==
  ASSUME NEW version \in 0..2, NEW msisdn \in Values, NEW wechat_id \in Values \union {Nothing}
  PROVE  /\ Reindex!ContactOf(version, msisdn, wechat_id) \in Reindex!ContactState
         /\ Reindex!Loaded(Reindex!ContactOf(version, msisdn, wechat_id)).values
              = Reindex!ContactOf(version, msisdn, wechat_id).values
         /\ Indexed(Reindex!Loaded(Reindex!ContactOf(version, msisdn, wechat_id)))
<1> DEFINE values == [f \in Reindex!Fields |-> IF f = "msisdn" THEN msisdn
                                  ELSE IF version = 0 THEN Nothing ELSE wechat_id]
           c == Reindex!ContactOf(version, msisdn, wechat_id)
<1>1. values \in Reindex!Addresses /\ Reindex!NoneSet \in Reindex!Addresses
  BY DEF Reindex!Addresses, Reindex!NoneSet, Reindex!Fields
<1>2. c = Reindex!Contact(version, values, IF version = 2 THEN values ELSE Reindex!NoneSet)
  BY DEF Reindex!ContactOf
<1>3. c \in Reindex!ContactState
  BY <1>1, <1>2 DEF Reindex!ContactState, Reindex!Contact
<1>4. c.version = version /\ c.values = values /\ (version = 2 => c.index = values)
  BY <1>2 DEF Reindex!Contact
<1>5. version = 0 => [values EXCEPT !["wechat_id"] = Nothing] = values
  BY DEF Reindex!Fields
<1>6. version \in {0, 1, 2}
  OBVIOUS
<1> HIDE DEF c, values
<1> SUFFICES Reindex!Loaded(c).values = c.values /\ Indexed(Reindex!Loaded(c))
  BY <1>3 DEF c
<1>7. CASE version = 2
  BY <1>4, <1>7 DEF Reindex!Loaded, Indexed
<1>8. CASE version = 1
  BY <1>4, <1>8 DEF Reindex!Loaded, Indexed, Reindex!MigrateFrom1, Reindex!Contact
<1>9. CASE version = 0
  <2>1. Reindex!MigrateFromUnversioned(c).values = values
    BY <1>4, <1>5, <1>9 DEF Reindex!MigrateFromUnversioned, Reindex!Contact
  <2> QED
    BY <1>4, <1>9, <2>1 DEF Reindex!Loaded, Indexed, Reindex!MigrateFrom1, Reindex!Contact
<1> QED
  BY <1>6, <1>7, <1>8, <1>9

-----------------------------------------------------------------------------
LEMMA ReindexInitIInv ==
  ASSUME Reindex!ContactMigrationsConstants PROVE Reindex!Init => ReindexIInv
<1> SUFFICES ASSUME Reindex!Init PROVE ReindexIInv
  OBVIOUS
<1>1. PICK version \in [Contacts -> 0..2], msisdn \in [Contacts -> Values], wechat_id \in [Contacts -> Values \union {Nothing}] :
        reindex_stored = [k \in Contacts |-> Reindex!ContactOf(version[k], msisdn[k], wechat_id[k])]
  BY DEF Reindex!Init
<1>2. ASSUME NEW k \in Contacts
      PROVE  /\ reindex_stored[k] \in Reindex!ContactState /\ reindex_stored[k] # Nothing
             /\ Reindex!Loaded(reindex_stored[k]).values = reindex_stored[k].values /\ Indexed(Reindex!Loaded(reindex_stored[k]))
  <2>1. reindex_stored[k] = Reindex!ContactOf(version[k], msisdn[k], wechat_id[k])
    BY <1>1
  <2>2. version[k] \in 0..2 /\ msisdn[k] \in Values /\ wechat_id[k] \in Values \union {Nothing}
    BY <1>1
  <2>3. reindex_stored[k] \in Reindex!ContactState /\ Reindex!Loaded(reindex_stored[k]).values = reindex_stored[k].values /\ Indexed(Reindex!Loaded(reindex_stored[k]))
    BY <2>1, <2>2, ContactOfLoads
  <2> QED
    BY <2>3 DEF Reindex!ContactMigrationsConstants
<1>3. reindex_stored = [k \in Contacts |-> reindex_stored[k]]
  BY <1>1
<1>4. ReindexTypeInv
  <2>1. \A k \in Contacts : reindex_stored[k].values \in Reindex!Addresses
    BY <1>2 DEF Reindex!ContactState
  <2> QED
    BY <1>2, <1>3, <2>1 DEF ReindexTypeInv, Reindex!Init
<1>5. ASSUME NEW k \in Contacts PROVE ReindexKeeps(k)
  BY <1>2 DEF ReindexKeeps, Reindex!Init, Reindex!Idle
<1> QED
  BY <1>4, <1>5 DEF ReindexIInv

LEMMA ReindexLoadKeeps ==
  ASSUME Reindex!ContactMigrationsConstants, ReindexIInv, NEW p \in Procs, NEW k \in Contacts, NEW does \in {"change", "delete", "migrate"}, Reindex!Load(p, k, does)
  PROVE  ReindexIInv'
<1>1. reindex_stored' = reindex_stored /\ truth' = truth /\ reindex_excused' = reindex_excused
  BY DEF Reindex!Load
<1>2. CASE reindex_stored[k] = Nothing \/ (does = "migrate" /\ ~Reindex!WasMigrated(reindex_stored[k]))
  <2>1. reindex_job' = reindex_job /\ listed' \subseteq listed \union {k} /\ (does # "migrate" => listed' = listed)
    BY <1>2 DEF Reindex!Load
  <2>2. ASSUME NEW l \in Contacts \ reindex_excused PROVE ReindexKeeps(l)'
    <3>1. ReindexKeeps(l)
      BY DEF ReindexIInv
    <3>2. l \in listed' => l \in listed \/ (l = k /\ does = "migrate")
      BY <2>1
    <3>3. l \in listed' => reindex_stored[l] = Nothing \/ reindex_stored[l].version = 2
      BY <1>2, <3>1, <3>2 DEF ReindexKeeps, Reindex!WasMigrated
    <3> QED
      BY <1>1, <2>1, <3>1, <3>3 DEF ReindexKeeps, Indexed
  <2> QED
    BY <1>1, <2>1, <2>2 DEF ReindexIInv, ReindexTypeInv
<1>3. CASE ~(reindex_stored[k] = Nothing \/ (does = "migrate" /\ ~Reindex!WasMigrated(reindex_stored[k])))
  <2> DEFINE w == [at |-> "loaded", does |-> does, contact |-> k, copy |-> Reindex!Loaded(reindex_stored[k])]
  <2>1. reindex_job' = [reindex_job EXCEPT ![p] = w] /\ reindex_job[p].at = "idle"
    BY <1>3 DEF Reindex!Load
  <2>2. reindex_stored[k] \in Reindex!ContactState
    BY <1>3 DEF ReindexIInv, ReindexTypeInv
  <2>3. w \in Work
    BY <2>2, LoadedType DEF Work
  <2>4. reindex_job' \in [Procs -> Work \union {Reindex!Idle}] /\ reindex_job'[p] = w /\ \A q \in Procs \ {p} : reindex_job'[q] = reindex_job[q]
    BY <2>1, <2>3 DEF ReindexIInv, ReindexTypeInv
  <2>5. listed' = listed
    <3>1. reindex_job'[p].at = "loaded"
      BY <2>4
    <3> QED
      BY <2>1, <3>1 DEF Reindex!Load
  <2>6. ASSUME NEW l \in Contacts \ reindex_excused PROVE ReindexKeeps(l)'
    <3>1. ReindexKeeps(l)
      BY DEF ReindexIInv
    <3>2. ASSUME NEW q \in Procs, reindex_job'[q].at = "loaded", reindex_job'[q].contact = l
          PROVE  reindex_stored[l] # Nothing /\ reindex_job'[q].copy = Reindex!Loaded(reindex_stored[l])
      BY <1>3, <2>4, <3>1, <3>2 DEF ReindexKeeps
    <3> QED
      BY <1>1, <2>5, <3>1, <3>2 DEF ReindexKeeps, Indexed
  <2> HIDE DEF w
  <2> QED
    BY <1>1, <2>4, <2>6 DEF ReindexIInv, ReindexTypeInv
<1> QED
  BY <1>2, <1>3

\* After p has saved or deleted k, as value and with these addresses, nobody has an older copy.
LEMMA FinishKeeps ==
  ASSUME Reindex!ContactMigrationsConstants, ReindexIInv, NEW p \in Procs, NEW k \in Contacts, reindex_job[p].contact = k, reindex_job[p].at = "loaded",
         NEW value \in Reindex!ContactState \union {Nothing}, NEW addresses \in Reindex!Addresses,
         reindex_stored' = [reindex_stored EXCEPT ![k] = value], truth' = [truth EXCEPT ![k] = addresses],
         listed' \subseteq listed \union {k},
         k \notin reindex_excused => IF value = Nothing THEN addresses = Reindex!NoneSet
                             ELSE Indexed(value) /\ value.values = addresses,
         Reindex!Finish(p)
  PROVE  ReindexIInv'
<1>1. /\ reindex_job' = [reindex_job EXCEPT ![p] = Reindex!Idle]
      /\ reindex_excused' = IF Reindex!Others(p, k) THEN reindex_excused \union {k} ELSE reindex_excused
  BY DEF Reindex!Finish
<1>2. ReindexTypeInv'
  BY <1>1 DEF ReindexIInv, ReindexTypeInv
<1>3. reindex_job'[p].at = "idle" /\ \A q \in Procs \ {p} : reindex_job'[q] = reindex_job[q]
  BY <1>1 DEF ReindexIInv, ReindexTypeInv, Reindex!Idle
<1>4. ASSUME NEW l \in Contacts \ reindex_excused', l # k PROVE ReindexKeeps(l)'
  <2>1. ReindexKeeps(l)
    BY <1>1 DEF ReindexIInv
  <2>2. reindex_stored'[l] = reindex_stored[l] /\ truth'[l] = truth[l] /\ (l \in listed' => l \in listed)
    BY <1>4 DEF ReindexIInv, ReindexTypeInv
  <2>3. ASSUME NEW q \in Procs, reindex_job'[q].at = "loaded", reindex_job'[q].contact = l
        PROVE  reindex_stored[l] # Nothing /\ reindex_job'[q].copy = Reindex!Loaded(reindex_stored[l])
    BY <1>3, <2>1, <2>3 DEF ReindexKeeps
  <2> QED
    BY <2>1, <2>2, <2>3 DEF ReindexKeeps, Indexed
<1>5. ASSUME k \notin reindex_excused' PROVE ReindexKeeps(k)'
  <2>1. k \notin reindex_excused /\ ~Reindex!Others(p, k)
    BY <1>1, <1>5
  <2>2. \A q \in Procs : ~(reindex_job'[q].at = "loaded" /\ reindex_job'[q].contact = k)
    BY <1>3, <2>1 DEF Reindex!Others
  <2>3. reindex_stored'[k] = value /\ truth'[k] = addresses
    BY DEF ReindexIInv, ReindexTypeInv
  <2>4. value # Nothing => Reindex!Loaded(value) = value /\ value.version = 2
    BY <2>1, LoadedAgain DEF Indexed
  <2> QED
    BY <2>1, <2>2, <2>3, <2>4 DEF ReindexKeeps, Indexed
<1> QED
  BY <1>2, <1>4, <1>5 DEF ReindexIInv

\* What a process has loaded.
LEMMA CopyIsLatest ==
  ASSUME ReindexIInv, NEW p \in Procs, reindex_job[p].at = "loaded"
  PROVE  LET k == reindex_job[p].contact IN
         /\ k \in Contacts /\ reindex_job[p].copy \in Reindex!ContactState
         /\ k \notin reindex_excused => /\ Indexed(reindex_job[p].copy) /\ reindex_job[p].copy.values = truth[k]
<1>1. reindex_job[p] \in Work
  BY DEF ReindexIInv, ReindexTypeInv, Reindex!Idle
<1>2. reindex_job[p].contact \in Contacts /\ reindex_job[p].copy \in Reindex!ContactState
  BY <1>1 DEF Work
<1> QED
  BY <1>2 DEF ReindexIInv, ReindexKeeps

LEMMA ChangeKeeps ==
  ASSUME Reindex!ContactMigrationsConstants, ReindexIInv, NEW p \in Procs, NEW f \in Reindex!Fields, NEW v \in Values, Reindex!Change(p, f, v)
  PROVE  ReindexIInv'
<1> DEFINE k == reindex_job[p].contact
           copy == reindex_job[p].copy
           value == Reindex!WithAddress(copy, f, v)
           addresses == [truth[k] EXCEPT ![f] = v]
<1>1. /\ reindex_job[p].at = "loaded" /\ reindex_stored' = [reindex_stored EXCEPT ![k] = value]
      /\ truth' = [truth EXCEPT ![k][f] = v] /\ Reindex!Finish(p) /\ listed' = listed
  BY DEF Reindex!Change
<1>2. k \in Contacts /\ copy \in Reindex!ContactState /\ (k \notin reindex_excused => Indexed(copy) /\ copy.values = truth[k])
  BY <1>1, CopyIsLatest
<1>3. addresses \in Reindex!Addresses /\ truth' = [truth EXCEPT ![k] = addresses]
  BY <1>1, <1>2 DEF ReindexIInv, ReindexTypeInv, Reindex!Addresses
<1>4. copy.values \in Reindex!Addresses /\ copy.index \in Reindex!Addresses /\ copy.version \in 0..2
  BY <1>2 DEF Reindex!ContactState
<1>5. [copy.values EXCEPT ![f] = v] \in Reindex!Addresses /\ [copy.index EXCEPT ![f] = v] \in Reindex!Addresses
  BY <1>4 DEF Reindex!Addresses
<1>6. /\ value.version = copy.version /\ value.values = [copy.values EXCEPT ![f] = v]
      /\ value.index = [copy.index EXCEPT ![f] = v]
  BY DEF Reindex!WithAddress, Reindex!Contact
<1>7. value \in Reindex!ContactState
  BY <1>4, <1>5 DEF Reindex!ContactState, Reindex!WithAddress, Reindex!Contact
<1>8. k \notin reindex_excused => Indexed(value) /\ value.values = addresses
  BY <1>2, <1>6 DEF Indexed
<1>9. value # Nothing
  BY <1>7 DEF Reindex!ContactMigrationsConstants
<1> HIDE DEF k, value, addresses
<1> QED
  BY <1>1, <1>2, <1>3, <1>7, <1>8, <1>9, FinishKeeps DEF k

LEMMA ReindexDeleteKeeps ==
  ASSUME Reindex!ContactMigrationsConstants, ReindexIInv, NEW p \in Procs, Reindex!Delete(p)
  PROVE  ReindexIInv'
<1> DEFINE k == reindex_job[p].contact
<1>1. /\ reindex_job[p].at = "loaded" /\ reindex_stored' = [reindex_stored EXCEPT ![k] = Nothing]
      /\ truth' = [truth EXCEPT ![k] = Reindex!NoneSet] /\ Reindex!Finish(p) /\ listed' = listed
  BY DEF Reindex!Delete
<1>2. k \in Contacts
  BY <1>1, CopyIsLatest
<1>3. Reindex!NoneSet \in Reindex!Addresses
  BY DEF Reindex!NoneSet, Reindex!Addresses
<1> HIDE DEF k
<1> QED
  BY <1>1, <1>2, <1>3, FinishKeeps DEF k

LEMMA MigrateKeeps ==
  ASSUME Reindex!ContactMigrationsConstants, ReindexIInv, NEW p \in Procs, Reindex!Migrate(p)
  PROVE  ReindexIInv'
<1> DEFINE k == reindex_job[p].contact
<1>1. /\ reindex_job[p].at = "loaded" /\ reindex_stored' = [reindex_stored EXCEPT ![k] = reindex_job[p].copy]
      /\ truth' = truth /\ Reindex!Finish(p) /\ listed' = listed \union {k}
  BY DEF Reindex!Migrate
<1>2. k \in Contacts /\ reindex_job[p].copy \in Reindex!ContactState /\ (k \notin reindex_excused => Indexed(reindex_job[p].copy) /\ reindex_job[p].copy.values = truth[k])
  BY <1>1, CopyIsLatest
<1>3. truth' = [truth EXCEPT ![k] = truth[k]] /\ truth[k] \in Reindex!Addresses
  BY <1>1, <1>2 DEF ReindexIInv, ReindexTypeInv
<1>4. reindex_job[p].copy # Nothing
  BY <1>2 DEF Reindex!ContactMigrationsConstants
<1> HIDE DEF k
<1> QED
  BY <1>1, <1>2, <1>3, <1>4, FinishKeeps DEF k

LEMMA ReindexDieKeeps ==
  ASSUME ReindexIInv, NEW p \in Procs, Reindex!Die(p)
  PROVE  ReindexIInv'
<1>1. /\ reindex_job' = [reindex_job EXCEPT ![p] = Reindex!Idle] /\ reindex_stored' = reindex_stored /\ truth' = truth /\ listed' = listed
      /\ reindex_excused' = reindex_excused
  BY DEF Reindex!Die
<1>2. reindex_job'[p].at = "idle" /\ \A q \in Procs \ {p} : reindex_job'[q] = reindex_job[q]
  BY <1>1 DEF ReindexIInv, ReindexTypeInv, Reindex!Idle
<1>3. ReindexTypeInv'
  BY <1>1 DEF ReindexIInv, ReindexTypeInv
<1>4. ASSUME NEW l \in Contacts \ reindex_excused PROVE ReindexKeeps(l)'
  <2>1. ReindexKeeps(l)
    BY DEF ReindexIInv
  <2>2. ASSUME NEW q \in Procs, reindex_job'[q].at = "loaded", reindex_job'[q].contact = l
        PROVE  reindex_stored[l] # Nothing /\ reindex_job'[q].copy = Reindex!Loaded(reindex_stored[l])
    BY <1>2, <2>1, <2>2 DEF ReindexKeeps
  <2> QED
    BY <1>1, <2>1, <2>2 DEF ReindexKeeps, Indexed
<1> QED
  BY <1>1, <1>3, <1>4 DEF ReindexIInv

LEMMA StutterKeeps ==
  ASSUME ReindexIInv, UNCHANGED Reindex!vars
  PROVE  ReindexIInv'
<1>1. \A k \in Contacts : ReindexKeeps(k) <=> ReindexKeeps(k)'
  BY DEF Reindex!vars, ReindexKeeps, Indexed
<1> QED
  BY <1>1 DEF ReindexIInv, ReindexTypeInv, Reindex!vars

(* A contact that nobody saved over keeps the addresses last saved for it  *)
(* through every migrator, and is found by them once the script has been   *)
(* through it: what is stored is indexed as soon as it is of the latest    *)
(* version, and what is loaded is (go/vumitools/contact/migrations.py).    *)
THEOREM AddressesAreKept ==
  ASSUME Reindex!ContactMigrationsConstants PROVE Reindex!Spec => []Reindex!MigrationKeepsAddresses
<1>1. Reindex!Init => ReindexIInv
  BY ReindexInitIInv
<1>2. ReindexIInv /\ [Reindex!Next]_(Reindex!vars) => ReindexIInv'
  BY ReindexLoadKeeps, ChangeKeeps, ReindexDeleteKeeps, MigrateKeeps, ReindexDieKeeps, StutterKeeps DEF Reindex!Next
<1>3. ReindexIInv => Reindex!MigrationKeepsAddresses
  <2> SUFFICES ASSUME ReindexIInv, NEW k \in Contacts \ reindex_excused
               PROVE  LET values == IF reindex_stored[k] = Nothing THEN Reindex!NoneSet ELSE Reindex!Loaded(reindex_stored[k]).values IN
                      /\ values = truth[k]
                      /\ k \in listed => \A f \in Reindex!Fields : values[f] # Nothing => k \in Reindex!ContactsForAddr(f, values[f])
    BY DEF Reindex!MigrationKeepsAddresses
  <2>1. ReindexKeeps(k)
    BY DEF ReindexIInv
  <2>2. CASE reindex_stored[k] = Nothing
    BY <2>1, <2>2 DEF ReindexKeeps, Reindex!NoneSet
  <2>3. CASE reindex_stored[k] # Nothing
    <3>1. ASSUME k \in listed PROVE Reindex!Loaded(reindex_stored[k]) = reindex_stored[k] /\ reindex_stored[k].index = reindex_stored[k].values
      BY <2>1, <2>3, <3>1, LoadedAgain DEF ReindexKeeps, ReindexIInv, ReindexTypeInv, Indexed
    <3> QED
      BY <2>1, <2>3, <3>1 DEF ReindexKeeps, Reindex!ContactsForAddr
  <2> QED
    BY <2>2, <2>3
<1> QED
  BY <1>1, <1>2, <1>3, PTL DEF Reindex!Spec

-----------------------------------------------------------------------------
(* The settings of an account (AccountSettings): its flags are what was    *)
(* last saved, whatever release loads it, and it keeps one permission for  *)
(* each application and pool.                                              *)
\* The opt-out flags that the model of a version finds in a record.
FlagsIn(version, data) ==
  IF version = Settings!New THEN data.flags \intersect Settings!OptOutFlags ELSE {f \in Settings!OptOutFlags : data[f] = TRUE}

IsRecord(data) == data = [f \in Settings!Fields |-> data[f]]

\* A record as the code of its version leaves it.
SettingsGood(version, data) ==
  /\ IsRecord(data) /\ data.applications \subseteq SettingsKeys /\ data.tagpools \subseteq SettingsKeys
  /\ version < 4 => data.can_manage_optouts = Nothing
  /\ version < 5 => data.disable_optouts = Nothing
  /\ version \in {4, 5} => data.can_manage_optouts \in BOOLEAN
  /\ version = 5 => data.disable_optouts \in BOOLEAN
  /\ version = 6 => data.flags \subseteq Settings!Flags
  /\ version > 2 => data.tags # Nothing /\ data.routing_table # Nothing

\* An account has one application permission at most, and keys of those are not keys of pools.
Permitted(perms, data) ==
  /\ \A k \in data.applications : perms[k] = "application"
  /\ \A k \in data.tagpools : perms[k] # "application"
  /\ \A k, l \in data.applications : k = l

(* What a job found when it loaded is all there is until it changes it: a  *)
(* key of an application permission stays one.                             *)
SettingsJobGood(perms, j) ==
  /\ j.release \in {Settings!Old, Settings!New} /\ SettingsGood(j.release, j.data) /\ Permitted(perms, j.data)
  /\ j.pools \subseteq j.data.tagpools /\ j.apps \subseteq SettingsKeys
  /\ ~j.done => j.apps = j.data.applications

\* A release that cannot load the newest version does not run once it is stored.
Releasing ==
  /\ releases \in {{Settings!Old}, {Settings!Old, Settings!New}, {Settings!New}} /\ storing \in {Settings!Old, Settings!New}
  /\ storing = Settings!New => releases = {Settings!New}
  /\ settings_stored.version \in 0..6 /\ (settings_stored.version = Settings!New => storing = Settings!New)

SettingsIInv ==
  /\ Releasing
  /\ SettingsGood(settings_stored.version, settings_stored.data) /\ Permitted(permissions, settings_stored.data)
  /\ flagged = FlagsIn(settings_stored.version, settings_stored.data)
  /\ permissions \in [SettingsKeys -> {Nothing, "application", "tagpool"}]
  /\ settings_job = [p \in Procs |-> settings_job[p]]
  /\ \A p \in Procs : ~Settings!Idle(p) => settings_job[p].release \in releases /\ SettingsJobGood(permissions, settings_job[p])

-----------------------------------------------------------------------------
(* The migrators *)
LEMMA WithIs ==
  ASSUME NEW data, IsRecord(data), NEW field \in Settings!Fields, NEW value
  PROVE  /\ IsRecord(Settings!With(data, field, value)) /\ Settings!With(data, field, value)[field] = value
         /\ \A f \in Settings!Fields \ {field} : Settings!With(data, field, value)[f] = data[f]
BY DEF Settings!With, IsRecord

LEMMA CopyIs ==
  ASSUME NEW data, NEW names
  PROVE  /\ IsRecord(Settings!CopyValues(data, names))
         /\ \A f \in Settings!Fields : Settings!CopyValues(data, names)[f] = IF f \in names THEN data[f] ELSE Nothing
BY DEF Settings!CopyValues, IsRecord

LEMMA FieldsAre ==
  /\ "can_manage_optouts" \in Settings!Fields /\ "disable_optouts" \in Settings!Fields /\ "flags" \in Settings!Fields /\ "tags" \in Settings!Fields
  /\ "routing_table" \in Settings!Fields /\ "applications" \in Settings!Fields /\ "tagpools" \in Settings!Fields /\ "email_summary" \in Settings!Fields
BY DEF Settings!Fields, Settings!OptOutFlags

\* One record says what another did.
Alike(version, data, later, new) ==
  /\ SettingsGood(later, new) /\ FlagsIn(later, new) = FlagsIn(version, data)
  /\ new.applications = data.applications /\ new.tagpools = data.tagpools

LEMMA From0 ==
  ASSUME Settings!SettingsConstants, NEW data, SettingsGood(0, data) PROVE Alike(0, data, 1, Settings!MigrateFromUnversioned(data))
<1> DEFINE new == Settings!MigrateFromUnversioned(data)
<1>1. /\ IsRecord(new) /\ new.applications = data.applications /\ new.tagpools = data.tagpools
      /\ new.can_manage_optouts = Nothing /\ new.disable_optouts = Nothing
  BY CopyIs, FieldsAre DEF Settings!MigrateFromUnversioned, Settings!CopyIndexes, SettingsGood
<1> HIDE DEF new
<1> QED
  BY <1>1 DEF Alike, SettingsGood, FlagsIn, Settings!New, Settings!OptOutFlags, new

LEMMA SettingsFrom1 ==
  ASSUME Settings!SettingsConstants, NEW data, SettingsGood(1, data) PROVE Alike(1, data, 2, Settings!MigrateFrom1(data))
<1> DEFINE new == Settings!MigrateFrom1(data)
<1>1. /\ IsRecord(new) /\ new.applications = data.applications /\ new.tagpools = data.tagpools
      /\ new.can_manage_optouts = Nothing /\ new.disable_optouts = Nothing
  BY CopyIs, FieldsAre DEF Settings!MigrateFrom1, Settings!CopyIndexes, SettingsGood
<1> HIDE DEF new
<1> QED
  BY <1>1 DEF Alike, SettingsGood, FlagsIn, Settings!New, Settings!OptOutFlags, new

LEMMA From2 ==
  ASSUME Settings!SettingsConstants, NEW data, SettingsGood(2, data) PROVE Alike(2, data, 3, Settings!MigrateFrom2(data))
<1> DEFINE copy == Settings!CopyValues(data, Settings!Unchanged)
           half == Settings!With(copy, "tags", Settings!NoNull(data.tags))
           new == Settings!With(half, "routing_table", Settings!NoNull(data.routing_table))
<1>1. IsRecord(data)
  BY DEF SettingsGood
<1>2. Settings!NoNull(data.tags) # Nothing /\ Settings!NoNull(data.routing_table) # Nothing
  BY DEF Settings!NoNull, Settings!SettingsConstants
<1>3. /\ IsRecord(copy) /\ copy.applications = data.applications /\ copy.tagpools = data.tagpools
      /\ copy.can_manage_optouts = Nothing /\ copy.disable_optouts = Nothing
  BY <1>1, CopyIs, FieldsAre DEF Settings!Unchanged, Settings!CopyIndexes
<1> HIDE DEF copy
<1>4. /\ IsRecord(half) /\ half.applications = data.applications /\ half.tagpools = data.tagpools
      /\ half.can_manage_optouts = Nothing /\ half.disable_optouts = Nothing /\ half.tags = Settings!NoNull(data.tags)
  BY <1>2, <1>3, WithIs, FieldsAre
<1> HIDE DEF half
<1>5. /\ IsRecord(new) /\ new.applications = data.applications /\ new.tagpools = data.tagpools
      /\ new.can_manage_optouts = Nothing /\ new.disable_optouts = Nothing
      /\ new.tags = Settings!NoNull(data.tags) /\ new.routing_table = Settings!NoNull(data.routing_table)
  BY <1>2, <1>4, WithIs, FieldsAre
<1>6. Settings!MigrateFrom2(data) = new
  BY DEF Settings!MigrateFrom2, half, copy
<1> HIDE DEF new
<1> QED
  BY <1>2, <1>5, <1>6 DEF Alike, SettingsGood, FlagsIn, Settings!New, Settings!OptOutFlags

LEMMA From3 ==
  ASSUME Settings!SettingsConstants, NEW data, SettingsGood(3, data) PROVE Alike(3, data, 4, Settings!MigrateFrom3(data))
<1> DEFINE copy == Settings!CopyValues(data, Settings!Unchanged)
           no == FALSE
           new == Settings!With(copy, "can_manage_optouts", no)
<1>1. IsRecord(data)
  BY DEF SettingsGood
<1>2. /\ IsRecord(copy) /\ copy.applications = data.applications /\ copy.tagpools = data.tagpools
      /\ copy.tags = data.tags /\ copy.routing_table = data.routing_table /\ copy.disable_optouts = Nothing
  BY <1>1, CopyIs, FieldsAre DEF Settings!Unchanged, Settings!CopyIndexes
<1> HIDE DEF copy, no
<1>3. /\ IsRecord(new) /\ new.applications = data.applications /\ new.tagpools = data.tagpools
      /\ new.tags = data.tags /\ new.routing_table = data.routing_table
      /\ new.can_manage_optouts = no /\ new.disable_optouts = Nothing
  BY <1>2, WithIs, FieldsAre
<1>4. Settings!MigrateFrom3(data) = new
  BY DEF Settings!MigrateFrom3, copy, no
<1> HIDE DEF new
<1>7. no \in BOOLEAN /\ no # TRUE
  BY DEF no
<1>5. SettingsGood(4, new)
  BY <1>3, <1>7 DEF SettingsGood
<1>8. Nothing # TRUE
  BY Zenon DEF Settings!SettingsConstants
<1>11. data.can_manage_optouts = Nothing /\ data.disable_optouts = Nothing
  BY DEF SettingsGood
<1>9. /\ data.can_manage_optouts # TRUE /\ data.disable_optouts # TRUE
      /\ new.can_manage_optouts # TRUE /\ new.disable_optouts # TRUE
  BY <1>3, <1>7, <1>8, <1>11, Zenon
<1>10. \A f \in Settings!OptOutFlags : new[f] = TRUE <=> data[f] = TRUE
  BY <1>9 DEF Settings!OptOutFlags
<1>6. FlagsIn(4, new) = FlagsIn(3, data)
  BY <1>10 DEF FlagsIn, Settings!New
<1> QED
  BY <1>3, <1>4, <1>5, <1>6 DEF Alike

LEMMA From4 ==
  ASSUME Settings!SettingsConstants, NEW data, SettingsGood(4, data) PROVE Alike(4, data, 5, Settings!MigrateFrom4(data))
<1> DEFINE copy == Settings!CopyValues(data, Settings!Unchanged \union {"can_manage_optouts"})
           no == FALSE
           new == Settings!With(copy, "disable_optouts", no)
<1>1. IsRecord(data)
  BY DEF SettingsGood
<1>2. /\ IsRecord(copy) /\ copy.applications = data.applications /\ copy.tagpools = data.tagpools
      /\ copy.tags = data.tags /\ copy.routing_table = data.routing_table
      /\ copy.can_manage_optouts = data.can_manage_optouts
  BY <1>1, CopyIs, FieldsAre DEF Settings!Unchanged, Settings!CopyIndexes
<1> HIDE DEF copy, no
<1>3. /\ IsRecord(new) /\ new.applications = data.applications /\ new.tagpools = data.tagpools
      /\ new.tags = data.tags /\ new.routing_table = data.routing_table
      /\ new.can_manage_optouts = data.can_manage_optouts /\ new.disable_optouts = no
  BY <1>2, WithIs, FieldsAre
<1>4. Settings!MigrateFrom4(data) = new
  BY DEF Settings!MigrateFrom4, copy, no
<1> HIDE DEF new
<1>7. no \in BOOLEAN /\ no # TRUE
  BY DEF no
<1>5. SettingsGood(5, new)
  BY <1>3, <1>7 DEF SettingsGood
<1>8. Nothing # TRUE
  BY Zenon DEF Settings!SettingsConstants
<1>11. data.disable_optouts = Nothing
  BY DEF SettingsGood
<1>9. data.disable_optouts # TRUE /\ new.disable_optouts # TRUE
  BY <1>3, <1>7, <1>8, <1>11, Zenon
<1>10. \A f \in Settings!OptOutFlags : new[f] = TRUE <=> data[f] = TRUE
  BY <1>3, <1>9 DEF Settings!OptOutFlags
<1>6. FlagsIn(5, new) = FlagsIn(4, data)
  BY <1>10 DEF FlagsIn, Settings!New
<1> QED
  BY <1>3, <1>4, <1>5, <1>6 DEF Alike

LEMMA From5 ==
  ASSUME Settings!SettingsConstants, NEW data, SettingsGood(5, data) PROVE Alike(5, data, 6, Settings!MigrateFrom5(data))
<1> DEFINE copy == Settings!CopyValues(data, Settings!Unchanged)
           flags == {f \in Settings!OptOutFlags : data[f]}
           new == Settings!With(copy, "flags", flags)
<1>1. IsRecord(data)
  BY DEF SettingsGood
<1>2. /\ IsRecord(copy) /\ copy.applications = data.applications /\ copy.tagpools = data.tagpools
      /\ copy.tags = data.tags /\ copy.routing_table = data.routing_table
  BY <1>1, CopyIs, FieldsAre DEF Settings!Unchanged, Settings!CopyIndexes
<1>3. flags \in SUBSET Settings!Flags
  BY DEF Settings!Flags
<1> HIDE DEF copy, flags
<1>4. /\ IsRecord(new) /\ new.applications = data.applications /\ new.tagpools = data.tagpools
      /\ new.tags = data.tags /\ new.routing_table = data.routing_table /\ new.flags = flags
  BY <1>2, <1>3, WithIs, FieldsAre
<1>5. Settings!MigrateFrom5(data) = new
  BY DEF Settings!MigrateFrom5, copy, flags
<1> HIDE DEF new
<1>6. SettingsGood(6, new)
  BY <1>3, <1>4 DEF SettingsGood
<1>7. \A f \in Settings!OptOutFlags : data[f] <=> data[f] = TRUE
  BY DEF SettingsGood, Settings!OptOutFlags
<1>8. flags = {f \in Settings!OptOutFlags : data[f] = TRUE}
  BY <1>7 DEF flags
<1>9. FlagsIn(6, new) = FlagsIn(5, data)
  BY <1>4, <1>8 DEF FlagsIn, Settings!New
<1> QED
  BY <1>4, <1>5, <1>6, <1>9 DEF Alike

LEMMA Reversed ==
  ASSUME Settings!SettingsConstants, NEW data, SettingsGood(6, data) PROVE Alike(6, data, 5, Settings!ReverseFrom6(data))
<1> DEFINE copy == Settings!CopyValues(data, Settings!Unchanged)
           half == Settings!With(copy, "can_manage_optouts", "can_manage_optouts" \in data.flags)
           new == Settings!With(half, "disable_optouts", "disable_optouts" \in data.flags)
<1>1. IsRecord(data)
  BY DEF SettingsGood
<1>2. /\ IsRecord(copy) /\ copy.applications = data.applications /\ copy.tagpools = data.tagpools
      /\ copy.tags = data.tags /\ copy.routing_table = data.routing_table
  BY <1>1, CopyIs, FieldsAre DEF Settings!Unchanged, Settings!CopyIndexes
<1> HIDE DEF copy
<1>4. /\ IsRecord(half) /\ half.applications = data.applications /\ half.tagpools = data.tagpools
      /\ half.tags = data.tags /\ half.routing_table = data.routing_table
      /\ half.can_manage_optouts = ("can_manage_optouts" \in data.flags)
  BY <1>2, WithIs, FieldsAre
<1> HIDE DEF half
<1>5. /\ IsRecord(new) /\ new.applications = data.applications /\ new.tagpools = data.tagpools
      /\ new.tags = data.tags /\ new.routing_table = data.routing_table
      /\ new.can_manage_optouts = ("can_manage_optouts" \in data.flags)
      /\ new.disable_optouts = ("disable_optouts" \in data.flags)
  BY <1>4, WithIs, FieldsAre
<1>6. Settings!ReverseFrom6(data) = new
  BY DEF Settings!ReverseFrom6, half, copy
<1> HIDE DEF new
<1>7. new.can_manage_optouts \in BOOLEAN /\ new.disable_optouts \in BOOLEAN
  BY <1>5
<1>8. SettingsGood(5, new)
  BY <1>5, <1>7 DEF SettingsGood
<1>9. \A f \in Settings!OptOutFlags : new[f] = TRUE <=> f \in data.flags
  BY <1>5 DEF Settings!OptOutFlags
<1>10. FlagsIn(5, new) = FlagsIn(6, data)
  BY <1>9 DEF FlagsIn, Settings!New
<1> QED
  BY <1>5, <1>6, <1>8, <1>10 DEF Alike

\* A release that can load a record finds in it what the record says.
LEMMA SettingsLoadKeeps ==
  ASSUME Settings!SettingsConstants, NEW rec, rec.version \in 0..6, SettingsGood(rec.version, rec.data),
         NEW release \in {Settings!Old, Settings!New}, rec.version <= release
  PROVE  Alike(rec.version, rec.data, release, Settings!LoadAs(release, rec))
<1> DEFINE v == rec.version
           data == rec.data
           to1 == IF v = 0 THEN Settings!MigrateFromUnversioned(data) ELSE data
           to2 == IF v < 2 THEN Settings!MigrateFrom1(to1) ELSE data
           to3 == IF v < 3 THEN Settings!MigrateFrom2(to2) ELSE data
           to4 == IF v < 4 THEN Settings!MigrateFrom3(to3) ELSE data
           to5 == IF v < 5 THEN Settings!MigrateFrom4(to4) ELSE data
           to6 == IF v < 6 THEN Settings!MigrateFrom5(to5) ELSE data
<1>1. Settings!LoadAs(release, rec) = IF release = Settings!Old THEN to5 ELSE to6
  BY DEF Settings!LoadAs, Settings!Old, Settings!New
<1>2. v \in 0..6 /\ SettingsGood(v, data)
  OBVIOUS
<1> HIDE DEF v, data
<1>3. ASSUME v <= 1 PROVE Alike(v, data, 1, to1)
  BY <1>2, <1>3, From0 DEF Alike
<1> HIDE DEF to1
<1>4. ASSUME v <= 2 PROVE Alike(v, data, 2, to2)
  BY <1>2, <1>3, <1>4, SettingsFrom1 DEF Alike
<1> HIDE DEF to2
<1>5. ASSUME v <= 3 PROVE Alike(v, data, 3, to3)
  BY <1>2, <1>4, <1>5, From2 DEF Alike
<1> HIDE DEF to3
<1>6. ASSUME v <= 4 PROVE Alike(v, data, 4, to4)
  BY <1>2, <1>5, <1>6, From3 DEF Alike
<1> HIDE DEF to4
<1>7. ASSUME v <= 5 PROVE Alike(v, data, 5, to5)
  BY <1>2, <1>6, <1>7, From4 DEF Alike
<1> HIDE DEF to5
<1>8. Alike(v, data, 6, to6)
  BY <1>2, <1>7, From5 DEF Alike
<1> HIDE DEF to6
<1> QED
  BY <1>1, <1>7, <1>8 DEF Settings!Old, Settings!New, v, data

\* The flags that a release finds in a record it loaded.
LEMMA FlagsAgree ==
  ASSUME Settings!SettingsConstants, NEW release \in {Settings!Old, Settings!New}, NEW data, SettingsGood(release, data)
  PROVE  Settings!FlagsOf(release, data) \intersect Settings!OptOutFlags = FlagsIn(release, data)
<1>1. CASE release = Settings!New
  BY <1>1 DEF Settings!FlagsOf, FlagsIn
<1>2. CASE release = Settings!Old
  <2>1. \A f \in Settings!OptOutFlags : data[f] <=> data[f] = TRUE
    BY <1>2 DEF SettingsGood, Settings!OptOutFlags, Settings!Old
  <2>2. Settings!FlagsOf(release, data) = {f \in Settings!OptOutFlags : data[f]}
    BY <1>2 DEF Settings!FlagsOf, Settings!Old, Settings!New
  <2>3. FlagsIn(release, data) = {f \in Settings!OptOutFlags : data[f] = TRUE}
    BY <1>2 DEF FlagsIn, Settings!Old, Settings!New
  <2> QED
    BY <2>1, <2>2, <2>3
<1> QED
  BY <1>1, <1>2

-----------------------------------------------------------------------------
\* The records that the releases so far created.
LEMMA CreatedIs ==
  ASSUME Settings!SettingsConstants, NEW version \in 0..Settings!Old, NEW null \in {Nothing, {}}, NEW flags \in SUBSET Settings!OptOutFlags
  PROVE  /\ Settings!Created(version, null, flags).version = version
         /\ SettingsGood(version, Settings!Created(version, null, flags).data)
         /\ Settings!Created(version, null, flags).data.applications = {}
         /\ Settings!Created(version, null, flags).data.tagpools = {}
<1> DEFINE data == Settings!Created(version, null, flags).data
           Empty(d) == IsRecord(d) /\ d.applications = {} /\ d.tagpools = {}
           NoFlags(d) == d.can_manage_optouts = Nothing /\ d.disable_optouts = Nothing
           NotNull(d) == d.tags # Nothing /\ d.routing_table # Nothing
<1>1. Empty(Settings!AccountVNone) /\ NoFlags(Settings!AccountVNone)
  BY FieldsAre DEF Settings!AccountVNone, Settings!CopyIndexes, IsRecord
<1>2. ASSUME NEW tags PROVE /\ Empty(Settings!AccountV1(tags)) /\ NoFlags(Settings!AccountV1(tags))
                            /\ Settings!AccountV1(tags).tags = tags
  BY <1>1, WithIs, FieldsAre DEF Settings!AccountV1
<1>3. ASSUME NEW table PROVE /\ Empty(Settings!AccountV2(table)) /\ NoFlags(Settings!AccountV2(table))
                             /\ Settings!AccountV2(table).tags = table /\ Settings!AccountV2(table).routing_table = table
  BY <1>2, WithIs, FieldsAre DEF Settings!AccountV2
<1>4. Empty(Settings!AccountV3) /\ NoFlags(Settings!AccountV3) /\ NotNull(Settings!AccountV3)
  BY <1>3 DEF Settings!AccountV3, Settings!SettingsConstants
<1>5. /\ Empty(Settings!AccountV4(flags)) /\ NotNull(Settings!AccountV4(flags)) /\ Settings!AccountV4(flags).disable_optouts = Nothing
      /\ Settings!AccountV4(flags).can_manage_optouts \in BOOLEAN
  <2>1. Settings!AccountV4(flags).can_manage_optouts = ("can_manage_optouts" \in flags)
    BY <1>4, WithIs, FieldsAre DEF Settings!AccountV4
  <2>2. Empty(Settings!AccountV4(flags)) /\ NotNull(Settings!AccountV4(flags)) /\ Settings!AccountV4(flags).disable_optouts = Nothing
    BY <1>4, WithIs, FieldsAre DEF Settings!AccountV4
  <2> QED
    BY <2>1, <2>2
<1>6. /\ Empty(Settings!AccountV5(flags)) /\ NotNull(Settings!AccountV5(flags))
      /\ Settings!AccountV5(flags).can_manage_optouts \in BOOLEAN /\ Settings!AccountV5(flags).disable_optouts \in BOOLEAN
  <2>1. Settings!AccountV5(flags).disable_optouts = ("disable_optouts" \in flags)
    BY <1>5, WithIs, FieldsAre DEF Settings!AccountV5
  <2>2. /\ Empty(Settings!AccountV5(flags)) /\ NotNull(Settings!AccountV5(flags))
        /\ Settings!AccountV5(flags).can_manage_optouts = Settings!AccountV4(flags).can_manage_optouts
    BY <1>5, WithIs, FieldsAre DEF Settings!AccountV5
  <2> QED
    BY <1>5, <2>1, <2>2
<1>7. Settings!Created(version, null, flags).version = version
  BY DEF Settings!Created
<1>8. /\ version = 0 => data = Settings!AccountVNone
      /\ version = 1 => data = Settings!AccountV1(null)
      /\ version = 2 => data = Settings!AccountV2(null)
      /\ version = 3 => data = Settings!AccountV3
      /\ version = 4 => data = Settings!AccountV4(flags)
      /\ version = 5 => data = Settings!AccountV5(flags)
  BY DEF Settings!Created
<1>9. version \in {0, 1, 2, 3, 4, 5}
  BY DEF Settings!Old
<1> HIDE DEF data
<1>10. Empty(data) /\ SettingsGood(version, data)
  <2>1. CASE version \in {0, 1, 2}
    BY <1>1, <1>2, <1>3, <1>8, <2>1 DEF SettingsGood
  <2>2. CASE version = 3
    BY <1>4, <1>8, <2>2 DEF SettingsGood
  <2>3. CASE version = 4
    BY <1>5, <1>8, <2>3 DEF SettingsGood
  <2>4. CASE version = 5
    BY <1>6, <1>8, <2>4 DEF SettingsGood
  <2> QED
    BY <1>9, <2>1, <2>2, <2>3, <2>4
<1> QED
  BY <1>7, <1>10 DEF data

LEMMA SettingsInitIInv ==
  ASSUME Settings!SettingsConstants PROVE Settings!Init => SettingsIInv
<1> SUFFICES ASSUME Settings!Init PROVE SettingsIInv
  OBVIOUS
<1>1. PICK version \in 0..Settings!Old, tags \in {Nothing, {}}, flags \in SUBSET Settings!OptOutFlags :
        /\ settings_stored = Settings!Created(version, tags, flags)
        /\ flagged = {f \in Settings!OptOutFlags : settings_stored.data[f] = TRUE}
  BY DEF Settings!Init
<1>2. /\ settings_stored.version = version /\ SettingsGood(version, settings_stored.data)
      /\ settings_stored.data.applications = {} /\ settings_stored.data.tagpools = {}
  BY <1>1, CreatedIs
<1>3. flagged = FlagsIn(settings_stored.version, settings_stored.data)
  BY <1>1, <1>2 DEF FlagsIn, Settings!Old, Settings!New
<1>4. Permitted(permissions, settings_stored.data)
  BY <1>2 DEF Permitted
<1>5. Releasing
  BY <1>2 DEF Settings!Init, Releasing, Settings!Old, Settings!New
<1> QED
  BY <1>2, <1>3, <1>4, <1>5 DEF Settings!Init, SettingsIInv, Settings!Idle

\* The new job of a process, and permissions that changed without harm to the others.
LEMMA SettingsOneJob ==
  ASSUME SettingsIInv, NEW p \in Procs, NEW j,
         j = Nothing \/ (j.release \in releases /\ SettingsJobGood(permissions', j)),
         permissions' \in [SettingsKeys -> {Nothing, "application", "tagpool"}],
         Permitted(permissions', settings_stored.data),
         \A q \in Procs : ~Settings!Idle(q) => Permitted(permissions', settings_job[q].data),
         settings_job' = [settings_job EXCEPT ![p] = j], UNCHANGED <<settings_stored, flagged, releases, storing>>
  PROVE  SettingsIInv'
<1>1. settings_job' = [q \in Procs |-> settings_job'[q]] /\ settings_job'[p] = j /\ \A q \in Procs \ {p} : settings_job'[q] = settings_job[q]
  BY DEF SettingsIInv
<1>2. ASSUME NEW q \in Procs, settings_job'[q] # Nothing
      PROVE  settings_job'[q].release \in releases' /\ SettingsJobGood(permissions', settings_job'[q])
  <2>1. CASE q = p
    BY <1>1, <1>2, <2>1
  <2>2. CASE q # p
    BY <1>1, <1>2, <2>2 DEF SettingsIInv, Settings!Idle, SettingsJobGood
  <2> QED
    BY <2>1, <2>2
<1>3. Releasing'
  BY DEF SettingsIInv, Releasing
<1> QED
  BY <1>1, <1>2, <1>3 DEF SettingsIInv, Settings!Idle

\* A job that does not touch the permissions.
LEMMA OneJobAlone ==
  ASSUME SettingsIInv, NEW p \in Procs, NEW j,
         j = Nothing \/ (j.release \in releases /\ SettingsJobGood(permissions, j)),
         settings_job' = [settings_job EXCEPT ![p] = j], UNCHANGED <<settings_stored, permissions, flagged, releases, storing>>
  PROVE  SettingsIInv'
<1>1. permissions' = permissions /\ UNCHANGED <<settings_stored, flagged, releases, storing>>
  OBVIOUS
<1>2. /\ permissions \in [SettingsKeys -> {Nothing, "application", "tagpool"}] /\ Permitted(permissions, settings_stored.data)
      /\ \A q \in Procs : ~Settings!Idle(q) => Permitted(permissions, settings_job[q].data)
  BY DEF SettingsIInv, SettingsJobGood
<1> QED
  BY <1>1, <1>2, SettingsOneJob

LEMMA LoadIInv ==
  ASSUME Settings!SettingsConstants, SettingsIInv, NEW p \in Procs, NEW release \in {Settings!Old, Settings!New}, Settings!Load(p, release) PROVE SettingsIInv'
<1> DEFINE data == Settings!LoadAs(release, settings_stored)
           apps == Settings!Existing(data, "applications")
           pools == Settings!Existing(data, "tagpools")
           j == Settings!Job(release, data, FALSE, apps, pools)
<1>1. release \in releases /\ settings_stored.version <= release /\ settings_stored.version \in 0..6
  BY DEF Settings!Load, Settings!Loads, SettingsIInv, Releasing
<1>2. SettingsGood(settings_stored.version, settings_stored.data) /\ Permitted(permissions, settings_stored.data)
  BY DEF SettingsIInv
<1>3. Alike(settings_stored.version, settings_stored.data, release, data)
  BY <1>1, <1>2, SettingsLoadKeeps
<1>4. settings_job' = [settings_job EXCEPT ![p] = j] /\ UNCHANGED <<settings_stored, permissions, flagged, releases, storing>>
  BY DEF Settings!Load
<1> HIDE DEF data
<1>5. SettingsGood(release, data) /\ Permitted(permissions, data)
  BY <1>2, <1>3 DEF Alike, Permitted
<1>6. apps = data.applications /\ pools \subseteq data.tagpools
  BY <1>5 DEF Settings!Existing, Permitted, Settings!SettingsConstants
<1>7. data.applications \subseteq SettingsKeys
  BY <1>5 DEF SettingsGood
<1> HIDE DEF apps, pools
<1>8. j.release = release /\ j.data = data /\ ~j.done /\ j.apps = apps /\ j.pools = pools
  BY DEF Settings!Job
<1> HIDE DEF j
<1>9. j.release \in releases /\ SettingsJobGood(permissions, j)
  BY <1>1, <1>5, <1>6, <1>7, <1>8 DEF SettingsJobGood
<1> QED
  BY <1>4, <1>9, OneJobAlone

\* A job that changed its record, and maybe the permissions.
LEMMA ChangedIInv ==
  ASSUME Settings!SettingsConstants, SettingsIInv, NEW p \in Procs, ~Settings!Idle(p), NEW data, Settings!Changed(p, data),
         SettingsGood(settings_job[p].release, data), settings_job[p].data.tagpools \subseteq data.tagpools, Permitted(permissions', data),
         permissions' \in [SettingsKeys -> {Nothing, "application", "tagpool"}],
         Permitted(permissions', settings_stored.data),
         \A q \in Procs : ~Settings!Idle(q) => Permitted(permissions', settings_job[q].data),
         UNCHANGED <<settings_stored, flagged, releases, storing>>
  PROVE  SettingsIInv'
<1> DEFINE k == settings_job[p]
           j == Settings!Job(k.release, data, TRUE, k.apps, k.pools)
<1>1. k.release \in releases /\ SettingsJobGood(permissions, k)
  BY DEF SettingsIInv
<1>2. settings_job' = [settings_job EXCEPT ![p] = j]
  BY DEF Settings!Changed
<1>3. j.release = k.release /\ j.data = data /\ j.done /\ j.apps = k.apps /\ j.pools = k.pools
  BY DEF Settings!Job
<1>4. SettingsGood(k.release, data) /\ k.data.tagpools \subseteq data.tagpools
  OBVIOUS
<1> HIDE DEF j, k
<1>5. j.release \in releases /\ SettingsJobGood(permissions', j)
  BY <1>1, <1>3, <1>4 DEF SettingsJobGood
<1> QED
  BY <1>2, <1>5, SettingsOneJob

\* The same without the permissions, of the applications or fewer of them and the same pools.
LEMMA ChangedAlone ==
  ASSUME Settings!SettingsConstants, SettingsIInv, NEW p \in Procs, ~Settings!Idle(p), NEW data, Settings!Changed(p, data),
         SettingsGood(settings_job[p].release, data), data.applications \subseteq settings_job[p].data.applications,
         data.tagpools = settings_job[p].data.tagpools,
         UNCHANGED <<settings_stored, permissions, flagged, releases, storing>>
  PROVE  SettingsIInv'
<1>1. permissions' = permissions /\ UNCHANGED <<settings_stored, flagged, releases, storing>>
  OBVIOUS
<1>2. /\ permissions \in [SettingsKeys -> {Nothing, "application", "tagpool"}] /\ Permitted(permissions, settings_stored.data)
      /\ \A q \in Procs : ~Settings!Idle(q) => Permitted(permissions, settings_job[q].data)
  BY DEF SettingsIInv, SettingsJobGood
<1>3. Permitted(permissions, data)
  BY <1>2 DEF Permitted
<1> QED
  BY <1>1, <1>2, <1>3, ChangedIInv

\* A record with another value in a field.
LEMMA GoodWith ==
  ASSUME NEW version \in {Settings!Old, Settings!New}, NEW data, SettingsGood(version, data), NEW field \in Settings!Fields, NEW value,
         field \in {"applications", "tagpools"} => value \subseteq SettingsKeys,
         field \notin {"tags", "routing_table"},
         version = Settings!Old => field \notin Settings!OptOutFlags \/ value \in BOOLEAN,
         version = Settings!New => field # "flags" \/ value \subseteq Settings!Flags
  PROVE  /\ SettingsGood(version, Settings!With(data, field, value)) /\ Settings!With(data, field, value)[field] = value
         /\ \A f \in Settings!Fields \ {field} : Settings!With(data, field, value)[f] = data[f]
<1> DEFINE new == Settings!With(data, field, value)
<1>1. IsRecord(data) /\ version \in {5, 6}
  BY DEF SettingsGood, Settings!Old, Settings!New
<1>2. IsRecord(new) /\ new[field] = value /\ \A f \in Settings!Fields \ {field} : new[f] = data[f]
  BY <1>1, WithIs
<1> HIDE DEF new
<1>3. new.applications \subseteq SettingsKeys /\ new.tagpools \subseteq SettingsKeys
  BY <1>2, FieldsAre DEF SettingsGood
<1>4. new.tags # Nothing /\ new.routing_table # Nothing
  BY <1>1, <1>2, FieldsAre DEF SettingsGood
<1>5. version = 5 => new.can_manage_optouts \in BOOLEAN /\ new.disable_optouts \in BOOLEAN
  <2> SUFFICES ASSUME version = 5, NEW f \in Settings!OptOutFlags PROVE new[f] \in BOOLEAN
    BY DEF Settings!OptOutFlags
  <2>1. data[f] \in BOOLEAN /\ f \in Settings!Fields
    BY FieldsAre DEF SettingsGood, Settings!OptOutFlags
  <2> QED
    BY <1>2, <2>1 DEF Settings!Old
<1>6. version = 6 => new.flags \subseteq Settings!Flags
  BY <1>2, FieldsAre DEF SettingsGood, Settings!New
<1>7. SettingsGood(version, new)
  BY <1>1, <1>2, <1>3, <1>4, <1>5, <1>6 DEF SettingsGood
<1> QED
  BY <1>2, <1>7 DEF new

LEMMA UpdateDetailsIInv ==
  ASSUME Settings!SettingsConstants, SettingsIInv, NEW p \in Procs, NEW email_summary, Settings!UpdateDetails(p, email_summary)
  PROVE  SettingsIInv'
<1> DEFINE data == Settings!With(settings_job[p].data, "email_summary", email_summary)
<1>1. ~Settings!Idle(p) /\ Settings!Changed(p, data) /\ UNCHANGED <<settings_stored, permissions, flagged, releases, storing>>
  BY DEF Settings!UpdateDetails, Settings!Ready
<1>2. settings_job[p].release \in {Settings!Old, Settings!New} /\ SettingsGood(settings_job[p].release, settings_job[p].data)
  BY <1>1 DEF SettingsIInv, SettingsJobGood
<1>3. /\ SettingsGood(settings_job[p].release, data) /\ data.applications = settings_job[p].data.applications
      /\ data.tagpools = settings_job[p].data.tagpools
  BY <1>2, GoodWith, FieldsAre DEF Settings!OptOutFlags
<1> HIDE DEF data
<1> QED
  BY <1>1, <1>3, ChangedAlone

LEMMA SetFlagIInv ==
  ASSUME Settings!SettingsConstants, SettingsIInv, NEW p \in Procs, NEW flag \in Settings!Flags, NEW value \in BOOLEAN,
         Settings!SetFlag(p, flag, value)
  PROVE  SettingsIInv'
<1>1. ~Settings!Idle(p) /\ UNCHANGED <<settings_stored, permissions, flagged, releases, storing>>
  BY DEF Settings!SetFlag, Settings!Ready
<1>2. settings_job[p].release \in {Settings!Old, Settings!New} /\ SettingsGood(settings_job[p].release, settings_job[p].data)
  BY <1>1 DEF SettingsIInv, SettingsJobGood
<1>3. CASE settings_job[p].release = Settings!Old
  <2> DEFINE data == Settings!With(settings_job[p].data, flag, value)
  <2>1. flag \in Settings!OptOutFlags /\ flag \in Settings!Fields /\ flag \notin {"tags", "routing_table", "applications", "tagpools"}
    BY <1>3 DEF Settings!SetFlag, Settings!OptOutFlags, Settings!Fields
  <2>2. Settings!Changed(p, data)
    BY <1>3 DEF Settings!SetFlag
  <2>3. /\ SettingsGood(settings_job[p].release, data) /\ data.applications = settings_job[p].data.applications
        /\ data.tagpools = settings_job[p].data.tagpools
    BY <1>2, <1>3, <2>1, GoodWith, FieldsAre DEF Settings!Old, Settings!New
  <2> HIDE DEF data
  <2> QED
    BY <1>1, <2>2, <2>3, ChangedAlone
<1>4. CASE settings_job[p].release = Settings!New
  <2> DEFINE flags == IF value THEN settings_job[p].data.flags \union {flag} ELSE settings_job[p].data.flags \ {flag}
             data == Settings!With(settings_job[p].data, "flags", flags)
  <2>1. flags \subseteq Settings!Flags
    BY <1>2, <1>4 DEF SettingsGood, Settings!New
  <2>2. Settings!Changed(p, data)
    BY <1>4 DEF Settings!SetFlag, Settings!Old, Settings!New
  <2> HIDE DEF flags
  <2>3. /\ SettingsGood(settings_job[p].release, data) /\ data.applications = settings_job[p].data.applications
        /\ data.tagpools = settings_job[p].data.tagpools
    BY <1>2, <1>4, <2>1, GoodWith, FieldsAre DEF Settings!Old, Settings!New
  <2> HIDE DEF data
  <2> QED
    BY <1>1, <2>2, <2>3, ChangedAlone
<1> QED
  BY <1>2, <1>3, <1>4

\* A key that no record has is made a permission for something.
LEMMA FreshKey ==
  ASSUME Settings!SettingsConstants, SettingsIInv, NEW k \in SettingsKeys, Settings!Fresh(k), NEW what \in {"application", "tagpool"},
         permissions' = [permissions EXCEPT ![k] = what]
  PROVE  /\ permissions' \in [SettingsKeys -> {Nothing, "application", "tagpool"}]
         /\ permissions'[k] = what /\ \A l \in SettingsKeys \ {k} : permissions'[l] = permissions[l]
         /\ k \notin settings_stored.data.applications \union settings_stored.data.tagpools
         /\ Permitted(permissions', settings_stored.data)
         /\ \A q \in Procs : ~Settings!Idle(q) => /\ Permitted(permissions', settings_job[q].data)
                                         /\ k \notin settings_job[q].data.applications \union settings_job[q].data.tagpools
<1>1. permissions \in [SettingsKeys -> {Nothing, "application", "tagpool"}]
  BY DEF SettingsIInv
<1>2. /\ permissions' \in [SettingsKeys -> {Nothing, "application", "tagpool"}]
      /\ permissions'[k] = what /\ \A l \in SettingsKeys \ {k} : permissions'[l] = permissions[l]
  BY <1>1
<1>3. ASSUME NEW data \in Settings!AccountsData
      PROVE  k \notin data.applications \union data.tagpools
  BY <1>3 DEF Settings!Fresh
<1>4. ASSUME NEW data, Permitted(permissions, data), data.applications \subseteq SettingsKeys, data.tagpools \subseteq SettingsKeys,
             k \notin data.applications \union data.tagpools
      PROVE  Permitted(permissions', data)
  BY <1>2, <1>4 DEF Permitted
<1>5. k \notin settings_stored.data.applications \union settings_stored.data.tagpools
  BY <1>3 DEF Settings!AccountsData
<1>6. ASSUME NEW q \in Procs, ~Settings!Idle(q)
      PROVE  k \notin settings_job[q].data.applications \union settings_job[q].data.tagpools
  BY <1>3, <1>6 DEF Settings!AccountsData
<1>7. Permitted(permissions', settings_stored.data)
  BY <1>4, <1>5 DEF SettingsIInv, SettingsGood
<1>8. ASSUME NEW q \in Procs, ~Settings!Idle(q) PROVE Permitted(permissions', settings_job[q].data)
  BY <1>4, <1>6, <1>8 DEF SettingsIInv, SettingsJobGood, SettingsGood
<1> QED
  BY <1>2, <1>5, <1>6, <1>7, <1>8

LEMMA EnableApplicationIInv ==
  ASSUME Settings!SettingsConstants, SettingsIInv, NEW p \in Procs, NEW k \in SettingsKeys, Settings!EnableApplication(p, k) PROVE SettingsIInv'
<1> DEFINE old == settings_job[p].data
           data == Settings!With(old, "applications", old.applications \union {k})
<1>1. /\ ~Settings!Idle(p) /\ ~settings_job[p].done /\ Settings!Changed(p, data) /\ UNCHANGED <<settings_stored, flagged, releases, storing>>
      /\ settings_job[p].apps = {} /\ Settings!Fresh(k) /\ permissions' = [permissions EXCEPT ![k] = "application"]
  BY DEF Settings!EnableApplication, Settings!Ready, Settings!NotYet
<1>2. settings_job[p].release \in {Settings!Old, Settings!New} /\ SettingsGood(settings_job[p].release, old) /\ Permitted(permissions, old) /\ old.applications = {}
  BY <1>1 DEF SettingsIInv, SettingsJobGood
<1>3. old.tagpools \subseteq SettingsKeys
  BY <1>2 DEF SettingsGood
<1>4. SettingsGood(settings_job[p].release, data) /\ data.applications = {k} /\ data.tagpools = old.tagpools
  BY <1>2, GoodWith, FieldsAre DEF Settings!OptOutFlags
<1>5. /\ permissions' \in [SettingsKeys -> {Nothing, "application", "tagpool"}]
      /\ permissions'[k] = "application" /\ \A l \in SettingsKeys \ {k} : permissions'[l] = permissions[l]
      /\ Permitted(permissions', settings_stored.data)
      /\ \A q \in Procs : ~Settings!Idle(q) => Permitted(permissions', settings_job[q].data)
      /\ k \notin old.tagpools
  BY <1>1, FreshKey
<1> HIDE DEF data
<1>6. Permitted(permissions', data)
  BY <1>2, <1>3, <1>4, <1>5 DEF Permitted
<1> QED
  BY <1>1, <1>4, <1>5, <1>6, ChangedIInv

LEMMA DisableApplicationIInv ==
  ASSUME Settings!SettingsConstants, SettingsIInv, NEW p \in Procs, Settings!DisableApplication(p) PROVE SettingsIInv'
<1> DEFINE old == settings_job[p].data
           data == Settings!With(old, "applications", old.applications \ settings_job[p].apps)
<1>1. ~Settings!Idle(p) /\ Settings!Changed(p, data) /\ UNCHANGED <<settings_stored, permissions, flagged, releases, storing>>
  BY DEF Settings!DisableApplication, Settings!Ready
<1>2. settings_job[p].release \in {Settings!Old, Settings!New} /\ SettingsGood(settings_job[p].release, old) /\ old.applications \ settings_job[p].apps \subseteq SettingsKeys
  BY <1>1 DEF SettingsIInv, SettingsJobGood, SettingsGood
<1>3. /\ SettingsGood(settings_job[p].release, data) /\ data.applications \subseteq old.applications
      /\ data.tagpools = old.tagpools
  BY <1>2, GoodWith, FieldsAre DEF Settings!OptOutFlags
<1> HIDE DEF data
<1> QED
  BY <1>1, <1>3, ChangedAlone

LEMMA CreatePermissionIInv ==
  ASSUME Settings!SettingsConstants, SettingsIInv, NEW p \in Procs, NEW k \in SettingsKeys, Settings!ProcessCreatePermission(p, k) PROVE SettingsIInv'
<1> DEFINE old == settings_job[p].data
           data == Settings!With(old, "tagpools", old.tagpools \union {k})
<1>1. /\ ~Settings!Idle(p) /\ Settings!Changed(p, data) /\ UNCHANGED <<settings_stored, flagged, releases, storing>>
      /\ Settings!Fresh(k) /\ permissions' = [permissions EXCEPT ![k] = "tagpool"]
  BY DEF Settings!ProcessCreatePermission, Settings!Ready
<1>2. settings_job[p].release \in {Settings!Old, Settings!New} /\ SettingsGood(settings_job[p].release, old) /\ old.tagpools \union {k} \subseteq SettingsKeys
  BY <1>1 DEF SettingsIInv, SettingsJobGood, SettingsGood
<1>3. /\ SettingsGood(settings_job[p].release, data) /\ data.applications = old.applications
      /\ data.tagpools = old.tagpools \union {k}
  BY <1>2, GoodWith, FieldsAre DEF Settings!OptOutFlags
<1>4. /\ permissions' \in [SettingsKeys -> {Nothing, "application", "tagpool"}]
      /\ permissions'[k] = "tagpool" /\ Permitted(permissions', settings_stored.data)
      /\ \A q \in Procs : ~Settings!Idle(q) => Permitted(permissions', settings_job[q].data)
      /\ Permitted(permissions', old)
  BY <1>1, FreshKey
<1> HIDE DEF data
<1>5. Permitted(permissions', data)
  BY <1>3, <1>4 DEF Permitted
<1> QED
  BY <1>1, <1>3, <1>4, <1>5, ChangedIInv

\* Permissions of a pool, found before, come to be or cease to be.
LEMMA PoolPermissions ==
  ASSUME Settings!SettingsConstants, SettingsIInv, NEW p \in Procs, ~Settings!Idle(p), NEW what \in {Nothing, "tagpool"},
         permissions' = [k \in SettingsKeys |-> IF k \in settings_job[p].pools THEN what ELSE permissions[k]],
         settings_job' = [settings_job EXCEPT ![p] = Nothing], UNCHANGED <<settings_stored, flagged, releases, storing>>
  PROVE  SettingsIInv'
<1>1. permissions \in [SettingsKeys -> {Nothing, "application", "tagpool"}]
  BY DEF SettingsIInv
<1>2. permissions' \in [SettingsKeys -> {Nothing, "application", "tagpool"}] /\ what # "application"
  BY <1>1 DEF Settings!SettingsConstants
<1>3. \A k \in settings_job[p].pools : permissions[k] # "application"
  BY DEF SettingsIInv, SettingsJobGood, Permitted
<1>4. \A k \in SettingsKeys : permissions'[k] = "application" <=> permissions[k] = "application"
  BY <1>2, <1>3
<1>5. ASSUME NEW data, Permitted(permissions, data), data.applications \subseteq SettingsKeys, data.tagpools \subseteq SettingsKeys
      PROVE  Permitted(permissions', data)
  BY <1>4, <1>5 DEF Permitted
<1>6. Permitted(permissions', settings_stored.data)
  BY <1>5 DEF SettingsIInv, SettingsGood
<1>7. \A q \in Procs : ~Settings!Idle(q) => Permitted(permissions', settings_job[q].data)
  BY <1>5 DEF SettingsIInv, SettingsJobGood, SettingsGood
<1> QED
  BY <1>2, <1>6, <1>7, SettingsOneJob

LEMMA SettingsSaveIInv ==
  ASSUME Settings!SettingsConstants, SettingsIInv, NEW p \in Procs, Settings!Save(p) PROVE SettingsIInv'
<1> DEFINE j == settings_job[p]
           rec == Settings!StoreAs(j.release, j.data)
<1>1. ~Settings!Idle(p) /\ j.release \in releases /\ SettingsJobGood(permissions, j)
  BY DEF Settings!Save, SettingsIInv
<1>2. /\ settings_stored' = rec /\ flagged' = Settings!FlagsOf(j.release, j.data) \intersect Settings!OptOutFlags
      /\ settings_job' = [settings_job EXCEPT ![p] = Nothing] /\ UNCHANGED <<permissions, releases, storing>>
  BY DEF Settings!Save
<1>3. j.release \in {Settings!Old, Settings!New} /\ SettingsGood(j.release, j.data)
  BY <1>1 DEF SettingsJobGood
<1>4. flagged' = FlagsIn(j.release, j.data)
  BY <1>2, <1>3, FlagsAgree
<1> HIDE DEF j
<1>5. Alike(j.release, j.data, rec.version, rec.data) /\ rec.version \in {Settings!Old, Settings!New} /\ (rec.version = Settings!New => storing # Settings!Old)
  <2>1. CASE j.release = Settings!New /\ storing = Settings!Old
    <3>1. rec.version = 5 /\ rec.data = Settings!ReverseFrom6(j.data)
      BY <2>1 DEF Settings!StoreAs, Settings!Old
    <3> QED
      BY <1>3, <2>1, <3>1, Reversed DEF Settings!Old, Settings!New
  <2>2. CASE ~(j.release = Settings!New /\ storing = Settings!Old)
    <3>1. rec.version = j.release /\ rec.data = j.data
      BY <2>2 DEF Settings!StoreAs
    <3> QED
      BY <1>3, <2>2, <3>1 DEF Alike
  <2> QED
    BY <2>1, <2>2
<1> HIDE DEF rec
<1>6. Permitted(permissions, rec.data) /\ SettingsGood(rec.version, rec.data) /\ flagged' = FlagsIn(rec.version, rec.data)
  BY <1>1, <1>4, <1>5 DEF Alike, SettingsJobGood, Permitted
<1>7. Releasing'
  BY <1>2, <1>5 DEF SettingsIInv, Releasing, Settings!Old, Settings!New
<1>8. settings_job' = [q \in Procs |-> settings_job'[q]] /\ \A q \in Procs : settings_job'[q] # Nothing => ~Settings!Idle(q) /\ settings_job'[q] = settings_job[q]
  BY <1>2 DEF SettingsIInv, Settings!Idle
<1>9. ASSUME NEW q \in Procs, settings_job'[q] # Nothing
      PROVE  settings_job'[q].release \in releases' /\ SettingsJobGood(permissions', settings_job'[q])
  BY <1>2, <1>8, <1>9 DEF SettingsIInv
<1>10. SettingsGood(settings_stored.version, settings_stored.data)' /\ Permitted(permissions', settings_stored'.data) /\ flagged' = FlagsIn(settings_stored'.version, settings_stored'.data)
  BY <1>2, <1>6
<1> QED
  BY <1>2, <1>7, <1>8, <1>9, <1>10 DEF SettingsIInv, Settings!Idle

LEMMA RollOutIInv ==
  ASSUME Settings!SettingsConstants, SettingsIInv, Settings!RollOut PROVE SettingsIInv'
<1>1. UNCHANGED <<settings_stored, permissions, settings_job, flagged>>
  BY DEF Settings!RollOut
<1>2. Releasing'
  BY DEF Settings!RollOut, SettingsIInv, Releasing, Settings!Old, Settings!New
<1>3. ASSUME NEW q \in Procs, ~Settings!Idle(q) PROVE settings_job[q].release \in releases'
  BY <1>3 DEF Settings!RollOut, SettingsIInv, Settings!Old, Settings!New
<1> QED
  BY <1>1, <1>2, <1>3 DEF SettingsIInv, Settings!Idle

LEMMA SettingsNextIInv ==
  ASSUME Settings!SettingsConstants PROVE SettingsIInv /\ [Settings!Next]_(Settings!vars) => SettingsIInv'
<1> SUFFICES ASSUME SettingsIInv, [Settings!Next]_(Settings!vars) PROVE SettingsIInv'
  OBVIOUS
<1>1. CASE UNCHANGED Settings!vars
  BY <1>1 DEF Settings!vars, SettingsIInv, Settings!Idle, Releasing
<1>2. ASSUME NEW p \in Procs, Settings!ProcessUpdatePermission(p) PROVE SettingsIInv'
  BY <1>2, PoolPermissions DEF Settings!ProcessUpdatePermission, Settings!Ready
<1>3. ASSUME NEW p \in Procs, Settings!ProcessRemovePermission(p) PROVE SettingsIInv'
  BY <1>3, PoolPermissions DEF Settings!ProcessRemovePermission, Settings!Ready
<1>4. ASSUME NEW p \in Procs, Settings!Die(p) PROVE SettingsIInv'
  BY <1>4, OneJobAlone DEF Settings!Die
<1>5. CASE Settings!Next
  BY <1>2, <1>3, <1>4, <1>5, LoadIInv, UpdateDetailsIInv, SetFlagIInv, EnableApplicationIInv,
     DisableApplicationIInv, CreatePermissionIInv, SettingsSaveIInv, RollOutIInv DEF Settings!Next
<1> QED
  BY <1>1, <1>5

LEMMA SettingsHolds ==
  ASSUME Settings!SettingsConstants PROVE Settings!Spec => []SettingsIInv
BY SettingsInitIInv, SettingsNextIInv, PTL DEF Settings!Spec

(* OptOutFlagsSurvive (UserAccountMigrator): whichever release saved last, *)
(* every release that runs can load the account and finds the same opt-out *)
(* flags in it, and no nulls.                                              *)
THEOREM FlagsSurvive ==
  ASSUME Settings!SettingsConstants PROVE Settings!Spec => []Settings!OptOutFlagsSurvive
<1>1. SettingsIInv => Settings!OptOutFlagsSurvive
  <2> SUFFICES ASSUME SettingsIInv, NEW release \in releases
      PROVE  /\ Settings!Loads(release, settings_stored)
             /\ Settings!LoadAs(release, settings_stored).tags # Nothing /\ Settings!LoadAs(release, settings_stored).routing_table # Nothing
             /\ Settings!FlagsOf(release, Settings!LoadAs(release, settings_stored)) \intersect Settings!OptOutFlags = flagged
    BY DEF Settings!OptOutFlagsSurvive
  <2>1. release \in {Settings!Old, Settings!New} /\ settings_stored.version \in 0..6 /\ settings_stored.version <= release
    BY DEF SettingsIInv, Releasing, Settings!Old, Settings!New
  <2>2. Alike(settings_stored.version, settings_stored.data, release, Settings!LoadAs(release, settings_stored))
    BY <2>1, SettingsLoadKeeps DEF SettingsIInv
  <2>3. SettingsGood(release, Settings!LoadAs(release, settings_stored)) /\ FlagsIn(release, Settings!LoadAs(release, settings_stored)) = flagged
    BY <2>2 DEF Alike, SettingsIInv
  <2> QED
    BY <2>1, <2>3, FlagsAgree DEF Settings!Loads, SettingsGood, Settings!Old, Settings!New
<1> QED
  BY <1>1, SettingsHolds, PTL

(* OnePermissionEach (go_manage_application): the commands that give and   *)
(* withdraw the use of an application leave the account one permission for *)
(* it at most, however they overlap.                                       *)
THEOREM PermissionsAreUnique ==
  ASSUME Settings!SettingsConstants PROVE Settings!Spec => []Settings!OnePermissionEach
<1>1. SettingsIInv => Settings!OnePermissionEach
  BY DEF SettingsIInv, Permitted, Settings!OnePermissionEach
<1> QED
  BY <1>1, SettingsHolds, PTL
=============================================================================
