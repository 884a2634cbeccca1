-------------------------- MODULE ModelObjectCache --------------------------
(***************************************************************************)
(* ModelObjectCache (go/vumitools/model_object_cache.py): the cache of     *)
(* accounts and conversations that the routing dispatcher, the application *)
(* workers and a middleware keep, in one reactor with its timers.          *)
(*                                                                         *)
(* Time is discrete.  A fetch asks Riak, which reads at some moment before *)
(* it answers; meanwhile the reactor does other things.                    *)
(***************************************************************************)
EXTENDS Naturals

CONSTANTS
  Keys, Callers, Nothing,
  TTLs,           \* what account_cache_ttl and the like are set to
  MaxFetch,       \* bound on the duration of a fetch
  MaxVersion,     \* bound on the writes to a model
  Horizon         \* bound on the time

CacheConstants ==
  TTLs \subseteq Nat /\ {MaxFetch, MaxVersion, Horizon} \subseteq Nat /\ Nothing \notin Nat

VARIABLES
  ttl,
  now,
  stored,         \* per key, the version in Riak
  replaced,       \* history: per key and version, when a newer one was stored
  models,         \* per key, the version cached, or Nothing
  evictors,       \* per key, when its delayed call is due, or Nothing
  call,           \* per caller, the fetch it waits for
  served,         \* history: the last model handed to a caller
  cleaned         \* cleanup was called

vars == <<ttl, now, stored, replaced, models, evictors, call, served, cleaned>>
riak == <<stored, replaced>>

Waiting(k) == [key |-> k, since |-> now, model |-> Nothing]
Serves(k, v) == served' = [key |-> k, model |-> v, at |-> now]

-----------------------------------------------------------------------------
\* get_model, with the model in the cache.  Workers clean up when they are torn down
\* and call nothing after that.
GetCached(c, k) ==
  /\ ~cleaned /\ call[c] = Nothing /\ models[k] # Nothing
  /\ Serves(k, models[k])
  /\ UNCHANGED <<ttl, now, riak, models, evictors, call, cleaned>>

\* get_model, up to the yield.
StartFetch(c, k) ==
  /\ ~cleaned /\ call[c] = Nothing /\ models[k] = Nothing
  /\ call' = [call EXCEPT ![c] = Waiting(k)]
  /\ UNCHANGED <<ttl, now, riak, models, evictors, served, cleaned>>

RiakReads(c) ==
  /\ call[c] # Nothing /\ call[c].model = Nothing
  /\ call' = [call EXCEPT ![c].model = stored[call[c].key]]
  /\ UNCHANGED <<ttl, now, riak, models, evictors, served, cleaned>>

\* With ttl 0 nothing is cached or scheduled.
Cached(k, v) == IF ttl = 0 THEN models ELSE [models EXCEPT ![k] = v]

\* schedule_eviction
Scheduled(k) ==
  IF ttl = 0 \/ evictors[k] # Nothing THEN evictors ELSE [evictors EXCEPT ![k] = now + ttl]

\* get_model, after the yield: what was fetched replaces what others cached.
Fetched(c) ==
  /\ call[c] # Nothing /\ call[c].model # Nothing
  /\ LET k == call[c].key IN
     /\ Serves(k, call[c].model)
     /\ models' = Cached(k, call[c].model)
     /\ evictors' = Scheduled(k)
  /\ call' = [call EXCEPT ![c] = Nothing]
  /\ UNCHANGED <<ttl, now, riak, cleaned>>

FetchFails(c) ==
  /\ call[c] # Nothing
  /\ call' = [call EXCEPT ![c] = Nothing]
  /\ UNCHANGED <<ttl, now, riak, models, evictors, served, cleaned>>

\* evict_model_entry removes the model and its evictor.  (Fault for the mutation
\* runs: the model stays.)
KeepModel(k) == models
WithoutModel(k) == [models EXCEPT ![k] = Nothing]

Evict(k) ==
  /\ evictors[k] = now
  /\ models' = WithoutModel(k)
  /\ evictors' = [evictors EXCEPT ![k] = Nothing]
  /\ UNCHANGED <<ttl, now, riak, call, served, cleaned>>

\* What cleanup evicts: the keys that have an evictor.
Cleanup ==
  /\ ~cleaned /\ cleaned' = TRUE
  /\ models' = [k \in Keys |-> IF evictors[k] = Nothing THEN models[k] ELSE Nothing]
  /\ evictors' = [k \in Keys |-> Nothing]
  /\ UNCHANGED <<ttl, now, riak, call, served>>

Store(k) ==
  /\ stored[k] < MaxVersion
  /\ stored' = [stored EXCEPT ![k] = @ + 1]
  /\ replaced' = [replaced EXCEPT ![k][stored[k]] = now]
  /\ UNCHANGED <<ttl, now, models, evictors, call, served, cleaned>>

\* A delayed call is made when it is due, a fetch ends within its bound.
Tick ==
  /\ now < Horizon
  /\ \A k \in Keys : evictors[k] # now
  /\ \A c \in Callers : call[c] # Nothing => now < call[c].since + MaxFetch
  /\ now' = now + 1
  /\ UNCHANGED <<ttl, riak, models, evictors, call, served, cleaned>>

Init ==
  /\ ttl \in TTLs /\ now = 0 /\ cleaned = FALSE /\ served = Nothing
  /\ stored = [k \in Keys |-> 0]
  /\ replaced = [k \in Keys |-> [v \in 0..MaxVersion |-> Nothing]]
  /\ models = [k \in Keys |-> Nothing] /\ evictors = [k \in Keys |-> Nothing]
  /\ call = [c \in Callers |-> Nothing]

Fetching(c) ==
  \/ \E k \in Keys : GetCached(c, k) \/ StartFetch(c, k)
  \/ RiakReads(c) \/ Fetched(c) \/ FetchFails(c)

Next ==
  \/ \E c \in Callers : Fetching(c)
  \/ \E k \in Keys : Evict(k) \/ Store(k)
  \/ Cleanup \/ Tick

Spec == Init /\ [][Next]_vars

-----------------------------------------------------------------------------
(* The variables have the types the code gives them, and _models and       *)
(* _evictors have the same keys: no eviction and no cleanup raises         *)
(* KeyError, and no model stays for want of an evictor.                    *)
TypeOK ==
  /\ ttl \in TTLs /\ now \in 0..Horizon /\ cleaned \in BOOLEAN
  /\ stored \in [Keys -> 0..MaxVersion]
  /\ models \in [Keys -> (0..MaxVersion) \union {Nothing}]
  /\ \A k \in Keys : evictors[k] # Nothing => evictors[k] \in now..(now + ttl)
  /\ \A k \in Keys : (models[k] = Nothing) = (evictors[k] = Nothing)

(* However fetches of the same model overlap, writes and evictions between *)
(* them, the model a caller gets was the stored one at some moment of the  *)
(* last ttl and the duration of a fetch: an old model that arrives late    *)
(* replaces a newer one, but not for longer than that.                     *)
ServedFresh ==
  served # Nothing /\ served.at = now =>
    LET gone == replaced[served.key][served.model]
    IN gone = Nothing \/ gone + ttl + MaxFetch >= now
=============================================================================
