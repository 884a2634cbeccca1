--------------------------- MODULE SessionMetrics ---------------------------
(***************************************************************************)
(* MetricsMiddleware (go/vumitools/middleware.py): what it publishes for   *)
(* the messages that pass a worker's connectors, and the start times of    *)
(* sessions it keeps in Redis to publish how long they were.               *)
(*                                                                         *)
(* Time is discrete.  The commands to Redis keep the order of the messages *)
(* that cause them.  Each service is an address, with a tag of its own, of *)
(* one pool; each user has a provider.                                     *)
(***************************************************************************)
EXTENDS Naturals

CONSTANTS
  Users, Services, Connectors,
  Configs,             \* op_mode, metric_connectors, provider_metrics, tagpools,
                       \* session_billing_unit
  MaxSessionTimes,     \* values of max_session_time
  MaxNow,              \* bound on the time
  Nothing

SessionState == [since : Nat, overtaken : BOOLEAN]
ClosedState == [since : Nat, overtaken : BOOLEAN, at : Nat]

SessionMetricsConstants ==
  /\ Nothing \notin Nat /\ Nothing \notin SessionState /\ Nothing \notin ClosedState
  /\ MaxSessionTimes \subseteq Nat \ {0} /\ MaxNow \in Nat
  /\ \A c \in Configs : /\ c.metric_connectors \in {Nothing} \union SUBSET Connectors
                         /\ c.session_billing_unit \in {Nothing} \union (Nat \ {0})

VARIABLES
  config, max_session_time,
  now,
  timestamps,          \* in Redis, per name and address
  watched,             \* history: a connector, a user and a service
  session,             \* history: the session that user has there, as the user knows it
  fired,               \* what was published for the last message
  last                 \* history: the session of watched that message closed

settings == <<config, max_session_time, watched>>
vars == <<settings, now, timestamps, session, fired, last>>

-----------------------------------------------------------------------------
IsMetricConnector(c) == config.metric_connectors = Nothing \/ c \in config.metric_connectors

GetName(c) == IF config.op_mode = "active" THEN "transport" ELSE c
Names == Connectors \union {"transport"}

Provider(u) == u

\* The prefixes metrics of a message are published under; its tag is the service's.
TagpoolPrefixes(name, s) ==
  LET pool == config.tagpools
  IN IF pool = Nothing THEN {}
     ELSE {<<name, "tagpool">> : x \in {TRUE} \intersect {pool.track_pool}} \union
          {<<name, "tag", s>> : x \in {TRUE} \intersect {pool.track_all_tags \/ s \in pool.tags}}

Prefixes(name, u, s) ==
  {<<name>>} \union TagpoolPrefixes(name, s) \union
  (IF config.provider_metrics THEN {<<name, "provider", Provider(u)>>} ELSE {})

Metric(kind, value) == [kind |-> kind, value |-> value]

\* fire_session_dt: no time, or none at all, is not published; another metric has it rounded up.
RoundedUp(dt, unit) == ((dt + unit - 1) \div unit) * unit
SessionTime(session_dt) ==
  IF session_dt \in {Nothing, 0} THEN {}
  ELSE {Metric("session_time", session_dt)} \union
       (IF config.session_billing_unit = Nothing THEN {}
        ELSE {Metric("rounded", RoundedUp(session_dt, config.session_billing_unit))})

\* fire_response_time
ResponseTime(name, reply_dt) ==
  IF reply_dt \in {Nothing, 0} THEN {}
  ELSE {[prefix |-> <<name>>, metric |-> Metric("response_time", reply_dt)]}

\* fire_inbound_metrics, fire_outbound_metrics
Metrics(direction, event, session_dt) ==
  {Metric(direction, 1)} \union
  (IF event = "new" THEN {Metric("sessions_started", 1)} ELSE {}) \union SessionTime(session_dt)

-----------------------------------------------------------------------------
(* The address a start is kept under: the service's, whichever direction   *)
(* the message has.                                                        *)
SessionAddr(direction, u, s) == s

GetSessionDt(name, addr) ==
  IF timestamps[name][addr] = Nothing THEN Nothing ELSE now - timestamps[name][addr]

\* A message carries the times it came in at a middleware, one for each name.
GetReplyDt(inbound_timestamp) ==
  IF inbound_timestamp = Nothing THEN Nothing ELSE now - inbound_timestamp

\* setex, for a message that starts a session
SetSessionStart(name, event, addr) ==
  timestamps' = IF event = "new" THEN [timestamps EXCEPT ![name][addr] = now] ELSE timestamps

\* Another session that starts at the service meanwhile overtakes the user's.
Session(c, u, s, event) ==
  /\ session' = IF <<c, u, s>> = watched
                THEN CASE event = "new"   -> [since |-> now, overtaken |-> FALSE]
                       [] event = "close" -> Nothing
                       [] OTHER           -> session
                ELSE IF session # Nothing /\ event = "new" /\ s = watched[3]
                THEN [session EXCEPT !.overtaken = TRUE]
                ELSE session
  /\ last' = IF <<c, u, s>> = watched /\ event = "close" /\ session # Nothing
             THEN [since |-> session.since, overtaken |-> session.overtaken, at |-> now]
             ELSE Nothing

(* handle_inbound and handle_outbound, of a connector with metrics or      *)
(* without.  A reply carries the time its message came in.                 *)
HandleMessage(direction, c, u, s, event, inbound_timestamp) ==
  LET name == GetName(c)
      addr == SessionAddr(direction, u, s)
      session_dt == IF event = "close" THEN GetSessionDt(name, addr) ELSE Nothing
      reply_dt == IF direction = "inbound" THEN Nothing ELSE GetReplyDt(inbound_timestamp)
  IN /\ Session(c, u, s, event)
     /\ IF IsMetricConnector(c)
        THEN /\ SetSessionStart(name, event, addr)
             /\ fired' = ResponseTime(name, reply_dt) \union
                  [prefix : Prefixes(name, u, s), metric : Metrics(direction, event, session_dt)]
        ELSE fired' = {} /\ UNCHANGED timestamps
     /\ UNCHANGED <<settings, now>>

\* handle_event, handle_failure
HandleOther(c, kind) ==
  /\ fired' = IF IsMetricConnector(c) THEN {[prefix |-> <<c>>, metric |-> Metric(kind, 1)]} ELSE {}
  /\ last' = Nothing
  /\ UNCHANGED <<settings, now, timestamps, session>>

\* Redis forgets a start after max_session_time.
Tick ==
  /\ now < MaxNow /\ now' = now + 1
  /\ timestamps' = [name \in Names |-> [addr \in Users \union Services |->
       LET t == timestamps[name][addr]
       IN IF t = Nothing THEN Nothing ELSE IF t + max_session_time <= now' THEN Nothing ELSE t]]
  /\ fired' = {} /\ last' = Nothing
  /\ UNCHANGED <<settings, session>>

Init ==
  /\ config \in Configs /\ max_session_time \in MaxSessionTimes
  /\ now = 0
  /\ timestamps = [name \in Names |-> [addr \in Users \union Services |-> Nothing]]
  /\ watched \in Connectors \X Users \X Services
  /\ session = Nothing /\ fired = {} /\ last = Nothing

Next ==
  \/ \E direction \in {"inbound", "outbound"}, c \in Connectors, u \in Users, s \in Services,
        event \in {"new", "resume", "close"}, inbound_timestamp \in {Nothing} \union 0..now :
       HandleMessage(direction, c, u, s, event, inbound_timestamp)
  \/ \E c \in Connectors, kind \in {"event", "failure"} : HandleOther(c, kind)
  \/ Tick

Spec == Init /\ [][Next]_vars
-----------------------------------------------------------------------------
Durations == {f \in fired : f.metric.kind = "session_time"}
Counted == {f.prefix : f \in {f \in fired : f.metric.kind \in {"inbound", "outbound"}}}
Length == last.at - last.since

(* No duration is as long as max_session_time, and one to be billed is     *)
(* less than a unit longer.  A session no other session at its service has *)
(* overtaken is published, whoever started it and whoever ends it, with    *)
(* its own length under every prefix its messages are counted under,       *)
(* unless it was too long or took no time.                                 *)
SessionTimes ==
  /\ \A f \in Durations : f.metric.value < max_session_time
  /\ config.session_billing_unit # Nothing => \A f \in Durations :
       \E g \in fired : /\ g.prefix = f.prefix /\ g.metric.kind = "rounded"
                        /\ g.metric.value % config.session_billing_unit = 0
                        /\ g.metric.value - f.metric.value \in 0..(config.session_billing_unit - 1)
  /\ last # Nothing /\ fired # {} /\ ~last.overtaken /\ Length \in 1..(max_session_time - 1) =>
       Durations = [prefix : Counted, metric : {Metric("session_time", Length)}]
=============================================================================
