---------------------------- MODULE HttpStreams ----------------------------
(***************************************************************************)
(* What the worker of the HTTP API does with a message for a conversation: *)
(* it pushes it to a URL and has a failure retried, or streams it to one   *)
(* of the clients that are connected, or keeps it in a backlog in Redis    *)
(* for the next client.  Messages and events have a stream each and are    *)
(* treated alike: one stream is modelled.                                  *)
(*                                                                         *)
(* Commands to Redis are served in the order a worker gives them, so each  *)
(* is served here when it is given and answered later.  From Twisted:      *)
(* what is written to a connection that is lost is lost.                   *)
(***************************************************************************)
EXTENDS Naturals, Sequences, FiniteSets

CONSTANTS
  Messages, Clients,
  MAX_BACKLOG_SIZE,
  MaxDeaths,           \* bound on the deaths of the worker
  Nothing

HttpStreamsConstants ==
  /\ MAX_BACKLOG_SIZE \in Nat \ {0} /\ MaxDeaths \in Nat
  /\ {Nothing, "nil"} \intersect Messages = {}

VARIABLES
  push_url,            \* is it configured, and is the retry API
  http_retry_api,
  message,             \* where each message is
  backlog,             \* clients:backlog:<key> in Redis, newest first
  clients,             \* callbacks the worker knows
  client,              \* the connections
  popped,              \* what flush_backlog waits for: the message, or none
  deaths

settings == <<push_url, http_retry_api>>
vars == <<settings, message, backlog, clients, client, popped, deaths>>

\* StreamResourceMixin.publish
Write(m, c) ==
  message' = [message EXCEPT ![m] = IF client[c] = "connected" THEN "written" ELSE "lost"]

-----------------------------------------------------------------------------
\* consume_user_message, consume_unknown_event: no conversation, or told to ignore it
Ignore(m) ==
  /\ message[m] = "queued" /\ message' = [message EXCEPT ![m] = "ignored"]
  /\ UNCHANGED <<settings, backlog, clients, client, popped, deaths>>

\* push: what is worth a retry is an answer of 5xx or none at all
Push(m) ==
  /\ message[m] = "queued" /\ push_url
  /\ \E outcome \in {"pushed", "refused", "retry"} :
       message' = [message EXCEPT ![m] = outcome]
  /\ UNCHANGED <<settings, backlog, clients, client, popped, deaths>>

\* schedule_push_retry; what it raises ends the message as well.
SchedulePushRetry(m) ==
  /\ message[m] = "retry"
  /\ \E outcome \in IF http_retry_api THEN {"scheduled", "rate limited", "raised"}
                    ELSE {"not retried"} :
       message' = [message EXCEPT ![m] = outcome]
  /\ UNCHANGED <<settings, backlog, clients, client, popped, deaths>>

\* StreamingClientManager.publish, to a client
Publish(m) ==
  /\ message[m] = "queued" /\ ~push_url
  /\ \E c \in clients : Write(m, c)
  /\ UNCHANGED <<settings, backlog, clients, client, popped, deaths>>

\* queue_in_backlog
QueueInBacklog(m) ==
  /\ message[m] = "queued" /\ ~push_url /\ clients = {}
  /\ backlog' = <<m>> \o backlog
  /\ message' = [message EXCEPT ![m] = "trim"]
  /\ UNCHANGED <<settings, clients, client, popped, deaths>>

Trim(m) ==
  /\ message[m] = "trim"
  /\ backlog' = IF Len(backlog) <= MAX_BACKLOG_SIZE THEN backlog
                ELSE SubSeq(backlog, 1, MAX_BACKLOG_SIZE)
  /\ message' = [message EXCEPT ![m] = "kept"]
  /\ UNCHANGED <<settings, clients, client, popped, deaths>>

-----------------------------------------------------------------------------
Pop(c) ==
  IF backlog = <<>> THEN popped' = [popped EXCEPT ![c] = "nil"] /\ UNCHANGED backlog
  ELSE /\ popped' = [popped EXCEPT ![c] = backlog[Len(backlog)]]
       /\ backlog' = SubSeq(backlog, 1, Len(backlog) - 1)

\* render_GET and register_client: the client is started, and the backlog flushed.
RegisterClient(c) ==
  /\ client[c] = "away"
  /\ client' = [client EXCEPT ![c] = "connected"]
  /\ clients' = clients \union {c}
  /\ Pop(c)
  /\ UNCHANGED <<settings, message, deaths>>

(* flush_backlog: until nothing is left, for a client that has left, too.  *)
Again(c) == Pop(c)

FlushBacklog(c) ==
  /\ popped[c] \in Messages
  /\ Write(popped[c], c) /\ Again(c)
  /\ UNCHANGED <<settings, clients, client, deaths>>

Flushed(c) ==
  /\ popped[c] = "nil" /\ popped' = [popped EXCEPT ![c] = Nothing]
  /\ UNCHANGED <<settings, message, backlog, clients, client, deaths>>

\* The connection is lost, which the worker does not know yet.
Leave(c) ==
  /\ client[c] = "connected" /\ client' = [client EXCEPT ![c] = "gone"]
  /\ UNCHANGED <<settings, message, backlog, clients, popped, deaths>>

(* teardown_stream: trap raises unless the connection was closed cleanly,  *)
(* and then the client is not unregistered.                                *)
TeardownStream(c) ==
  /\ client[c] = "gone"
  /\ client' = [client EXCEPT ![c] = "left"]
  /\ clients' \in {clients, clients \ {c}}
  /\ UNCHANGED <<settings, message, backlog, popped, deaths>>

\* What it was handling was not acknowledged and is delivered again.
WorkerDies ==
  /\ deaths < MaxDeaths /\ deaths' = deaths + 1
  /\ clients' = {} /\ popped' = [c \in Clients |-> Nothing]
  /\ client' = [c \in Clients |-> IF client[c] = "away" THEN "away" ELSE "left"]
  /\ message' = [m \in Messages |->
       IF message[m] \in {"trim", "retry"} THEN "queued" ELSE message[m]]
  /\ UNCHANGED <<settings, backlog>>

-----------------------------------------------------------------------------
Init ==
  /\ push_url \in BOOLEAN /\ http_retry_api \in BOOLEAN
  /\ message = [m \in Messages |-> "queued"]
  /\ backlog = <<>> /\ clients = {} /\ deaths = 0
  /\ client = [c \in Clients |-> "away"] /\ popped = [c \in Clients |-> Nothing]

Next ==
  \/ \E m \in Messages : \/ Ignore(m) \/ Push(m) \/ SchedulePushRetry(m)
                         \/ Publish(m) \/ QueueInBacklog(m) \/ Trim(m)
  \/ \E c \in Clients : \/ RegisterClient(c) \/ FlushBacklog(c) \/ Flushed(c)
                        \/ Leave(c) \/ TeardownStream(c)
  \/ WorkerDies

Spec == Init /\ [][Next]_vars
-----------------------------------------------------------------------------
(* A client that is connected and whose backlog was flushed has nothing    *)
(* waiting behind it: no message of before is left, and none that came     *)
(* while it connected went to the backlog after the last look at it, be it *)
(* full, trimmed, or delivered again.                                      *)
BacklogReachesClients ==
  (\E c \in Clients : client[c] = "connected" /\ popped[c] = Nothing) => backlog = <<>>
=============================================================================
