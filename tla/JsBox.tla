-------------------------------- MODULE JsBox --------------------------------
(***************************************************************************)
(* JsBoxApplication and the resources it gives to the JavaScript of a      *)
(* conversation: messages, events and push triggers each run it in a       *)
(* sandbox of their own, several at a time, and it answers with commands.  *)
(*                                                                         *)
(* The JavaScript gives whatever commands it likes (external).  A tag is   *)
(* an endpoint like any other.  Log entries are numbers, in their order.   *)
(***************************************************************************)
EXTENDS Naturals, Sequences, FiniteSets

CONSTANTS
  Sandboxes,          \* sandboxes that can run at once
  Users,              \* addresses of users
  Endpoints,
  Settings,           \* what people save: javascript, config, its process_events and endpoints
  Own,                \* the conversation
  InAccount, Foreign, \* conversations of its account, and of others
  MetadataKeys, allowed_helper_metadata,
  Contacts,           \* addresses of the contacts, in their order
  max_logs_per_conversation,
  MaxRuns, MaxCommands, MaxSaves, MaxDeaths,   \* bounds
  Nothing

JsBoxConstants ==
  /\ \A s \in Settings : s.config \in {"good", "bad"} /\ s.endpoints \subseteq Endpoints
  /\ allowed_helper_metadata \subseteq MetadataKeys /\ Contacts \in Seq(Users)
  /\ max_logs_per_conversation \in Nat \ {0}
  /\ Own \in InAccount /\ InAccount \intersect Foreign = {} /\ Nothing \notin InAccount \union Foreign
  /\ IsFiniteSet(Sandboxes) /\ Nothing \notin Sandboxes

VARIABLES
  conversation,       \* its settings, as saved
  api,                \* of each sandbox: the conversation loaded, and the inbound message
  push,               \* process_command_send_jsbox: the next contact and the sandbox awaited
  logs,               \* the list in Redis, newest first
  trimming,           \* sandboxes between the lpush and the ltrim of a log
  answer,             \* the last answer of the message store, per sandbox
  sent,               \* history: what was sent
  triggered,          \* history: how many triggers each contact had
  logged,             \* history: how many entries were logged
  runs, commands, saves, deaths

bounds == <<saves, deaths>>
vars == <<conversation, api, push, logs, trimming, answer, sent, triggered, logged, runs, commands, bounds>>

-----------------------------------------------------------------------------
ConfiguredEndpoints(config) == IF config.config = "bad" THEN {} ELSE config.endpoints

Saved(settings) == [config |-> settings, extra_endpoints |-> ConfiguredEndpoints(settings)]

SaveConversation(settings) ==
  /\ saves < MaxSaves /\ saves' = saves + 1
  /\ conversation' = Saved(settings)
  /\ UNCHANGED <<api, push, logs, trimming, answer, sent, triggered, logged, runs, commands, deaths>>

-----------------------------------------------------------------------------
(* A sandbox runs with the conversation as it is loaded for the message    *)
(* (ModelObjectCache says how old that may be).                            *)
JsConfig == conversation.config.config
Idle(r) == api[r] = Nothing
Run(r, inbound) ==
  /\ Idle(r) /\ runs < MaxRuns /\ runs' = runs + 1
  /\ api' = [api EXCEPT ![r] = [conversation |-> conversation, inbound |-> inbound]]
  /\ answer' = [answer EXCEPT ![r] = Nothing]

\* infer_delivery_class puts the delivery class in the metadata.
ProcessMessageInSandbox(r, from, trigger) ==
  Run(r, [id |-> runs, from |-> from, trigger |-> trigger, meta |-> {"delivery_class"}])

ReceiveMessage(r, u) ==
  /\ conversation.config.javascript
  /\ ProcessMessageInSandbox(r, u, FALSE)
  /\ UNCHANGED <<conversation, push, logs, trimming, sent, triggered, logged, commands, bounds>>

\* An event reaches the JavaScript if it asks for events, else it is logged.
ReceiveEvent(r) ==
  /\ JsConfig # "bad" /\ Idle(r)
  /\ IF conversation.config.process_events
     THEN Run(r, Nothing) /\ UNCHANGED <<logs, trimming, logged>>
     ELSE /\ runs < MaxRuns /\ runs' = runs + 1
          /\ r \notin trimming /\ trimming' = trimming \union {r}
          /\ logged' = logged + 1 /\ logs' = <<logged + 1>> \o logs
          /\ UNCHANGED <<api, answer>>
  /\ UNCHANGED <<conversation, push, sent, triggered, commands, bounds>>

Finish(r) ==
  /\ ~Idle(r) /\ r \notin trimming
  /\ api' = [api EXCEPT ![r] = Nothing]
  /\ push' = IF push # Nothing /\ push.waits_for = r THEN [at |-> push.at, waits_for |-> Nothing] ELSE push
  /\ UNCHANGED <<conversation, logs, trimming, answer, sent, triggered, logged, runs, commands, bounds>>

-----------------------------------------------------------------------------
(* The push command: a trigger for each contact, one after the other.  The *)
(* command is delivered again if the worker dies.                          *)
SendJsbox ==
  /\ push.at = 0
  /\ push' = [at |-> IF JsConfig = "bad" THEN Len(Contacts) + 1 ELSE 1, waits_for |-> push.waits_for]
  /\ UNCHANGED <<conversation, api, logs, trimming, answer, sent, triggered, logged, runs, commands, bounds>>

SendInboundPushTrigger(r) ==
  /\ push.at \in 1..Len(Contacts) /\ push.waits_for = Nothing
  /\ triggered' = [triggered EXCEPT ![push.at] = @ + 1]
  /\ IF conversation.config.javascript
     THEN /\ ProcessMessageInSandbox(r, Contacts[push.at], TRUE)
          /\ push' = [at |-> push.at + 1, waits_for |-> r]
     ELSE push' = [at |-> push.at + 1, waits_for |-> Nothing] /\ UNCHANGED <<api, answer, runs>>
  /\ UNCHANGED <<conversation, logs, trimming, sent, logged, commands, bounds>>

WorkerDies ==
  /\ deaths < MaxDeaths /\ deaths' = deaths + 1
  /\ api' = [r \in Sandboxes |-> Nothing] /\ trimming' = {}
  /\ push' = IF push.at > Len(Contacts) /\ push.waits_for = Nothing THEN push
             ELSE [at |-> 0, waits_for |-> Nothing]
  /\ UNCHANGED <<conversation, logs, answer, sent, triggered, logged, runs, commands, saves>>

-----------------------------------------------------------------------------
(* Commands of the JavaScript: what they check, then what they do.         *)
Command(r) == ~Idle(r) /\ commands < MaxCommands /\ commands' = commands + 1

WithMeta(a, meta) == [conversation |-> a.conversation, inbound |-> [a.inbound EXCEPT !.meta = meta]]

LegalMetadata(meta) == meta \subseteq allowed_helper_metadata

Sent(r, to_addr, in_reply_to, new, endpoint, meta) ==
  sent' = sent \union {[inbound |-> api[r].inbound, endpoints |-> api[r].conversation.extra_endpoints,
                        to_addr |-> to_addr, in_reply_to |-> in_reply_to, new |-> new,
                        endpoint |-> endpoint, meta |-> meta]}

(* reply_to and reply_to_group.  A reply to a push trigger is an ordinary  *)
(* send.  The metadata of the reply is added to that of the message.       *)
(* (Fault for the mutation runs: no message is a trigger.)                 *)
NoTrigger(msg) == FALSE
IsInboundPushTrigger(msg) == msg.trigger

HandleReply(r, in_reply_to, meta) ==
  LET msg == api[r].inbound
      both == msg.meta \union {"go"} \union meta
  IN /\ Command(r) /\ LegalMetadata(meta)
     /\ msg # Nothing /\ msg.id = in_reply_to
     /\ api' = [api EXCEPT ![r] = WithMeta(@, both)]
     /\ IF IsInboundPushTrigger(msg)
        THEN Sent(r, msg.from, Nothing, TRUE, "default", both)
        ELSE Sent(r, msg.from, msg.id, FALSE, "default", both)
     /\ UNCHANGED <<conversation, push, logs, trimming, answer, triggered, logged, runs, bounds>>

\* send_to_tag takes no metadata.
SendToEndpoint(r, to_addr, endpoint, meta) ==
  /\ Command(r) /\ LegalMetadata(meta)
  /\ endpoint \in api[r].conversation.extra_endpoints
  /\ Sent(r, to_addr, Nothing, FALSE, endpoint, meta \union {"go"})
  /\ UNCHANGED <<conversation, api, push, logs, trimming, answer, triggered, logged, runs, bounds>>

\* conversation_owner: the message store answers for conversations of the account.
ConversationOwner(key) == IF key = Nothing THEN Own ELSE IF key \in InAccount THEN key ELSE Nothing

QueryMessageStore(r, key) ==
  /\ Command(r)
  /\ answer' = [answer EXCEPT ![r] = [success |-> ConversationOwner(key) # Nothing,
                                      of |-> ConversationOwner(key)]]
  /\ UNCHANGED <<conversation, api, push, logs, trimming, sent, triggered, logged, runs, bounds>>

(* add_log: an lpush, then an ltrim.                                       *)
LPush(r) ==
  /\ Command(r) /\ r \notin trimming /\ trimming' = trimming \union {r}
  /\ logged' = logged + 1 /\ logs' = <<logged + 1>> \o logs
  /\ UNCHANGED <<conversation, api, push, answer, sent, triggered, runs, bounds>>

LTrim(r) ==
  /\ r \in trimming /\ trimming' = trimming \ {r}
  /\ logs' = SubSeq(logs, 1, IF Len(logs) < max_logs_per_conversation THEN Len(logs)
                           ELSE max_logs_per_conversation)
  /\ UNCHANGED <<conversation, api, push, answer, sent, triggered, logged, runs, commands, bounds>>

\* A command a resource refuses changes nothing: it is answered with the reason.
Init ==
  /\ conversation \in {Saved(settings) : settings \in Settings}
  /\ api = [r \in Sandboxes |-> Nothing] /\ answer = [r \in Sandboxes |-> Nothing]
  /\ push = [at |-> 0, waits_for |-> Nothing]
  /\ logs = <<>> /\ trimming = {} /\ sent = {} /\ logged = 0
  /\ triggered = [k \in 1..Len(Contacts) |-> 0]
  /\ runs = 0 /\ commands = 0 /\ saves = 0 /\ deaths = 0

Next ==
  \/ \E settings \in Settings : SaveConversation(settings)
  \/ \E r \in Sandboxes :
       \/ \E u \in Users : ReceiveMessage(r, u)
       \/ ReceiveEvent(r) \/ Finish(r) \/ SendInboundPushTrigger(r)
       \/ \E in_reply_to \in 0..MaxRuns, meta \in SUBSET MetadataKeys : HandleReply(r, in_reply_to, meta)
       \/ \E to_addr \in Users, endpoint \in Endpoints, meta \in SUBSET MetadataKeys :
            SendToEndpoint(r, to_addr, endpoint, meta)
       \/ \E key \in {Nothing} \union InAccount \union Foreign : QueryMessageStore(r, key)
       \/ LPush(r) \/ LTrim(r)
  \/ SendJsbox \/ WorkerDies

Spec == Init /\ [][Next]_vars
-----------------------------------------------------------------------------
(* No message that leaves is in reply to a push trigger: whatever the      *)
(* JavaScript answers to one opens a session with the contact.  A contact  *)
(* has one trigger for each time the command ran, whichever sandboxes run  *)
(* meanwhile, and none is passed over.                                     *)
PushesOpenSessions ==
  /\ \A m \in sent : m.in_reply_to # Nothing => m.inbound.id = m.in_reply_to /\ ~m.inbound.trigger
  /\ \A m \in sent : m.new => \E k \in 1..Len(Contacts) : Contacts[k] = m.to_addr /\ triggered[k] > 0
  /\ \A k \in 1..Len(Contacts) :
       /\ triggered[k] <= 1 + deaths
       /\ k < push.at /\ saves = 0 /\ JsConfig # "bad" => triggered[k] > 0

(* What a sandbox sends leaves by an endpoint its conversation had when it *)
(* started, and the message store answers it about its account only.       *)
SandboxesAreConfined ==
  /\ \A m \in sent : m.endpoint \in {"default"} \union m.endpoints
  /\ \A r \in Sandboxes : answer[r] # Nothing => answer[r].of \in {Nothing} \union InAccount

(* The log kept is the latest part of what was logged, whole, and no       *)
(* longer than it may be but for entries whose trimming is to come or was  *)
(* cut off by a death.                                                     *)
LatestLogsKept ==
  /\ \A i \in 1..Len(logs) : logs[i] = logged - i + 1
  /\ Len(logs) = logged \/ Len(logs) >= max_logs_per_conversation
  /\ Len(logs) <= max_logs_per_conversation + Cardinality(trimming) + deaths * Cardinality(Sandboxes)
=============================================================================
