--------------------------- MODULE Conversations ---------------------------
(***************************************************************************)
(* The life of a conversation, or of a router: the requests of the web     *)
(* interface, which load the record, change it and save it whole; the      *)
(* actions a person confirms by following a link with a token; the         *)
(* commands they send, by way of the command dispatcher, to the worker of  *)
(* the application; and the worker, which starts and stops the             *)
(* conversation and handles its messages by a copy it caches.  Two command *)
(* line tools are processes like the requests, and change conversations    *)
(* the same way.                                                           *)
(*                                                                         *)
(* What commands do beyond that is in BulkSend, the tasks an action is     *)
(* scheduled as in Scheduler, the routing table in AccountStore.           *)
(***************************************************************************)
EXTENDS Naturals, Sequences, FiniteSets, Functions

CONSTANTS
  Requests,        \* processes that serve the web interface
  UserTokens,      \* the first digits of a token, which its link shows
  Offers,          \* sets of what the web interface is asked for
  Kinds,           \* subset of {"conversation", "router"}
  TTLs,            \* values of conversation_cache_ttl
  MaxRequests,     \* bound on the requests served
  MaxCommands,     \* bound on the commands in a queue
  MaxTokens,       \* bound on the tokens generated
  MaxCrashes,      \* bound on the deaths of processes
  Nothing

ConversationsConstants ==
  /\ Kinds \subseteq {"conversation", "router"} /\ TTLs \subseteq Nat
  /\ {MaxRequests, MaxCommands, MaxTokens, MaxCrashes} \subseteq Nat
  /\ Nothing \notin [id : 1..MaxTokens, expires : BOOLEAN] \union [token : UserTokens, id : 1..MaxTokens]

VARIABLES
  kind, ttl,
  offered,         \* what is asked of the web interface in this behaviour
  conv,            \* the stored record
  job,             \* the requests in progress
  served,          \* how many were begun
  tokens,          \* the token manager's hashes in Redis
  generated,       \* history: the number of tokens generated
  links,           \* the links that were sent
  queue, control,  \* commands, for the dispatcher and for the worker
  cache,           \* the worker's copy and its age
  work,            \* what the worker does, about a command and a message
  rest,            \* history: time since it was running, or was being started
  handled,         \* history: rest when a message was last handled
  performed,       \* history: per token, whose links led to its action
  crashes

web == <<job, served, tokens, generated, performed>>
queues == <<queue, control>>
worker == <<cache, work, handled, links>>
vars == <<kind, ttl, offered, conv, rest, web, queues, worker, crashes>>

Slots == {"command", "message"}

-----------------------------------------------------------------------------
(* The record, and what requests make of the copy they loaded. *)
New == [status |-> "stopped", archived |-> FALSE, form |-> "old", groups |-> FALSE]

SetStatus(c, status) == [c EXCEPT !.status = status]
SetFinished(c) == [c EXCEPT !.archived = TRUE]
EditDetail(c) == [c EXCEPT !.form = "new"]
UpdateConfig(c) == [c EXCEPT !.form = "new"]
SetGroups(c, g) == [c EXCEPT !.groups = g]

ConversationWork == {"start", "stop", "archive", "edit_detail", "edit", "edit_groups", "action", "reply"}
RouterWork == {"start", "stop", "archive", "edit"}
AllWork == IF kind = "router" THEN RouterWork ELSE ConversationWork

\* What the pages that edit make of the record they loaded.
Edits == {"edit_detail", "edit", "edit_groups"}
Edited(what, c) ==
  CASE what = "edit_detail" -> {EditDetail(c)}
    [] what = "edit"        -> {UpdateConfig(c)}
    [] what = "edit_groups" -> {SetGroups(c, g) : g \in BOOLEAN}

\* needs_group, needs_running
IsDisabled(c) == ~c.groups \/ c.status # "running"

Stored(c) ==
  /\ conv' = c
  /\ rest' = IF c.status = "running" THEN 0 ELSE rest

Goes(p, at) == job' = [job EXCEPT ![p].at = at]
Ends(p) == job' = [job EXCEPT ![p] = Nothing]

Command(name, link) == [name |-> name, link |-> link]
Link(u, n) == [token |-> u, id |-> n]
Sends(command) == Len(queue) < MaxCommands /\ queue' = Append(queue, command)

Request(what, u, n, link) ==
  [what |-> what, at |-> "load", conv |-> Nothing, token |-> u, id |-> n, link |-> link]

Begin(p, what) ==
  /\ job[p] = Nothing /\ served < MaxRequests /\ what \in offered
  /\ job' = [job EXCEPT ![p] = Request(what, Nothing, 0, Nothing)]
  /\ served' = served + 1
  /\ UNCHANGED <<kind, ttl, offered, conv, rest, tokens, generated, performed, queues, worker, crashes>>

\* Each request loads the record again; the views of a router's state by VumiRouterApi.
Load(p) ==
  LET what == job[p].what IN
  /\ job[p] # Nothing /\ job[p].at = "load"
  /\ job' = [job EXCEPT ![p] = [@ EXCEPT !.conv = conv,
                                         !.at = CASE what = "action" -> "post"
                                                  [] what = "confirm" -> "verify"
                                                  [] what = "reply" -> "send"
                                                  [] OTHER -> "save"]]
  /\ UNCHANGED <<kind, ttl, offered, conv, rest, served, tokens, generated, performed, queues, worker, crashes>>

\* The copy that was loaded is changed and saved whole, whatever is stored by now.
Saves(p, whats) ==
  /\ job[p] # Nothing /\ job[p].at = "save" /\ job[p].what \in whats
  /\ UNCHANGED <<kind, ttl, offered, served, tokens, generated, performed, queues, worker, crashes>>

StartConversation(p) ==
  Saves(p, {"start"}) /\ Stored(SetStatus(job[p].conv, "starting")) /\ Goes(p, "send")
StopConversation(p) ==
  Saves(p, {"stop"}) /\ Stored(SetStatus(job[p].conv, "stopping")) /\ Goes(p, "send")
ArchiveConversation(p) == Saves(p, {"archive"}) /\ Stored(SetFinished(job[p].conv)) /\ Ends(p)
SaveEdits(p) ==
  /\ Saves(p, Edits) /\ Ends(p)
  /\ \E c \in Edited(job[p].what, job[p].conv) : Stored(c)

Sending(p) ==
  /\ job[p] # Nothing /\ job[p].at = "send" /\ Ends(p)
  /\ UNCHANGED <<kind, ttl, offered, conv, rest, served, tokens, generated, performed, control, worker, crashes>>

DispatchCommand(p) ==
  Sending(p) /\ job[p].what \in {"start", "stop"} /\ Sends(Command(job[p].what, Nothing))
SendOneOffReply(p) ==
  Sending(p) /\ job[p].what = "reply" /\ Sends(Command("send_message", Nothing))

-----------------------------------------------------------------------------
(* The tools load the conversation and go on like the pages: but the one   *)
(* that manages conversations looks at the status first and raises         *)
(* CommandError, and the one that manages HTTP APIs changes the "http_api" *)
(* of the configuration, unless what it is to remove is not there.         *)
CommandAllows(what, c) ==
  /\ ~c.archived
  /\ CASE what = "start"   -> c.status \notin {"running", "stopping"}
       [] what = "stop"    -> c.status # "stopped"
       [] what = "archive" -> c.status = "stopped"

Tool(p, what) ==
  /\ job[p] = Nothing /\ served < MaxRequests /\ what \in offered /\ kind = "conversation"
  /\ job' = [job EXCEPT ![p] = [Request(what, Nothing, 0, Nothing) EXCEPT !.conv = conv, !.at = "save"]]
  /\ served' = served + 1
  /\ UNCHANGED <<kind, ttl, offered, conv, rest, tokens, generated, performed, queues, worker, crashes>>

ManageConversation(p, what) == CommandAllows(what, conv) /\ Tool(p, what)
ManageHttpApi(p) == Tool(p, "edit")

\* go_start_conversation may start one that is still stopping.
StartByTool(p) == ~conv.archived /\ conv.status # "running" /\ Tool(p, "start")

-----------------------------------------------------------------------------
(* Actions, and the tokens that confirm them. *)
CheckActionIsEnabled(p) == ~IsDisabled(job[p].conv)

PostAction(p) ==
  /\ job[p] # Nothing /\ job[p].at = "post"
  /\ IF CheckActionIsEnabled(p) THEN Goes(p, "draw") \/ Goes(p, "perform") ELSE Ends(p)
  /\ UNCHANGED <<kind, ttl, offered, conv, rest, served, tokens, generated, performed, queues, worker, crashes>>

Sent == (links \union {c.link : c \in Range(queue) \union Range(control)}) \ {Nothing}

(* generate_token: digits no stored token has.  They are random: those of  *)
(* a link that was sent are not drawn again.                               *)
DrawToken(p) ==
  /\ job[p] # Nothing /\ job[p].at = "draw"
  /\ \E u \in UserTokens :
       /\ tokens[u] = Nothing
       /\ u \notin {l.token : l \in Sent}
       /\ job' = [job EXCEPT ![p] = [@ EXCEPT !.at = "hsetnx", !.token = u]]
  /\ UNCHANGED <<kind, ttl, offered, conv, rest, served, tokens, generated, performed, queues, worker, crashes>>

Exists(u) == tokens[u] # Nothing

SetSystemToken(p) ==
  LET u == job[p].token IN
  /\ job[p] # Nothing /\ job[p].at = "hsetnx"
  /\ IF Exists(u)
     THEN Goes(p, "draw") /\ UNCHANGED <<tokens, generated>>
     ELSE /\ generated < MaxTokens
          /\ generated' = generated + 1
          /\ tokens' = [tokens EXCEPT ![u] = [id |-> generated + 1, expires |-> FALSE]]
          /\ job' = [job EXCEPT ![p] = [@ EXCEPT !.at = "hmset", !.id = generated + 1]]
  /\ UNCHANGED <<kind, ttl, offered, conv, rest, served, performed, queues, worker, crashes>>

\* hmset of the action, and expire
SetExpiry(p) ==
  LET u == job[p].token IN
  /\ job[p] # Nothing /\ job[p].at = "hmset"
  /\ tokens' = [tokens EXCEPT ![u] = IF @ = Nothing THEN Nothing ELSE [@ EXCEPT !.expires = TRUE]]
  /\ Goes(p, "mail")
  /\ UNCHANGED <<kind, ttl, offered, conv, rest, served, generated, performed, queues, worker, crashes>>

\* Hours later: the request that generated it is over.
TokenExpires(u) ==
  /\ tokens[u] # Nothing /\ tokens[u].expires
  /\ \A p \in Requests : job[p] # Nothing => job[p].what = "confirm" \/ job[p].token # u
  /\ tokens' = [tokens EXCEPT ![u] = Nothing]
  /\ UNCHANGED <<kind, ttl, offered, conv, rest, job, served, generated, performed, queues, worker, crashes>>

\* send_token_url: a command, and the conversation saved as it was loaded.
SendTokenUrl(p) ==
  /\ job[p] # Nothing /\ job[p].at = "mail"
  /\ Sends(Command("send_message", Link(job[p].token, job[p].id))) /\ Goes(p, "resave")
  /\ UNCHANGED <<kind, ttl, offered, conv, rest, served, tokens, generated, performed, control, worker, crashes>>

Resave(p) ==
  /\ job[p] # Nothing /\ job[p].at = "resave"
  /\ Stored(job[p].conv) /\ Ends(p)
  /\ UNCHANGED <<kind, ttl, offered, served, tokens, generated, performed, queues, worker, crashes>>

\* The view token() adds the system token to the digits of the link.  The link was mailed
\* and is read: by now whoever drew the same digits has stored them, or found them taken.
FollowLink(p, link) ==
  LET u == link.token IN
  /\ job[p] = Nothing /\ served < MaxRequests /\ tokens[u] # Nothing
  /\ \A q \in Requests : job[q] # Nothing /\ job[q].at = "hsetnx" => job[q].token # u
  /\ job' = [job EXCEPT ![p] = [Request("confirm", u, tokens[u].id, link) EXCEPT !.at = "get"]]
  /\ served' = served + 1
  /\ UNCHANGED <<kind, ttl, offered, conv, rest, tokens, generated, performed, queues, worker, crashes>>

VerifyGet(p) == tokens[job[p].token] # Nothing /\ tokens[job[p].token].id = job[p].id

\* The page shows a form, or is not found; the form is posted some time later, or never.
GetConfirmation(p) ==
  /\ job[p] # Nothing /\ job[p].at = "get"
  /\ (VerifyGet(p) /\ Goes(p, "load")) \/ Ends(p)
  /\ UNCHANGED <<kind, ttl, offered, conv, rest, served, tokens, generated, performed, queues, worker, crashes>>

PostConfirmation(p) ==
  /\ job[p] # Nothing /\ job[p].at = "verify"
  /\ IF VerifyGet(p) THEN Goes(p, "delete") ELSE Ends(p)
  /\ UNCHANGED <<kind, ttl, offered, conv, rest, served, tokens, generated, performed, queues, worker, crashes>>

\* token_manager.delete says whether there was a token.
Deleted(u) == tokens[u] # Nothing

DeleteToken(p) ==
  LET u == job[p].token IN
  /\ job[p] # Nothing /\ job[p].at = "delete"
  /\ tokens' = [tokens EXCEPT ![u] = Nothing]
  /\ IF Deleted(u) THEN Goes(p, "perform") ELSE Ends(p)
  /\ UNCHANGED <<kind, ttl, offered, conv, rest, served, generated, performed, queues, worker, crashes>>

\* perform_action, if it is still enabled: a command now, or a task for later.
PerformAction(p) ==
  LET n == job[p].id IN
  /\ job[p] # Nothing /\ job[p].at = "perform"
  /\ IF ~CheckActionIsEnabled(p) THEN UNCHANGED <<queue, performed>>
     ELSE /\ Sends(Command("bulk_send", Nothing)) \/ UNCHANGED queue
          /\ performed' = IF n = 0 THEN performed
                          ELSE [performed EXCEPT ![n] = Append(@, job[p].link.id)]
  /\ Ends(p)
  /\ UNCHANGED <<kind, ttl, offered, conv, rest, served, tokens, generated, control, worker, crashes>>

RequestDies(p) ==
  /\ job[p] # Nothing /\ crashes < MaxCrashes
  /\ crashes' = crashes + 1 /\ Ends(p)
  /\ UNCHANGED <<kind, ttl, offered, conv, rest, served, tokens, generated, performed, queues, worker>>

-----------------------------------------------------------------------------
(* The command dispatcher forwards commands; one it did not acknowledge    *)
(* before it died is forwarded again.                                      *)
Dispatch ==
  /\ queue # <<>> /\ Len(control) < MaxCommands
  /\ control' = Append(control, Head(queue))
  /\ \/ queue' = Tail(queue) /\ UNCHANGED crashes
     \/ crashes < MaxCrashes /\ crashes' = crashes + 1 /\ UNCHANGED queue
  /\ UNCHANGED <<kind, ttl, offered, conv, rest, web, worker>>

-----------------------------------------------------------------------------
(* The worker: one command at a time, acknowledged when it is done, and    *)
(* messages meanwhile.                                                     *)
\* What is being handled: a command, once it is received, or a message at any time.
Busy(s) == work[s] # Nothing
Received(s) == ~Busy(s) /\ (s = "command" => control # <<>>)
Name(s) == IF s = "command" THEN Head(control).name ELSE "message"

Acknowledge == control' = Tail(control) /\ work' = [work EXCEPT !["command"] = Nothing]

\* The object of the cache is the one that is changed.  (Fault for the mutation runs:
\* a copy that is used is kept for longer.)
KeptOn(c, age) == IF ttl = 0 THEN Nothing ELSE [conv |-> c, age |-> 0]
Mutated(c, age) == IF ttl = 0 THEN Nothing ELSE [conv |-> c, age |-> age]

\* process_command_start, process_command_stop, of a conversation or of a router
ChangeStatus(c, age, from, to) ==
  /\ IF c.status # from
     THEN Acknowledge /\ cache' = Mutated(c, age) /\ UNCHANGED rest
     ELSE /\ cache' = Mutated(SetStatus(c, to), age)
          /\ work' = [work EXCEPT !["command"] =
                        [at |-> "save", conv |-> SetStatus(c, to)]]
          /\ rest' = IF to = "running" THEN 0 ELSE rest
          /\ UNCHANGED control
  /\ UNCHANGED <<handled, links>>

\* process_command_send_message; process_command_bulk_send is BulkSend's
SendMessage(c, age) ==
  /\ cache' = Mutated(c, age) /\ Acknowledge
  /\ links' = links \union ({Head(control).link} \ {Nothing})
  /\ UNCHANGED <<rest, handled>>

\* get_config_for_conversation: messages are ignored if it is not running.
HandleMessage(c, age) ==
  /\ cache' = Mutated(c, age)
  /\ work' = [work EXCEPT !["message"] = Nothing]
  /\ handled' = IF c.status = "running" THEN rest ELSE handled
  /\ UNCHANGED <<control, rest, links>>

Handle(s, c, age) ==
  /\ CASE Name(s) = "start"   -> ChangeStatus(c, age, "starting", "running")
       [] Name(s) = "stop"    -> ChangeStatus(c, age, "stopping", "stopped")
       [] Name(s) = "message" -> HandleMessage(c, age)
       [] OTHER                    -> SendMessage(c, age)
  /\ UNCHANGED <<kind, ttl, offered, conv, web, queue, crashes>>

GetCached(s) ==
  /\ Received(s) /\ cache # Nothing
  /\ Handle(s, cache.conv, cache.age)

Fetch(s) ==
  /\ Received(s) /\ cache = Nothing
  /\ work' = [work EXCEPT ![s] = [at |-> "fetched", conv |-> conv]]
  /\ UNCHANGED <<kind, ttl, offered, conv, rest, web, queues, cache, handled, links, crashes>>

\* A model that was cached meanwhile is replaced, and its evictor stays.
Age == IF cache = Nothing THEN 0 ELSE cache.age

Fetched(s) ==
  /\ Busy(s) /\ work[s].at = "fetched"
  /\ Handle(s, work[s].conv, Age)

SaveStatus ==
  /\ work["command"] # Nothing /\ work["command"].at = "save"
  /\ Stored(work["command"].conv) /\ Acknowledge
  /\ UNCHANGED <<kind, ttl, offered, web, queue, cache, handled, links, crashes>>

WorkerDies ==
  /\ crashes < MaxCrashes /\ crashes' = crashes + 1
  /\ work' = [s \in Slots |-> Nothing] /\ cache' = Nothing
  /\ UNCHANGED <<kind, ttl, offered, conv, rest, web, queues, handled, links>>

Evict ==
  /\ cache # Nothing /\ cache.age = ttl /\ cache' = Nothing
  /\ UNCHANGED <<kind, ttl, offered, conv, rest, web, queues, work, handled, links, crashes>>

\* A delayed call is made when it is due; a fetch takes less than a unit of time.
Tick ==
  /\ cache # Nothing => cache.age < ttl
  /\ \A s \in Slots : Busy(s) => work[s].at # "fetched"
  /\ cache' = IF cache = Nothing THEN Nothing ELSE [cache EXCEPT !.age = @ + 1]
  /\ rest' = IF conv.status = "running" \/ rest > ttl THEN rest ELSE rest + 1
  /\ cache' # cache \/ rest' # rest
  /\ UNCHANGED <<kind, ttl, offered, conv, web, queues, work, handled, links, crashes>>

-----------------------------------------------------------------------------
Init ==
  /\ kind \in Kinds /\ ttl \in (IF kind = "router" THEN {0} ELSE TTLs)
  /\ \E o \in Offers : offered = o \intersect AllWork
  /\ \/ conv = New /\ rest = ttl + 1
     \/ conv = [New EXCEPT !.status = "running", !.groups = (kind = "conversation")] /\ rest = 0
  /\ handled = 0
  /\ job = [p \in Requests |-> Nothing] /\ served = 0
  /\ tokens = [u \in UserTokens |-> Nothing] /\ generated = 0 /\ links = {}
  /\ performed = [n \in 1..MaxTokens |-> <<>>]
  /\ queue = <<>> /\ control = <<>>
  /\ cache = Nothing /\ work = [s \in Slots |-> Nothing] /\ crashes = 0

Serve(p) ==
  \/ \E what \in ConversationWork : Begin(p, what)
  \/ \E what \in {"start", "stop", "archive"} : ManageConversation(p, what)
  \/ ManageHttpApi(p) \/ StartByTool(p)
  \/ Load(p) \/ StartConversation(p) \/ StopConversation(p) \/ ArchiveConversation(p) \/ SaveEdits(p)
  \/ DispatchCommand(p) \/ SendOneOffReply(p)
  \/ PostAction(p) \/ DrawToken(p) \/ SetSystemToken(p) \/ SetExpiry(p)
  \/ SendTokenUrl(p) \/ Resave(p)
  \/ \E link \in links : FollowLink(p, link)
  \/ GetConfirmation(p) \/ PostConfirmation(p) \/ DeleteToken(p) \/ PerformAction(p)
  \/ RequestDies(p)

Next ==
  \/ \E p \in Requests : Serve(p)
  \/ \E u \in UserTokens : TokenExpires(u)
  \/ Dispatch
  \/ \E s \in Slots : GetCached(s) \/ Fetch(s) \/ Fetched(s)
  \/ SaveStatus \/ WorkerDies \/ Evict \/ Tick

Spec == Init /\ [][Next]_vars
-----------------------------------------------------------------------------
(* A message is handled only if the conversation was running, in the store *)
(* or by a start of the same worker, within the last ttl: however fetches, *)
(* commands, saves of other processes and crashes interleave, the worker   *)
(* does not go on for longer with a conversation that was stopped.         *)
HandledWhileRunning == handled <= ttl

(* A confirmed action is performed at most once, and by the link that was  *)
(* sent for it: whoever follows a link twice, posts the form of an expired *)
(* token or draws the same digits as another request.                      *)
ConfirmedOnce == \A n \in 1..MaxTokens : performed[n] \in {<<>>, <<n>>}
=============================================================================
