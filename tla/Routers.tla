------------------------------ MODULE Routers ------------------------------
(***************************************************************************)
(* The life of a router: pages and the command go_manage_router change its *)
(* record and send commands to its worker, which changes the record again. *)
(* Everyone loads the whole record and saves it whole.                     *)
(***************************************************************************)
EXTENDS Naturals, Sequences

CONSTANTS
  Procs,         \* requests to pages, and commands
  MaxRequests, MaxDeaths, MaxWorkerDeaths,   \* bounds
  Nothing

RouterOperations == {"start", "stop", "archive", "edit"}
Commands == {"start", "stop"}
RouterState ==
  [status : {"stopped", "starting", "running", "stopping"}, archive_status : {"active", "archived"}]
JobState ==
  [operation : RouterOperations, steps : Seq({"save", "send", "unroute"}), seen : Nat,
   router : RouterState \union {Nothing}]
WorkState == [command : Commands, router : RouterState]

RoutersConstants ==
  /\ {MaxRequests, MaxDeaths, MaxWorkerDeaths} \subseteq Nat
  /\ Nothing \notin RouterState \union JobState \union WorkState

VARIABLES
  stored,        \* the router in Riak
  routed,        \* whether the routing table of the account has entries of it
  job,           \* what each page or command does
  api, queue,    \* commands in RabbitMQ, to the dispatcher and to the worker
  working,       \* the command the worker handles, with the router it loaded
  requests, deaths, workerDeaths,
  saves,         \* history: how often the router was saved,
  overwritten    \*   and whether an edit or archiving saved over a newer one

vars == <<stored, routed, job, api, queue, working, requests, deaths, workerDeaths, saves, overwritten>>

Idle(p) == job[p] = Nothing

\* Only the command looks at the status; it raises CommandError.
CommandAllows(operation) ==
  /\ stored.archive_status # "archived"
  /\ CASE operation = "start"   -> stored.status \notin {"running", "stopping"}
       [] operation = "stop"    -> stored.status # "stopped"
       [] operation = "archive" -> stored.status = "stopped"

(* Fault for the mutation runs: the command is sent before the router is saved. *)
SentFirst(operation) ==
  CASE operation \in {"start", "stop"} -> <<"send", "save">>
    [] operation = "archive"           -> <<"save", "unroute">>
    [] operation = "edit"              -> <<"save">>
Steps(operation) ==
  CASE operation \in {"start", "stop"} -> <<"save", "send">>
    [] operation = "archive"           -> <<"save", "unroute">>
    [] operation = "edit"              -> <<"save">>

\* The page that edits saves the router it loads first; the others load it again.
Request(p, operation, from) ==
  /\ Idle(p) /\ requests < MaxRequests /\ requests' = requests + 1
  /\ from = "command" => (operation # "edit" /\ CommandAllows(operation))
  /\ job' = [job EXCEPT ![p] = [operation |-> operation, steps |-> Steps(operation), seen |-> saves,
                                router |-> IF operation = "edit" THEN stored ELSE Nothing]]
  /\ UNCHANGED <<stored, routed, api, queue, working, deaths, workerDeaths, saves, overwritten>>

GetRouter(p) ==
  /\ ~Idle(p) /\ job[p].router = Nothing
  /\ job' = [job EXCEPT ![p].router = stored, ![p].seen = saves]
  /\ UNCHANGED <<stored, routed, api, queue, working, requests, deaths, workerDeaths, saves, overwritten>>

Takes(p, step) ==
  /\ ~Idle(p) /\ job[p].router # Nothing /\ Head(job[p].steps) = step
  /\ job' = [job EXCEPT ![p] = IF Len(job[p].steps) = 1 THEN Nothing
                               ELSE [job[p] EXCEPT !.steps = Tail(job[p].steps)]]

WithStatus(router, operation) ==
  CASE operation = "start"   -> [router EXCEPT !.status = "starting"]
    [] operation = "stop"    -> [router EXCEPT !.status = "stopping"]
    [] operation = "archive" -> [router EXCEPT !.archive_status = "archived"]
    [] operation = "edit"    -> router

SaveRouter(p) ==
  /\ Takes(p, "save")
  /\ stored' = WithStatus(job[p].router, job[p].operation)
  /\ saves' = saves + 1
  /\ overwritten' = (overwritten \/ (job[p].operation \in {"archive", "edit"} /\ job[p].seen # saves))
  /\ UNCHANGED <<routed, api, queue, working, requests, deaths, workerDeaths>>

DispatchRouterCommand(p) ==
  /\ Takes(p, "send") /\ api' = Append(api, job[p].operation)
  /\ UNCHANGED <<stored, routed, queue, working, requests, deaths, workerDeaths, saves, overwritten>>

RemoveFromRoutingTable(p) ==
  /\ Takes(p, "unroute") /\ routed' = FALSE
  /\ UNCHANGED <<stored, api, queue, working, requests, deaths, workerDeaths, saves, overwritten>>

\* CommandDispatcher, to the queue of the worker the command names
ConsumeControlCommand ==
  /\ api # <<>> /\ queue' = Append(queue, Head(api)) /\ api' = Tail(api)
  /\ UNCHANGED <<stored, routed, job, working, requests, deaths, workerDeaths, saves, overwritten>>

\* One command at a time; one that does not fit the status is only logged.
ProcessCommand(command, expected) ==
  /\ working = Nothing /\ queue # <<>> /\ Head(queue) = command
  /\ working' = IF stored.status = expected THEN [command |-> command, router |-> stored] ELSE Nothing
  /\ queue' = Tail(queue)
  /\ UNCHANGED <<stored, routed, job, api, requests, deaths, workerDeaths, saves, overwritten>>
ProcessCommandStart == ProcessCommand("start", "starting")
ProcessCommandStop == ProcessCommand("stop", "stopping")

WorkerSaves ==
  /\ working # Nothing
  /\ stored' = [working.router EXCEPT !.status = IF working.command = "start" THEN "running" ELSE "stopped"]
  /\ saves' = saves + 1 /\ working' = Nothing
  /\ UNCHANGED <<routed, job, api, queue, requests, deaths, workerDeaths, overwritten>>

\* The broker delivers again what the worker did not acknowledge.
WorkerDies ==
  /\ working # Nothing /\ workerDeaths < MaxWorkerDeaths /\ workerDeaths' = workerDeaths + 1
  /\ queue' = <<working.command>> \o queue /\ working' = Nothing
  /\ UNCHANGED <<stored, routed, job, api, requests, deaths, saves, overwritten>>

Die(p) ==
  /\ ~Idle(p) /\ deaths < MaxDeaths /\ deaths' = deaths + 1
  /\ job' = [job EXCEPT ![p] = Nothing]
  /\ UNCHANGED <<stored, routed, api, queue, working, requests, workerDeaths, saves, overwritten>>

Init ==
  /\ stored = [status |-> "stopped", archive_status |-> "active"] /\ routed \in BOOLEAN
  /\ job = [p \in Procs |-> Nothing] /\ api = <<>> /\ queue = <<>> /\ working = Nothing
  /\ requests = 0 /\ deaths = 0 /\ workerDeaths = 0 /\ saves = 0 /\ overwritten = FALSE

Next ==
  \/ \E p \in Procs :
       \/ \E operation \in RouterOperations, from \in {"page", "command"} : Request(p, operation, from)
       \/ GetRouter(p) \/ SaveRouter(p) \/ DispatchRouterCommand(p) \/ RemoveFromRoutingTable(p) \/ Die(p)
  \/ ConsumeControlCommand \/ ProcessCommandStart \/ ProcessCommandStop \/ WorkerSaves \/ WorkerDies

Spec == Init /\ [][Next]_vars
-----------------------------------------------------------------------------
Coming(command) ==
  \/ \E i \in DOMAIN (api \o queue) : (api \o queue)[i] = command
  \/ working # Nothing /\ working.command = command
  \/ \E p \in Procs : ~Idle(p) /\ job[p].operation = command /\ job[p].steps = <<"send">>

(* A router that is starting or stopping is never left so: the command     *)
(* that ends it is on its way, in whatever order pages, commands and the   *)
(* worker save - unless a request died, or one that edits or archives put  *)
(* an older status back.                                                   *)
NeverStuck ==
  (~overwritten /\ deaths = 0) =>
    /\ stored.status = "starting" => Coming("start")
    /\ stored.status = "stopping" => Coming("stop")
=============================================================================
