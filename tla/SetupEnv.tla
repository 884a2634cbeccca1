------------------------------ MODULE SetupEnv ------------------------------
(***************************************************************************)
(* The command go_setup_env, which sets up an installation from files: tag *)
(* pools, the configuration of workers and dispatchers, accounts with what *)
(* is in them, and the script that starts it all.  It is run again when    *)
(* the files change, skips a user that is there, and may die on the way.   *)
(* The tags of the files are those of one pool; workers are written in the *)
(* order their dictionary gives them.                                      *)
(***************************************************************************)
EXTENDS Naturals, Sequences, SequencesExt

CONSTANTS
  Accounts,
  PoolTags,            \* what the tag pool file declares, one of these at each run
  WorkersFiles,        \* a sequence of names per kind of worker
  AccountFiles,        \* per user: a sequence, or Nothing, per section, and what is to start
  Options,             \* what runs are given
  MaxRuns, MaxDeaths,  \* bounds
  Nothing

Kinds == {"transport", "router", "application"}
SetupConstants ==
  /\ {MaxRuns, MaxDeaths} \subseteq Nat
  /\ \A o \in Options : /\ o.tagpools \in BOOLEAN /\ o.accounts \in Seq(Accounts)
                        /\ ToSet(o.workers) \subseteq DOMAIN WorkersFiles

VARIABLES
  pool,        \* the tag pool: is it listed, its free tags, those in use, its metadata
  users,       \* the users in the database
  account,     \* per user, the account in Riak that its profile names, or Nothing
  config,      \* worker -> what its configuration file lists, Nothing if not written
  programs,    \* the files supervisord includes: what it is told to start
  startup,     \* the script: what it imports and starts, in its order
  run,         \* the tasks left, the workers and the objects it has met
  runs, deaths,
  ended,       \* history: the last run came to its end
  leftover,    \* history: the programs that earlier runs wrote and this one did not
  broken,      \* history: the accounts a run died in
  missed,      \* history: per account, the channels it asked for in vain
  released     \* history: tags taken from accounts that list them

vars == <<pool, users, account, config, programs, startup, run, runs, deaths, ended, leftover,
          broken, missed, released>>
files == <<config, programs, startup>>
stored == <<pool, users, account>>
history == <<ended, leftover, broken, missed, released>>

\* What every installation runs: dispatchers and API workers, and what is no worker.
Dispatchers == <<"command_dispatcher", "routing_table_dispatcher", "billing_dispatcher",
                 "go_api_worker", "message_store_api_worker">>
Servers == <<<<"server", "supervisord">>, <<"server", "webui">>, <<"server", "billing_api">>>>
Always == [i \in 1..Len(Dispatchers) |-> <<"dispatcher", Dispatchers[i]>>]
Workers == {<<kind, n>> : kind \in Kinds, n \in UNION {UNION {ToSet(WorkersFiles[w][k]) :
                                                   k \in Kinds} : w \in DOMAIN WorkersFiles}}

Task(do, who, items) == [i \in 1..Len(items) |-> [do |-> do, who |-> who, item |-> items[i]]]
Given(section) == IF section = Nothing THEN <<>> ELSE section
NoPool == [listed |-> FALSE, free |-> {}, in_use |-> {}, metadata |-> FALSE]
NoRun == [todo |-> <<>>, workers |-> {}, objects |-> <<>>]

-----------------------------------------------------------------------------
(* What handle and setup_account_objects have to do, in their order.       *)
TagpoolTasks == Task("pool", Nothing, <<"purge", "declare", "metadata">>)

\* create_worker_configs
WorkerTasks(w) ==
  LET named(kind) == [i \in 1..Len(w[kind]) |-> <<kind, w[kind][i]>>]
  IN  Task("config", Nothing, named("transport") \o named("router") \o named("application"))

\* setup_account_objects
AccountTasks(e) ==
  LET file == AccountFiles[e]
      section(do, name) == Task(do, e, Given(file[name]))
  IN  Task("user", e, <<e>>) \o Task("account", e, <<e>>)
      \o section("permission", "tagpools") \o section("permission", "applications")
      \o section("channel", "channels") \o section("router", "routers")
      \o section("conversation", "conversations") \o section("group", "contact_groups")
      \o Task("routing", e, <<e>>)

\* handle: the dispatchers come last, when all the workers are known.
TasksOf(option) ==
  (IF option.tagpools THEN TagpoolTasks ELSE <<>>)
  \o FlattenSeq([i \in 1..Len(option.workers) |-> WorkerTasks(WorkersFiles[option.workers[i]])])
  \o FlattenSeq([i \in 1..Len(option.accounts) |-> AccountTasks(option.accounts[i])])
  \o Task("config", Nothing, Always) \o Task("program", Nothing, Servers)
  \o Task("startup", Nothing, <<"startup_env">>)

AtRest == run.todo = <<>>
Now == Head(run.todo)
Doing(do) == ~AtRest /\ Now.do = do
Continues(r) == run' = [r EXCEPT !.todo = Tail(@)]
Goes == Continues(run)

Handle(option) ==
  /\ AtRest /\ runs < MaxRuns /\ runs' = runs + 1
  /\ run' = [NoRun EXCEPT !.todo = TasksOf(option)]
  /\ ended' = FALSE /\ leftover' = programs
  /\ UNCHANGED <<stored, files, deaths, broken, missed, released>>

\* An exception or a signal ends the run; the account it was at stays as it is.
Stops ==
  /\ run' = NoRun
  /\ broken' = IF Now.who \in Accounts THEN broken \union {Now.who} ELSE broken
  /\ UNCHANGED <<stored, runs, ended, leftover, missed, released>>

\* Opening a file empties it; what is to be in it is written after that.
Opened ==
  CASE Now.do = "config"  -> /\ config' = [config EXCEPT ![Now.item] = Nothing]
                             /\ UNCHANGED <<programs, startup>>
    [] Now.do = "program" -> programs' = programs \ {Now.item} /\ UNCHANGED <<config, startup>>
    [] Now.do = "startup" -> startup' = <<>> /\ UNCHANGED <<config, programs>>
    [] OTHER              -> UNCHANGED files

Die ==
  /\ ~AtRest /\ deaths < MaxDeaths /\ deaths' = deaths + 1
  /\ UNCHANGED files \/ Opened
  /\ Stops

-----------------------------------------------------------------------------
(* setup_tagpools: the tags in use are released one by one, the pool is    *)
(* emptied and declared anew.  Whoever had a tag still lists it.           *)
ReleaseTag ==
  /\ Doing("pool") /\ Now.item = "purge"
  /\ \E tag \in pool.in_use :
       /\ pool' = [pool EXCEPT !.in_use = @ \ {tag}, !.free = @ \union {tag}]
       /\ released' = released \union {tag}
  /\ UNCHANGED <<users, account, files, run, runs, deaths, ended, leftover, broken, missed>>

PurgePool ==
  /\ Doing("pool") /\ Now.item = "purge" /\ pool.in_use = {}
  /\ pool' = NoPool
  /\ Goes /\ UNCHANGED <<users, account, files, runs, deaths, history>>

DeclareTags ==
  /\ Doing("pool") /\ Now.item = "declare"
  /\ \E tags \in PoolTags : pool' = [NoPool EXCEPT !.listed = TRUE, !.free = tags]
  /\ Goes /\ UNCHANGED <<users, account, files, runs, deaths, history>>

SetMetadata ==
  /\ Doing("pool") /\ Now.item = "metadata"
  /\ pool' = [pool EXCEPT !.metadata = TRUE]
  /\ Goes /\ UNCHANGED <<users, account, files, runs, deaths, history>>

-----------------------------------------------------------------------------
(* The files of workers and dispatchers.                                   *)

\* What a dispatcher is told of: of the workers this run has met, applications and
\* routers, or transports and applications.  (Fault for the mutation runs: swapped.)
Swapped(worker) ==
  CASE worker[2] = "command_dispatcher" -> {w \in run.workers : w[1] # "router"}
    [] worker[2] = "routing_table_dispatcher" -> {w \in run.workers : w[1] # "transport"}
    [] OTHER -> {}
Listing(worker) ==
  CASE worker[2] = "command_dispatcher" -> {w \in run.workers : w[1] # "transport"}
    [] worker[2] = "routing_table_dispatcher" -> {w \in run.workers : w[1] # "router"}
    [] OTHER -> {}

WriteWorkerConfig ==
  /\ Doing("config")
  /\ config' = [config EXCEPT ![Now.item] = Listing(Now.item)]
  /\ run' = [run EXCEPT !.workers = IF Now.item \in Workers THEN @ \union {Now.item} ELSE @,
                        !.todo = <<[Now EXCEPT !.do = "program"]>> \o Tail(@)]
  /\ UNCHANGED <<stored, programs, startup, runs, deaths, history>>

WriteSupervisorConfig ==
  /\ Doing("program")
  /\ programs' = programs \union {Now.item} /\ leftover' = leftover \ {Now.item}
  /\ Goes /\ UNCHANGED <<stored, config, startup, runs, deaths, ended, broken, missed, released>>

\* The template: it imports the contacts of all groups, then starts the conversations
\* and the routers that are to start.
ScriptOf(objects) ==
  LET starting(kind) == SelectSeq(objects, LAMBDA o : o.kind = kind /\ o.start)
  IN  starting("group") \o starting("conversation") \o starting("router")

WriteStartupScript ==
  /\ Doing("startup")
  /\ startup' = ScriptOf(run.objects) /\ ended' = TRUE
  /\ run' = NoRun
  /\ UNCHANGED <<stored, config, programs, runs, deaths, leftover, broken, missed, released>>

-----------------------------------------------------------------------------
(* The objects of an account.                                              *)
NewAccount == [permissions |-> {}, tags |-> {}, objects |-> {}, routing_table |-> Nothing]
Stores(field, value) == account' = [account EXCEPT ![Now.who][field] = value]

\* setup_account: the rest of the file is skipped if the user exists.
SetupAccount ==
  /\ Doing("user")
  /\ IF Now.who \notin users
     THEN users' = users \union {Now.who} /\ Goes
     ELSE /\ run' = [run EXCEPT !.todo = SelectSeq(@, LAMBDA task : task.who # Now.who)]
          /\ UNCHANGED users
  /\ UNCHANGED <<pool, account, files, runs, deaths, history>>

\* create_user_profile, when the user is saved: the account, then the profile that
\* names it; an account without one is nobody's.
CreateUserProfile ==
  /\ Doing("account")
  /\ account' = [account EXCEPT ![Now.who] = NewAccount]
  /\ Goes /\ UNCHANGED <<pool, users, files, runs, deaths, history>>

\* assign_tagpool, assign_application: the permission is saved, then the account that has it.
AssignPermission ==
  /\ Doing("permission")
  /\ IF Now.item = "pool" /\ ~pool.listed
     THEN Stops
     ELSE /\ Stores("permissions", account[Now.who].permissions \union {Now.item})
          /\ Goes /\ UNCHANGED <<pool, users, runs, history>>
  /\ UNCHANGED <<files, deaths>>

\* setup_channels: a tag that cannot be acquired is reported as acquired.
AcquireTag ==
  /\ Doing("channel")
  /\ LET tag == Now.item IN
     IF "pool" \in account[Now.who].permissions /\ tag \in pool.free
     THEN /\ pool' = [pool EXCEPT !.free = @ \ {tag}, !.in_use = @ \union {tag}]
          /\ run' = [run EXCEPT !.todo = <<[Now EXCEPT !.do = "own"]>> \o Tail(@)]
          /\ UNCHANGED missed
     ELSE /\ missed' = [missed EXCEPT ![Now.who] = @ \union {tag}]
          /\ Goes /\ UNCHANGED pool
  /\ UNCHANGED <<users, account, files, runs, deaths, ended, leftover, broken, released>>

OwnTag ==
  /\ Doing("own")
  /\ Stores("tags", account[Now.who].tags \union {Now.item})
  /\ Goes /\ UNCHANGED <<pool, users, files, runs, deaths, history>>

\* router_info, conversation_info, contact_group_info: what the script is told of.
Noted(start) ==
  Continues([run EXCEPT !.objects =
    Append(@, [who |-> Now.who, kind |-> Now.do, name |-> Now.item, start |-> start])])

Object == <<Now.do, Now.item>>

\* setup_routers, setup_conversations: what exists is not made again, and started all the same.
CreateObject ==
  /\ ~AtRest /\ Now.do \in {"router", "conversation"}
  /\ Noted(Now.item \in AccountFiles[Now.who].start)
  /\ IF Object \in account[Now.who].objects THEN UNCHANGED account
     ELSE Stores("objects", account[Now.who].objects \union {Object})
  /\ UNCHANGED <<pool, users, files, runs, deaths, history>>

\* setup_contact_groups: a group is saved whether or not it exists.
CreateGroup ==
  /\ Doing("group") /\ Noted(TRUE)
  /\ Stores("objects", account[Now.who].objects \union {Object})
  /\ UNCHANGED <<pool, users, files, runs, deaths, history>>

\* setup_routing: the connectors are those of the file, whose sections must be there.
ConnectorsOf(file) ==
  {<<"channel", t>> : t \in ToSet(file.channels)} \union {<<"router", r>> : r \in ToSet(file.routers)}
  \union {<<"conversation", c>> : c \in ToSet(file.conversations)}
Complete(file) ==
  /\ Nothing \notin {file.channels, file.routers, file.conversations}
  /\ \A entry \in file.routing_entries : {entry[1], entry[2]} \subseteq ConnectorsOf(file)

SetupRouting ==
  /\ Doing("routing")
  /\ IF Complete(AccountFiles[Now.who])
     THEN /\ Stores("routing_table", AccountFiles[Now.who].routing_entries)
          /\ Goes /\ UNCHANGED <<pool, users, runs, history>>
     ELSE Stops
  /\ UNCHANGED <<files, deaths>>

-----------------------------------------------------------------------------
Init ==
  /\ pool = NoPool /\ users = {}
  /\ account = [e \in Accounts |-> Nothing]
  /\ config = [w \in Workers \union ToSet(Always) |-> Nothing] /\ programs = {} /\ startup = <<>>
  /\ run = NoRun /\ runs = 0 /\ deaths = 0
  /\ ended = FALSE /\ leftover = {} /\ broken = {} /\ released = {}
  /\ missed = [e \in Accounts |-> {}]

Next ==
  \/ \E option \in Options : Handle(option)
  \/ ReleaseTag \/ PurgePool \/ DeclareTags \/ SetMetadata
  \/ WriteWorkerConfig \/ WriteSupervisorConfig \/ WriteStartupScript
  \/ SetupAccount \/ CreateUserProfile \/ AssignPermission \/ AcquireTag \/ OwnTag
  \/ CreateObject \/ CreateGroup \/ SetupRouting \/ Die

Spec == Init /\ [][Next]_vars
-----------------------------------------------------------------------------
(* Once a run has come to its end, the dispatchers know every worker that  *)
(* supervisord starts, unless its file is left from an earlier run, and    *)
(* each of those it knows has its configuration.                           *)
WorkersAreKnown ==
  ended => \A w \in (programs \intersect Workers) \ leftover :
    /\ config[w] # Nothing
    /\ w[1] # "transport" => w \in config[<<"dispatcher", "command_dispatcher">>]
    /\ w[1] # "router" => w \in config[<<"dispatcher", "routing_table_dispatcher">>]

Busy(e) == \E i \in 1..Len(run.todo) : run.todo[i].who = e
Has(e) == {<<"channel", t>> : t \in account[e].tags} \union account[e].objects
SetUp(e) == e \in users /\ e \notin broken /\ ~Busy(e)

(* A user in whose account no run died has an account that routes what its *)
(* file says between what it has, but for the channels that others had; no *)
(* two accounts have a tag unless the pool was set up again; and the       *)
(* script starts only what is there, after the contacts it imports.        *)
AccountsAreSetUp ==
  /\ \A e \in Accounts : SetUp(e) =>
       /\ account[e] # Nothing
       /\ account[e].routing_table = AccountFiles[e].routing_entries
       /\ \A entry \in account[e].routing_table :
            {entry[1], entry[2]} \subseteq Has(e) \union {<<"channel", t>> : t \in missed[e]}
  /\ \A e, f \in Accounts :
       e # f /\ account[e] # Nothing /\ account[f] # Nothing =>
         account[e].tags \intersect account[f].tags \subseteq released
  /\ \A i \in 1..Len(startup) :
       /\ <<startup[i].kind, startup[i].name>> \in account[startup[i].who].objects
       /\ startup[i].kind = "group" => \A j \in 1..i : startup[j].kind = "group"
=============================================================================
