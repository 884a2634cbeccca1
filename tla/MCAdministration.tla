-------------------------- MODULE MCAdministration --------------------------
(***************************************************************************)
(* TLC instances of AccountStore and of the other modules of what people   *)
(* administer: accounts, statements, conversations, routers, tasks.  A     *)
(* behaviour is one of one part, and one run explores all of them: jobs on *)
(* accounts in turn, or on tags side by side, in the variables of          *)
(* AccountStore; or a part in the variables below, as its INSTANCE says.   *)
(* What a part does not need stays as it was at the start.                 *)
(***************************************************************************)
EXTENDS MCAccountStore, TLC

CONSTANTS
  Nothing,
  p1, p2,              \* processes that are alike
  k1, k2

Pair == {p1, p2}
Symmetry == Permutations(Pair) \union Permutations(Jobs)

VARIABLES
  part,
  s1, s2, s3, s4, s5, s6, s7, s8, s9, s10, s11, s12, s13, s14, s15, s16, s17

everything == <<part, vars, s1, s2, s3, s4, s5, s6, s7, s8, s9, s10, s11, s12, s13, s14, s15, s16, s17>>

Ussd ==
  [type |-> "Message", tag_pool |-> "ussd", direction |-> "Inbound", message_cost |-> 2,
   storage_cost |-> 1, session_cost |-> 5, session_created |-> TRUE, unit_cost |-> 4,
   intervals |-> 2, markup |-> 20]
TopUp ==
  [Ussd EXCEPT !.type = "Top Up", !.message_cost = 0, !.storage_cost = 0, !.session_cost = 0,
               !.session_created = FALSE, !.unit_cost = 0, !.intervals = 0]
EveryCharge == {Ussd, [Ussd EXCEPT !.session_created = FALSE], TopUp}

WhatIsAsked == {{"start", "stop"}, {"start", "archive"}, {"action", "edit_groups"}, {"edit", "edit_detail", "reply"}}

Bills == INSTANCE Statements WITH
  Ids <- {1, 2}, Charges <- EveryCharge, Tasks <- {1}, MaxMonth <- 3, MaxStatements <- 1,
  MaxArchives <- 1, ArchiveAfter <- 2, EarlyArchives <- FALSE, Faults <- TRUE,
  now <- s1, table <- s2, charged <- s3, bucket <- s4, statements <- s5, archives <- s6,
  task <- s7, forced <- s8

Archives == INSTANCE Statements WITH
  Ids <- {1}, Charges <- EveryCharge, Tasks <- {1}, MaxMonth <- 3, MaxStatements <- 1,
  MaxArchives <- 2, ArchiveAfter <- 2, EarlyArchives <- FALSE, Faults <- TRUE,
  now <- s1, table <- s2, charged <- s3, bucket <- s4, statements <- s5, archives <- s6,
  task <- s7, forced <- s8

S3 == INSTANCE Uploads WITH
  Procs <- Pair, Names <- {k1}, Files <- {<<1, 2, 1, 1>>, <<1>>}, SizeOf <- <<1, 2>>,
  MinimumSize <- 2, MaxUploads <- 3, MaxFaults <- 1,
  file <- s1, upload <- s2, started <- s3, faults <- s4, excused <- s5

Pages == INSTANCE Conversations WITH
  Requests <- Pair, UserTokens <- {k1, k2}, Offers <- WhatIsAsked,
  Kinds <- {"conversation", "router"}, TTLs <- {1}, MaxRequests <- 3, MaxCommands <- 1,
  MaxTokens <- 2, MaxCrashes <- 1,
  kind <- s1, ttl <- s2, offered <- s3, conv <- s4, job <- s5, served <- s6, tokens <- s7,
  generated <- s8, links <- s9, queue <- s10, control <- s11, cache <- s12, work <- s13,
  rest <- s14, handled <- s15, performed <- s16, crashes <- s17

RouterPages == INSTANCE Routers WITH
  Procs <- Pair, MaxRequests <- 3, MaxDeaths <- 1, MaxWorkerDeaths <- 1,
  stored <- s1, routed <- s2, job <- s3, api <- s4, queue <- s5, working <- s6, requests <- s7,
  deaths <- s8, workerDeaths <- s9, saves <- s10, overwritten <- s11

Planned == INSTANCE Scheduler WITH
  Procs <- Pair, Pending <- {k1, k2}, MaxNow <- 1, MaxJobs <- 5, MaxDeaths <- 1,
  now <- s1, task <- s2, pending <- s3, messages <- s4, job <- s5, begun <- s6, deaths <- s7,
  performed <- s8, withdrawn <- s9, excused <- s10

Logins == INSTANCE ApiSessions WITH
  Procs <- Pair, Users <- {a1, a2}, Browsers <- {k1}, MaxRequests <- 3, MaxKeys <- 4,
  MaxDeaths <- 1,
  sessions <- s1, cookie <- s2, request <- s3, started <- s4, used <- s5, deaths <- s6,
  ended <- s7, excused <- s8

Settings == INSTANCE AccountSettings WITH
  Procs <- Pair, Keys <- {k1, k2}, MaxJobs <- 3, MaxDeaths <- 1,
  stored <- s1, permissions <- s2, releases <- s3, storing <- s4, job <- s5, started <- s6,
  deaths <- s7, flagged <- s8, summary <- s9

Split == INSTANCE ConversationMigrations WITH
  Procs <- Pair, OldBatches <- {"b1", "b2"}, NewBatches <- {"n1", "n2"}, Messages <- {k1},
  MaxJobs <- 2, MaxDeaths <- 1,
  stored <- s1, content <- s2, tagged <- s3, free <- s4, job <- s5, started <- s6, deaths <- s7,
  kept <- s8

Reindex == INSTANCE ContactMigrations WITH
  Contacts <- {a1, a2}, Procs <- Pair, Values <- {k1, k2}, MaxJobs <- 3, MaxDeaths <- 1,
  stored <- s1, job <- s2, started <- s3, deaths <- s4, listed <- s5, truth <- s6, excused <- s7

Cached == INSTANCE ModelObjectCache WITH
  Keys <- {k1}, Callers <- Pair, TTLs <- {0, 2}, MaxFetch <- 2, MaxVersion <- 2, Horizon <- 6,
  ttl <- s1, now <- s2, stored <- s3, replaced <- s4, models <- s5, evictors <- s6, call <- s7,
  served <- s8, cleaned <- s9

Linking(channel) == {<<<<"channel", channel>>, <<"conversation", "conversation1">>>>}
AccountFile(channels, routers) ==
  [tagpools |-> <<"pool">>, applications |-> <<"surveys">>, channels |-> channels,
   routers |-> routers, conversations |-> <<"conversation1">>, contact_groups |-> <<"group1">>,
   start |-> IF Len(channels) = 1 THEN {"conversation1"} ELSE {"conversation1", "router1"},
   routing_entries |-> Linking(channels[1])]
WorkersFile(transports, routers, applications) ==
  [transport |-> transports, router |-> routers, application |-> applications]
SetupOptions ==
  {[tagpools |-> pools, workers |-> workers, accounts |-> accounts] :
     pools \in BOOLEAN, workers \in {<<>>, <<1>>, <<2, 1>>},
     accounts \in {<<>>, <<"user2", "user1">>, <<"user1">>, <<"user3">>}}

Environment == INSTANCE SetupEnv WITH
  Accounts <- {"user1", "user2", "user3"}, PoolTags <- {{"10001"}, {"10001", "10002"}},
  WorkersFiles <- <<WorkersFile(<<"sms">>, <<>>, <<"bulk">>), WorkersFile(<<>>, <<"keyword">>, <<"jsbox">>)>>,
  AccountFiles <- [user1 |-> AccountFile(<<"10001">>, <<"router1">>),
                   user2 |-> AccountFile(<<"10001", "10002">>, <<>>),
                   user3 |-> AccountFile(<<"10002">>, Nothing)],
  Options <- SetupOptions, MaxRuns <- 2, MaxDeaths <- 1,
  pool <- s1, users <- s2, account <- s3, config <- s4, programs <- s5, startup <- s6, run <- s7,
  runs <- s8, deaths <- s9, ended <- s10, leftover <- s11, broken <- s12, missed <- s13,
  released <- s14

-----------------------------------------------------------------------------
(* What each module asks of its constants.                                 *)
ASSUME PartsAssumption ==
  /\ Bills!StatementsConstants /\ Archives!StatementsConstants
  /\ S3!UploadsConstants /\ Pages!ConversationsConstants
  /\ RouterPages!RoutersConstants /\ Planned!SchedulerConstants /\ Logins!SessionsConstants
  /\ Settings!SettingsConstants /\ Split!MigrationsConstants
  /\ Reindex!ContactMigrationsConstants /\ Cached!CacheConstants /\ Environment!SetupConstants

\* The variables that a part of so many does not need.
After14Blank == s15 = Nothing /\ s16 = Nothing /\ s17 = Nothing
After11Blank == s12 = Nothing /\ s13 = Nothing /\ s14 = Nothing /\ After14Blank
After10Blank == s11 = Nothing /\ After11Blank
After9Blank == s10 = Nothing /\ After10Blank
After8Blank == s9 = Nothing /\ After9Blank
After7Blank == s8 = Nothing /\ After8Blank
After5Blank == s6 = Nothing /\ s7 = Nothing /\ After7Blank
Blank == s1 = Nothing /\ s2 = Nothing /\ s3 = Nothing /\ s4 = Nothing /\ s5 = Nothing /\ After5Blank
After14Still == UNCHANGED <<s15, s16, s17>>
After11Still == UNCHANGED <<s12, s13, s14>> /\ After14Still
After10Still == UNCHANGED s11 /\ After11Still
After9Still == UNCHANGED s10 /\ After10Still
After8Still == UNCHANGED s9 /\ After9Still
After7Still == UNCHANGED s8 /\ After8Still
After5Still == UNCHANGED <<s6, s7>> /\ After7Still
Still == UNCHANGED <<s1, s2, s3, s4, s5>> /\ After5Still

\* The jobs of accounts in turn, and those on tags however they interleave.
InTurn == \A i, j \in Jobs : job'[i] # Idle /\ job'[j] # Idle => i = j
OnTags ==
  /\ ~died' /\ started' <= 5
  /\ \A j \in Jobs : job'[j].op \in TagOperations \union {Idle.op}

AdminInit ==
  /\ Init
  /\ \/ part \in {"accounts", "tags"} /\ Blank
     \/ part = "statements" /\ Bills!Init /\ After8Blank
     \/ part = "archives" /\ Archives!Init /\ After8Blank
     \/ part = "uploads" /\ S3!Init /\ After5Blank
     \/ part = "pages" /\ Pages!Init
     \/ part = "routers" /\ RouterPages!Init /\ After11Blank
     \/ part = "scheduler" /\ Planned!Init /\ After10Blank
     \/ part = "logins" /\ Logins!Init /\ After8Blank
     \/ part = "settings" /\ Settings!Init /\ After9Blank
     \/ part = "conversation migrations" /\ Split!Init /\ After8Blank
     \/ part = "contact migrations" /\ Reindex!Init /\ After7Blank
     \/ part = "cache" /\ Cached!Init /\ After9Blank
     \/ part = "environment" /\ Environment!Init /\ After14Blank

AdminNext ==
  /\ UNCHANGED part
  /\ \/ part = "accounts" /\ Next /\ InTurn /\ Still
     \/ part = "tags" /\ Next /\ OnTags /\ Still
     \/ part = "statements" /\ Bills!Next /\ After8Still /\ UNCHANGED vars
     \/ part = "archives" /\ Archives!Next /\ After8Still /\ UNCHANGED vars
     \/ part = "uploads" /\ S3!Next /\ After5Still /\ UNCHANGED vars
     \/ part = "pages" /\ Pages!Next /\ UNCHANGED vars
     \/ part = "routers" /\ RouterPages!Next /\ After11Still /\ UNCHANGED vars
     \/ part = "scheduler" /\ Planned!Next /\ After10Still /\ UNCHANGED vars
     \/ part = "logins" /\ Logins!Next /\ After8Still /\ UNCHANGED vars
     \/ part = "settings" /\ Settings!Next /\ After9Still /\ UNCHANGED vars
     \/ part = "conversation migrations" /\ Split!Next /\ After8Still /\ UNCHANGED vars
     \/ part = "contact migrations" /\ Reindex!Next /\ After7Still /\ UNCHANGED vars
     \/ part = "cache" /\ Cached!Next /\ After9Still /\ UNCHANGED vars
     \/ part = "environment" /\ Environment!Next /\ After14Still /\ UNCHANGED vars

AdminSpec == AdminInit /\ [][AdminNext]_everything
-----------------------------------------------------------------------------
(* Jobs on accounts one at a time, each to its end: the books of tags      *)
(* agree and a table links only what its account has; and wherever one     *)
(* dies, no tag in the pool is anybody's; and what the set-up command has  *)
(* made, however often it ran, is what its files say.                      *)
AccountsAreConsistent ==
  /\ part = "accounts" => TagBooksAgree /\ TableLinksOwn /\ FreeTagsAreNobodys
  /\ part = "environment" => Environment!WorkersAreKnown /\ Environment!AccountsAreSetUp

(* No month is billed twice, or archived and deleted without being in its  *)
(* file; and a file in S3 is the whole of what was uploaded.               *)
StatementsAndArchivesAreWhole ==
  /\ part = "statements" => Bills!NothingIsLost /\ Bills!StatementsAccountForTheMonth
  /\ part = "archives" => Archives!NothingIsLost /\ Archives!StatementsAccountForTheMonth
  /\ part = "uploads" => S3!FilesAreWhole

(* A message is handled by a conversation that runs, or did within the     *)
(* time its copy is cached, and an action that has to be confirmed is      *)
(* performed once for the links that were sent.                            *)
CommandsTakeEffectOnce ==
  part = "pages" => Pages!HandledWhileRunning /\ Pages!ConfirmedOnce

(* A router never stays in a state its pages offer no way out of, unless a *)
(* request or a worker died or somebody saved over a newer one.            *)
RoutersAreNeverStuck == part = "routers" => RouterPages!NeverStuck

(* A task is performed once, if it is not cancelled before it was due.     *)
TasksArePerformedOnce == part = "scheduler" => Planned!PerformedOnce

(* A session that ended is not used again, and all of them end.            *)
SessionsStayEnded ==
  part = "logins" => Logins!EndedSessionsStayEnded /\ Logins!SessionsEnd

(* What was saved by an old release or a new one is what both of them      *)
(* find, and an account has one permission for an application.             *)
SettingsSurvive ==
  part = "settings" => Settings!OptOutFlagsSurvive /\ Settings!OnePermissionEach

(* Migrations keep what their objects are: the status and the batches of a *)
(* conversation with all of their messages, and the addresses of contacts  *)
(* together with the indexes they are found by.                            *)
MigrationsKeepTheirObjects ==
  /\ part = "conversation migrations" => Split!MigrationKeepsLife /\ Split!MessagesAreKept
  /\ part = "contact migrations" => Reindex!MigrationKeepsAddresses

(* A cached model is not older than its time to live and the duration of   *)
(* a fetch, and none stays without a call that evicts it.                  *)
CachedIsFresh == part = "cache" => Cached!TypeOK /\ Cached!ServedFresh
=============================================================================
