--------------------------- MODULE MCApplications ---------------------------
(***************************************************************************)
(* TLC instances of the modules of the applications and of what the        *)
(* workers do beside their messages.  They share no state: a behaviour is  *)
(* one of one part, and one run explores all of them.  The variables are   *)
(* those of the part, as its INSTANCE says; the ones it does not need stay *)
(* Nothing.                                                                *)
(***************************************************************************)
EXTENDS Integers, Sequences, TLC

CONSTANTS
  Nothing, Unknown,
  p1, p2,              \* processes, jobs and contacts that are alike
  t1, t2, t3,          \* contacts, requests and messages that are alike
  u1, u2, u3, u4,      \* addresses and users
  c1, c2, c3, e1, e2, g1, g2, l1, n1, v1, v2, w1, w2

Pair == {p1, p2}
Threes == {t1, t2, t3}
Symmetry == Permutations(Pair) \union Permutations(Threes)

VARIABLES
  part,
  s1, s2, s3, s4, s5, s6, s7, s8, s9, s10, s11, s12, s13, s14, s15, s16, s17, s18, s19, s20, s21,
  s22

vars == <<part, s1, s2, s3, s4, s5, s6, s7, s8, s9, s10, s11, s12, s13, s14, s15, s16, s17, s18, s19, s20,
         s21, s22>>

From(delivery, user) == [delivery |-> delivery, addr |-> [user |-> user, resource |-> FALSE]]
OnePhoneOneChat == {From("sms", "phone"), From("gtalk", "chat"), From("carrier_pigeon", "phone")}
OptOutJobs == {"new_group", "new", "opt_out", "cancel", "bunches"}

Script(javascript, config, events, endpoints) ==
  [javascript |-> javascript, config |-> config, process_events |-> events, endpoints |-> endpoints]
SavedScripts ==
  {Script(TRUE, "good", TRUE, {e1}), Script(TRUE, "good", FALSE, {}), Script(FALSE, "bad", FALSE, {})}

MetricsConfigs ==
  {[op_mode |-> "active", metric_connectors |-> {e1}, provider_metrics |-> TRUE, tagpools |-> Nothing,
    session_billing_unit |-> Nothing],
   [op_mode |-> "passive", metric_connectors |-> Nothing, provider_metrics |-> FALSE,
    tagpools |-> [track_pool |-> TRUE, track_all_tags |-> FALSE, tags |-> {c1}],
    session_billing_unit |-> 2]}

People == INSTANCE Contacts WITH
  Keys <- Threes, Groups <- {g1, g2}, Jobs <- Pair, Labels <- {l1}, Values <- {v1, v2},
  GroupNames <- {n1}, Senders <- OnePhoneOneChat, Faults <- TRUE, MaxStarted <- 3,
  MaxRacing <- 4, MaxRows <- 2, ExportLimit <- 1, Racing <- OptOutJobs,
  contacts <- s1, groups <- s2, opt_outs <- s3, used <- s4, job <- s5, together <- s6,
  started <- s7, undone <- s8

Polls == INSTANCE Surveys WITH
  Contacts <- {u1}, Procs <- Pair, Tasks <- Pair,
  Configs <- {<<"send", "payment">>}, StaticConfig <- <<"opt_out", "menu", "payment">>,
  IncludeLabels <- {"opted_out"}, MaxSurveys <- 2, MaxChanges <- 1, MaxFaults <- 2,
  extra <- s1, opt_outs <- s2, survey <- s3, events <- s4, event_handler_config <- s5,
  account_config <- s6, handling <- s7, paid <- s8, sent <- s9, started <- s10, changes <- s11,
  faults <- s12, finished <- s13, dropped <- s14, excused <- s15

Bulk == INSTANCE BulkSend WITH
  NumContacts <- 3, Addresses <- {u1, u2}, AddressOf <- <<u1, u2, u1>>, WindowSize <- 1,
  MaxDeaths <- 1, MaxOptChanges <- 1, None <- Nothing,
  dedupe <- s1, command <- s2, at <- s3, key <- s4, to_addr <- s5, seen <- s6,
  interrupted <- s7, progress <- s8, added <- s9, window <- s10, flight <- s11, sending <- s12,
  sent_ids <- s13, opted_out <- s14, changes <- s15, sent <- s16, resent <- s17, dropped <- s18,
  touched <- s19, died <- s20, reached <- s21, repeated <- s22

Sequence == INSTANCE SequentialSend WITH
  Contacts <- Pair, NumMessages <- 2, Dates <- 1..3, MaxNow <- 3, MaxCommands <- 3,
  MaxFaults <- 1,
  now <- s1, last_poll_time <- s2, status <- s3, scheduled <- s4, commands <- s5, asked <- s6,
  command <- s7, at <- s8, interval <- s9, bunch <- s10, saving <- s11, index <- s12,
  edit <- s13, received <- s14, faults <- s15, excused <- s16

Push == INSTANCE JsBoxSend WITH
  Contacts <- <<u1, u2, u3, u4>>, MinDt <- 2, MaxNow <- 5, MaxRuns <- 2, MaxChanges <- 1,
  now <- s1, opted_out <- s2, run <- s3, last <- s4, wake <- s5, excluded <- s6, reported <- s7,
  sent <- s8, earlier <- s9, runs <- s10, changes <- s11

Scripts == INSTANCE JsBox WITH
  Sandboxes <- Pair, Users <- {u1, u2}, Endpoints <- {e1}, Settings <- SavedScripts, Own <- "own",
  InAccount <- {"own"}, Foreign <- {"other"}, MetadataKeys <- {"h"},
  allowed_helper_metadata <- {}, Contacts <- <<u1, u2>>, max_logs_per_conversation <- 1,
  MaxRuns <- 2, MaxCommands <- 2, MaxSaves <- 1, MaxDeaths <- 1,
  conversation <- s1, api <- s2, push <- s3, logs <- s4, trimming <- s5, answer <- s6,
  sent <- s7, triggered <- s8, logged <- s9, runs <- s10, commands <- s11, saves <- s12,
  deaths <- s13

Menu == INSTANCE AppMultiplexer WITH
  Menus <- {<<e1, e2>>, <<e2, e1>>, <<e2>>}, MaxMessages <- 4, MaxChanges <- 2, MaxFaults <- 2,
  entries <- s1, session <- s2, msg <- s3, at <- s4, response <- s5, reply <- s6, shown <- s7,
  chosen <- s8, last <- s9, changes <- s10, messages <- s11, faults <- s12, excused <- s13

Http == INSTANCE HttpRequests WITH
  Requests <- Threes, Workers <- {w1}, Limits <- {-1, 2}, WorkerLimits <- 0..2, MaxLosses <- 2,
  limit <- s1, worker_limit <- s2, req <- s3, closed <- s4, tracked <- s5, count <- s6,
  concurrents <- s7, waiters <- s8, limiters <- s9, opted_out <- s10, excused <- s11,
  losses <- s12

Streams == INSTANCE HttpStreams WITH
  Messages <- Threes, Clients <- {c1, c2}, MAX_BACKLOG_SIZE <- 2, MaxDeaths <- 1,
  push_url <- s1, http_retry_api <- s2, message <- s3, backlog <- s4, clients <- s5,
  client <- s6, popped <- s7, deaths <- s8

Metering == INSTANCE Metrics WITH
  Convs <- {c1, c2, c3}, Accounts <- {u1, u2}, OwnerOf <- c1 :> u1 @@ c2 :> u1 @@ c3 :> u2,
  NumBuckets <- 2, BucketOf <- c1 :> 0 @@ c2 :> 1 @@ c3 :> 1, MaxCommands <- 2, MaxChanges <- 1,
  MaxFailures <- 2,
  running <- s1, disabled <- s2, at <- s3, current_bucket <- s4, buckets <- s5, named <- s6,
  accounts <- s7, keys <- s8, commands <- s9, collecting <- s10, in_progress <- s11,
  changes <- s12, failures <- s13, sent <- s14, steady <- s15, raised <- s16, ignored <- s17

Recent == INSTANCE RecentConversations WITH
  Convs <- {c1, c2}, Workers <- {w1, w2}, Tasks <- Pair, MaxTasks <- 3, MaxFaults <- 1,
  local_recent_convs <- s1, recent <- s2, old <- s3, task <- s4, started <- s5, faults <- s6,
  owed <- s7, excused <- s8

Sessions == INSTANCE SessionMetrics WITH
  Users <- {u1, u2}, Services <- {c1}, Connectors <- {e1, e2}, Configs <- MetricsConfigs,
  MaxSessionTimes <- {3}, MaxNow <- 3,
  config <- s1, max_session_time <- s2, now <- s3, timestamps <- s4, watched <- s5,
  session <- s6, fired <- s7, last <- s8

-----------------------------------------------------------------------------
(* What each module asks of its constants.                                 *)
ASSUME PartsAssumption ==
  /\ People!ContactsConstants /\ Polls!SurveysConstants /\ Bulk!BulkSendConstants
  /\ Sequence!SequentialSendConstants /\ Push!JsBoxSendConstants /\ Scripts!JsBoxConstants
  /\ Menu!AppMultiplexerConstants /\ Http!HttpRequestsConstants /\ Streams!HttpStreamsConstants
  /\ Metering!MetricsConstants /\ Recent!RecentConversationsConstants /\ Sessions!SessionMetricsConstants

\* The variables that a part of so many does not need.
After17Blank == s18 = Nothing /\ s19 = Nothing /\ s20 = Nothing /\ s21 = Nothing /\ s22 = Nothing
After16Blank == s17 = Nothing /\ After17Blank
After15Blank == s16 = Nothing /\ After16Blank
After13Blank == s14 = Nothing /\ s15 = Nothing /\ After15Blank
After12Blank == s13 = Nothing /\ After13Blank
After11Blank == s12 = Nothing /\ After12Blank
After8Blank == s9 = Nothing /\ s10 = Nothing /\ s11 = Nothing /\ After11Blank
After17Still == UNCHANGED <<s18, s19, s20, s21, s22>>
After16Still == UNCHANGED s17 /\ After17Still
After15Still == UNCHANGED s16 /\ After16Still
After13Still == UNCHANGED <<s14, s15>> /\ After15Still
After12Still == UNCHANGED s13 /\ After13Still
After11Still == UNCHANGED s12 /\ After12Still
After8Still == UNCHANGED <<s9, s10, s11>> /\ After11Still

Init ==
  \/ part = "contacts" /\ People!Init /\ After8Blank
  \/ part = "surveys" /\ Polls!Init /\ After15Blank
  \/ part = "bulk send" /\ Bulk!Init
  \/ part = "sequential send" /\ Sequence!Init /\ After16Blank
  \/ part = "push triggers" /\ Push!Init /\ After11Blank
  \/ part = "scripts" /\ Scripts!Init /\ After13Blank
  \/ part = "menus" /\ Menu!Init /\ After13Blank
  \/ part = "requests" /\ Http!Init /\ After12Blank
  \/ part = "streams" /\ Streams!Init /\ After8Blank
  \/ part = "metrics" /\ Metering!Init /\ After17Blank
  \/ part = "recent conversations" /\ Recent!Init /\ After8Blank
  \/ part = "session metrics" /\ Sessions!Init /\ After8Blank

Next ==
  /\ UNCHANGED part
  /\ \/ part = "contacts" /\ People!Next /\ After8Still
     \/ part = "surveys" /\ Polls!Next /\ After15Still
     \/ part = "bulk send" /\ Bulk!Next
     \/ part = "sequential send" /\ Sequence!Next /\ After16Still
     \/ part = "push triggers" /\ Push!Next /\ After11Still
     \/ part = "scripts" /\ Scripts!Next /\ After13Still
     \/ part = "menus" /\ Menu!Next /\ After13Still
     \/ part = "requests" /\ Http!Next /\ After12Still
     \/ part = "streams" /\ Streams!Next /\ After8Still
     \/ part = "metrics" /\ Metering!Next /\ After17Still
     \/ part = "recent conversations" /\ Recent!Next /\ After8Still
     \/ part = "session metrics" /\ Sessions!Next /\ After8Still

Spec == Init /\ [][Next]_vars
-----------------------------------------------------------------------------
(* In turn, a look-up by address makes a contact only if nobody is stored  *)
(* under an address of that correspondent, and one by name a group only if *)
(* no group has the name; an import for which existing data is the truth   *)
(* changes no value a contact has, and takes it out of no group.           *)
LookUpsAndImportsKeepContacts ==
  [][part = "contacts" => People!MakesOnlyTheMissing /\ People!ExistingIsTruth]_vars

(* An import of new contacts that reports failure has left none of those   *)
(* it wrote, and no contact is in a group that is gone, wherever the jobs  *)
(* that ran in turn have died; and an export has all that was asked for.   *)
NothingHalfDone ==
  part = "contacts" => People!ImportAllOrNothing /\ People!NoDanglingGroups /\ People!ExportsAreWhole

(* Whatever else runs, a conversation is not given an address that was     *)
(* opted out before it asked for addresses and was not opted in since.     *)
OptedOutAreSkipped == part = "contacts" => People!OptedOutAreSkipped

(* A participant is opted out as the last survey's answers say, and who    *)
(* finished a survey is paid, whatever dies or is delivered again.         *)
SurveysHaveTheirEffects ==
  part = "surveys" => Polls!OptOutsFollowTheAnswers /\ Polls!FinishedSurveysPay

(* A bulk send reaches each contact once over the deaths of its worker, a  *)
(* sequence reaches a contact in its order, and the push triggers of a     *)
(* script go no faster than its ticker lets them, and not to those that an *)
(* earlier run has started.                                                *)
ContactsGetTheirMessages ==
  /\ part = "bulk send" => Bulk!EachContactOnce
  /\ part = "sequential send" => Sequence!InSequence
  /\ part = "push triggers" => Push!SendsAreTicked

(* A JavaScript application sends its triggers in the order of the         *)
(* contacts, its sandboxes act on their own account and conversation only, *)
(* and its log keeps the latest entries.                                   *)
ScriptsAreConfined ==
  part = "scripts" =>
    Scripts!PushesOpenSessions /\ Scripts!SandboxesAreConfined /\ Scripts!LatestLogsKept

(* What a user chooses from a menu is what the menu showed, whatever was   *)
(* configured in between, in the application multiplexer.                  *)
MenuMeansWhatItShowed == part = "menus" => Menu!MenuMeansWhatItShowed

(* The HTTP API: requests over the limit are refused or wait, and each     *)
(* turn that is taken is given back; what the backlog has reaches a client *)
(* that is there.                                                          *)
HttpClientsAreServed ==
  /\ part = "requests" => Http!TurnsAreTaken
  /\ part = "streams" => Streams!BacklogReachesClients

(* A running conversation is collected once in a cycle, a conversation     *)
(* that was noted is published, and the time of a session is from its      *)
(* opening to its close.                                                   *)
MetricsAreCollected ==
  /\ part = "metrics" => Metering!CollectedOncePerCycle
  /\ part = "recent conversations" => Recent!NotedIsPublished
  /\ part = "session metrics" => Sessions!SessionTimes
=============================================================================
