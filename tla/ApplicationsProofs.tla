------------------------- MODULE ApplicationsProofs --------------------------
(***************************************************************************)
(* The composite invariants of the run of MCApplications, proved of the    *)
(* specification that it runs, from the theorems of ApplicationParts. In a *)
(* behaviour of one part the variables of that part behave as its own      *)
(* specification says, and the part never changes.                         *)
(***************************************************************************)
EXTENDS MCApplications, TLAPS

\* The parts, with the values and variables that they have in the run.
Proved == INSTANCE ApplicationParts WITH
  Convs <- {c1, c2}, Workers <- {w1, w2}, Tasks <- Pair, MaxTasks <- 3, MaxFaults <- 1,
  Menus <- {<<e1, e2>>, <<e2, e1>>, <<e2>>}, MaxMessages <- 4, MaxChanges <- 2,
  MenuMaxFaults <- 2, Requests <- Threes, HttpWorkers <- {w1}, Limits <- {-1, 2},
  WorkerLimits <- 0..2, MaxLosses <- 2, MeteringConvs <- {c1, c2, c3}, Accounts <- {u1, u2},
  OwnerOf <- c1 :> u1 @@ c2 :> u1 @@ c3 :> u2, NumBuckets <- 2,
  BucketOf <- c1 :> 0 @@ c2 :> 1 @@ c3 :> 1, MaxCommands <- 2, MeteringMaxChanges <- 1,
  MaxFailures <- 2, Users <- {u1, u2}, Services <- {c1}, Connectors <- {e1, e2},
  Configs <- MetricsConfigs, MaxSessionTimes <- {3}, MaxNow <- 3, Messages <- Threes,
  Clients <- {c1, c2}, MAX_BACKLOG_SIZE <- 2, MaxDeaths <- 1, Sandboxes <- Pair,
  Endpoints <- {e1}, Settings <- SavedScripts, Own <- "own", InAccount <- {"own"},
  Foreign <- {"other"}, MetadataKeys <- {"h"}, allowed_helper_metadata <- {},
  Contacts <- <<u1, u2>>, max_logs_per_conversation <- 1, MaxRuns <- 2, MaxSaves <- 1,
  NumContacts <- 3, Addresses <- {u1, u2}, AddressOf <- <<u1, u2, u1>>, WindowSize <- 1,
  MaxOptChanges <- 1, None <- Nothing, SequenceContacts <- Pair, NumMessages <- 2,
  Dates <- 1..3, SequenceMaxCommands <- 3, PushContacts <- <<u1, u2, u3, u4>>, MinDt <- 2,
  PushMaxNow <- 5, PushMaxChanges <- 1, Keys <- Threes, Groups <- {g1, g2}, Jobs <- Pair,
  Labels <- {l1}, Values <- {v1, v2}, GroupNames <- {n1}, Senders <- OnePhoneOneChat,
  Faults <- TRUE, MaxStarted <- 3, MaxRacing <- 4, MaxRows <- 2, ExportLimit <- 1,
  Racing <- OptOutJobs, local_recent_convs <- s1, recent <- s2, old <- s3, task <- s4,
  started <- s5, faults <- s6, owed <- s7, excused <- s8, entries <- s1, session <- s2,
  msg <- s3, at <- s4, response <- s5, reply <- s6, shown <- s7, chosen <- s8, last <- s9,
  changes <- s10, messages <- s11, menu_faults <- s12, menu_excused <- s13, limit <- s1,
  worker_limit <- s2, req <- s3, closed <- s4, tracked <- s5, count <- s6, concurrents <- s7,
  waiters <- s8, limiters <- s9, opted_out <- s10, http_excused <- s11, losses <- s12,
  running <- s1, disabled <- s2, metering_at <- s3, current_bucket <- s4, buckets <- s5,
  named <- s6, accounts <- s7, keys <- s8, commands <- s9, collecting <- s10,
  in_progress <- s11, metering_changes <- s12, failures <- s13, sent <- s14, steady <- s15,
  raised <- s16, ignored <- s17, config <- s1, max_session_time <- s2, now <- s3,
  timestamps <- s4, watched <- s5, sessions_session <- s6, fired <- s7, sessions_last <- s8,
  push_url <- s1, http_retry_api <- s2, message <- s3, backlog <- s4, clients <- s5,
  client <- s6, popped <- s7, deaths <- s8, conversation <- s1, api <- s2, push <- s3,
  logs <- s4, trimming <- s5, answer <- s6, scripts_sent <- s7, triggered <- s8, logged <- s9,
  runs <- s10, scripts_commands <- s11, saves <- s12, scripts_deaths <- s13, dedupe <- s1,
  command <- s2, bulk_at <- s3, key <- s4, to_addr <- s5, seen <- s6, interrupted <- s7,
  progress <- s8, added <- s9, window <- s10, flight <- s11, sending <- s12, sent_ids <- s13,
  bulk_opted_out <- s14, bulk_changes <- s15, bulk_sent <- s16, reached <- s21, resent <- s17,
  repeated <- s22, dropped <- s18, touched <- s19, died <- s20, sequence_now <- s1,
  last_poll_time <- s2, status <- s3, scheduled <- s4, sequence_commands <- s5, asked <- s6,
  sequence_command <- s7, sequence_at <- s8, interval <- s9, bunch <- s10, saving <- s11,
  index <- s12, edit <- s13, received <- s14, sequence_faults <- s15, sequence_excused <- s16,
  push_now <- s1, push_opted_out <- s2, run <- s3, push_last <- s4, wake <- s5, excluded <- s6,
  reported <- s7, push_sent <- s8, earlier <- s9, push_changes <- s11, contacts <- s1,
  groups <- s2, opt_outs <- s3, used <- s4, job <- s5, together <- s6, people_started <- s7,
  undone <- s8

LEMMA PartStays ==
  ASSUME NEW name, [Next]_vars
  PROVE  (part = name => part' = name) /\ (part # name => part' # name)
BY DEF Next, vars

-----------------------------------------------------------------------------
LEMMA PeopleBegins == Init /\ part = "contacts" => Proved!People!Init
<1>1. People!Init => Proved!People!Init
  BY DEF People!Init, Proved!People!Init, People!Idle, Proved!People!Idle
<1> QED
  BY <1>1 DEF Init

LEMMA PeopleGoesOn ==
  part = "contacts" /\ [Next]_vars => [Proved!People!Next]_(Proved!People!vars)
<1>1. People!Next => Proved!People!Next
  BY DEF People!Next, Proved!People!Next, People!StartOne, Proved!People!StartOne,
       People!StartOptOutJob, Proved!People!StartOptOutJob, People!LookUpSteps,
       Proved!People!LookUpSteps, People!ContactSteps, Proved!People!ContactSteps,
       People!GroupSteps, Proved!People!GroupSteps, People!ImportSteps,
       Proved!People!ImportSteps, People!ExportSteps, Proved!People!ExportSteps,
       People!OptOutSteps, Proved!People!OptOutSteps, People!Die, Proved!People!Die,
       People!LookUps, Proved!People!LookUps, People!StartLookUp, Proved!People!StartLookUp,
       People!Edits, Proved!People!Edits, People!Known, Proved!People!Known, People!StartEdit,
       Proved!People!StartEdit, People!NewContact, Proved!People!NewContact, People!NewGroup,
       Proved!People!NewGroup, People!StartByName, Proved!People!StartByName, People!GroupJobs,
       Proved!People!GroupJobs, People!StartOnGroup, Proved!People!StartOnGroup,
       People!ManageContactGroup, Proved!People!ManageContactGroup, People!ImportContacts,
       Proved!People!ImportContacts, People!StartMerge, Proved!People!StartMerge,
       People!StartExport, Proved!People!StartExport, People!StartExportAll,
       Proved!People!StartExportAll, People!StartGroupExport, Proved!People!StartGroupExport,
       People!ConsumeOptOut, Proved!People!ConsumeOptOut, People!HandleOptOut,
       Proved!People!HandleOptOut, People!StartCancel, Proved!People!StartCancel,
       People!StartBunches, Proved!People!StartBunches, People!QueryIndex,
       Proved!People!QueryIndex, People!LoadFound, Proved!People!LoadFound, People!LoadNone,
       Proved!People!LoadNone, People!NewContactForAddr, Proved!People!NewContactForAddr,
       People!LoadContact, Proved!People!LoadContact, People!SaveContact,
       Proved!People!SaveContact, People!DeleteContact, Proved!People!DeleteContact,
       People!SearchByName, Proved!People!SearchByName, People!NewGroupByName,
       Proved!People!NewGroupByName, People!LoadGroup, Proved!People!LoadGroup,
       People!SaveGroup, Proved!People!SaveGroup, People!ListMembers, Proved!People!ListMembers,
       People!SweepMember, Proved!People!SweepMember, People!DropGroup, Proved!People!DropGroup,
       People!ListPages, Proved!People!ListPages, People!PurgeContact,
       Proved!People!PurgeContact, People!RaisePurge, Proved!People!RaisePurge,
       People!ImportRow, Proved!People!ImportRow, People!ImportRaises,
       Proved!People!ImportRaises, People!ImportDone, Proved!People!ImportDone, People!CleanUp,
       Proved!People!CleanUp, People!ReportFailure, Proved!People!ReportFailure,
       People!MergeRow, Proved!People!MergeRow, People!ReloadRow, Proved!People!ReloadRow,
       People!MergeEnds, Proved!People!MergeEnds, People!ListAllKeys, Proved!People!ListAllKeys,
       People!Cut, Proved!People!Cut, People!GetGroups, Proved!People!GetGroups,
       People!ListRows, Proved!People!ListRows, People!LoadRows, Proved!People!LoadRows,
       People!MailExport, Proved!People!MailExport, People!LookForOptOut,
       Proved!People!LookForOptOut, People!OptIn, Proved!People!OptIn, People!GatherKeys,
       Proved!People!GatherKeys, People!LoadBunch, Proved!People!LoadBunch,
       People!FilterOptedOut, Proved!People!FilterOptedOut, People!BunchesEnd,
       Proved!People!BunchesEnd, People!Idle, Proved!People!Idle, People!Ends,
       Proved!People!Ends, People!data, Proved!People!data, People!Starts, Proved!People!Starts,
       People!MayStart, Proved!People!MayStart, People!ContactAt, Proved!People!ContactAt,
       People!Field, Proved!People!Field, People!OneField, Proved!People!OneField,
       People!OptOut, Proved!People!OptOut, People!Supported, Proved!People!Supported,
       People!Becomes, Proved!People!Becomes, People!Indexed, Proved!People!Indexed,
       People!Newest, Proved!People!Newest, People!Holding, Proved!People!Holding,
       People!Answered, Proved!People!Answered, People!Moves, Proved!People!Moves,
       People!NormalizeAddr, Proved!People!NormalizeAddr, People!ContactForAddr,
       Proved!People!ContactForAddr, People!Edited, Proved!People!Edited, People!AfterSave,
       Proved!People!AfterSave, People!Named, Proved!People!Named, People!StaticMembers,
       Proved!People!StaticMembers, People!AllSwept, Proved!People!AllSwept, People!MemberPages,
       Proved!People!MemberPages, People!ToCleanUp, Proved!People!ToCleanUp, People!Merged,
       Proved!People!Merged, People!Cardinality, Proved!People!Cardinality,
       People!ContactsByKey, Proved!People!ContactsByKey, People!AddrOf, Proved!People!AddrOf,
       People!AddrType, Proved!People!AddrType, People!Blank, Proved!People!Blank,
       People!NoFields, Proved!People!NoFields, People!Subscribed, Proved!People!Subscribed,
       People!Surveyed, Proved!People!Surveyed, People!Updated, Proved!People!Updated,
       People!WithExtra, Proved!People!WithExtra, People!WithSubscription,
       Proved!People!WithSubscription, People!Replaced, Proved!People!Replaced,
       People!InGroupsOfForm, Proved!People!InGroupsOfForm, People!OutOfGroup,
       Proved!People!OutOfGroup, People!DynamicMembers, Proved!People!DynamicMembers
<1>2. UNCHANGED vars => UNCHANGED Proved!People!vars
  BY DEF Proved!People!vars, vars
<1> QED
  BY <1>1, <1>2 DEF Next

LEMMA PeopleImportAllOrNothing == Spec => (part = "contacts" => [](People!ImportAllOrNothing))
<1>1. [Next]_vars => (part = "contacts" => (part = "contacts")')
  BY PartStays
<1>2. Proved!People!Spec => []Proved!People!ImportAllOrNothing
  <2>1. Proved!People!ContactsConstants
    BY PartsAssumption DEF People!ContactsConstants, Proved!People!ContactsConstants,
         People!Deliveries, Proved!People!Deliveries, People!Addresses, Proved!People!Addresses,
         People!IsFiniteSet, Proved!People!IsFiniteSet
  <2> QED
    BY <2>1, Proved!FailedImportsLeaveNothing
<1>3. Proved!People!ImportAllOrNothing => People!ImportAllOrNothing
  BY DEF People!ImportAllOrNothing, Proved!People!ImportAllOrNothing
<1> QED
  BY PeopleBegins, PeopleGoesOn, <1>1, <1>2, <1>3, PTL DEF Spec, Proved!People!Spec

LEMMA PeopleNoDanglingGroups == Spec => (part = "contacts" => [](People!NoDanglingGroups))
<1>1. [Next]_vars => (part = "contacts" => (part = "contacts")')
  BY PartStays
<1>2. Proved!People!Spec => []Proved!People!NoDanglingGroups
  <2>1. Proved!People!ContactsConstants
    BY PartsAssumption DEF People!ContactsConstants, Proved!People!ContactsConstants,
         People!Deliveries, Proved!People!Deliveries, People!Addresses, Proved!People!Addresses,
         People!IsFiniteSet, Proved!People!IsFiniteSet
  <2> QED
    BY <2>1, Proved!NoGroupDangles
<1>3. Proved!People!NoDanglingGroups => People!NoDanglingGroups
  BY DEF People!NoDanglingGroups, Proved!People!NoDanglingGroups, People!Known,
       Proved!People!Known
<1> QED
  BY PeopleBegins, PeopleGoesOn, <1>1, <1>2, <1>3, PTL DEF Spec, Proved!People!Spec

LEMMA PeopleExportsAreWhole == Spec => (part = "contacts" => [](People!ExportsAreWhole))
<1>1. [Next]_vars => (part = "contacts" => (part = "contacts")')
  BY PartStays
<1>2. Proved!People!Spec => []Proved!People!ExportsAreWhole
  <2>1. Proved!People!ContactsConstants
    BY PartsAssumption DEF People!ContactsConstants, Proved!People!ContactsConstants,
         People!Deliveries, Proved!People!Deliveries, People!Addresses, Proved!People!Addresses,
         People!IsFiniteSet, Proved!People!IsFiniteSet
  <2> QED
    BY <2>1, Proved!ExportsHaveEverything
<1>3. Proved!People!ExportsAreWhole => People!ExportsAreWhole
  BY DEF People!ExportsAreWhole, Proved!People!ExportsAreWhole, People!Cardinality,
       Proved!People!Cardinality, People!NoFields, Proved!People!NoFields
<1> QED
  BY PeopleBegins, PeopleGoesOn, <1>1, <1>2, <1>3, PTL DEF Spec, Proved!People!Spec

(* An import that fails leaves nothing, no contact is in a group that is   *)
(* gone, and an export has what was asked for (the tasks of contacts and   *)
(* the contact store), in the instance of the run.                         *)
THEOREM NothingIsLeftHalfDone == Spec => []NothingHalfDone
<1>1. [Next]_vars => (~(part = "contacts") => ~(part = "contacts")')
  BY PartStays
<1>2. (part = "contacts" => People!ImportAllOrNothing /\ People!NoDanglingGroups /\ People!ExportsAreWhole) => NothingHalfDone
  BY DEF NothingHalfDone
<1> QED
  BY <1>1, <1>2, PeopleImportAllOrNothing, PeopleNoDanglingGroups, PeopleExportsAreWhole, PTL DEF Spec

-----------------------------------------------------------------------------
LEMMA PeopleOptedOutAreSkipped == Spec => (part = "contacts" => [](People!OptedOutAreSkipped))
<1>1. [Next]_vars => (part = "contacts" => (part = "contacts")')
  BY PartStays
<1>2. Proved!People!Spec => []Proved!People!OptedOutAreSkipped
  <2>1. Proved!People!ContactsConstants
    BY PartsAssumption DEF People!ContactsConstants, Proved!People!ContactsConstants,
         People!Deliveries, Proved!People!Deliveries, People!Addresses, Proved!People!Addresses,
         People!IsFiniteSet, Proved!People!IsFiniteSet
  <2> QED
    BY <2>1, Proved!NobodyOptedOutIsSentTo
<1>3. Proved!People!OptedOutAreSkipped => People!OptedOutAreSkipped
  BY DEF People!OptedOutAreSkipped, Proved!People!OptedOutAreSkipped
<1> QED
  BY PeopleBegins, PeopleGoesOn, <1>1, <1>2, <1>3, PTL DEF Spec, Proved!People!Spec

(* A conversation is not given an address that was opted out before it     *)
(* asked and not opted in since (the opt-out store and                     *)
(* get_opted_in_contact_bunches), in the instance of the run.              *)
THEOREM OptedOutAreNotSentTo == Spec => []OptedOutAreSkipped
<1>1. [Next]_vars => (~(part = "contacts") => ~(part = "contacts")')
  BY PartStays
<1>2. (part = "contacts" => People!OptedOutAreSkipped) => OptedOutAreSkipped
  BY DEF OptedOutAreSkipped
<1> QED
  BY <1>1, <1>2, PeopleOptedOutAreSkipped, PTL DEF Spec

-----------------------------------------------------------------------------
LEMMA BulkBegins == Init /\ part = "bulk send" => Proved!Bulk!Init
<1>1. Bulk!Init => Proved!Bulk!Init
  BY DEF Bulk!Init, Proved!Bulk!Init, Bulk!Keys, Proved!Bulk!Keys
<1> QED
  BY <1>1 DEF Init

LEMMA BulkGoesOn ==
  part = "bulk send" /\ [Next]_vars => [Proved!Bulk!Next]_(Proved!Bulk!vars)
<1>1. Bulk!Next => Proved!Bulk!Next
  BY DEF Bulk!Next, Proved!Bulk!Next, Bulk!Receive, Proved!Bulk!Receive, Bulk!LookUpContact,
       Proved!Bulk!LookUpContact, Bulk!AddToWindow, Proved!Bulk!AddToWindow,
       Bulk!SetSendProgress, Proved!Bulk!SetSendProgress, Bulk!ClearSendProgress,
       Proved!Bulk!ClearSendProgress, Bulk!Acknowledge, Proved!Bulk!Acknowledge, Bulk!NextKey,
       Proved!Bulk!NextKey, Bulk!SendTo, Proved!Bulk!SendTo, Bulk!SetExternalId,
       Proved!Bulk!SetExternalId, Bulk!HandleEvent, Proved!Bulk!HandleEvent, Bulk!FlightExpires,
       Proved!Bulk!FlightExpires, Bulk!OptOutOrIn, Proved!Bulk!OptOutOrIn, Bulk!WorkerDies,
       Proved!Bulk!WorkerDies, Bulk!windowing, Proved!Bulk!windowing, Bulk!history,
       Proved!Bulk!history, Bulk!again, Proved!Bulk!again, Bulk!OptedIn, Proved!Bulk!OptedIn,
       Bulk!WithSeen, Proved!Bulk!WithSeen, Bulk!DoneBefore, Proved!Bulk!DoneBefore,
       Bulk!NextContact, Proved!Bulk!NextContact, Bulk!Cardinality, Proved!Bulk!Cardinality,
       Bulk!handler, Proved!Bulk!handler, Bulk!Keys, Proved!Bulk!Keys
<1>2. UNCHANGED vars => UNCHANGED Proved!Bulk!vars
  BY DEF Proved!Bulk!handler, Proved!Bulk!windowing, Proved!Bulk!history, Proved!Bulk!again,
       Proved!Bulk!vars, vars
<1> QED
  BY <1>1, <1>2 DEF Next

LEMMA BulkEachContactOnce == Spec => (part = "bulk send" => [](Bulk!EachContactOnce))
<1>1. [Next]_vars => (part = "bulk send" => (part = "bulk send")')
  BY PartStays
<1>2. Proved!Bulk!Spec => []Proved!Bulk!EachContactOnce
  <2>1. Proved!Bulk!BulkSendConstants
    BY PartsAssumption DEF Bulk!BulkSendConstants, Proved!Bulk!BulkSendConstants, Bulk!Keys,
         Proved!Bulk!Keys, Bulk!SendingState, Proved!Bulk!SendingState, Bulk!Entries,
         Proved!Bulk!Entries
  <2> QED
    BY <2>1, Proved!NobodyTwiceNobodyMissed
<1>3. Proved!Bulk!EachContactOnce => Bulk!EachContactOnce
  BY DEF Bulk!EachContactOnce, Proved!Bulk!EachContactOnce, Bulk!Keys, Proved!Bulk!Keys,
       Bulk!Having, Proved!Bulk!Having
<1> QED
  BY BulkBegins, BulkGoesOn, <1>1, <1>2, <1>3, PTL DEF Spec, Proved!Bulk!Spec

LEMMA SequenceBegins == Init /\ part = "sequential send" => Proved!Sequence!Init
<1>1. Sequence!Init => Proved!Sequence!Init
  BY DEF Sequence!Init, Proved!Sequence!Init, Sequence!NoBunch, Proved!Sequence!NoBunch
<1> QED
  BY <1>1 DEF Init

LEMMA SequenceGoesOn ==
  part = "sequential send" /\ [Next]_vars => [Proved!Sequence!Next]_(Proved!Sequence!vars)
<1>1. Sequence!Next => Proved!Sequence!Next
  BY DEF Sequence!Next, Proved!Sequence!Next, Sequence!Ask, Proved!Sequence!Ask,
       Sequence!LoadForCommand, Proved!Sequence!LoadForCommand, Sequence!SaveStatus,
       Proved!Sequence!SaveStatus, Sequence!Schedule, Proved!Sequence!Schedule, Sequence!Tick,
       Proved!Sequence!Tick, Sequence!PollConversations, Proved!Sequence!PollConversations,
       Sequence!ProcessConversationSchedule, Proved!Sequence!ProcessConversationSchedule,
       Sequence!Skip, Proved!Sequence!Skip, Sequence!SendMessage, Proved!Sequence!SendMessage,
       Sequence!LoadContact, Proved!Sequence!LoadContact, Sequence!SaveIndex,
       Proved!Sequence!SaveIndex, Sequence!AllSent, Proved!Sequence!AllSent,
       Sequence!SendRaises, Proved!Sequence!SendRaises, Sequence!WorkerDies,
       Proved!Sequence!WorkerDies, Sequence!SaveContact, Proved!Sequence!SaveContact,
       Sequence!poll, Proved!Sequence!poll, Sequence!Watched, Proved!Sequence!Watched,
       Sequence!queue, Proved!Sequence!queue, Sequence!IsScheduled, Proved!Sequence!IsScheduled,
       Sequence!Fails, Proved!Sequence!Fails, Sequence!NoBunch, Proved!Sequence!NoBunch
<1>2. UNCHANGED vars => UNCHANGED Proved!Sequence!vars
  BY DEF Proved!Sequence!queue, Proved!Sequence!poll, Proved!Sequence!vars, vars
<1> QED
  BY <1>1, <1>2 DEF Next

LEMMA SequenceInSequence == Spec => (part = "sequential send" => [](Sequence!InSequence))
<1>1. [Next]_vars => (part = "sequential send" => (part = "sequential send")')
  BY PartStays
<1>2. Proved!Sequence!Spec => []Proved!Sequence!InSequence
  <2>1. Proved!Sequence!SequentialSendConstants
    BY PartsAssumption DEF Sequence!SequentialSendConstants,
         Proved!Sequence!SequentialSendConstants
  <2> QED
    BY <2>1, Proved!MessagesComeInOrder
<1>3. Proved!Sequence!InSequence => Sequence!InSequence
  BY DEF Sequence!InSequence, Proved!Sequence!InSequence, Sequence!Cardinality,
       Proved!Sequence!Cardinality
<1> QED
  BY SequenceBegins, SequenceGoesOn, <1>1, <1>2, <1>3, PTL DEF Spec, Proved!Sequence!Spec

LEMMA PushBegins == Init /\ part = "push triggers" => Proved!Push!Init
<1>1. Push!Init => Proved!Push!Init
  BY DEF Push!Init, Proved!Push!Init, Push!Run, Proved!Push!Run
<1> QED
  BY <1>1 DEF Init

LEMMA PushGoesOn ==
  part = "push triggers" /\ [Next]_vars => [Proved!Push!Next]_(Proved!Push!vars)
<1>1. Push!Next => Proved!Push!Next
  BY DEF Push!Next, Proved!Push!Next, Push!Addresses, Proved!Push!Addresses, Push!OptInOrOut,
       Proved!Push!OptInOrOut, Push!SendJsbox, Proved!Push!SendJsbox,
       Push!SendInboundPushTrigger, Proved!Push!SendInboundPushTrigger, Push!SendToConv,
       Proved!Push!SendToConv, Push!TickerTick, Proved!Push!TickerTick, Push!Ticked,
       Proved!Push!Ticked, Push!Stop, Proved!Push!Stop, Push!Die, Proved!Push!Die, Push!Clock,
       Proved!Push!Clock, Push!Positions, Proved!Push!Positions, Push!Run, Proved!Push!Run,
       Push!Collected, Proved!Push!Collected, Push!Delay, Proved!Push!Delay
<1>2. UNCHANGED vars => UNCHANGED Proved!Push!vars
  BY DEF Proved!Push!vars, vars
<1> QED
  BY <1>1, <1>2 DEF Next

LEMMA PushSendsAreTicked == Spec => (part = "push triggers" => [](Push!SendsAreTicked))
<1>1. [Next]_vars => (part = "push triggers" => (part = "push triggers")')
  BY PartStays
<1>2. Proved!Push!Spec => []Proved!Push!SendsAreTicked
  <2>1. Proved!Push!JsBoxSendConstants
    BY PartsAssumption DEF Push!JsBoxSendConstants, Proved!Push!JsBoxSendConstants
  <2> QED
    BY <2>1, Proved!TriggersAreTicked
<1>3. Proved!Push!SendsAreTicked => Push!SendsAreTicked
  BY DEF Push!SendsAreTicked, Proved!Push!SendsAreTicked
<1> QED
  BY PushBegins, PushGoesOn, <1>1, <1>2, <1>3, PTL DEF Spec, Proved!Push!Spec

(* A bulk send sends each contact one message, a sequential send the       *)
(* messages of its list in their order, and push triggers are held back by *)
(* the ticker (the bulk message and sequential send applications, the      *)
(* command jsbox_send), in the instance of the run.                        *)
THEOREM EverybodyGetsTheirMessages == Spec => []ContactsGetTheirMessages
<1>1. [Next]_vars => (~(part = "bulk send") => ~(part = "bulk send")')
  BY PartStays
<1>2. [Next]_vars => (~(part = "sequential send") => ~(part = "sequential send")')
  BY PartStays
<1>3. [Next]_vars => (~(part = "push triggers") => ~(part = "push triggers")')
  BY PartStays
<1>4. (part = "bulk send" => Bulk!EachContactOnce) /\ (part = "sequential send" => Sequence!InSequence) /\ (part = "push triggers" => Push!SendsAreTicked) => ContactsGetTheirMessages
  BY DEF ContactsGetTheirMessages
<1> QED
  BY <1>1, <1>2, <1>3, <1>4, BulkEachContactOnce, SequenceInSequence, PushSendsAreTicked, PTL DEF Spec

-----------------------------------------------------------------------------
LEMMA MenuBegins == Init /\ part = "menus" => Proved!Menu!Init
<1>1. Menu!Init => Proved!Menu!Init
  BY DEF Menu!Init, Proved!Menu!Init
<1> QED
  BY <1>1 DEF Init

LEMMA MenuGoesOn ==
  part = "menus" /\ [Next]_vars => [Proved!Menu!Next]_(Proved!Menu!vars)
<1>1. Menu!Next => Proved!Menu!Next
  BY DEF Menu!Next, Proved!Menu!Next, Menu!Send, Proved!Menu!Send, Menu!LoadSession,
       Proved!Menu!LoadSession, Menu!CreateSession, Proved!Menu!CreateSession,
       Menu!SessionClose, Proved!Menu!SessionClose, Menu!ClearSession, Proved!Menu!ClearSession,
       Menu!HandleState, Proved!Menu!HandleState, Menu!Publish, Proved!Menu!Publish,
       Menu!HandlerRaises, Proved!Menu!HandlerRaises, Menu!LoadForReply,
       Proved!Menu!LoadForReply, Menu!ForwardReply, Proved!Menu!ForwardReply, Menu!ChangeConfig,
       Proved!Menu!ChangeConfig, Menu!Expire, Proved!Menu!Expire, Menu!WorkerDies,
       Proved!Menu!WorkerDies, Menu!user, Proved!Menu!user, Menu!bounds, Proved!Menu!bounds,
       Menu!Range, Proved!Menu!Range, Menu!Handled, Proved!Menu!Handled, Menu!Chosen,
       Proved!Menu!Chosen, Menu!Fails, Proved!Menu!Fails, Menu!inbound, Proved!Menu!inbound,
       Menu!StateStart, Proved!Menu!StateStart, Menu!StateSelect, Proved!Menu!StateSelect,
       Menu!StateSelected, Proved!Menu!StateSelected, Menu!StateBadInput,
       Proved!Menu!StateBadInput, Menu!Respond, Proved!Menu!Respond, Menu!Offered,
       Proved!Menu!Offered, Menu!BadInput, Proved!Menu!BadInput, Menu!Ended, Proved!Menu!Ended
<1>2. UNCHANGED vars => UNCHANGED Proved!Menu!vars
  BY DEF Proved!Menu!inbound, Proved!Menu!user, Proved!Menu!bounds, Proved!Menu!vars, vars
<1> QED
  BY <1>1, <1>2 DEF Next

LEMMA MenuMenuMeansWhatItShowed == Spec => (part = "menus" => [](Menu!MenuMeansWhatItShowed))
<1>1. [Next]_vars => (part = "menus" => (part = "menus")')
  BY PartStays
<1>2. Proved!Menu!Spec => []Proved!Menu!MenuMeansWhatItShowed
  <2>1. Proved!Menu!AppMultiplexerConstants
    BY PartsAssumption DEF Menu!AppMultiplexerConstants, Proved!Menu!AppMultiplexerConstants,
         Menu!IsInjective, Proved!Menu!IsInjective, Menu!MenuEndpoints,
         Proved!Menu!MenuEndpoints, Menu!SessionState, Proved!Menu!SessionState, Menu!Range,
         Proved!Menu!Range
  <2> QED
    BY <2>1, Proved!MenusMeanWhatTheyShowed
<1>3. Proved!Menu!MenuMeansWhatItShowed => Menu!MenuMeansWhatItShowed
  BY DEF Menu!MenuMeansWhatItShowed, Proved!Menu!MenuMeansWhatItShowed
<1> QED
  BY MenuBegins, MenuGoesOn, <1>1, <1>2, <1>3, PTL DEF Spec, Proved!Menu!Spec

(* A message goes to the application that the user chose from the menu     *)
(* that was shown (the application multiplexer), in the instance of the    *)
(* run.                                                                    *)
THEOREM ChoicesMeanWhatTheyShowed == Spec => []MenuMeansWhatItShowed
<1>1. [Next]_vars => (~(part = "menus") => ~(part = "menus")')
  BY PartStays
<1>2. (part = "menus" => Menu!MenuMeansWhatItShowed) => MenuMeansWhatItShowed
  BY DEF MenuMeansWhatItShowed
<1> QED
  BY <1>1, <1>2, MenuMenuMeansWhatItShowed, PTL DEF Spec

-----------------------------------------------------------------------------
LEMMA HttpBegins == Init /\ part = "requests" => Proved!Http!Init
<1>1. Http!Init => Proved!Http!Init
  BY DEF Http!Init, Proved!Http!Init
<1> QED
  BY <1>1 DEF Init

LEMMA HttpGoesOn ==
  part = "requests" /\ [Next]_vars => [Proved!Http!Next]_(Proved!Http!vars)
<1>1. Http!Next => Proved!Http!Next
  BY DEF Http!Next, Proved!Http!Next, Http!Arrive, Proved!Http!Arrive, Http!RequestAvatarId,
       Proved!Http!RequestAvatarId, Http!IsAllowed, Proved!Http!IsAllowed, Http!TrackRequest,
       Proved!Http!TrackRequest, Http!HandlePut, Proved!Http!HandlePut, Http!Handle,
       Proved!Http!Handle, Http!SuccessfulSend, Proved!Http!SuccessfulSend, Http!HandleMetrics,
       Proved!Http!HandleMetrics, Http!ConnectionLost, Proved!Http!ConnectionLost, Http!OptOut,
       Proved!Http!OptOut, Http!WorkerDies, Proved!Http!WorkerDies, Http!Request,
       Proved!Http!Request, Http!settings, Proved!Http!settings, Http!limiter,
       Proved!Http!limiter, Http!At, Proved!Http!At, Http!Goes, Proved!Http!Goes, Http!Answer,
       Proved!Http!Answer, Http!Start, Proved!Http!Start, Http!Finally, Proved!Http!Finally,
       Http!Stop, Proved!Http!Stop, Http!Released, Proved!Http!Released, Http!Moved,
       Proved!Http!Moved, Http!CheckConcurrent, Proved!Http!CheckConcurrent,
       Http!CleanupLimiter, Proved!Http!CleanupLimiter, Http!Resume, Proved!Http!Resume,
       Http!Woken, Proved!Http!Woken, Http!Empty, Proved!Http!Empty
<1>2. UNCHANGED vars => UNCHANGED Proved!Http!vars
  BY DEF Proved!Http!settings, Proved!Http!limiter, Proved!Http!vars, vars
<1> QED
  BY <1>1, <1>2 DEF Next

LEMMA HttpTurnsAreTaken == Spec => (part = "requests" => [](Http!TurnsAreTaken))
<1>1. [Next]_vars => (part = "requests" => (part = "requests")')
  BY PartStays
<1>2. Proved!Http!Spec => []Proved!Http!TurnsAreTaken
  <2>1. Proved!Http!HttpRequestsConstants
    BY PartsAssumption DEF Http!HttpRequestsConstants, Proved!Http!HttpRequestsConstants,
         Http!IsFiniteSet, Proved!Http!IsFiniteSet, Http!RequestState, Proved!Http!RequestState
  <2> QED
    BY <2>1, Proved!TurnsAreTakenAndGivenBack
<1>3. Proved!Http!TurnsAreTaken => Http!TurnsAreTaken
  BY DEF Http!TurnsAreTaken, Proved!Http!TurnsAreTaken, Http!Cardinality,
       Proved!Http!Cardinality, Http!Handled, Proved!Http!Handled, Http!Waiting,
       Proved!Http!Waiting, Http!At, Proved!Http!At
<1> QED
  BY HttpBegins, HttpGoesOn, <1>1, <1>2, <1>3, PTL DEF Spec, Proved!Http!Spec

LEMMA StreamsBegins == Init /\ part = "streams" => Proved!Streams!Init
<1>1. Streams!Init => Proved!Streams!Init
  BY DEF Streams!Init, Proved!Streams!Init
<1> QED
  BY <1>1 DEF Init

LEMMA StreamsGoesOn ==
  part = "streams" /\ [Next]_vars => [Proved!Streams!Next]_(Proved!Streams!vars)
<1>1. Streams!Next => Proved!Streams!Next
  BY DEF Streams!Next, Proved!Streams!Next, Streams!Ignore, Proved!Streams!Ignore, Streams!Push,
       Proved!Streams!Push, Streams!SchedulePushRetry, Proved!Streams!SchedulePushRetry,
       Streams!Publish, Proved!Streams!Publish, Streams!QueueInBacklog,
       Proved!Streams!QueueInBacklog, Streams!Trim, Proved!Streams!Trim, Streams!RegisterClient,
       Proved!Streams!RegisterClient, Streams!FlushBacklog, Proved!Streams!FlushBacklog,
       Streams!Flushed, Proved!Streams!Flushed, Streams!Leave, Proved!Streams!Leave,
       Streams!TeardownStream, Proved!Streams!TeardownStream, Streams!WorkerDies,
       Proved!Streams!WorkerDies, Streams!settings, Proved!Streams!settings, Streams!Write,
       Proved!Streams!Write, Streams!Pop, Proved!Streams!Pop, Streams!Again,
       Proved!Streams!Again
<1>2. UNCHANGED vars => UNCHANGED Proved!Streams!vars
  BY DEF Proved!Streams!settings, Proved!Streams!vars, vars
<1> QED
  BY <1>1, <1>2 DEF Next

LEMMA StreamsBacklogReachesClients == Spec => (part = "streams" => [](Streams!BacklogReachesClients))
<1>1. [Next]_vars => (part = "streams" => (part = "streams")')
  BY PartStays
<1>2. Proved!Streams!Spec => []Proved!Streams!BacklogReachesClients
  <2>1. Proved!Streams!HttpStreamsConstants
    BY PartsAssumption DEF Streams!HttpStreamsConstants, Proved!Streams!HttpStreamsConstants
  <2> QED
    BY <2>1, Proved!NothingWaitsBehindClients
<1>3. Proved!Streams!BacklogReachesClients => Streams!BacklogReachesClients
  BY DEF Streams!BacklogReachesClients, Proved!Streams!BacklogReachesClients
<1> QED
  BY StreamsBegins, StreamsGoesOn, <1>1, <1>2, <1>3, PTL DEF Spec, Proved!Streams!Spec

(* Turns at the HTTP API are taken and given back, and the backlog reaches *)
(* the client that is there (ConcurrencyLimiter, StreamingClientManager),  *)
(* in the instance of the run.                                             *)
THEOREM HttpClientsAreAllServed == Spec => []HttpClientsAreServed
<1>1. [Next]_vars => (~(part = "requests") => ~(part = "requests")')
  BY PartStays
<1>2. [Next]_vars => (~(part = "streams") => ~(part = "streams")')
  BY PartStays
<1>3. (part = "requests" => Http!TurnsAreTaken) /\ (part = "streams" => Streams!BacklogReachesClients) => HttpClientsAreServed
  BY DEF HttpClientsAreServed
<1> QED
  BY <1>1, <1>2, <1>3, HttpTurnsAreTaken, StreamsBacklogReachesClients, PTL DEF Spec

-----------------------------------------------------------------------------
LEMMA MeteringBegins == Init /\ part = "metrics" => Proved!Metering!Init
<1>1. Metering!Init => Proved!Metering!Init
  BY DEF Metering!Init, Proved!Metering!Init
<1> QED
  BY <1>1 DEF Init

LEMMA MeteringGoesOn ==
  part = "metrics" /\ [Next]_vars => [Proved!Metering!Next]_(Proved!Metering!vars)
<1>1. Metering!Next => Proved!Metering!Next
  BY DEF Metering!Next, Proved!Metering!Next, Metering!LoopStarts, Proved!Metering!LoopStarts,
       Metering!FindAccountKeys, Proved!Metering!FindAccountKeys, Metering!FindConversations,
       Proved!Metering!FindConversations, Metering!FillBucket, Proved!Metering!FillBucket,
       Metering!Filled, Proved!Metering!Filled, Metering!ProcessBucket,
       Proved!Metering!ProcessBucket, Metering!SendMetricsCommand,
       Proved!Metering!SendMetricsCommand, Metering!IncrementBucket,
       Proved!Metering!IncrementBucket, Metering!Granularity, Proved!Metering!Granularity,
       Metering!LoopRaises, Proved!Metering!LoopRaises, Metering!Restart,
       Proved!Metering!Restart, Metering!CollectMetrics, Proved!Metering!CollectMetrics,
       Metering!Publish, Proved!Metering!Publish, Metering!CollectRaises,
       Proved!Metering!CollectRaises, Metering!ApplicationDies, Proved!Metering!ApplicationDies,
       Metering!StartOrStop, Proved!Metering!StartOrStop, Metering!ManageMetrics,
       Proved!Metering!ManageMetrics, Metering!Enabled, Proved!Metering!Enabled,
       Metering!application, Proved!Metering!application, Metering!world, Proved!Metering!world,
       Metering!SetToSeq, Proved!Metering!SetToSeq, Metering!Emptied, Proved!Metering!Emptied,
       Metering!SetupWorker, Proved!Metering!SetupWorker, Metering!loop, Proved!Metering!loop,
       Metering!Toggled, Proved!Metering!Toggled, Metering!Changes, Proved!Metering!Changes,
       Metering!Cardinality, Proved!Metering!Cardinality, Metering!IsInjective,
       Proved!Metering!IsInjective
<1>2. UNCHANGED vars => UNCHANGED Proved!Metering!vars
  BY DEF Proved!Metering!loop, Proved!Metering!application, Proved!Metering!world,
       Proved!Metering!vars, vars
<1> QED
  BY <1>1, <1>2 DEF Next

LEMMA MeteringCollectedOncePerCycle == Spec => (part = "metrics" => [](Metering!CollectedOncePerCycle))
<1>1. [Next]_vars => (part = "metrics" => (part = "metrics")')
  BY PartStays
<1>2. Proved!Metering!Spec => []Proved!Metering!CollectedOncePerCycle
  <2>1. Proved!Metering!MetricsConstants
    BY PartsAssumption DEF Metering!MetricsConstants, Proved!Metering!MetricsConstants,
         Metering!IsFiniteSet, Proved!Metering!IsFiniteSet
  <2> QED
    BY <2>1, Proved!CollectedOnce
<1>3. Proved!Metering!CollectedOncePerCycle => Metering!CollectedOncePerCycle
  BY DEF Metering!CollectedOncePerCycle, Proved!Metering!CollectedOncePerCycle
<1> QED
  BY MeteringBegins, MeteringGoesOn, <1>1, <1>2, <1>3, PTL DEF Spec, Proved!Metering!Spec

LEMMA RecentBegins == Init /\ part = "recent conversations" => Proved!Recent!Init
<1>1. Recent!Init => Proved!Recent!Init
  BY DEF Recent!Init, Proved!Recent!Init
<1> QED
  BY <1>1 DEF Init

LEMMA RecentGoesOn ==
  part = "recent conversations" /\ [Next]_vars => [Proved!Recent!Next]_(Proved!Recent!vars)
<1>1. Recent!Next => Proved!Recent!Next
  BY DEF Recent!Next, Proved!Recent!Next, Recent!ResetLocalRecentConvs,
       Proved!Recent!ResetLocalRecentConvs, Recent!RecordConvSeen, Proved!Recent!RecordConvSeen,
       Recent!Rename, Proved!Recent!Rename, Recent!Members, Proved!Recent!Members,
       Recent!Delete, Proved!Recent!Delete, Recent!Close, Proved!Recent!Close, Recent!TaskDies,
       Proved!Recent!TaskDies, Recent!PublishConversationMetrics,
       Proved!Recent!PublishConversationMetrics, Recent!OldGone, Proved!Recent!OldGone,
       Recent!Fails, Proved!Recent!Fails, Recent!Details, Proved!Recent!Details
<1>2. UNCHANGED vars => UNCHANGED Proved!Recent!vars
  BY DEF Proved!Recent!vars, vars
<1> QED
  BY <1>1, <1>2 DEF Next

LEMMA RecentNotedIsPublished == Spec => (part = "recent conversations" => [](Recent!NotedIsPublished))
<1>1. [Next]_vars => (part = "recent conversations" => (part = "recent conversations")')
  BY PartStays
<1>2. Proved!Recent!Spec => []Proved!Recent!NotedIsPublished
  BY Proved!NothingNotedIsLost
<1>3. Proved!Recent!NotedIsPublished => Recent!NotedIsPublished
  BY DEF Recent!NotedIsPublished, Proved!Recent!NotedIsPublished, Recent!Details,
       Proved!Recent!Details
<1> QED
  BY RecentBegins, RecentGoesOn, <1>1, <1>2, <1>3, PTL DEF Spec, Proved!Recent!Spec

LEMMA SessionsBegins == Init /\ part = "session metrics" => Proved!Sessions!Init
<1>1. Sessions!Init => Proved!Sessions!Init
  BY DEF Sessions!Init, Proved!Sessions!Init, Sessions!Names, Proved!Sessions!Names
<1> QED
  BY <1>1 DEF Init

LEMMA SessionsGoesOn ==
  part = "session metrics" /\ [Next]_vars => [Proved!Sessions!Next]_(Proved!Sessions!vars)
<1>1. Sessions!Next => Proved!Sessions!Next
  BY DEF Sessions!Next, Proved!Sessions!Next, Sessions!HandleMessage,
       Proved!Sessions!HandleMessage, Sessions!HandleOther, Proved!Sessions!HandleOther,
       Sessions!Tick, Proved!Sessions!Tick, Sessions!GetName, Proved!Sessions!GetName,
       Sessions!SessionAddr, Proved!Sessions!SessionAddr, Sessions!GetSessionDt,
       Proved!Sessions!GetSessionDt, Sessions!GetReplyDt, Proved!Sessions!GetReplyDt,
       Sessions!Session, Proved!Sessions!Session, Sessions!IsMetricConnector,
       Proved!Sessions!IsMetricConnector, Sessions!SetSessionStart,
       Proved!Sessions!SetSessionStart, Sessions!ResponseTime, Proved!Sessions!ResponseTime,
       Sessions!Prefixes, Proved!Sessions!Prefixes, Sessions!Metrics, Proved!Sessions!Metrics,
       Sessions!settings, Proved!Sessions!settings, Sessions!Metric, Proved!Sessions!Metric,
       Sessions!Names, Proved!Sessions!Names, Sessions!TagpoolPrefixes,
       Proved!Sessions!TagpoolPrefixes, Sessions!Provider, Proved!Sessions!Provider,
       Sessions!SessionTime, Proved!Sessions!SessionTime, Sessions!RoundedUp,
       Proved!Sessions!RoundedUp
<1>2. UNCHANGED vars => UNCHANGED Proved!Sessions!vars
  BY DEF Proved!Sessions!settings, Proved!Sessions!vars, vars
<1> QED
  BY <1>1, <1>2 DEF Next

LEMMA SessionsSessionTimes == Spec => (part = "session metrics" => [](Sessions!SessionTimes))
<1>1. [Next]_vars => (part = "session metrics" => (part = "session metrics")')
  BY PartStays
<1>2. Proved!Sessions!Spec => []Proved!Sessions!SessionTimes
  <2>1. Proved!Sessions!SessionMetricsConstants
    BY PartsAssumption DEF Sessions!SessionMetricsConstants,
         Proved!Sessions!SessionMetricsConstants, Sessions!SessionState,
         Proved!Sessions!SessionState, Sessions!ClosedState, Proved!Sessions!ClosedState
  <2> QED
    BY <2>1, Proved!TimesAreTheirOwn
<1>3. Proved!Sessions!SessionTimes => Sessions!SessionTimes
  BY DEF Sessions!SessionTimes, Proved!Sessions!SessionTimes, Sessions!Durations,
       Proved!Sessions!Durations, Sessions!Length, Proved!Sessions!Length, Sessions!Counted,
       Proved!Sessions!Counted, Sessions!Metric, Proved!Sessions!Metric
<1> QED
  BY SessionsBegins, SessionsGoesOn, <1>1, <1>2, <1>3, PTL DEF Spec, Proved!Sessions!Spec

(* A conversation is collected once in a cycle, what was noted is          *)
(* published, and the time of a session is its own (the metrics worker,    *)
(* the recent conversations and MetricsMiddleware), in the instance of the *)
(* run.                                                                    *)
THEOREM MetricsAreAllCollected == Spec => []MetricsAreCollected
<1>1. [Next]_vars => (~(part = "metrics") => ~(part = "metrics")')
  BY PartStays
<1>2. [Next]_vars => (~(part = "recent conversations") => ~(part = "recent conversations")')
  BY PartStays
<1>3. [Next]_vars => (~(part = "session metrics") => ~(part = "session metrics")')
  BY PartStays
<1>4. (part = "metrics" => Metering!CollectedOncePerCycle) /\ (part = "recent conversations" => Recent!NotedIsPublished) /\ (part = "session metrics" => Sessions!SessionTimes) => MetricsAreCollected
  BY DEF MetricsAreCollected
<1> QED
  BY <1>1, <1>2, <1>3, <1>4, MeteringCollectedOncePerCycle, RecentNotedIsPublished, SessionsSessionTimes, PTL DEF Spec

-----------------------------------------------------------------------------
LEMMA ScriptsBegins == Init /\ part = "scripts" => Proved!Scripts!Init
<1>1. Scripts!Init => Proved!Scripts!Init
  BY DEF Scripts!Init, Proved!Scripts!Init, Scripts!Saved, Proved!Scripts!Saved,
       Scripts!ConfiguredEndpoints, Proved!Scripts!ConfiguredEndpoints
<1> QED
  BY <1>1 DEF Init

LEMMA ScriptsGoesOn ==
  part = "scripts" /\ [Next]_vars => [Proved!Scripts!Next]_(Proved!Scripts!vars)
<1>1. Scripts!Next => Proved!Scripts!Next
  BY DEF Scripts!Next, Proved!Scripts!Next, Scripts!SaveConversation,
       Proved!Scripts!SaveConversation, Scripts!ReceiveMessage, Proved!Scripts!ReceiveMessage,
       Scripts!ReceiveEvent, Proved!Scripts!ReceiveEvent, Scripts!Finish, Proved!Scripts!Finish,
       Scripts!SendInboundPushTrigger, Proved!Scripts!SendInboundPushTrigger,
       Scripts!HandleReply, Proved!Scripts!HandleReply, Scripts!SendToEndpoint,
       Proved!Scripts!SendToEndpoint, Scripts!QueryMessageStore,
       Proved!Scripts!QueryMessageStore, Scripts!LPush, Proved!Scripts!LPush, Scripts!LTrim,
       Proved!Scripts!LTrim, Scripts!SendJsbox, Proved!Scripts!SendJsbox, Scripts!WorkerDies,
       Proved!Scripts!WorkerDies, Scripts!Saved, Proved!Scripts!Saved,
       Scripts!ProcessMessageInSandbox, Proved!Scripts!ProcessMessageInSandbox, Scripts!bounds,
       Proved!Scripts!bounds, Scripts!JsConfig, Proved!Scripts!JsConfig, Scripts!Idle,
       Proved!Scripts!Idle, Scripts!Run, Proved!Scripts!Run, Scripts!Command,
       Proved!Scripts!Command, Scripts!LegalMetadata, Proved!Scripts!LegalMetadata,
       Scripts!WithMeta, Proved!Scripts!WithMeta, Scripts!IsInboundPushTrigger,
       Proved!Scripts!IsInboundPushTrigger, Scripts!Sent, Proved!Scripts!Sent,
       Scripts!ConversationOwner, Proved!Scripts!ConversationOwner, Scripts!ConfiguredEndpoints,
       Proved!Scripts!ConfiguredEndpoints
<1>2. UNCHANGED vars => UNCHANGED Proved!Scripts!vars
  BY DEF Proved!Scripts!bounds, Proved!Scripts!vars, vars
<1> QED
  BY <1>1, <1>2 DEF Next

LEMMA ScriptsSandboxesAreConfined == Spec => (part = "scripts" => [](Scripts!SandboxesAreConfined))
<1>1. [Next]_vars => (part = "scripts" => (part = "scripts")')
  BY PartStays
<1>2. Proved!Scripts!Spec => []Proved!Scripts!SandboxesAreConfined
  <2>1. Proved!Scripts!JsBoxConstants
    BY PartsAssumption DEF Scripts!JsBoxConstants, Proved!Scripts!JsBoxConstants,
         Scripts!IsFiniteSet, Proved!Scripts!IsFiniteSet
  <2> QED
    BY <2>1, Proved!SandboxesStayConfined
<1>3. Proved!Scripts!SandboxesAreConfined => Scripts!SandboxesAreConfined
  BY DEF Scripts!SandboxesAreConfined, Proved!Scripts!SandboxesAreConfined
<1> QED
  BY ScriptsBegins, ScriptsGoesOn, <1>1, <1>2, <1>3, PTL DEF Spec, Proved!Scripts!Spec

LEMMA ScriptsPushesOpenSessions == Spec => (part = "scripts" => [](Scripts!PushesOpenSessions))
<1>1. [Next]_vars => (part = "scripts" => (part = "scripts")')
  BY PartStays
<1>2. Proved!Scripts!Spec => []Proved!Scripts!PushesOpenSessions
  <2>1. Proved!Scripts!JsBoxConstants
    BY PartsAssumption DEF Scripts!JsBoxConstants, Proved!Scripts!JsBoxConstants,
         Scripts!IsFiniteSet, Proved!Scripts!IsFiniteSet
  <2> QED
    BY <2>1, Proved!TriggersOpenSessions
<1>3. Proved!Scripts!PushesOpenSessions => Scripts!PushesOpenSessions
  BY DEF Scripts!PushesOpenSessions, Proved!Scripts!PushesOpenSessions, Scripts!JsConfig,
       Proved!Scripts!JsConfig
<1> QED
  BY ScriptsBegins, ScriptsGoesOn, <1>1, <1>2, <1>3, PTL DEF Spec, Proved!Scripts!Spec

LEMMA ScriptsLatestLogsKept == Spec => (part = "scripts" => [](Scripts!LatestLogsKept))
<1>1. [Next]_vars => (part = "scripts" => (part = "scripts")')
  BY PartStays
<1>2. Proved!Scripts!Spec => []Proved!Scripts!LatestLogsKept
  <2>1. Proved!Scripts!JsBoxConstants
    BY PartsAssumption DEF Scripts!JsBoxConstants, Proved!Scripts!JsBoxConstants,
         Scripts!IsFiniteSet, Proved!Scripts!IsFiniteSet
  <2> QED
    BY <2>1, Proved!LogsAreLatest
<1>3. Proved!Scripts!LatestLogsKept => Scripts!LatestLogsKept
  BY DEF Scripts!LatestLogsKept, Proved!Scripts!LatestLogsKept, Scripts!Cardinality,
       Proved!Scripts!Cardinality
<1> QED
  BY ScriptsBegins, ScriptsGoesOn, <1>1, <1>2, <1>3, PTL DEF Spec, Proved!Scripts!Spec

(* What scripts send and are told is of their conversation and account, a  *)
(* push trigger opens one session with a contact, and the log has the      *)
(* latest entries (the jsbox application and its resources), in the        *)
(* instance of the run.                                                    *)
THEOREM ScriptsStayConfined == Spec => []ScriptsAreConfined
<1>1. [Next]_vars => (~(part = "scripts") => ~(part = "scripts")')
  BY PartStays
<1>2. (part = "scripts" => Scripts!SandboxesAreConfined /\ Scripts!PushesOpenSessions /\ Scripts!LatestLogsKept) => ScriptsAreConfined
  BY DEF ScriptsAreConfined
<1> QED
  BY <1>1, <1>2, ScriptsSandboxesAreConfined, ScriptsPushesOpenSessions, ScriptsLatestLogsKept, PTL DEF Spec
-----------------------------------------------------------------------------
\* A step of the part contacts, as the run makes it, is one that the theorem is about.
LEMMA PeopleKeepsContacts ==
  Spec => (part = "contacts" => [][People!MakesOnlyTheMissing /\ People!ExistingIsTruth]_(Proved!People!vars))
<1>1. [Next]_vars => (part = "contacts" => (part = "contacts")')
  BY PartStays
<1>2. Proved!People!Spec =>
        [][Proved!People!MakesOnlyTheMissing /\ Proved!People!ExistingIsTruth]_(Proved!People!vars)
  <2>1. Proved!People!ContactsConstants
    BY PartsAssumption DEF People!ContactsConstants, Proved!People!ContactsConstants,
         People!Deliveries, Proved!People!Deliveries, People!Addresses, Proved!People!Addresses,
         People!IsFiniteSet, Proved!People!IsFiniteSet
  <2>2. \A s \in OnePhoneOneChat : ~s.addr.resource
    BY DEF OnePhoneOneChat, From
  <2> QED
    BY <2>1, <2>2, Proved!OnlyTheMissingIsMade
<1>3. Proved!People!MakesOnlyTheMissing /\ Proved!People!ExistingIsTruth =>
        People!MakesOnlyTheMissing /\ People!ExistingIsTruth
  BY DEF People!MakesOnlyTheMissing, Proved!People!MakesOnlyTheMissing, People!ExistingIsTruth,
       Proved!People!ExistingIsTruth, People!LookUps, Proved!People!LookUps, People!AddrOf,
       Proved!People!AddrOf, People!Known, Proved!People!Known, People!Field,
       Proved!People!Field
<1> QED
  BY PeopleBegins, PeopleGoesOn, <1>1, <1>2, <1>3, PTL DEF Spec, Proved!People!Spec

(* Jobs in turn, a look-up makes a contact or a group only if there is     *)
(* none, and an import for which existing data is the truth loses none of  *)
(* it (the contact store, the resources of the sandbox, the tasks of       *)
(* imports), in the instance of the run.                                   *)
THEOREM TruthsAreKept == Spec => LookUpsAndImportsKeepContacts
<1>1. [Next]_vars => (~(part = "contacts") => ~(part = "contacts")')
  BY PartStays
<1>2. [Next]_vars /\ [People!MakesOnlyTheMissing /\ People!ExistingIsTruth]_(Proved!People!vars) =>
        [part = "contacts" => People!MakesOnlyTheMissing /\ People!ExistingIsTruth]_vars
  <2>1. UNCHANGED Proved!People!vars => People!MakesOnlyTheMissing /\ People!ExistingIsTruth
    BY DEF Proved!People!vars, People!MakesOnlyTheMissing, People!ExistingIsTruth
  <2> QED
    BY <2>1
<1>3. ~(part = "contacts") => [part = "contacts" => People!MakesOnlyTheMissing /\ People!ExistingIsTruth]_vars
  OBVIOUS
<1> QED
  BY <1>1, <1>2, <1>3, PeopleKeepsContacts, PTL DEF Spec, LookUpsAndImportsKeepContacts
=============================================================================
