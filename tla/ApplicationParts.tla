-------------------------- MODULE ApplicationParts ---------------------------
(***************************************************************************)
(* What is proved of the parts that MCApplications puts together, each for *)
(* every value of its constants. The parts share no state, and no theorem  *)
(* is about two of them: a name that two of them have is that of the       *)
(* first, and has the name of the part before it for the others, unless it *)
(* means the same.                                                         *)
(***************************************************************************)
EXTENDS Naturals, Integers, Sequences, FiniteSets, FiniteSetTheorems, TLAPS

CONSTANTS
  Convs, Workers, Tasks, MaxTasks, MaxFaults, Menus, MaxMessages, MaxChanges, MenuMaxFaults,
  Nothing, Requests, HttpWorkers, Limits, WorkerLimits, MaxLosses, MeteringConvs, Accounts,
  OwnerOf, NumBuckets, BucketOf, MaxCommands, MeteringMaxChanges, MaxFailures, Users, Services,
  Connectors, Configs, MaxSessionTimes, MaxNow, Messages, Clients, MAX_BACKLOG_SIZE, MaxDeaths,
  Sandboxes, Endpoints, Settings, Own, InAccount, Foreign, MetadataKeys,
  allowed_helper_metadata, Contacts, max_logs_per_conversation, MaxRuns, MaxSaves, NumContacts,
  Addresses, AddressOf, WindowSize, MaxOptChanges, None, SequenceContacts, NumMessages, Dates,
  SequenceMaxCommands, PushContacts, MinDt, PushMaxNow, PushMaxChanges, Keys, Groups, Jobs,
  Labels, Values, GroupNames, Senders, Faults, MaxStarted, MaxRacing, MaxRows, ExportLimit,
  Racing, Unknown

VARIABLES
  local_recent_convs, recent, old, task, started, faults, owed, excused, entries, session, msg,
  at, response, reply, shown, chosen, last, changes, messages, menu_faults, menu_excused, limit,
  worker_limit, req, closed, tracked, count, concurrents, waiters, limiters, opted_out,
  http_excused, losses, running, disabled, metering_at, current_bucket, buckets, named,
  accounts, keys, commands, collecting, in_progress, metering_changes, failures, sent, steady,
  raised, ignored, config, max_session_time, now, timestamps, watched, sessions_session, fired,
  sessions_last, push_url, http_retry_api, message, backlog, clients, client, popped, deaths,
  conversation, api, push, logs, trimming, answer, scripts_sent, triggered, logged, runs,
  scripts_commands, saves, scripts_deaths, dedupe, command, bulk_at, key, to_addr, seen,
  interrupted, progress, added, window, flight, sending, sent_ids, bulk_opted_out, bulk_changes,
  bulk_sent, reached, resent, repeated, dropped, touched, died, sequence_now, last_poll_time,
  status, scheduled, sequence_commands, asked, sequence_command, sequence_at, interval, bunch,
  saving, index, edit, received, sequence_faults, sequence_excused, push_now, push_opted_out,
  run, push_last, wake, excluded, reported, push_sent, earlier, push_changes, contacts, groups,
  opt_outs, used, job, together, people_started, undone

Recent == INSTANCE RecentConversations
Menu == INSTANCE AppMultiplexer WITH
  MaxFaults <- MenuMaxFaults, faults <- menu_faults, excused <- menu_excused

Http == INSTANCE HttpRequests WITH
  Workers <- HttpWorkers, excused <- http_excused

Metering == INSTANCE Metrics WITH
  Convs <- MeteringConvs, MaxChanges <- MeteringMaxChanges, at <- metering_at,
  changes <- metering_changes

Sessions == INSTANCE SessionMetrics WITH
  session <- sessions_session, last <- sessions_last

Streams == INSTANCE HttpStreams
Scripts == INSTANCE JsBox WITH
  sent <- scripts_sent, commands <- scripts_commands, deaths <- scripts_deaths

Bulk == INSTANCE BulkSend WITH
  at <- bulk_at, opted_out <- bulk_opted_out, changes <- bulk_changes, sent <- bulk_sent

Sequence == INSTANCE SequentialSend WITH
  Contacts <- SequenceContacts, MaxCommands <- SequenceMaxCommands, now <- sequence_now,
  commands <- sequence_commands, command <- sequence_command, at <- sequence_at,
  faults <- sequence_faults, excused <- sequence_excused

Push == INSTANCE JsBoxSend WITH
  Contacts <- PushContacts, MaxNow <- PushMaxNow, MaxChanges <- PushMaxChanges, now <- push_now,
  opted_out <- push_opted_out, last <- push_last, sent <- push_sent, changes <- push_changes

People == INSTANCE Contacts WITH
  started <- people_started

-----------------------------------------------------------------------------
(* Lists that have nothing twice.                                          *)
Elements(s) == {s[i] : i \in 1..Len(s)}
IsOnce(s) == \A i, j \in 1..Len(s) : s[i] = s[j] => i = j

LEMMA TailIs ==
  ASSUME NEW R, NEW s \in Seq(R), s # <<>>, IsOnce(s)
  PROVE  /\ Tail(s) \in Seq(R) /\ IsOnce(Tail(s)) /\ Len(Tail(s)) = Len(s) - 1
         /\ s[1] \in Elements(s) /\ s[1] \in R /\ Elements(Tail(s)) = Elements(s) \ {s[1]}
<1>1. Len(s) \in Nat /\ Len(s) >= 1 /\ s[1] \in R
  OBVIOUS
<1>2. /\ Tail(s) \in Seq(R) /\ Len(Tail(s)) = Len(s) - 1
      /\ \A i \in 1..(Len(s) - 1) : Tail(s)[i] = s[i + 1]
  BY <1>1
<1>3. IsOnce(Tail(s))
  BY <1>1, <1>2 DEF IsOnce
<1>4. ASSUME NEW x \in Elements(s) \ {s[1]} PROVE x \in Elements(Tail(s))
  <2>1. PICK i \in 1..Len(s) : x = s[i]
    BY <1>4 DEF Elements
  <2>2. i - 1 \in 1..Len(Tail(s)) /\ Tail(s)[i - 1] = x
    BY <1>1, <1>2, <1>4, <2>1
  <2> QED
    BY <2>2 DEF Elements
<1>5. ASSUME NEW x \in Elements(Tail(s)) PROVE x \in Elements(s) \ {s[1]}
  <2>1. PICK i \in 1..Len(Tail(s)) : x = Tail(s)[i]
    BY <1>5 DEF Elements
  <2>2. i + 1 \in 1..Len(s) /\ x = s[i + 1] /\ 1 \in 1..Len(s) /\ i + 1 # 1
    BY <1>1, <1>2, <2>1
  <2>3. x # s[1]
    BY <2>2 DEF IsOnce
  <2> QED
    BY <2>2, <2>3 DEF Elements
<1>6. s[1] \in Elements(s)
  BY <1>1 DEF Elements
<1> QED
  BY <1>1, <1>2, <1>3, <1>4, <1>5, <1>6

LEMMA AppendIs ==
  ASSUME NEW R, NEW s \in Seq(R), NEW r \in R, r \notin Elements(s), IsOnce(s)
  PROVE  /\ Append(s, r) \in Seq(R) /\ IsOnce(Append(s, r)) /\ Append(s, r) # <<>>
         /\ Len(Append(s, r)) = Len(s) + 1 /\ Elements(Append(s, r)) = Elements(s) \union {r}
<1> DEFINE t == Append(s, r)
<1>1. /\ t \in Seq(R) /\ Len(t) = Len(s) + 1 /\ Len(s) \in Nat
      /\ \A i \in 1..Len(s) : t[i] = s[i]
      /\ t[Len(s) + 1] = r
  OBVIOUS
<1> HIDE DEF t
<1>2. \A i \in 1..Len(s) : s[i] # r
  BY DEF Elements
<1>3. \A i \in 1..Len(t) : i \in 1..Len(s) \/ i = Len(s) + 1
  BY <1>1
<1>4. IsOnce(t)
  BY <1>1, <1>2, <1>3 DEF IsOnce
<1>5. Elements(t) = Elements(s) \union {r}
  <2>1. \A i \in 1..Len(s) : i \in 1..Len(t)
    BY <1>1
  <2>2. Len(s) + 1 \in 1..Len(t)
    BY <1>1
  <2> QED
    BY <1>1, <1>3, <2>1, <2>2 DEF Elements
<1>6. t # <<>>
  BY <1>1
<1> QED
  BY <1>1, <1>4, <1>5, <1>6 DEF t

-----------------------------------------------------------------------------
(* The conversations that are noted as recent, for the metrics             *)
(* (RecentConversations): a task moves what it takes from one place to the *)
(* next, so the proof follows where the conversations are at each of its   *)
(* steps.                                                                  *)
(***************************************************************************)
(* What was noted is published, for any number of conversations, workers   *)
(* and tasks, until a task dies or two take the set at once.  A task moves *)
(* what it takes from one place to the next, so the proof follows where    *)
(* the conversations are at each of its steps.                             *)
(***************************************************************************)

TaskState == [at : {"idle", "renamed", "members", "publish"}, details : SUBSET Convs]

TypeInv ==
  /\ local_recent_convs \in [Workers -> SUBSET Convs]
  /\ task \in [Tasks -> TaskState]
  /\ recent \in SUBSET Convs /\ old \in SUBSET Convs /\ owed \in SUBSET Convs
  /\ excused \in BOOLEAN

\* The tasks for which the renamed set stands.
Taking == {t \in Tasks : task[t].at \in {"renamed", "members"}}

\* The renamed set is one task's, which has all of it before it is deleted.
TakenInv ==
  /\ \A t, u \in Taking : t = u
  /\ Taking = {} => old = {}
  /\ \A t \in Tasks : task[t].at = "members" => old \subseteq task[t].details
  /\ \A t \in Tasks : task[t].at \in {"idle", "renamed"} => task[t].details = {}

RecentIInv == TypeInv /\ (~excused => TakenInv /\ Recent!NotedIsPublished)
-----------------------------------------------------------------------------
LEMMA RecentInitIInv == Recent!Init => RecentIInv
<1> SUFFICES ASSUME Recent!Init PROVE RecentIInv
  OBVIOUS
<1>1. TypeInv
  BY DEF Recent!Init, TypeInv, TaskState
<1>2. TakenInv
  BY DEF Recent!Init, TakenInv, Taking
<1>3. Recent!NotedIsPublished
  BY DEF Recent!Init, Recent!NotedIsPublished
<1> QED
  BY <1>1, <1>2, <1>3 DEF RecentIInv

\* Types need only themselves.
LEMMA TypeStep == TypeInv /\ [Recent!Next]_(Recent!vars) => TypeInv'
<1> SUFFICES ASSUME TypeInv, [Recent!Next]_(Recent!vars) PROVE TypeInv'
  OBVIOUS
<1> USE DEF TypeInv, TaskState
<1>1. ASSUME NEW w \in Workers, Recent!ResetLocalRecentConvs(w) PROVE TypeInv'
  BY <1>1 DEF Recent!ResetLocalRecentConvs
<1>2. ASSUME NEW w \in Workers, NEW c \in Convs, Recent!RecordConvSeen(w, c) PROVE TypeInv'
  <2>1. /\ local_recent_convs[w] \union {c} \in SUBSET Convs
        /\ UNCHANGED <<old, task, excused>>
    BY <1>2 DEF Recent!RecordConvSeen
  <2>2. local_recent_convs' \in [Workers -> SUBSET Convs]
    BY <1>2, <2>1 DEF Recent!RecordConvSeen
  <2>3. recent' \in SUBSET Convs /\ owed' \in SUBSET Convs
    BY <1>2, <2>1 DEF Recent!RecordConvSeen
  <2> QED
    BY <2>1, <2>2, <2>3
<1>3. ASSUME NEW t \in Tasks, Recent!Rename(t) PROVE TypeInv'
  <2>1. CASE recent = {}
    BY <1>3, <2>1 DEF Recent!Rename
  <2>2. CASE recent # {}
    <3>1. task' \in [Tasks -> TaskState]
      BY <1>3, <2>2 DEF Recent!Rename
    <3>2. /\ old' = recent /\ recent' = {} /\ excused' \in BOOLEAN
          /\ UNCHANGED <<local_recent_convs, owed>>
      BY <1>3, <2>2 DEF Recent!Rename
    <3> QED
      BY <3>1, <3>2
  <2> QED
    BY <2>1, <2>2
<1>4. ASSUME NEW t \in Tasks, Recent!Members(t) PROVE TypeInv'
  BY <1>4 DEF Recent!Members
<1>5. ASSUME NEW t \in Tasks, Recent!Delete(t) PROVE TypeInv'
  BY <1>5 DEF Recent!Delete, Recent!OldGone
<1>6. ASSUME NEW t \in Tasks, Recent!Close(t) PROVE TypeInv'
  BY <1>6 DEF Recent!Close
<1>7. ASSUME NEW t \in Tasks, Recent!TaskDies(t) PROVE TypeInv'
  BY <1>7 DEF Recent!TaskDies, Recent!Fails
<1>8. ASSUME NEW t \in Tasks, NEW c \in Convs, Recent!PublishConversationMetrics(t, c) PROVE TypeInv'
  BY <1>8 DEF Recent!PublishConversationMetrics
<1>9. CASE UNCHANGED Recent!vars
  BY <1>9 DEF Recent!vars
<1> QED
  BY <1>1, <1>2, <1>3, <1>4, <1>5, <1>6, <1>7, <1>8, <1>9 DEF Recent!Next

\* What the tasks have to publish, conversation by conversation.
LEMMA InDetails ==
  \A c : c \in Recent!Details(Tasks) <=> \E t \in Tasks : c \in task[t].details
BY DEF Recent!Details

LEMMA InDetailsNext ==
  \A c : c \in Recent!Details(Tasks)' <=> \E t \in Tasks : c \in task'[t].details
BY DEF Recent!Details

LEMMA InOthers ==
  ASSUME NEW t \in Tasks
  PROVE  \A c : c \in Recent!Details(Tasks \ {t}) <=> \E u \in Tasks \ {t} : c \in task[u].details
BY DEF Recent!Details
-----------------------------------------------------------------------------
\* Where a conversation is that was noted and not published.
RecentKept(c) == c \in recent \/ c \in old \/ \E t \in Tasks : c \in task[t].details

LEMMA KeptUntilPublished == Recent!NotedIsPublished /\ ~excused => \A c \in owed : RecentKept(c)
BY InDetails DEF Recent!NotedIsPublished, RecentKept

LEMMA KeptUntilPublishedNext == (~excused' => \A c \in owed' : RecentKept(c)') => Recent!NotedIsPublished'
BY InDetailsNext DEF Recent!NotedIsPublished, RecentKept

\* A step that is not taken back from: each action keeps what is taken, and what is owed.
LEMMA ActionKeeps ==
  ASSUME TypeInv, TypeInv', ~excused', ~excused, TakenInv, \A c \in owed : RecentKept(c), Recent!Next
  PROVE  TakenInv' /\ \A c \in owed' : RecentKept(c)'
<1> USE DEF TakenInv, Taking, RecentKept, TypeInv, TaskState
<1>1. ASSUME NEW w \in Workers, Recent!ResetLocalRecentConvs(w) PROVE TakenInv' /\ \A c \in owed' : RecentKept(c)'
  BY <1>1 DEF Recent!ResetLocalRecentConvs
<1>2. ASSUME NEW w \in Workers, NEW d \in Convs, Recent!RecordConvSeen(w, d)
      PROVE  TakenInv' /\ \A c \in owed' : RecentKept(c)'
  BY <1>2 DEF Recent!RecordConvSeen
<1>3. ASSUME NEW t \in Tasks, Recent!Rename(t) PROVE TakenInv' /\ \A c \in owed' : RecentKept(c)'
  <2>1. CASE recent = {}
    BY <1>3, <2>1 DEF Recent!Rename
  <2>2. CASE recent # {}
    <3>1. Taking = {} /\ old = {}
      BY <1>3, <2>2 DEF Recent!Rename
    <3>2. /\ task' = [task EXCEPT ![t].at = "renamed"] /\ task[t].at = "idle"
          /\ old' = recent /\ recent' = {} /\ owed' = owed
      BY <1>3, <2>2 DEF Recent!Rename
    <3>3. /\ task'[t].at = "renamed" /\ task'[t].details = task[t].details
          /\ \A u \in Tasks \ {t} : task'[u] = task[u]
      BY <3>2
    <3>4. TakenInv'
      BY <3>1, <3>2, <3>3
    <3>5. \A c \in owed' : RecentKept(c)'
      BY <3>1, <3>2, <3>3
    <3> QED
      BY <3>4, <3>5
  <2> QED
    BY <2>1, <2>2
<1>4. ASSUME NEW t \in Tasks, Recent!Members(t) PROVE TakenInv' /\ \A c \in owed' : RecentKept(c)'
  <2>1. /\ task'[t].at = "members" /\ task'[t].details = old
        /\ \A u \in Tasks \ {t} : task'[u] = task[u]
        /\ task[t].at = "renamed" /\ task[t].details = {}
        /\ UNCHANGED <<recent, old, owed>>
    BY <1>4 DEF Recent!Members
  <2>2. TakenInv'
    BY <2>1
  <2>3. \A c \in owed' : RecentKept(c)'
    BY <2>1
  <2> QED
    BY <2>2, <2>3
<1>5. ASSUME NEW t \in Tasks, Recent!Delete(t) PROVE TakenInv' /\ \A c \in owed' : RecentKept(c)'
  <2>1. /\ task'[t].at = "publish" /\ task'[t].details = task[t].details
        /\ \A u \in Tasks \ {t} : task'[u] = task[u]
        /\ task[t].at = "members" /\ old \subseteq task[t].details
        /\ old' = {} /\ UNCHANGED <<recent, owed>>
    BY <1>5 DEF Recent!Delete, Recent!OldGone
  <2>2. TakenInv'
    BY <2>1
  <2>3. \A c \in owed' : RecentKept(c)'
    BY <2>1
  <2> QED
    BY <2>2, <2>3
<1>6. ASSUME NEW t \in Tasks, Recent!Close(t) PROVE TakenInv' /\ \A c \in owed' : RecentKept(c)'
  <2>1. /\ task'[t].at = "idle" /\ task'[t].details = task[t].details
        /\ \A u \in Tasks \ {t} : task'[u] = task[u]
        /\ task[t].at = "publish" /\ task[t].details = {}
        /\ UNCHANGED <<recent, old, owed>>
    BY <1>6 DEF Recent!Close
  <2> QED
    BY <2>1
<1>7. ASSUME NEW t \in Tasks, Recent!TaskDies(t) PROVE FALSE
  BY <1>7 DEF Recent!TaskDies
<1>8. ASSUME NEW t \in Tasks, NEW d \in Convs, Recent!PublishConversationMetrics(t, d)
      PROVE  TakenInv' /\ \A c \in owed' : RecentKept(c)'
  <2>1. /\ task'[t].at = "publish" /\ task'[t].details = task[t].details \ {d}
        /\ \A u \in Tasks \ {t} : task'[u] = task[u]
        /\ task[t].at = "publish"
        /\ UNCHANGED <<recent, old>>
    BY <1>8 DEF Recent!PublishConversationMetrics
  <2>2. TakenInv'
    BY <2>1
  <2>3. d \in owed' => RecentKept(d)'
    BY <1>8, <2>1, InOthers DEF Recent!PublishConversationMetrics
  <2>4. \A c \in owed' : c \in owed
    BY <1>8 DEF Recent!PublishConversationMetrics
  <2>5. \A c \in owed' : RecentKept(c)'
    BY <2>1, <2>3, <2>4
  <2> QED
    BY <2>2, <2>5
<1> QED
  BY <1>1, <1>2, <1>3, <1>4, <1>5, <1>6, <1>7, <1>8 DEF Recent!Next

LEMMA IInvStep == RecentIInv /\ [Recent!Next]_(Recent!vars) => RecentIInv'
<1> SUFFICES ASSUME RecentIInv, [Recent!Next]_(Recent!vars) PROVE RecentIInv'
  OBVIOUS
<1>1. TypeInv /\ TypeInv'
  BY TypeStep DEF RecentIInv
<1>2. CASE UNCHANGED Recent!vars
  BY <1>1, <1>2 DEF RecentIInv, Recent!vars, TakenInv, Taking, Recent!NotedIsPublished, Recent!Details
<1>3. CASE Recent!Next
  <2>1. ~excused' => ~excused
    BY <1>3 DEF Recent!Next, Recent!ResetLocalRecentConvs, Recent!RecordConvSeen, Recent!Rename, Recent!Members, Recent!Delete, Recent!Close,
                Recent!TaskDies, Recent!PublishConversationMetrics
  <2>2. ~excused' => TakenInv' /\ \A c \in owed' : RecentKept(c)'
    BY <1>1, <1>3, <2>1, ActionKeeps, KeptUntilPublished DEF RecentIInv
  <2> QED
    BY <1>1, <2>2, KeptUntilPublishedNext DEF RecentIInv
<1> QED
  BY <1>2, <1>3

(* Whatever is noted, forgotten and taken, a noted conversation is in one  *)
(* of the sets or with a task until its metrics are published, as long as  *)
(* no task died and no two took the set at once (get_and_reset_recent_     *)
(* conversations and publish_recent_conversation_metrics).                 *)
THEOREM NothingNotedIsLost == Recent!Spec => []Recent!NotedIsPublished
<1>1. RecentIInv => Recent!NotedIsPublished
  BY DEF RecentIInv, Recent!NotedIsPublished
<1> QED
  BY RecentInitIInv, IInvStep, <1>1, PTL DEF Recent!Spec

-----------------------------------------------------------------------------
(* The application multiplexer (AppMultiplexer): what the session keeps is *)
(* what the user saw, and chose.                                           *)
\* What the session keeps is what the user saw, and chose.
Agrees ==
  /\ session = Nothing => chosen = Nothing
  /\ session # Nothing =>
       /\ session \in Menu!SessionState
       /\ session.state = "select" => session.endpoints \in Menus /\ shown = session.endpoints
       /\ session.state = "selected" => session.active # Nothing /\ chosen = session.active

\* A message is handled by the menu and the choice that the user saw and made.
MsgAgrees ==
  /\ msg.config \in Menus /\ msg.state \in {"start", "select", "selected", "bad_input"}
  /\ msg.state # "start" =>
       /\ msg.session \in Menu!SessionState /\ msg.session.state = msg.state
       /\ msg.state = "select" => msg.session.endpoints \in Menus /\ shown = msg.session.endpoints
       /\ msg.state = "selected" => msg.session.active # Nothing /\ chosen = msg.session.active

Saved(r) ==
  IF r.next_state = "none" THEN Nothing
  ELSE [state |-> r.next_state, endpoints |-> r.endpoints, active |-> r.active]

AtInv ==
  CASE at \in {"idle", "queued"} -> Agrees
    [] at = "create" -> Agrees /\ MsgAgrees /\ msg.state = "start" /\ reply = Nothing
    [] at = "close" -> Agrees /\ session # Nothing /\ msg.session = session /\ reply = Nothing
    [] at = "clear" -> reply = Nothing
    [] at = "handle" -> Agrees /\ MsgAgrees /\ reply = Nothing
    [] at = "publish" -> MsgAgrees /\ response = Menu!Handled(msg) /\ session = Saved(response) /\ reply = Nothing
    [] OTHER -> FALSE

MenuIInv ==
  /\ entries \in Menus /\ menu_excused \in BOOLEAN
  /\ reply \in BOOLEAN \union {Nothing}
  /\ at \in {"idle", "queued", "create", "close", "clear", "handle", "publish"}
  /\ ~menu_excused => (AtInv /\ reply # FALSE /\ Menu!MenuMeansWhatItShowed)

-----------------------------------------------------------------------------
(* What a handler answers, and what is saved for it, of a message that     *)
(* agrees with what the user saw.                                          *)
Answer(r) ==
  /\ r.next_state \in {"none", "select", "selected", "bad_input"}
  /\ r.next_state = "none" => r.to = Nothing
  /\ r.next_state # "none" => Saved(r) \in Menu!SessionState
  /\ r.next_state = "select" => r.endpoints \in Menus /\ r.menu = r.endpoints /\ r.to = Nothing
  /\ r.next_state = "bad_input" => r.to = Nothing /\ r.menu = Nothing
  /\ r.next_state = "selected" =>
       /\ r.menu = Nothing /\ r.active # Nothing /\ r.to = r.active
       /\ Menu!Chosen = r.active

LEMMA StartAnswers ==
  ASSUME NEW r, r = Menu!StateStart(msg), msg.config \in Menus
  PROVE  Answer(r)
<1>1. /\ r.next_state = "select" /\ r.to = Nothing /\ r.endpoints = msg.config
      /\ r.menu = msg.config /\ r.active = Nothing
  BY DEF Menu!StateStart, Menu!Respond
<1>2. Saved(r) = [state |-> "select", endpoints |-> msg.config, active |-> Nothing]
  BY <1>1 DEF Saved
<1>3. Saved(r) \in Menu!SessionState
  BY <1>2 DEF Menu!SessionState
<1> QED
  BY <1>1, <1>3 DEF Answer

LEMMA BadInputAnswers ==
  ASSUME NEW r, r = Menu!BadInput(msg.session), msg.session \in Menu!SessionState
  PROVE  Answer(r)
<1>1. /\ r.next_state = "bad_input" /\ r.to = Nothing /\ r.endpoints = msg.session.endpoints
      /\ r.menu = Nothing /\ r.active = msg.session.active
  BY DEF Menu!BadInput, Menu!Respond
<1>2. Saved(r) = [state |-> "bad_input", endpoints |-> msg.session.endpoints, active |-> msg.session.active]
  BY <1>1 DEF Saved
<1>3. Saved(r) \in Menu!SessionState
  BY <1>2 DEF Menu!SessionState
<1> QED
  BY <1>1, <1>3 DEF Answer

LEMMA EndedAnswers ==
  ASSUME NEW r, r = Menu!Ended
  PROVE  Answer(r)
BY DEF Answer, Menu!Ended, Menu!Respond

\* An application of the menu of now that the user chose.
LEMMA ChoiceAnswers ==
  ASSUME Menu!AppMultiplexerConstants, msg.config \in Menus, msg.session \in Menu!SessionState,
         NEW e \in Menu!Range(msg.config), Menu!Chosen = e,
         NEW r, r = Menu!Respond("selected", msg.session.endpoints, e, e, Nothing)
  PROVE  Answer(r)
<1>1. /\ r.next_state = "selected" /\ r.to = e /\ r.endpoints = msg.session.endpoints
      /\ r.menu = Nothing /\ r.active = e
  BY DEF Menu!Respond
<1>2. e \in Menu!MenuEndpoints /\ e # Nothing
  <2>1. e \in Menu!MenuEndpoints
    BY DEF Menu!MenuEndpoints
  <2> QED
    BY <2>1 DEF Menu!AppMultiplexerConstants
<1>3. Saved(r) = [state |-> "selected", endpoints |-> msg.session.endpoints, active |-> e]
  BY <1>1 DEF Saved
<1>4. Saved(r) \in Menu!SessionState
  BY <1>2, <1>3 DEF Menu!SessionState
<1> QED
  BY <1>1, <1>2, <1>4 DEF Answer

LEMMA HandledAnswers ==
  ASSUME Menu!AppMultiplexerConstants, MsgAgrees
  PROVE  Answer(Menu!Handled(msg))
<1> USE DEF MsgAgrees
<1>1. CASE msg.state = "start"
  BY <1>1, StartAnswers DEF Menu!Handled
<1>2. CASE msg.state = "select"
  <2>1. Menu!Handled(msg) = Menu!StateSelect(msg)
    BY <1>2 DEF Menu!Handled
  <2>2. CASE msg.choice \notin DOMAIN msg.session.endpoints
    BY <1>2, <2>1, <2>2, BadInputAnswers DEF Menu!StateSelect, Menu!Offered
  <2>3. CASE msg.choice \in DOMAIN msg.session.endpoints
    <3> DEFINE e == msg.session.endpoints[msg.choice]
    <3>1. Menu!Chosen = e
      BY <1>2, <2>3 DEF Menu!Chosen
    <3>2. CASE e \notin Menu!Range(msg.config)
      BY <2>1, <2>3, <3>2, EndedAnswers DEF Menu!StateSelect, Menu!Offered
    <3>3. CASE e \in Menu!Range(msg.config)
      <4>1. Menu!Handled(msg) = Menu!Respond("selected", msg.session.endpoints, e, e, Nothing)
        BY <2>1, <2>3, <3>3 DEF Menu!StateSelect, Menu!Offered
      <4> QED
        BY <1>2, <3>1, <3>3, <4>1, ChoiceAnswers
    <3> QED
      BY <3>2, <3>3
  <2> QED
    BY <2>2, <2>3
<1>3. CASE msg.state = "selected"
  <2>1. Menu!Handled(msg) = Menu!StateSelected(msg)
    BY <1>3 DEF Menu!Handled
  <2>2. Menu!Chosen = msg.session.active
    BY <1>3 DEF Menu!Chosen
  <2>3. CASE msg.session.active \notin Menu!Range(msg.config)
    BY <2>1, <2>3, EndedAnswers DEF Menu!StateSelected
  <2>4. CASE msg.session.active \in Menu!Range(msg.config)
    <3>1. Menu!Handled(msg) = Menu!Respond("selected", msg.session.endpoints, msg.session.active, msg.session.active, Nothing)
      BY <2>1, <2>4 DEF Menu!StateSelected
    <3> QED
      BY <1>3, <2>2, <2>4, <3>1, ChoiceAnswers
  <2> QED
    BY <2>3, <2>4
<1>4. CASE msg.state = "bad_input"
  <2>1. Menu!Handled(msg) = Menu!StateBadInput(msg)
    BY <1>4 DEF Menu!Handled
  <2> QED
    BY <1>4, <2>1, StartAnswers, BadInputAnswers DEF Menu!StateBadInput
<1> QED
  BY <1>1, <1>2, <1>3, <1>4

\* What is saved of it is a session that says what the answer says, or none.
LEMMA SavedSession ==
  ASSUME Menu!AppMultiplexerConstants, NEW r, Answer(r)
  PROVE  /\ (Saved(r) = Nothing) <=> (r.next_state = "none")
         /\ r.next_state # "none" =>
              /\ Saved(r) \in Menu!SessionState /\ Saved(r).state = r.next_state
              /\ Saved(r).endpoints = r.endpoints /\ Saved(r).active = r.active
<1>1. Nothing \notin Menu!SessionState
  BY DEF Menu!AppMultiplexerConstants
<1> QED
  BY <1>1 DEF Saved, Answer

-----------------------------------------------------------------------------
LEMMA Starts == ASSUME Menu!AppMultiplexerConstants PROVE Menu!Init => MenuIInv
BY DEF Menu!AppMultiplexerConstants, Menu!Init, MenuIInv, AtInv, Agrees, Menu!MenuMeansWhatItShowed

LEMMA SendKeeps ==
  ASSUME MenuIInv, NEW event, NEW choice, Menu!Send(event, choice)
  PROVE  MenuIInv'
BY DEF MenuIInv, AtInv, Agrees, Menu!MenuMeansWhatItShowed, Menu!Send, Menu!user

LEMMA LoadSessionKeeps ==
  ASSUME Menu!AppMultiplexerConstants, MenuIInv, Menu!LoadSession
  PROVE  MenuIInv'
<1> USE DEF Menu!LoadSession, Menu!user, Menu!bounds
<1>1. entries' = entries /\ menu_excused' \in BOOLEAN /\ reply' = reply /\ at = "queued"
  BY DEF MenuIInv
<1>2. at' \in {"create", "close", "handle"}
  OBVIOUS
<1>3. ASSUME ~menu_excused' PROVE ~menu_excused /\ reply = Nothing
  BY <1>3 DEF MenuIInv
<1>4. ASSUME ~menu_excused' PROVE AtInv'
  <2>1. Agrees
    BY <1>1, <1>3, <1>4 DEF MenuIInv, AtInv
  <2>2. Agrees'
    BY <2>1 DEF Agrees
  <2>3. /\ msg'.config = entries /\ msg'.session = session
        /\ msg'.state = IF session = Nothing \/ msg.event = "new" THEN "start" ELSE session.state
    OBVIOUS
  <2>4. MsgAgrees'
    <3>1. CASE session = Nothing \/ msg.event = "new"
      BY <2>3, <3>1 DEF MsgAgrees, MenuIInv
    <3>2. CASE ~(session = Nothing \/ msg.event = "new")
      <4>1. session.state \in {"start", "select", "selected", "bad_input"}
        BY <2>1, <3>2 DEF Agrees, Menu!SessionState
      <4> QED
        BY <2>1, <2>3, <3>2, <4>1 DEF Agrees, MsgAgrees, MenuIInv
    <3> QED
      BY <3>1, <3>2
  <2>5. at' = "create" => msg'.state = "start"
    BY <2>3
  <2>6. at' = "close" => session # Nothing
    OBVIOUS
  <2> QED
    BY <1>2, <1>3, <1>4, <2>2, <2>3, <2>4, <2>5, <2>6 DEF AtInv
<1> QED
  BY <1>1, <1>2, <1>3, <1>4 DEF MenuIInv, Menu!MenuMeansWhatItShowed

LEMMA CreateSessionKeeps ==
  ASSUME Menu!AppMultiplexerConstants, MenuIInv, Menu!CreateSession
  PROVE  MenuIInv'
<1> USE DEF Menu!CreateSession, Menu!user, Menu!bounds
<1>1. session' \in Menu!SessionState /\ session'.state = "start" /\ session' # Nothing
  <2>1. session' \in Menu!SessionState
    BY DEF Menu!SessionState
  <2> QED
    BY <2>1 DEF Menu!AppMultiplexerConstants
<1>2. ASSUME ~menu_excused PROVE AtInv'
  <2>1. MsgAgrees /\ msg.state = "start" /\ reply = Nothing
    BY <1>2 DEF MenuIInv, AtInv
  <2>2. Agrees'
    BY <1>1 DEF Agrees
  <2>3. MsgAgrees'
    BY <2>1 DEF MsgAgrees
  <2> QED
    BY <2>1, <2>2, <2>3 DEF AtInv
<1> QED
  BY <1>2 DEF MenuIInv, Menu!MenuMeansWhatItShowed

LEMMA SessionCloseKeeps ==
  ASSUME Menu!AppMultiplexerConstants, MenuIInv, Menu!SessionClose
  PROVE  MenuIInv'
<1> USE DEF Menu!SessionClose, Menu!bounds
<1>1. ASSUME ~menu_excused PROVE AtInv' /\ Menu!MenuMeansWhatItShowed'
  <2>1. Agrees /\ session # Nothing /\ msg.session = session /\ reply = Nothing
    BY <1>1 DEF MenuIInv, AtInv
  <2>2. Menu!MenuMeansWhatItShowed'
    BY <1>1, <2>1 DEF Agrees, Menu!MenuMeansWhatItShowed, MenuIInv
  <2> QED
    BY <2>1, <2>2 DEF AtInv
<1> QED
  BY <1>1 DEF MenuIInv

LEMMA ClearSessionKeeps ==
  ASSUME Menu!AppMultiplexerConstants, MenuIInv, Menu!ClearSession
  PROVE  MenuIInv'
BY DEF MenuIInv, AtInv, Agrees, Menu!MenuMeansWhatItShowed, Menu!ClearSession, Menu!bounds

LEMMA HandleStateKeeps ==
  ASSUME Menu!AppMultiplexerConstants, MenuIInv, Menu!HandleState
  PROVE  MenuIInv'
<1> USE DEF Menu!HandleState, Menu!user, Menu!bounds
<1>1. ASSUME ~menu_excused PROVE AtInv'
  <2>1. MsgAgrees /\ reply = Nothing
    BY <1>1 DEF MenuIInv, AtInv
  <2>2. MsgAgrees'
    BY <2>1 DEF MsgAgrees
  <2>3. response' = Menu!Handled(msg)' /\ session' = Saved(response)'
    BY DEF Menu!Handled, Menu!StateStart, Menu!StateSelect, Menu!StateSelected, Menu!StateBadInput, Saved, Menu!Ended, Menu!BadInput, Menu!Respond, Menu!Offered
  <2> QED
    BY <2>1, <2>2, <2>3 DEF AtInv
<1> QED
  BY <1>1 DEF MenuIInv, Menu!MenuMeansWhatItShowed

LEMMA PublishKeeps ==
  ASSUME Menu!AppMultiplexerConstants, MenuIInv, Menu!Publish
  PROVE  MenuIInv'
<1> USE DEF Menu!Publish, Menu!bounds
<1>1. ASSUME ~menu_excused PROVE AtInv' /\ Menu!MenuMeansWhatItShowed'
  <2>1. MsgAgrees /\ response = Menu!Handled(msg) /\ session = Saved(response) /\ reply = Nothing
    BY <1>1 DEF MenuIInv, AtInv
  <2>2. Answer(response)
    BY <2>1, HandledAnswers
  <2>3. /\ (session = Nothing) <=> (response.next_state = "none")
        /\ response.next_state # "none" =>
              /\ session \in Menu!SessionState /\ session.state = response.next_state
              /\ session.endpoints = response.endpoints /\ session.active = response.active
    BY <2>1, <2>2, SavedSession
  <2>4. Nothing \notin Menus
    BY DEF Menu!AppMultiplexerConstants
  <2>5. Menu!MenuMeansWhatItShowed'
    <3>1. CASE response.to = Nothing
      BY <1>1, <3>1 DEF MenuIInv, Menu!MenuMeansWhatItShowed
    <3>2. CASE response.to # Nothing
      <4>1. response.to = Menu!Chosen
        BY <2>2, <3>2 DEF Answer
      <4>2. last' = [to |-> response.to, chosen |-> Menu!Chosen]
        BY <3>2
      <4>3. last'.to = last'.chosen
        BY <4>1, <4>2
      <4> QED
        BY <4>3 DEF Menu!MenuMeansWhatItShowed
    <3> QED
      BY <3>1, <3>2
  <2>6. Agrees'
    <3>1. CASE response.next_state = "none"
      BY <2>3, <3>1 DEF Agrees
    <3>2. CASE response.next_state = "select"
      <4>1. response.endpoints \in Menus /\ response.menu = response.endpoints
        BY <2>2, <3>2 DEF Answer
      <4>2. shown' = session'.endpoints
        BY <2>3, <2>4, <3>2, <4>1
      <4> QED
        BY <2>3, <3>2, <4>1, <4>2 DEF Agrees
    <3>3. CASE response.next_state = "selected"
      <4>1. response.menu = Nothing /\ response.to = response.active /\ response.active # Nothing /\ Menu!Chosen = response.active
        BY <2>2, <3>3 DEF Answer
      <4>2. chosen' = session'.active
        BY <2>3, <3>3, <4>1
      <4> QED
        BY <2>3, <3>3, <4>1, <4>2 DEF Agrees
    <3>4. CASE response.next_state = "bad_input"
      BY <2>3, <3>4 DEF Agrees
    <3> QED
      BY <2>2, <3>1, <3>2, <3>3, <3>4 DEF Answer
  <2> QED
    BY <2>1, <2>5, <2>6 DEF AtInv
<1> QED
  BY <1>1 DEF MenuIInv

LEMMA HandlerRaisesKeeps ==
  ASSUME MenuIInv, Menu!HandlerRaises
  PROVE  MenuIInv'
BY DEF MenuIInv, AtInv, Agrees, Menu!MenuMeansWhatItShowed, Menu!HandlerRaises

LEMMA LoadForReplyKeeps ==
  ASSUME Menu!AppMultiplexerConstants, MenuIInv, Menu!LoadForReply
  PROVE  MenuIInv'
<1> USE DEF Menu!LoadForReply, Menu!inbound, Menu!user, Menu!bounds
<1>1. reply' \in BOOLEAN /\ menu_excused' \in BOOLEAN
  BY DEF MenuIInv
<1>2. ASSUME ~menu_excused' PROVE AtInv' /\ reply' # FALSE /\ ~menu_excused
  <2>1. at \in {"idle", "queued"} /\ ~menu_excused
    BY <1>2 DEF MenuIInv
  <2>2. Agrees
    BY <2>1 DEF MenuIInv, AtInv
  <2>3. session # Nothing
    BY <2>2 DEF Agrees
  <2>4. Agrees'
    BY <2>2 DEF Agrees
  <2> QED
    BY <2>1, <2>3, <2>4 DEF AtInv
<1> QED
  BY <1>1, <1>2 DEF MenuIInv, Menu!MenuMeansWhatItShowed

LEMMA ForwardReplyKeeps ==
  ASSUME Menu!AppMultiplexerConstants, MenuIInv, NEW close \in BOOLEAN, Menu!ForwardReply(close)
  PROVE  MenuIInv'
<1> USE DEF Menu!ForwardReply, Menu!inbound, Menu!bounds
<1>1. ASSUME ~menu_excused PROVE AtInv'
  <2>1. at \in {"idle", "queued"} /\ reply = TRUE
    BY <1>1 DEF MenuIInv, AtInv
  <2>2. Agrees
    BY <1>1, <2>1 DEF MenuIInv, AtInv
  <2>3. Agrees'
    BY <2>1, <2>2 DEF Agrees
  <2> QED
    BY <2>1, <2>3 DEF AtInv
<1> QED
  BY <1>1 DEF MenuIInv, Menu!MenuMeansWhatItShowed, Menu!AppMultiplexerConstants

LEMMA ChangeConfigKeeps ==
  ASSUME MenuIInv, NEW menu \in Menus, Menu!ChangeConfig(menu)
  PROVE  MenuIInv'
<1> USE DEF Menu!ChangeConfig, Menu!inbound, Menu!user
<1>1. /\ Agrees <=> Agrees'
      /\ MsgAgrees <=> MsgAgrees'
      /\ (response = Menu!Handled(msg)) <=> (response = Menu!Handled(msg))'
      /\ (session = Saved(response)) <=> (session = Saved(response))'
  BY DEF Agrees, MsgAgrees, Saved, Menu!Handled, Menu!StateStart, Menu!StateSelect, Menu!StateSelected, Menu!StateBadInput, Menu!Ended, Menu!BadInput,
         Menu!Respond, Menu!Offered
<1>2. AtInv <=> AtInv'
  BY <1>1 DEF AtInv
<1> QED
  BY <1>2 DEF MenuIInv, Menu!MenuMeansWhatItShowed

LEMMA ExpireKeeps ==
  ASSUME MenuIInv, Menu!Expire
  PROVE  MenuIInv'
BY DEF MenuIInv, AtInv, Agrees, Menu!MenuMeansWhatItShowed, Menu!Expire, Menu!inbound

LEMMA MenuWorkerDiesKeeps ==
  ASSUME Menu!AppMultiplexerConstants, MenuIInv, Menu!WorkerDies
  PROVE  MenuIInv'
<1> USE DEF Menu!WorkerDies, Menu!user
<1>1. ASSUME ~menu_excused' PROVE AtInv' /\ ~menu_excused
  <2>1. at \in {"create", "close", "handle"} /\ ~menu_excused
    BY <1>1 DEF MenuIInv
  <2>2. Agrees
    BY <2>1 DEF MenuIInv, AtInv
  <2>3. Agrees'
    BY <2>2 DEF Agrees
  <2> QED
    BY <2>1, <2>3 DEF AtInv
<1> QED
  BY <1>1 DEF MenuIInv, Menu!MenuMeansWhatItShowed

LEMMA MenuStutterKeeps ==
  ASSUME MenuIInv, UNCHANGED Menu!vars
  PROVE  MenuIInv'
<1>1. /\ Agrees <=> Agrees'
      /\ MsgAgrees <=> MsgAgrees'
      /\ (response = Menu!Handled(msg)) <=> (response = Menu!Handled(msg))'
      /\ (session = Saved(response)) <=> (session = Saved(response))'
  BY DEF Agrees, MsgAgrees, Saved, Menu!Handled, Menu!StateStart, Menu!StateSelect, Menu!StateSelected, Menu!StateBadInput, Menu!Ended, Menu!BadInput,
         Menu!Respond, Menu!Offered, Menu!vars, Menu!inbound, Menu!user
<1>2. AtInv <=> AtInv'
  BY <1>1 DEF AtInv, Menu!vars, Menu!inbound
<1> QED
  BY <1>2 DEF MenuIInv, Menu!MenuMeansWhatItShowed, Menu!vars, Menu!inbound, Menu!user, Menu!bounds

(* A message goes to the application the user chose from the menu that was *)
(* shown, whatever the configuration of the router has become: its handler *)
(* works by the menu that the session keeps.                               *)
THEOREM MenusMeanWhatTheyShowed ==
  ASSUME Menu!AppMultiplexerConstants PROVE Menu!Spec => []Menu!MenuMeansWhatItShowed
<1>1. Menu!Init => MenuIInv
  BY Starts
<1>2. MenuIInv /\ [Menu!Next]_(Menu!vars) => MenuIInv'
  BY SendKeeps, LoadSessionKeeps, CreateSessionKeeps, SessionCloseKeeps, ClearSessionKeeps, HandleStateKeeps,
     PublishKeeps, HandlerRaisesKeeps, LoadForReplyKeeps, ForwardReplyKeeps, ChangeConfigKeeps, ExpireKeeps,
     MenuWorkerDiesKeeps, MenuStutterKeeps DEF Menu!Next
<1>3. MenuIInv => Menu!MenuMeansWhatItShowed
  BY DEF MenuIInv, Menu!MenuMeansWhatItShowed
<1> QED
  BY <1>1, <1>2, <1>3, PTL DEF Menu!Spec

-----------------------------------------------------------------------------
(* The requests to the HTTP API (HttpRequests): whatever is counted for a  *)
(* request, in Redis or by the limiter of a worker, is given back when it  *)
(* is over.                                                                *)
\* What the library says of sets is what the module does.
LEMMA LibraryCounts ==
  (\A S : Http!Cardinality(S) = Cardinality(S)) /\ (\A S : Http!IsFiniteSet(S) <=> IsFiniteSet(S))
<1>1. \A S : Http!Cardinality(S) = Cardinality(S)
  BY DEF Http!Cardinality, Cardinality
<1>2. \A S : Http!IsFiniteSet(S) <=> IsFiniteSet(S)
  BY Zenon DEF Http!IsFiniteSet, IsFiniteSet
<1> QED
  BY <1>1, <1>2

HttpTypeOK ==
  /\ limit \in Int /\ worker_limit \in Int
  /\ req \in [Requests -> Http!RequestState \union {Nothing}]
  /\ closed \subseteq Requests /\ tracked \subseteq Requests /\ count \in Int
  /\ concurrents \in [HttpWorkers -> Int] /\ waiters \in [HttpWorkers -> Seq(Requests)]
  /\ limiters \subseteq HttpWorkers /\ http_excused \in BOOLEAN

(* The key in Redis counts the requests whose end will be heard of; a      *)
(* request that is not yet counted is none of them.                        *)
Early(r) == req[r] = Nothing \/ req[r].at \in {"auth", "allowed", "track"}
Counts ==
  /\ tracked \intersect closed = {}
  /\ \A r \in tracked : ~Early(r)
  /\ http_excused \/ count = Cardinality(tracked)

(* A limiter counts the requests that are handled, its waiters are those   *)
(* that wait, once each, and they wait only while it is full.              *)
Turn(w) ==
  /\ concurrents[w] = Cardinality(Http!Handled(w)) /\ concurrents[w] <= worker_limit
  /\ Elements(waiters[w]) = Http!Waiting(w) /\ IsOnce(waiters[w])
  /\ waiters[w] # <<>> => concurrents[w] = worker_limit
  /\ w \in limiters <=> ~(concurrents[w] = 0 /\ waiters[w] = <<>>)
Turns ==
  /\ worker_limit > 0 => \A w \in HttpWorkers : Turn(w)
  /\ worker_limit <= 0 => limiters = {}

HttpIInv == HttpTypeOK /\ Counts /\ Turns

-----------------------------------------------------------------------------
(* Sets of requests                                                        *)
LEMMA Finite ==
  ASSUME Http!HttpRequestsConstants, NEW S \in SUBSET Requests
  PROVE  IsFiniteSet(S) /\ Cardinality(S) \in Nat
<1>1. IsFiniteSet(Requests)
  BY LibraryCounts DEF Http!HttpRequestsConstants
<1> QED
  BY <1>1, FS_Subset, FS_CardinalityType

LEMMA OneMore ==
  ASSUME Http!HttpRequestsConstants, NEW S \in SUBSET Requests, NEW r \in Requests
  PROVE  /\ r \notin S => Cardinality(S \union {r}) = Cardinality(S) + 1
         /\ r \in S => Cardinality(S \ {r}) = Cardinality(S) - 1
BY Finite, FS_AddElement, FS_RemoveElement

-----------------------------------------------------------------------------
(* The requests *)
LEMMA MovedIs ==
  ASSUME HttpTypeOK, NEW r \in Requests, req[r] # Nothing,
         NEW to \in {"auth", "allowed", "track", "metrics", "payload", "for ever", "wait", "handle", "sent", "over"}
  PROVE  /\ Http!Moved(r, to) \in Http!RequestState /\ Http!Moved(r, to).at = to
         /\ Http!Moved(r, to).worker = req[r].worker /\ req[r].worker \in HttpWorkers
BY DEF HttpTypeOK, Http!Moved, Http!Request, Http!RequestState

\* A request that moves stays at its worker.
LEMMA GoesIs ==
  ASSUME Http!HttpRequestsConstants, HttpTypeOK, NEW r \in Requests, req[r] # Nothing,
         NEW to \in {"auth", "allowed", "track", "metrics", "payload", "for ever", "wait", "handle", "sent", "over"},
         Http!Goes(r, to)
  PROVE  /\ req' \in [Requests -> Http!RequestState \union {Nothing}]
         /\ req'[r] # Nothing /\ req'[r].at = to /\ req'[r].worker = req[r].worker
         /\ \A q \in Requests \ {r} : req'[q] = req[q]
<1>1. Http!Moved(r, to) \in Http!RequestState /\ Http!Moved(r, to).at = to /\ Http!Moved(r, to).worker = req[r].worker
  BY MovedIs
<1>2. Http!Moved(r, to) # Nothing
  BY <1>1 DEF Http!HttpRequestsConstants
<1>3. req' = [req EXCEPT ![r] = Http!Moved(r, to)]
  BY DEF Http!Goes
<1> QED
  BY <1>1, <1>2, <1>3 DEF HttpTypeOK

\* Answered, or its connection lost: nobody hears of it any more.
Ends(r) ==
  /\ closed' = closed \union {r} /\ tracked' = tracked \ {r}
  /\ count' = IF r \in tracked THEN count - 1 ELSE count

LEMMA HttpAnswerIs ==
  ASSUME HttpTypeOK, Counts, NEW r \in Requests, Http!Answer(r)
  PROVE  Ends(r)
BY DEF Http!Answer, Http!Released, Ends, Counts, HttpTypeOK

\* Requests do not become early again.
Onwards == \A r \in Requests : Early(r)' => Early(r)

LEMMA EndsCounts ==
  ASSUME Http!HttpRequestsConstants, HttpTypeOK, Counts, NEW r \in Requests, Ends(r) \/ UNCHANGED <<closed, tracked, count>>,
         Onwards, http_excused' = http_excused
  PROVE  /\ Counts' /\ closed' \subseteq Requests /\ tracked' \subseteq Requests /\ count' \in Int
<1>1. CASE Ends(r)
  <2>1. /\ closed' \subseteq Requests /\ tracked' \subseteq Requests /\ count' \in Int
        /\ tracked' \intersect closed' = {} /\ tracked' \subseteq tracked
    BY <1>1 DEF Ends, Counts, HttpTypeOK
  <2>2. http_excused' \/ count' = Cardinality(tracked')
    <3>1. CASE r \in tracked
      BY <1>1, <3>1, OneMore DEF Ends, Counts, HttpTypeOK
    <3>2. CASE r \notin tracked
      BY <1>1, <3>2 DEF Ends, Counts
    <3> QED
      BY <3>1, <3>2
  <2>3. \A q \in tracked' : ~Early(q)'
    BY <2>1 DEF Counts, Onwards
  <2> QED
    BY <2>1, <2>2, <2>3 DEF Counts, Early
<1>2. CASE UNCHANGED <<closed, tracked, count>>
  BY <1>2 DEF Counts, HttpTypeOK, Onwards, Early
<1> QED
  BY <1>1, <1>2

-----------------------------------------------------------------------------
(* The limiters                                                          *)
Busy(r) == req[r] # Nothing /\ req[r].at \in {"handle", "sent"}
HttpWaits(r) == req[r] # Nothing /\ req[r].at = "wait"

\* Nobody's turn has changed.
LEMMA SameTurns ==
  ASSUME HttpTypeOK, Turns, worker_limit' = worker_limit, UNCHANGED Http!limiter,
         \A r \in Requests :
           /\ (Busy(r)' <=> Busy(r)) /\ (HttpWaits(r)' <=> HttpWaits(r))
           /\ req[r] # Nothing => req'[r].worker = req[r].worker
  PROVE  Turns'
<1>1. \A w \in HttpWorkers : Http!Handled(w)' = Http!Handled(w) /\ Http!Waiting(w)' = Http!Waiting(w)
  BY DEF Http!Handled, Http!Waiting, Busy, HttpWaits
<1>2. concurrents' = concurrents /\ waiters' = waiters /\ limiters' = limiters /\ worker_limit' = worker_limit
  BY DEF Http!limiter
<1>3. ASSUME NEW w \in HttpWorkers, Turn(w) PROVE Turn(w)'
  BY <1>1, <1>2, <1>3 DEF Turn
<1> QED
  BY <1>2, <1>3 DEF Turns

LEMMA OnlyFirst == \A s : {s[i] : i \in 1..1} = {s[1]}
<1> SUFFICES ASSUME NEW s PROVE {s[i] : i \in 1..1} = {s[1]}
  OBVIOUS
<1>1. \A i : i \in 1..1 <=> i = 1
  OBVIOUS
<1> QED
  BY <1>1

\* A limiter looks whether the first of those who wait can go on.
LEMMA CheckIs ==
  ASSUME Http!HttpRequestsConstants, HttpTypeOK, worker_limit > 0, NEW w \in HttpWorkers,
         NEW active \in Int, NEW waiting \in Seq(Requests), IsOnce(waiting),
         NEW handled \in SUBSET Requests, active = Cardinality(handled), active <= worker_limit,
         Elements(waiting) \intersect handled = {}, Len(waiting) <= 1 \/ active >= worker_limit - 1,
         Http!CheckConcurrent(w, active, waiting), Http!CleanupLimiter(w)
  PROVE  /\ concurrents' \in [HttpWorkers -> Int] /\ waiters' \in [HttpWorkers -> Seq(Requests)] /\ limiters' \subseteq HttpWorkers
         /\ Http!Woken(w, waiting) \subseteq Elements(waiting)
         /\ concurrents'[w] = Cardinality(handled \union Http!Woken(w, waiting)) /\ concurrents'[w] <= worker_limit
         /\ Elements(waiters'[w]) = Elements(waiting) \ Http!Woken(w, waiting) /\ IsOnce(waiters'[w])
         /\ waiters'[w] # <<>> => concurrents'[w] = worker_limit
         /\ w \in limiters' <=> ~(concurrents'[w] = 0 /\ waiters'[w] = <<>>)
         /\ \A v \in HttpWorkers \ {w} :
              /\ concurrents'[v] = concurrents[v] /\ waiters'[v] = waiters[v]
              /\ v \in limiters' <=> v \in limiters
<1>1. /\ limiters' \subseteq HttpWorkers /\ (w \in limiters' <=> ~(concurrents'[w] = 0 /\ waiters'[w] = <<>>))
      /\ \A v \in HttpWorkers \ {w} : v \in limiters' <=> v \in limiters
  BY DEF Http!CleanupLimiter, Http!Empty, HttpTypeOK
<1>2. CASE active >= worker_limit \/ waiting = <<>>
  <2>1. /\ concurrents' \in [HttpWorkers -> Int] /\ waiters' \in [HttpWorkers -> Seq(Requests)]
        /\ concurrents'[w] = active /\ waiters'[w] = waiting
        /\ \A v \in HttpWorkers \ {w} : concurrents'[v] = concurrents[v] /\ waiters'[v] = waiters[v]
    BY <1>2 DEF Http!CheckConcurrent, HttpTypeOK
  <2>2. Http!Woken(w, waiting) = {}
    <3>1. \A i \in 1..(Len(waiting) - Len(waiters'[w])) : FALSE
      BY <2>1
    <3> QED
      BY <3>1 DEF Http!Woken
  <2>3. /\ handled \union Http!Woken(w, waiting) = handled
        /\ Elements(waiting) \ Http!Woken(w, waiting) = Elements(waiting)
    BY <2>2
  <2>4. waiting # <<>> => active = worker_limit
    BY <1>2 DEF HttpTypeOK
  <2> QED
    BY <1>1, <2>1, <2>2, <2>3, <2>4
<1>3. CASE ~(active >= worker_limit \/ waiting = <<>>)
  <2>1. /\ concurrents' \in [HttpWorkers -> Int] /\ waiters'[w] = Tail(waiting) /\ concurrents'[w] = active + 1
        /\ \A v \in HttpWorkers \ {w} : concurrents'[v] = concurrents[v] /\ waiters'[v] = waiters[v]
    BY <1>3 DEF Http!CheckConcurrent, HttpTypeOK
  <2>2. /\ Tail(waiting) \in Seq(Requests) /\ IsOnce(Tail(waiting)) /\ Len(Tail(waiting)) = Len(waiting) - 1
        /\ waiting[1] \in Elements(waiting) /\ waiting[1] \in Requests
        /\ Elements(Tail(waiting)) = Elements(waiting) \ {waiting[1]}
    BY <1>3, TailIs
  <2>3. waiters' \in [HttpWorkers -> Seq(Requests)]
    BY <1>3, <2>2 DEF Http!CheckConcurrent, HttpTypeOK
  <2>4. Http!Woken(w, waiting) = {waiting[1]}
    <3> DEFINE n == Len(waiting) - Len(waiters'[w])
    <3>1. n = 1
      BY <2>1, <2>2
    <3>2. Http!Woken(w, waiting) = {waiting[i] : i \in 1..n}
      BY DEF Http!Woken
    <3> QED
      BY <3>1, <3>2, OnlyFirst
  <2>5. Cardinality(handled \union {waiting[1]}) = active + 1
    BY <2>2, OneMore
  <2>6. Tail(waiting) # <<>> => active + 1 = worker_limit
    BY <1>3, <2>2 DEF HttpTypeOK
  <2>7. active + 1 <= worker_limit
    BY <1>3 DEF HttpTypeOK
  <2> QED
    BY <1>1, <2>1, <2>2, <2>3, <2>4, <2>5, <2>6, <2>7
<1> QED
  BY <1>2, <1>3

\* A request takes its turn or gives it back, and those who are woken go on.
LEMMA TurnTaken ==
  ASSUME Http!HttpRequestsConstants, HttpIInv, worker_limit > 0, worker_limit' = worker_limit,
         NEW r \in Requests, req[r] # Nothing, ~HttpWaits(r), ~Early(r),
         NEW to \in {"wait", "over"}, NEW active \in Int, NEW waiting \in Seq(Requests), IsOnce(waiting),
         active = Cardinality(Http!Handled(req[r].worker) \ {r}), active <= worker_limit,
         Elements(waiting) = Http!Waiting(req[r].worker) \union (IF to = "wait" THEN {r} ELSE {}),
         Len(waiting) <= 1 \/ active >= worker_limit - 1,
         Http!CheckConcurrent(req[r].worker, active, waiting), Http!CleanupLimiter(req[r].worker),
         Http!Resume(Http!Woken(req[r].worker, waiting), r, to)
  PROVE  /\ req' \in [Requests -> Http!RequestState \union {Nothing}] /\ Onwards /\ Turns'
         /\ concurrents' \in [HttpWorkers -> Int] /\ waiters' \in [HttpWorkers -> Seq(Requests)] /\ limiters' \subseteq HttpWorkers
<1> DEFINE w == req[r].worker
           handled == Http!Handled(w) \ {r}
           woken == Http!Woken(w, waiting)
<1>1. HttpTypeOK /\ w \in HttpWorkers
  BY DEF HttpIInv, HttpTypeOK, Http!RequestState
<1>2. handled \subseteq Requests /\ Elements(waiting) \intersect handled = {}
  BY DEF Http!Handled, Http!Waiting
<1>3. /\ concurrents' \in [HttpWorkers -> Int] /\ waiters' \in [HttpWorkers -> Seq(Requests)] /\ limiters' \subseteq HttpWorkers
      /\ woken \subseteq Elements(waiting)
      /\ concurrents'[w] = Cardinality(handled \union woken) /\ concurrents'[w] <= worker_limit
      /\ Elements(waiters'[w]) = Elements(waiting) \ woken /\ IsOnce(waiters'[w])
      /\ waiters'[w] # <<>> => concurrents'[w] = worker_limit
      /\ w \in limiters' <=> ~(concurrents'[w] = 0 /\ waiters'[w] = <<>>)
      /\ \A v \in HttpWorkers \ {w} :
           /\ concurrents'[v] = concurrents[v] /\ waiters'[v] = waiters[v]
           /\ v \in limiters' <=> v \in limiters
  BY <1>1, <1>2, CheckIs, ZenonT(30)
<1>4. \A q \in woken : q \in Requests /\ req[q] # Nothing /\ req[q].worker = w /\ (q = r => to = "wait")
                       /\ (q # r => HttpWaits(q))
  BY <1>3 DEF Http!Waiting, HttpWaits
<1>5. req' = [q \in Requests |-> IF q \in woken THEN Http!Moved(q, "handle")
                                 ELSE IF q = r THEN Http!Moved(q, to) ELSE req[q]]
  BY DEF Http!Resume
<1> HIDE DEF w, woken, handled
<1>6. ASSUME NEW q \in Requests
      PROVE  /\ q \in woken => req'[q] \in Http!RequestState /\ req'[q].at = "handle" /\ req'[q].worker = w
             /\ q \notin woken /\ q = r => req'[q] \in Http!RequestState /\ req'[q].at = to /\ req'[q].worker = w
             /\ q \notin woken /\ q # r => req'[q] = req[q]
  <2>1. CASE q \in woken
    <3>1. req[q] # Nothing /\ req[q].worker = w /\ req'[q] = Http!Moved(q, "handle")
      BY <1>4, <1>5, <2>1
    <3> QED
      BY <1>1, <2>1, <3>1, MovedIs
  <2>2. CASE q \notin woken /\ q = r
    <3>1. req'[q] = Http!Moved(r, to) /\ req[r].worker = w
      BY <1>5, <2>2 DEF w
    <3>2. Http!Moved(r, to) \in Http!RequestState /\ Http!Moved(r, to).at = to /\ Http!Moved(r, to).worker = req[r].worker
      BY <1>1, MovedIs
    <3> QED
      BY <2>2, <3>1, <3>2
  <2>3. CASE q \notin woken /\ q # r
    BY <1>5, <2>3
  <2> QED
    BY <2>1, <2>2, <2>3
<1>7. \A q : q \in Http!RequestState => q # Nothing
  BY DEF Http!HttpRequestsConstants
<1>8. req' \in [Requests -> Http!RequestState \union {Nothing}]
  BY <1>1, <1>5, <1>6 DEF HttpTypeOK
<1>9. Onwards
  BY <1>4, <1>6, <1>7 DEF Onwards, Early, HttpWaits
<1>10. ASSUME NEW v \in HttpWorkers, v = w PROVE Http!Handled(v)' = handled \union woken
  <2>1. ASSUME NEW q \in Requests
        PROVE  req'[q] # Nothing /\ req'[q].worker = v /\ req'[q].at \in {"handle", "sent"}
                 <=> q \in handled \/ q \in woken
    <3>1. CASE q \in woken
      BY <1>6, <1>7, <1>10, <3>1
    <3>2. CASE q \notin woken /\ q = r
      BY <1>6, <1>7, <1>10, <3>2 DEF handled
    <3>3. CASE q \notin woken /\ q # r
      BY <1>6, <1>10, <3>3 DEF Http!Handled, handled
    <3> QED
      BY <3>1, <3>2, <3>3
  <2>2. handled \subseteq Requests /\ woken \subseteq Requests
    BY <1>2, <1>4
  <2> QED
    BY <2>1, <2>2 DEF Http!Handled
<1>11. ASSUME NEW v \in HttpWorkers, v = w PROVE Http!Waiting(v)' = Elements(waiting) \ woken
  <2>1. Elements(waiting) = Http!Waiting(w) \union (IF to = "wait" THEN {r} ELSE {}) /\ Elements(waiting) \subseteq Requests
    BY DEF w, Http!Waiting
  <2>2. ASSUME NEW q \in Requests
        PROVE  req'[q] # Nothing /\ req'[q].worker = v /\ req'[q].at = "wait"
                 <=> q \in Elements(waiting) /\ q \notin woken
    <3>1. CASE q \in woken
      BY <1>6, <3>1
    <3>2. CASE q \notin woken /\ q = r
      BY <1>6, <1>7, <1>11, <2>1, <3>2 DEF Http!Waiting, HttpWaits
    <3>3. CASE q \notin woken /\ q # r
      BY <1>6, <1>11, <2>1, <3>3 DEF Http!Waiting
    <3> QED
      BY <3>1, <3>2, <3>3
  <2> QED
    BY <2>1, <2>2 DEF Http!Waiting
<1>12. ASSUME NEW v \in HttpWorkers \ {w} PROVE Http!Handled(v)' = Http!Handled(v) /\ Http!Waiting(v)' = Http!Waiting(v)
  BY <1>4, <1>6, <1>12 DEF Http!Handled, Http!Waiting, w
<1>13. ASSUME NEW v \in HttpWorkers PROVE Turn(v)'
  <2>1. CASE v = w
    <3>1. Http!Handled(v)' = handled \union woken /\ Http!Waiting(v)' = Elements(waiting) \ woken
      BY <1>10, <1>11, <2>1
    <3> QED
      BY <1>3, <2>1, <3>1 DEF Turn
  <2>2. CASE v # w
    <3>1. Turn(v)
      BY DEF HttpIInv, Turns
    <3>2. concurrents'[v] = concurrents[v] /\ waiters'[v] = waiters[v] /\ (v \in limiters' <=> v \in limiters)
      BY <1>3, <2>2
    <3>3. Http!Handled(v)' = Http!Handled(v) /\ Http!Waiting(v)' = Http!Waiting(v)
      BY <1>12, <2>2
    <3> QED
      BY <3>1, <3>2, <3>3 DEF Turn
  <2> QED
    BY <2>1, <2>2
<1>14. Turns'
  BY <1>1, <1>13 DEF Turns, HttpTypeOK
<1> QED
  BY <1>3, <1>8, <1>9, <1>14

\* A request moves, and nobody's turn.
Limited == worker_limit > 0
LEMMA Unlimited ==
  ASSUME HttpIInv, ~Limited, worker_limit' = worker_limit, limiters' = limiters
  PROVE  Turns'
<1>1. worker_limit \in Int /\ Turns
  BY DEF HttpIInv, HttpTypeOK
<1>2. worker_limit <= 0
  BY <1>1 DEF Limited
<1>3. limiters = {}
  BY <1>1, <1>2 DEF Turns
<1>4. (worker_limit' > 0) = FALSE
  BY <1>1, <1>2
<1> QED
  BY <1>3, <1>4 DEF Turns

LEMMA GoesOn ==
  ASSUME Http!HttpRequestsConstants, HttpIInv, NEW r \in Requests, req[r] # Nothing,
         NEW to \in {"allowed", "track", "metrics", "payload", "for ever", "handle", "sent", "over"}, Http!Goes(r, to),
         to \in {"allowed", "track"} => Early(r),
         worker_limit' = worker_limit, UNCHANGED Http!limiter,
         Limited => ~HttpWaits(r) /\ (Busy(r) <=> to \in {"handle", "sent"})
  PROVE  req' \in [Requests -> Http!RequestState \union {Nothing}] /\ Onwards /\ Turns'
<1>1. /\ req' \in [Requests -> Http!RequestState \union {Nothing}]
      /\ req'[r] # Nothing /\ req'[r].at = to /\ req'[r].worker = req[r].worker
      /\ \A q \in Requests \ {r} : req'[q] = req[q]
  BY GoesIs DEF HttpIInv
<1>2. Onwards
  BY <1>1 DEF Onwards, Early
<1>3. Turns'
  <2>1. CASE Limited
    <3>1. \A q \in Requests :
            /\ (Busy(q)' <=> Busy(q)) /\ (HttpWaits(q)' <=> HttpWaits(q))
            /\ req[q] # Nothing => req'[q].worker = req[q].worker
      BY <1>1, <2>1 DEF Busy, HttpWaits
    <3>2. HttpTypeOK /\ Turns
      BY DEF HttpIInv
    <3> QED
      BY <3>1, <3>2, SameTurns
  <2>2. CASE ~Limited
    BY <2>2, Unlimited DEF Http!limiter
  <2> QED
    BY <2>1, <2>2
<1> QED
  BY <1>1, <1>2, <1>3

LEMMA StartIs ==
  ASSUME Http!HttpRequestsConstants, HttpIInv, NEW r \in Requests, Http!At(r, "payload"), Http!Start(r), worker_limit' = worker_limit
  PROVE  /\ req' \in [Requests -> Http!RequestState \union {Nothing}] /\ Onwards /\ Turns'
         /\ concurrents' \in [HttpWorkers -> Int] /\ waiters' \in [HttpWorkers -> Seq(Requests)] /\ limiters' \subseteq HttpWorkers
<1>1. req[r] # Nothing /\ ~HttpWaits(r) /\ ~Busy(r) /\ ~Early(r) /\ worker_limit \in Int
  BY DEF Http!At, HttpWaits, Busy, Early, HttpIInv, HttpTypeOK
<1>2. CASE worker_limit <= 0
  <2>1. (Http!Goes(r, "handle") \/ Http!Goes(r, "for ever")) /\ UNCHANGED Http!limiter
    <3>1. worker_limit < 0 \/ (~(worker_limit < 0) /\ worker_limit = 0)
      BY <1>1, <1>2
    <3> QED
      BY <3>1, Zenon DEF Http!Start
  <2>2. req' \in [Requests -> Http!RequestState \union {Nothing}] /\ Onwards /\ Turns'
    <3>0. ~Limited
      BY <1>1, <1>2 DEF Limited
    <3>1. CASE Http!Goes(r, "handle")
      BY <1>1, <2>1, <3>0, <3>1, GoesOn
    <3>2. CASE Http!Goes(r, "for ever")
      BY <1>1, <2>1, <3>0, <3>2, GoesOn
    <3> QED
      BY <2>1, <3>1, <3>2
  <2> QED
    BY <2>1, <2>2 DEF Http!limiter, HttpIInv, HttpTypeOK
<1>3. CASE worker_limit > 0
  <2> DEFINE w == req[r].worker
             waiting == Append(waiters[w], r)
  <2>1. w \in HttpWorkers /\ waiters[w] \in Seq(Requests) /\ concurrents[w] \in Int
    BY <1>1 DEF HttpIInv, HttpTypeOK, Http!RequestState
  <2>2. Turn(w)
    BY <1>3, <2>1 DEF HttpIInv, Turns
  <2>3. r \notin Http!Waiting(w) /\ r \notin Http!Handled(w)
    BY <1>1 DEF Http!Waiting, Http!Handled, HttpWaits, Busy
  <2>4. /\ waiting \in Seq(Requests) /\ IsOnce(waiting) /\ Len(waiting) = Len(waiters[w]) + 1
        /\ Elements(waiting) = Http!Waiting(w) \union {r}
    BY <2>1, <2>2, <2>3, AppendIs DEF Turn
  <2>5. Http!Handled(w) \ {r} = Http!Handled(w) /\ concurrents[w] = Cardinality(Http!Handled(w)) /\ concurrents[w] <= worker_limit
    BY <2>2, <2>3 DEF Turn
  <2>6. Len(waiting) <= 1 \/ concurrents[w] >= worker_limit - 1
    BY <1>1, <2>1, <2>2, <2>4 DEF Turn
  <2>7. Http!CheckConcurrent(w, concurrents[w], waiting) /\ Http!CleanupLimiter(w) /\ Http!Resume(Http!Woken(w, waiting), r, "wait")
    <3>1. ~(worker_limit < 0) /\ worker_limit # 0
      BY <1>1, <1>3
    <3> QED
      BY <3>1, Zenon DEF Http!Start
  <2> HIDE DEF waiting
  <2> QED
    BY <1>1, <1>3, <2>1, <2>4, <2>5, <2>6, <2>7, TurnTaken
<1> QED
  BY <1>1, <1>2, <1>3

LEMMA StopIs ==
  ASSUME Http!HttpRequestsConstants, HttpIInv, NEW r \in Requests, Http!At(r, "handle") \/ Http!At(r, "sent"), Http!Stop(r),
         worker_limit' = worker_limit
  PROVE  /\ req' \in [Requests -> Http!RequestState \union {Nothing}] /\ Onwards /\ Turns'
         /\ concurrents' \in [HttpWorkers -> Int] /\ waiters' \in [HttpWorkers -> Seq(Requests)] /\ limiters' \subseteq HttpWorkers
<1>1. req[r] # Nothing /\ ~HttpWaits(r) /\ Busy(r) /\ ~Early(r) /\ worker_limit \in Int
  BY DEF Http!At, HttpWaits, Busy, Early, HttpIInv, HttpTypeOK
<1>2. CASE worker_limit <= 0
  <2>1. Http!Goes(r, "over") /\ UNCHANGED Http!limiter
    BY <1>1, <1>2 DEF Http!Stop
  <2>2. req' \in [Requests -> Http!RequestState \union {Nothing}] /\ Onwards /\ Turns'
    <3>1. ~Limited
      BY <1>1, <1>2 DEF Limited
    <3> QED
      BY <1>1, <2>1, <3>1, GoesOn
  <2> QED
    BY <2>1, <2>2 DEF Http!limiter, HttpIInv, HttpTypeOK
<1>3. CASE worker_limit > 0
  <2> DEFINE w == req[r].worker
  <2>1. w \in HttpWorkers /\ waiters[w] \in Seq(Requests) /\ concurrents[w] \in Int
    BY <1>1 DEF HttpIInv, HttpTypeOK, Http!RequestState
  <2>2. Turn(w)
    BY <1>3, <2>1 DEF HttpIInv, Turns
  <2>3. r \in Http!Handled(w) /\ Http!Handled(w) \subseteq Requests
    BY <1>1 DEF Http!Handled, Busy
  <2>4. Cardinality(Http!Handled(w) \ {r}) = concurrents[w] - 1
    BY <2>2, <2>3, OneMore DEF Turn
  <2>5. concurrents[w] - 1 <= worker_limit /\ (Len(waiters[w]) <= 1 \/ concurrents[w] - 1 >= worker_limit - 1)
    BY <1>1, <2>1, <2>2 DEF Turn
  <2>6. Http!CheckConcurrent(w, concurrents[w] - 1, waiters[w]) /\ Http!CleanupLimiter(w)
        /\ Http!Resume(Http!Woken(w, waiters[w]), r, "over")
    BY <1>1, <1>3 DEF Http!Stop
  <2>7. IsOnce(waiters[w]) /\ Elements(waiters[w]) = Http!Waiting(w) \union {}
    BY <2>2 DEF Turn
  <2> QED
    BY <1>1, <1>3, <2>1, <2>4, <2>5, <2>6, <2>7, TurnTaken
<1> QED
  BY <1>1, <1>2, <1>3
-----------------------------------------------------------------------------
(* The steps *)

\* What most steps do to the rest.
LEMMA HttpKept ==
  ASSUME Http!HttpRequestsConstants, HttpIInv, UNCHANGED Http!settings, UNCHANGED http_excused,
         NEW r \in Requests, Ends(r) \/ UNCHANGED <<closed, tracked, count>>,
         req' \in [Requests -> Http!RequestState \union {Nothing}], Onwards, Turns',
         concurrents' \in [HttpWorkers -> Int], waiters' \in [HttpWorkers -> Seq(Requests)], limiters' \subseteq HttpWorkers
  PROVE  HttpIInv'
<1>1. Counts' /\ closed' \subseteq Requests /\ tracked' \subseteq Requests /\ count' \in Int
  BY EndsCounts DEF HttpIInv
<1>2. HttpTypeOK'
  BY <1>1 DEF HttpIInv, HttpTypeOK, Http!settings
<1> QED
  BY <1>1, <1>2 DEF HttpIInv

LEMMA KeptLimiter ==
  ASSUME HttpIInv, UNCHANGED Http!limiter
  PROVE  concurrents' \in [HttpWorkers -> Int] /\ waiters' \in [HttpWorkers -> Seq(Requests)] /\ limiters' \subseteq HttpWorkers
BY DEF HttpIInv, HttpTypeOK, Http!limiter

LEMMA AnswerEnds ==
  ASSUME HttpIInv, NEW r \in Requests, Http!Answer(r)
  PROVE  Ends(r)
BY HttpAnswerIs DEF HttpIInv

\* A step of a request that leaves the turns alone.
LEMMA StepIs ==
  ASSUME Http!HttpRequestsConstants, HttpIInv, UNCHANGED Http!settings, UNCHANGED http_excused, UNCHANGED Http!limiter,
         NEW r \in Requests, req[r] # Nothing, ~HttpWaits(r),
         Http!Answer(r) \/ UNCHANGED <<closed, tracked, count>>,
         NEW to \in {"allowed", "track", "metrics", "payload", "for ever", "handle", "sent", "over"}, Http!Goes(r, to),
         to \in {"allowed", "track"} => Early(r),
         Busy(r) <=> to \in {"handle", "sent"}
  PROVE  HttpIInv'
<1>1. worker_limit' = worker_limit
  BY DEF Http!settings
<1>2. req' \in [Requests -> Http!RequestState \union {Nothing}] /\ Onwards /\ Turns'
  BY <1>1, GoesOn
<1>3. Ends(r) \/ UNCHANGED <<closed, tracked, count>>
  BY AnswerEnds
<1> QED
  BY <1>2, <1>3, HttpKept, KeptLimiter

LEMMA ArriveKeeps ==
  ASSUME Http!HttpRequestsConstants, HttpIInv, NEW r \in Requests, NEW w \in HttpWorkers, NEW what \in {"send", "reply", "metrics"},
         Http!Arrive(r, w, what)
  PROVE  HttpIInv'
<1>1. /\ req' = [req EXCEPT ![r] = Http!Request("auth", w, what)] /\ req[r] = Nothing
      /\ UNCHANGED <<Http!settings, closed, tracked, count, Http!limiter, http_excused>>
  BY DEF Http!Arrive
<1>2. HttpTypeOK /\ Turns /\ worker_limit' = worker_limit
  BY <1>1 DEF HttpIInv, Http!settings
<1>3. Http!Request("auth", w, what) \in Http!RequestState /\ Http!Request("auth", w, what).at = "auth"
  BY DEF Http!Request, Http!RequestState
<1>4. Http!Request("auth", w, what) # Nothing
  BY <1>3 DEF Http!HttpRequestsConstants
<1>5. /\ req' \in [Requests -> Http!RequestState \union {Nothing}] /\ req'[r] = Http!Request("auth", w, what)
      /\ \A q \in Requests \ {r} : req'[q] = req[q]
  BY <1>1, <1>2, <1>3 DEF HttpTypeOK
<1>6. Onwards
  BY <1>1, <1>5 DEF Onwards, Early
<1>7. \A q \in Requests :
        /\ (Busy(q)' <=> Busy(q)) /\ (HttpWaits(q)' <=> HttpWaits(q))
        /\ req[q] # Nothing => req'[q].worker = req[q].worker
  BY <1>1, <1>3, <1>4, <1>5 DEF Busy, HttpWaits
<1>8. UNCHANGED Http!limiter
  BY <1>1
<1>9. Turns'
  BY <1>2, <1>7, <1>8, SameTurns
<1> QED
  BY <1>1, <1>5, <1>6, <1>8, <1>9, HttpKept, KeptLimiter

LEMMA RequestAvatarIdKeeps ==
  ASSUME Http!HttpRequestsConstants, HttpIInv, NEW r \in Requests, Http!RequestAvatarId(r)
  PROVE  HttpIInv'
<1>1. req[r] # Nothing /\ ~HttpWaits(r) /\ ~Busy(r) /\ Early(r)
  BY DEF Http!RequestAvatarId, Http!At, HttpWaits, Busy, Early
<1>2. UNCHANGED Http!settings /\ UNCHANGED Http!limiter /\ UNCHANGED http_excused
  BY DEF Http!RequestAvatarId
<1>3. CASE Http!Goes(r, "allowed") /\ UNCHANGED <<closed, tracked, count>>
  BY <1>1, <1>2, <1>3, StepIs
<1>4. CASE Http!Goes(r, "over") /\ Http!Answer(r)
  BY <1>1, <1>2, <1>4, StepIs
<1> QED
  BY <1>3, <1>4 DEF Http!RequestAvatarId

LEMMA IsAllowedKeeps ==
  ASSUME Http!HttpRequestsConstants, HttpIInv, NEW r \in Requests, Http!IsAllowed(r)
  PROVE  HttpIInv'
<1>1. req[r] # Nothing /\ ~HttpWaits(r) /\ ~Busy(r) /\ Early(r)
  BY DEF Http!IsAllowed, Http!At, HttpWaits, Busy, Early
<1>2. UNCHANGED Http!settings /\ UNCHANGED Http!limiter /\ UNCHANGED http_excused
  BY DEF Http!IsAllowed
<1>3. CASE Http!Goes(r, "track") /\ UNCHANGED <<closed, tracked, count>>
  BY <1>1, <1>2, <1>3, StepIs
<1>4. CASE Http!Goes(r, "over") /\ Http!Answer(r)
  BY <1>1, <1>2, <1>4, StepIs
<1> QED
  BY <1>3, <1>4, Zenon DEF Http!IsAllowed

LEMMA TrackRequestKeeps ==
  ASSUME Http!HttpRequestsConstants, HttpIInv, NEW r \in Requests, Http!TrackRequest(r)
  PROVE  HttpIInv'
<1> DEFINE to == IF req[r].what = "metrics" THEN "metrics" ELSE "payload"
<1>1. /\ req[r] # Nothing /\ ~HttpWaits(r) /\ ~Busy(r) /\ Early(r)
      /\ count' = count + 1 /\ closed' = closed
      /\ UNCHANGED Http!settings /\ UNCHANGED Http!limiter
      /\ IF r \in closed THEN tracked' = tracked /\ http_excused' = TRUE
         ELSE tracked' = tracked \union {r} /\ http_excused' = http_excused
  BY DEF Http!TrackRequest, Http!At, HttpWaits, Busy, Early
<1>2. Http!Goes(r, to) /\ to \in {"metrics", "payload"}
  BY DEF Http!TrackRequest
<1> HIDE DEF to
<1>3. worker_limit' = worker_limit /\ HttpTypeOK /\ Counts
  BY <1>1 DEF Http!settings, HttpIInv
<1>4. req' \in [Requests -> Http!RequestState \union {Nothing}] /\ Onwards /\ Turns'
  BY <1>1, <1>2, <1>3, GoesOn
<1>5. req'[r] # Nothing /\ req'[r].at = to
  BY <1>1, <1>2, <1>3, GoesIs
<1>6. r \notin tracked
  BY <1>1, <1>3 DEF Counts
<1>7. tracked' \subseteq tracked \union {r} /\ tracked' \subseteq Requests /\ http_excused' \in BOOLEAN /\ count' \in Int
  <2>1. http_excused' \in BOOLEAN
    BY <1>1, <1>3, Zenon DEF HttpTypeOK
  <2>2. tracked' \subseteq tracked \union {r} /\ tracked \subseteq Requests /\ count' \in Int
    <3>1. CASE r \in closed
      BY <1>1, <1>3, <3>1 DEF HttpTypeOK
    <3>2. CASE r \notin closed
      BY <1>1, <1>3, <3>2 DEF HttpTypeOK
    <3> QED
      BY <3>1, <3>2
  <2> QED
    BY <2>1, <2>2
<1>8. \A q \in tracked' : ~Early(q)'
  <2>1. ~Early(r)'
    BY <1>2, <1>5 DEF Early
  <2>2. ASSUME NEW q \in tracked PROVE ~Early(q)'
    BY <1>3, <1>4 DEF Counts, Onwards, HttpTypeOK
  <2> QED
    BY <1>7, <2>1, <2>2
<1>9. tracked' \intersect closed' = {} /\ (http_excused' \/ count' = Cardinality(tracked'))
  <2>1. CASE r \in closed
    BY <1>1, <1>3, <2>1 DEF Counts
  <2>2. CASE r \notin closed
    <3>1. Cardinality(tracked \union {r}) = Cardinality(tracked) + 1
      BY <1>3, <1>6, OneMore DEF HttpTypeOK
    <3> QED
      BY <1>1, <1>3, <2>2, <3>1 DEF Counts
  <2> QED
    BY <2>1, <2>2
<1>10. Counts'
  BY <1>8, <1>9 DEF Counts, Early
<1>11. HttpTypeOK'
  BY <1>1, <1>3, <1>4, <1>7, KeptLimiter DEF HttpTypeOK, Http!settings
<1> QED
  BY <1>4, <1>10, <1>11 DEF HttpIInv

LEMMA HandlePutKeeps ==
  ASSUME Http!HttpRequestsConstants, HttpIInv, NEW r \in Requests, Http!HandlePut(r)
  PROVE  HttpIInv'
<1>1. Http!At(r, "payload") /\ req[r] # Nothing /\ ~HttpWaits(r) /\ ~Busy(r)
  BY DEF Http!HandlePut, Http!At, HttpWaits, Busy
<1>2. UNCHANGED Http!settings /\ UNCHANGED http_excused /\ worker_limit' = worker_limit
  BY DEF Http!HandlePut, Http!settings
<1>3. CASE Http!Start(r) /\ UNCHANGED <<closed, tracked, count>>
  BY <1>1, <1>2, <1>3, StartIs, HttpKept
<1>4. CASE Http!Goes(r, "over") /\ UNCHANGED Http!limiter /\ (Http!Answer(r) \/ UNCHANGED <<closed, tracked, count>>)
  BY <1>1, <1>2, <1>4, StepIs
<1> QED
  BY <1>3, <1>4 DEF Http!HandlePut

LEMMA HttpHandleKeeps ==
  ASSUME Http!HttpRequestsConstants, HttpIInv, NEW r \in Requests, Http!Handle(r)
  PROVE  HttpIInv'
<1>1. Http!At(r, "handle") /\ req[r] # Nothing /\ ~HttpWaits(r) /\ Busy(r)
  BY DEF Http!Handle, Http!At, HttpWaits, Busy
<1>2. UNCHANGED Http!settings /\ UNCHANGED http_excused /\ worker_limit' = worker_limit
  BY DEF Http!Handle, Http!settings
<1>3. CASE Http!Goes(r, "sent") /\ UNCHANGED <<closed, tracked, count, Http!limiter>>
  BY <1>1, <1>2, <1>3, StepIs
<1>4. CASE Http!Stop(r) /\ (Http!Answer(r) \/ UNCHANGED <<closed, tracked, count>>)
  BY <1>1, <1>2, <1>4, StopIs, AnswerEnds, HttpKept
<1> QED
  BY <1>3, <1>4 DEF Http!Handle, Http!Finally

LEMMA SuccessfulSendKeeps ==
  ASSUME Http!HttpRequestsConstants, HttpIInv, NEW r \in Requests, Http!SuccessfulSend(r)
  PROVE  HttpIInv'
<1>1. /\ Http!At(r, "sent") /\ Http!Stop(r) /\ Http!Answer(r)
      /\ UNCHANGED Http!settings /\ UNCHANGED http_excused /\ worker_limit' = worker_limit
  BY DEF Http!SuccessfulSend, Http!settings
<1> QED
  BY <1>1, StopIs, AnswerEnds, HttpKept

LEMMA HandleMetricsKeeps ==
  ASSUME Http!HttpRequestsConstants, HttpIInv, NEW r \in Requests, Http!HandleMetrics(r)
  PROVE  HttpIInv'
<1>1. req[r] # Nothing /\ ~HttpWaits(r) /\ ~Busy(r) /\ Http!Goes(r, "over")
  BY DEF Http!HandleMetrics, Http!At, HttpWaits, Busy
<1>2. /\ UNCHANGED Http!settings /\ UNCHANGED http_excused /\ UNCHANGED Http!limiter
      /\ Http!Answer(r) \/ UNCHANGED <<closed, tracked, count>>
  BY DEF Http!HandleMetrics
<1> QED
  BY <1>1, <1>2, StepIs

LEMMA ConnectionLostKeeps ==
  ASSUME Http!HttpRequestsConstants, HttpIInv, NEW r \in Requests, Http!ConnectionLost(r)
  PROVE  HttpIInv'
<1>1. /\ Ends(r) /\ UNCHANGED Http!settings /\ UNCHANGED http_excused /\ UNCHANGED Http!limiter /\ req' = req
      /\ worker_limit' = worker_limit
  BY DEF Http!ConnectionLost, Ends, Http!Released, Http!settings
<1>2. HttpTypeOK /\ Turns
  BY DEF HttpIInv
<1>3. req' \in [Requests -> Http!RequestState \union {Nothing}] /\ Onwards
  BY <1>1, <1>2 DEF Onwards, Early, HttpTypeOK
<1>4. \A q \in Requests :
        /\ (Busy(q)' <=> Busy(q)) /\ (HttpWaits(q)' <=> HttpWaits(q))
        /\ req[q] # Nothing => req'[q].worker = req[q].worker
  BY <1>1 DEF Busy, HttpWaits
<1>5. Turns'
  BY <1>1, <1>2, <1>4, SameTurns
<1> QED
  BY <1>1, <1>3, <1>5, HttpKept, KeptLimiter

LEMMA NothingIs == Cardinality({}) = 0 /\ Elements(<<>>) = {} /\ IsOnce(<<>>)
BY FS_EmptySet DEF Elements, IsOnce

LEMMA HttpWorkerDiesKeeps ==
  ASSUME Http!HttpRequestsConstants, HttpIInv, NEW w \in HttpWorkers, Http!WorkerDies(w)
  PROVE  HttpIInv'
<1> DEFINE lost == {r \in Requests : req[r] # Nothing /\ req[r].worker = w}
<1>1. /\ req' = [r \in Requests |-> IF r \in lost THEN Http!Moved(r, "over") ELSE req[r]]
      /\ closed' = closed \union lost /\ tracked' = tracked \ lost /\ count' = count
      /\ concurrents' = [concurrents EXCEPT ![w] = 0] /\ waiters' = [waiters EXCEPT ![w] = <<>>]
      /\ limiters' = limiters \ {w} /\ UNCHANGED Http!settings
      /\ http_excused' = (http_excused \/ tracked # tracked')
  BY DEF Http!WorkerDies
<1>2. HttpTypeOK /\ Counts /\ Turns
  BY DEF HttpIInv
<1>3. ASSUME NEW q \in Requests
      PROVE  /\ q \in lost => /\ req'[q] \in Http!RequestState /\ req'[q].at = "over" /\ req'[q].worker = w
                              /\ req'[q] # Nothing
             /\ q \notin lost => req'[q] = req[q]
  <2>1. CASE q \in lost
    <3>1. req[q] # Nothing /\ req[q].worker = w /\ req'[q] = Http!Moved(q, "over")
      BY <1>1, <2>1
    <3>2. Http!Moved(q, "over") \in Http!RequestState /\ Http!Moved(q, "over").at = "over" /\ Http!Moved(q, "over").worker = req[q].worker
      BY <1>2, <3>1, MovedIs
    <3> QED
      BY <2>1, <3>1, <3>2 DEF Http!HttpRequestsConstants
  <2>2. CASE q \notin lost
    BY <1>1, <2>2
  <2> QED
    BY <2>1, <2>2
<1>4. req' \in [Requests -> Http!RequestState \union {Nothing}]
  BY <1>1, <1>2, <1>3 DEF HttpTypeOK
<1>5. lost \subseteq Requests
  OBVIOUS
<1>6. /\ closed' \subseteq Requests /\ tracked' \subseteq Requests /\ http_excused' \in BOOLEAN
      /\ concurrents' \in [HttpWorkers -> Int] /\ waiters' \in [HttpWorkers -> Seq(Requests)] /\ limiters' \subseteq HttpWorkers
  BY <1>1, <1>2, <1>5 DEF HttpTypeOK
<1>7. HttpTypeOK'
  BY <1>1, <1>2, <1>4, <1>6 DEF HttpTypeOK, Http!settings
<1>8. Counts'
  <2>1. tracked' \intersect closed' = {}
    BY <1>1, <1>2 DEF Counts
  <2>2. ASSUME NEW r \in tracked' PROVE ~Early(r)'
    <3>1. r \in tracked /\ r \notin lost /\ r \in Requests
      BY <1>1, <1>2 DEF HttpTypeOK
    <3>2. ~Early(r) /\ req'[r] = req[r]
      BY <1>2, <1>3, <3>1 DEF Counts
    <3> QED
      BY <3>2 DEF Early
  <2>3. http_excused' \/ count' = Cardinality(tracked')
    BY <1>1, <1>2 DEF Counts
  <2> QED
    BY <2>1, <2>2, <2>3 DEF Counts, Early
<1>9. ASSUME NEW v \in HttpWorkers, worker_limit > 0 PROVE Turn(v)'
  <2>0. Turn(v) /\ worker_limit' = worker_limit /\ worker_limit \in Int
    BY <1>1, <1>2, <1>9 DEF Turns, HttpTypeOK, Http!settings
  <2>1. CASE v = w
    <3>1. Http!Handled(v)' = {} /\ Http!Waiting(v)' = {}
      BY <1>3, <2>1 DEF Http!Handled, Http!Waiting
    <3>2. concurrents'[v] = 0 /\ waiters'[v] = <<>> /\ v \notin limiters'
      BY <1>1, <1>2, <2>1 DEF HttpTypeOK
    <3> QED
      BY <1>9, <2>0, <3>1, <3>2, NothingIs DEF Turn
  <2>2. CASE v # w
    <3>1. Http!Handled(v)' = Http!Handled(v) /\ Http!Waiting(v)' = Http!Waiting(v)
      BY <1>3, <2>2 DEF Http!Handled, Http!Waiting
    <3>2. concurrents'[v] = concurrents[v] /\ waiters'[v] = waiters[v] /\ (v \in limiters' <=> v \in limiters)
      BY <1>1, <1>2, <2>2 DEF HttpTypeOK
    <3> QED
      BY <2>0, <3>1, <3>2 DEF Turn
  <2> QED
    BY <2>1, <2>2
<1>10. Turns'
  BY <1>1, <1>2, <1>9 DEF Turns, HttpTypeOK, Http!settings
<1> QED
  BY <1>7, <1>8, <1>10 DEF HttpIInv

LEMMA HttpOthersKeep ==
  ASSUME Http!HttpRequestsConstants, HttpIInv, Http!OptOut \/ UNCHANGED Http!vars
  PROVE  HttpIInv'
<1>1. UNCHANGED <<Http!settings, req, closed, tracked, count, Http!limiter, http_excused>>
  BY DEF Http!OptOut, Http!vars
<1>2. HttpTypeOK /\ Turns /\ Counts /\ UNCHANGED Http!limiter /\ worker_limit' = worker_limit
  BY <1>1 DEF HttpIInv, Http!settings
<1>3. \A q \in Requests :
        /\ (Busy(q)' <=> Busy(q)) /\ (HttpWaits(q)' <=> HttpWaits(q))
        /\ req[q] # Nothing => req'[q].worker = req[q].worker
  BY <1>1 DEF Busy, HttpWaits
<1>4. Turns'
  BY <1>2, <1>3, SameTurns
<1>5. Counts'
  BY <1>1, <1>2 DEF Counts, Early
<1>6. HttpTypeOK'
  BY <1>1, <1>2, KeptLimiter DEF HttpTypeOK, Http!settings
<1> QED
  BY <1>4, <1>5, <1>6 DEF HttpIInv

LEMMA NextKeeps ==
  ASSUME Http!HttpRequestsConstants, HttpIInv, [Http!Next]_(Http!vars)
  PROVE  HttpIInv'
<1>1. CASE \E r \in Requests, w \in HttpWorkers, what \in {"send", "reply", "metrics"} : Http!Arrive(r, w, what)
  BY <1>1, ArriveKeeps
<1>2. CASE \E r \in Requests : Http!RequestAvatarId(r)
  BY <1>2, RequestAvatarIdKeeps
<1>3. CASE \E r \in Requests : Http!IsAllowed(r)
  BY <1>3, IsAllowedKeeps
<1>4. CASE \E r \in Requests : Http!TrackRequest(r)
  BY <1>4, TrackRequestKeeps
<1>5. CASE \E r \in Requests : Http!HandlePut(r)
  BY <1>5, HandlePutKeeps
<1>6. CASE \E r \in Requests : Http!Handle(r)
  BY <1>6, HttpHandleKeeps
<1>7. CASE \E r \in Requests : Http!SuccessfulSend(r)
  BY <1>7, SuccessfulSendKeeps
<1>8. CASE \E r \in Requests : Http!HandleMetrics(r)
  BY <1>8, HandleMetricsKeeps
<1>9. CASE \E r \in Requests : Http!ConnectionLost(r)
  BY <1>9, ConnectionLostKeeps
<1>10. CASE \E w \in HttpWorkers : Http!WorkerDies(w)
  BY <1>10, HttpWorkerDiesKeeps
<1>11. CASE Http!OptOut \/ UNCHANGED Http!vars
  BY <1>11, HttpOthersKeep
<1> QED
  BY <1>1, <1>2, <1>3, <1>4, <1>5, <1>6, <1>7, <1>8, <1>9, <1>10, <1>11 DEF Http!Next

LEMMA InitTakes ==
  ASSUME Http!HttpRequestsConstants, Http!Init
  PROVE  HttpIInv
<1>1. HttpTypeOK
  <2>1. <<>> \in Seq(Requests)
    OBVIOUS
  <2>2. limit \in Int /\ worker_limit \in Int
    BY DEF Http!Init, Http!HttpRequestsConstants
  <2>3. req \in [Requests -> Http!RequestState \union {Nothing}]
    BY DEF Http!Init
  <2>4. concurrents \in [HttpWorkers -> Int] /\ waiters \in [HttpWorkers -> Seq(Requests)] /\ limiters \subseteq HttpWorkers
    BY <2>1 DEF Http!Init
  <2>5. closed \subseteq Requests /\ tracked \subseteq Requests /\ count \in Int
    BY DEF Http!Init
  <2>6. http_excused \in BOOLEAN
    BY DEF Http!Init
  <2> QED
    BY <2>2, <2>3, <2>4, <2>5, <2>6 DEF HttpTypeOK
<1>2. Counts
  BY NothingIs DEF Http!Init, Counts
<1>3. ASSUME NEW w \in HttpWorkers, worker_limit > 0 PROVE Turn(w)
  <2>1. Http!Handled(w) = {} /\ Http!Waiting(w) = {}
    BY DEF Http!Init, Http!Handled, Http!Waiting
  <2>2. concurrents[w] = 0 /\ waiters[w] = <<>> /\ w \notin limiters /\ worker_limit \in Int
    BY <1>1 DEF Http!Init, HttpTypeOK
  <2> QED
    BY <1>3, <2>1, <2>2, NothingIs DEF Turn
<1>4. Turns
  BY <1>3 DEF Turns, Http!Init
<1> QED
  BY <1>1, <1>2, <1>4 DEF HttpIInv

\* What the library counts is what the model counts.
LEMMA TurnsAre ==
  ASSUME Http!HttpRequestsConstants, HttpIInv
  PROVE  Http!TurnsAreTaken
<1>1. HttpTypeOK /\ Counts /\ Turns
  BY DEF HttpIInv
<1>2. ASSUME NEW w \in HttpWorkers, Turn(w)
      PROVE  /\ Cardinality(Http!Handled(w)) <= worker_limit
             /\ Http!Waiting(w) # {} => Cardinality(Http!Handled(w)) = worker_limit
  <2>1. waiters[w] = <<>> => Http!Waiting(w) = {}
    BY <1>2, NothingIs DEF Turn
  <2> QED
    BY <1>2, <2>1 DEF Turn
<1>3. ASSUME \A r \in Requests : req[r] # Nothing => Http!At(r, "over") /\ r \in closed
      PROVE  limiters = {} /\ (http_excused \/ count = 0)
  <2>1. tracked = {}
    BY <1>1, <1>3 DEF Counts, HttpTypeOK, Early
  <2>2. http_excused \/ count = 0
    BY <1>1, <2>1, NothingIs DEF Counts
  <2>3. ASSUME NEW w \in HttpWorkers, Turn(w) PROVE w \notin limiters
    <3>1. Http!Handled(w) = {} /\ Http!Waiting(w) = {}
      BY <1>3 DEF Http!Handled, Http!Waiting, Http!At
    <3>2. concurrents[w] = 0
      BY <2>3, <3>1, NothingIs DEF Turn
    <3>3. waiters[w] = <<>>
      <4>1. waiters[w] \in Seq(Requests) /\ Elements(waiters[w]) = {}
        BY <1>1, <2>3, <3>1 DEF Turn, HttpTypeOK
      <4>2. \A i \in 1..Len(waiters[w]) : FALSE
        BY <4>1 DEF Elements
      <4>3. Len(waiters[w]) \in Nat /\ ~(1 \in 1..Len(waiters[w]))
        BY <4>1, <4>2
      <4> QED
        BY <4>1, <4>3
    <3> QED
      BY <2>3, <3>2, <3>3 DEF Turn
  <2>4. limiters = {}
    <3>1. CASE worker_limit > 0
      BY <1>1, <2>3, <3>1 DEF Turns, HttpTypeOK
    <3>2. CASE worker_limit <= 0
      BY <1>1, <3>2 DEF Turns
    <3>3. worker_limit > 0 \/ worker_limit <= 0
      BY <1>1 DEF HttpTypeOK
    <3> QED
      BY <3>1, <3>2, <3>3
  <2> QED
    BY <2>2, <2>4
<1>4. ASSUME NEW w \in HttpWorkers, worker_limit > 0 PROVE Turn(w)
  BY <1>1, <1>4 DEF Turns
<1> QED
  BY <1>2, <1>3, <1>4, LibraryCounts DEF Http!TurnsAreTaken

(* No worker handles more requests than its limit or lets one wait while   *)
(* it handles fewer, and what is over leaves neither a limiter nor a count, *)
(* for any number of requests, workers and faults.                         *)
THEOREM TurnsAreTakenAndGivenBack ==
  ASSUME Http!HttpRequestsConstants
  PROVE  Http!Spec => []Http!TurnsAreTaken
<1>1. Http!Init => HttpIInv
  BY InitTakes
<1>2. HttpIInv /\ [Http!Next]_(Http!vars) => HttpIInv'
  BY NextKeeps
<1>3. HttpIInv => Http!TurnsAreTaken
  BY TurnsAre
<1> QED
  BY <1>1, <1>2, <1>3, PTL DEF Http!Spec

-----------------------------------------------------------------------------
(* The metrics of conversations (Metrics): where each conversation is in   *)
(* the cycle of the collector.                                             *)
\* What the library says of sets and functions is what the module does.
LEMMA LibraryLists ==
  /\ \A S : Metering!IsFiniteSet(S) <=> IsFiniteSet(S)
  /\ \A S : Metering!SetToSeq(S) = CHOOSE f \in [1..Cardinality(S) -> S] : IsInjective(f)
<1>1. \A S : Metering!IsFiniteSet(S) <=> IsFiniteSet(S)
  BY Zenon DEF Metering!IsFiniteSet, IsFiniteSet
<1>2. \A S : Metering!Cardinality(S) = Cardinality(S)
  BY DEF Metering!Cardinality, Cardinality
<1>3. \A f : Metering!IsInjective(f) <=> IsInjective(f)
  BY Zenon DEF Metering!IsInjective, IsInjective
<1> QED
  BY <1>1, <1>2, <1>3, Zenon DEF Metering!SetToSeq

Held(c) == c \in Elements(buckets[BucketOf[c]])
AllEmpty == \A b \in 0..(NumBuckets - 1) : buckets[b] = <<>>

MeteringTypeOK ==
  /\ running \subseteq MeteringConvs /\ disabled \subseteq Accounts
  /\ current_bucket \in 0..(NumBuckets - 1) /\ buckets \in [0..(NumBuckets - 1) -> Seq(MeteringConvs)]
  /\ accounts \subseteq Accounts /\ keys \in Seq(MeteringConvs) /\ commands \in Seq(MeteringConvs)
  /\ sent \in [MeteringConvs -> Nat] /\ steady \subseteq MeteringConvs
  /\ collecting \in MeteringConvs \union {Nothing} /\ in_progress \subseteq MeteringConvs

(* A conversation is in its bucket once, and in the list of what is filled *)
(* or sent once.                                                           *)
Sorted ==
  /\ IsOnce(keys)
  /\ \A b \in 0..(NumBuckets - 1) :
       IsOnce(buckets[b]) /\ \A c \in Elements(buckets[b]) : BucketOf[c] = b

(* What is in a bucket was not sent; when the buckets are filled nothing   *)
(* was, and what is to be listed or filled is in none.                     *)
MeteringUnsent ==
  /\ \A c \in MeteringConvs : sent[c] <= 1
  /\ metering_at \in {"accounts", "list", "fill"} => \A c \in MeteringConvs : sent[c] = 0
  /\ metering_at \in {"accounts", "list", "fill", "cycled"} => current_bucket = 0
  /\ metering_at \in {"list", "fill"} => \A c \in MeteringConvs : OwnerOf[c] \in accounts => ~Held(c)
  /\ metering_at = "fill" => \A c \in Elements(keys) : ~Held(c) /\ OwnerOf[c] \notin accounts
  /\ metering_at \in {"idle", "process", "send"} => \A c \in MeteringConvs : Held(c) => sent[c] = 0
  /\ metering_at = "send" => \A c \in Elements(keys) : sent[c] = 0 /\ BucketOf[c] = current_bucket

\* The buckets that were processed are empty.
Processed ==
  /\ metering_at \in {"idle", "process", "send"} => \A b \in 0..(current_bucket - 1) : buckets[b] = <<>>
  /\ metering_at = "send" => buckets[current_bucket] = <<>>
  /\ metering_at \in {"accounts", "cycled"} \/ (metering_at = "idle" /\ current_bucket = 0) => AllEmpty

\* What is to be collected in the cycle is yet to be listed, filled or sent, or was sent.
Steady ==
  /\ \A c \in steady : Metering!Enabled(c)
  /\ metering_at = "list" => \A c \in steady : OwnerOf[c] \in accounts \/ Held(c)
  /\ metering_at = "fill" => \A c \in steady : OwnerOf[c] \in accounts \/ Held(c) \/ c \in Elements(keys)
  /\ metering_at = "process" \/ (metering_at = "idle" /\ current_bucket # 0) => \A c \in steady : Held(c) \/ sent[c] = 1
  /\ metering_at = "send" => \A c \in steady : Held(c) \/ sent[c] = 1 \/ c \in Elements(keys)
  /\ metering_at = "cycled" => \A c \in steady : sent[c] = 1

\* What is in progress is collected, or raised.
InProgress == in_progress \subseteq raised \union {collecting} /\ ignored \subseteq raised

MeteringIInv == MeteringTypeOK /\ Sorted /\ MeteringUnsent /\ Processed /\ Steady /\ InProgress
-----------------------------------------------------------------------------
(* The library's operators                                                 *)
LEMMA ListingIs ==
  ASSUME NEW S, IsFiniteSet(S)
  PROVE  Metering!SetToSeq(S) \in Seq(S) /\ Elements(Metering!SetToSeq(S)) = S /\ IsOnce(Metering!SetToSeq(S))
<1> DEFINE n == Cardinality(S)
           s == Metering!SetToSeq(S)
<1>1. n \in Nat /\ ExistsBijection(1..n, S)
  BY FS_CardinalityType
<1>2. \E f \in [1..n -> S] : IsInjective(f)
  BY <1>1 DEF ExistsBijection, Bijection, Injection
<1>3. s \in [1..n -> S] /\ IsInjective(s)
  BY <1>2, LibraryLists
<1>4. s \in Injection(1..n, S)
  BY <1>3 DEF Injection
<1>5. Cardinality(1..n) = n
  BY <1>1, FS_Interval
<1>6. s \in Surjection(1..n, S)
  BY <1>1, <1>4, <1>5, FS_Injection
<1> HIDE DEF n, s
<1>7. s \in Seq(S) /\ Len(s) = n
  BY <1>1, <1>3
<1>8. Elements(s) = S
  <2>1. \A x \in S : \E i \in 1..n : s[i] = x
    BY <1>6 DEF Surjection
  <2> QED
    BY <1>3, <1>7, <2>1 DEF Elements
<1>9. IsOnce(s)
  BY <1>3, <1>7 DEF IsOnce, IsInjective
<1> QED
  BY <1>7, <1>8, <1>9 DEF s

LEMMA NextBucketIs ==
  ASSUME NEW n \in Nat \ {0}, NEW k \in 0..(n - 1)
  PROVE  /\ k = n - 1 => (k + 1) % n = 0
         /\ k # n - 1 => (k + 1) % n = k + 1 /\ k + 1 \in 0..(n - 1)
<1>1. k # n - 1 => (k + 1) % n = k + 1 /\ k + 1 \in 0..(n - 1)
  OBVIOUS
<1>2. n % n = 0
  OBVIOUS
<1> QED
  BY <1>1, <1>2
-----------------------------------------------------------------------------
(* The loop                                                                *)
LEMMA BucketIs ==
  ASSUME Metering!MetricsConstants, NEW c \in MeteringConvs
  PROVE  BucketOf[c] \in 0..(NumBuckets - 1) /\ OwnerOf[c] \in Accounts
BY DEF Metering!MetricsConstants

\* Nothing is in an empty bucket.
LEMMA EmptyIs == Elements(<<>>) = {} /\ IsOnce(<<>>)
BY DEF Elements, IsOnce

LEMMA NoneHeld ==
  ASSUME Metering!MetricsConstants, AllEmpty, NEW c \in MeteringConvs
  PROVE  ~Held(c)
BY BucketIs, EmptyIs DEF AllEmpty, Held

\* Of the list and the buckets, and of what is sent.
LEMMA LoopStartsKeeps == ASSUME Metering!MetricsConstants, MeteringIInv, Metering!LoopStarts PROVE MeteringIInv'
<1>1. /\ metering_at = "idle"
      /\ UNCHANGED <<current_bucket, buckets, accounts, keys, commands, collecting, in_progress, raised, ignored,
                     running, disabled>>
  BY DEF Metering!LoopStarts, Metering!application, Metering!world
<1>2. MeteringTypeOK /\ Sorted /\ MeteringUnsent /\ Processed /\ Steady /\ InProgress
  BY DEF MeteringIInv
<1>3. \A c \in MeteringConvs : Held(c)' = Held(c)
  BY <1>1 DEF Held
<1>4. Sorted' /\ InProgress'
  BY <1>1, <1>2 DEF Sorted, InProgress
<1>5. CASE current_bucket = 0
  <2>1. metering_at' = "accounts" /\ sent' = [c \in MeteringConvs |-> 0] /\ steady' = {c \in MeteringConvs : Metering!Enabled(c)}
    BY <1>5 DEF Metering!LoopStarts
  <2>2. MeteringTypeOK'
    BY <1>1, <1>2, <2>1 DEF MeteringTypeOK
  <2>3. MeteringUnsent'
    BY <1>1, <1>5, <2>1 DEF MeteringUnsent
  <2>4. Processed'
    BY <1>1, <1>2, <1>5, <2>1 DEF Processed, AllEmpty
  <2>5. Steady'
    BY <1>1, <2>1 DEF Steady, Metering!Enabled
  <2> QED
    BY <1>4, <2>2, <2>3, <2>4, <2>5 DEF MeteringIInv
<1>6. CASE current_bucket # 0
  <2>1. metering_at' = "process" /\ sent' = sent /\ steady' = steady
    BY <1>6 DEF Metering!LoopStarts
  <2>2. MeteringTypeOK'
    BY <1>1, <1>2, <2>1 DEF MeteringTypeOK
  <2>3. MeteringUnsent'
    BY <1>1, <1>2, <1>3, <2>1 DEF MeteringUnsent
  <2>4. Processed'
    BY <1>1, <1>2, <2>1 DEF Processed
  <2>5. Steady'
    BY <1>1, <1>2, <1>3, <1>6, <2>1 DEF Steady, Metering!Enabled, MeteringTypeOK
  <2> QED
    BY <1>4, <2>2, <2>3, <2>4, <2>5 DEF MeteringIInv
<1> QED
  BY <1>5, <1>6

LEMMA FindAccountKeysKeeps == ASSUME Metering!MetricsConstants, MeteringIInv, Metering!FindAccountKeys PROVE MeteringIInv'
<1>1. /\ metering_at = "accounts" /\ accounts' = Accounts \ disabled /\ metering_at' = "list"
      /\ UNCHANGED <<current_bucket, buckets, keys, commands, collecting, in_progress, raised, ignored,
                     running, disabled, sent, steady>>
  BY DEF Metering!FindAccountKeys, Metering!application, Metering!world
<1>2. MeteringTypeOK /\ Sorted /\ MeteringUnsent /\ Processed /\ Steady /\ InProgress
  BY DEF MeteringIInv
<1>3. \A c \in MeteringConvs : ~Held(c)'
  BY <1>1, <1>2, NoneHeld DEF Processed, Held
<1>4. Sorted' /\ InProgress'
  BY <1>1, <1>2 DEF Sorted, InProgress
<1>5. MeteringTypeOK'
  BY <1>1, <1>2 DEF MeteringTypeOK
<1>6. MeteringUnsent'
  BY <1>1, <1>2, <1>3 DEF MeteringUnsent
<1>7. Processed'
  BY <1>1 DEF Processed
<1>8. Steady'
  <2>1. \A c \in steady : OwnerOf[c] \in accounts'
    BY <1>1, <1>2, BucketIs DEF Steady, Metering!Enabled, MeteringTypeOK
  <2> QED
    BY <1>1, <1>2, <2>1 DEF Steady, Metering!Enabled
<1> QED
  BY <1>4, <1>5, <1>6, <1>7, <1>8 DEF MeteringIInv

LEMMA FindConversationsKeeps == ASSUME Metering!MetricsConstants, MeteringIInv, NEW a \in accounts, Metering!FindConversations(a) PROVE MeteringIInv'
<1> DEFINE found == {c \in running : OwnerOf[c] = a}
<1>1. /\ metering_at = "list" /\ accounts' = accounts \ {a} /\ metering_at' = "fill" /\ keys' = Metering!SetToSeq(found)
      /\ UNCHANGED <<current_bucket, buckets, commands, collecting, in_progress, raised, ignored,
                     running, disabled, sent, steady>>
  BY DEF Metering!FindConversations, Metering!application, Metering!world
<1>2. MeteringTypeOK /\ Sorted /\ MeteringUnsent /\ Processed /\ Steady /\ InProgress
  BY DEF MeteringIInv
<1>3. found \subseteq MeteringConvs /\ IsFiniteSet(found)
  <2>1. found \subseteq MeteringConvs /\ IsFiniteSet(MeteringConvs)
    BY <1>2, LibraryLists DEF MeteringTypeOK, Metering!MetricsConstants
  <2> QED
    BY <2>1, FS_Subset
<1>4. keys' \in Seq(found) /\ Elements(keys') = found /\ IsOnce(keys')
  BY <1>1, <1>3, ListingIs
<1>5. keys' \in Seq(MeteringConvs)
  BY <1>3, <1>4
<1>6. \A c \in MeteringConvs : Held(c)' = Held(c)
  BY <1>1 DEF Held
<1>7. \A c \in found : c \in MeteringConvs /\ OwnerOf[c] = a
  BY <1>3
<1>8. \A c \in steady : OwnerOf[c] = a => c \in found
  BY <1>2 DEF Steady, Metering!Enabled
<1> HIDE DEF found
<1>9. Sorted' /\ InProgress'
  BY <1>1, <1>2, <1>4 DEF Sorted, InProgress
<1>10. MeteringTypeOK'
  BY <1>1, <1>2, <1>5 DEF MeteringTypeOK
<1>11. MeteringUnsent'
  BY <1>1, <1>2, <1>4, <1>6, <1>7 DEF MeteringUnsent
<1>12. Processed'
  BY <1>1, <1>2 DEF Processed
<1>13. Steady'
  BY <1>1, <1>2, <1>4, <1>6, <1>8 DEF Steady, Metering!Enabled, MeteringTypeOK
<1> QED
  BY <1>9, <1>10, <1>11, <1>12, <1>13 DEF MeteringIInv

LEMMA HeadIs ==
  ASSUME MeteringIInv, keys # <<>>
  PROVE  /\ Head(keys) \in MeteringConvs /\ Head(keys) \in Elements(keys)
         /\ Tail(keys) \in Seq(MeteringConvs) /\ IsOnce(Tail(keys)) /\ Elements(Tail(keys)) = Elements(keys) \ {Head(keys)}
<1>1. keys \in Seq(MeteringConvs) /\ IsOnce(keys)
  BY DEF MeteringIInv, MeteringTypeOK, Sorted
<1>2. Head(keys) = keys[1]
  BY <1>1
<1> QED
  BY <1>1, <1>2, TailIs

LEMMA FillBucketKeeps == ASSUME Metering!MetricsConstants, MeteringIInv, Metering!FillBucket PROVE MeteringIInv'
<1> DEFINE c == Head(keys)
<1>1. /\ metering_at = "fill" /\ keys # <<>> /\ keys' = Tail(keys)
      /\ buckets' = [buckets EXCEPT ![BucketOf[c]] = Append(@, c)]
      /\ UNCHANGED <<metering_at, current_bucket, accounts, commands, collecting, in_progress, raised, ignored,
                     running, disabled, sent, steady>>
  BY DEF Metering!FillBucket, Metering!application, Metering!world
<1>2. MeteringTypeOK /\ Sorted /\ MeteringUnsent /\ Processed /\ Steady /\ InProgress
  BY DEF MeteringIInv
<1>3. /\ c \in MeteringConvs /\ c \in Elements(keys)
      /\ Tail(keys) \in Seq(MeteringConvs) /\ IsOnce(Tail(keys)) /\ Elements(Tail(keys)) = Elements(keys) \ {c}
  BY <1>1, HeadIs
<1> HIDE DEF c
<1>4. BucketOf[c] \in 0..(NumBuckets - 1) /\ ~Held(c)
  BY <1>1, <1>2, <1>3, BucketIs DEF MeteringUnsent
<1> DEFINE b == BucketOf[c]
<1>5. buckets[b] \in Seq(MeteringConvs) /\ c \notin Elements(buckets[b]) /\ IsOnce(buckets[b])
  BY <1>2, <1>4 DEF MeteringTypeOK, Sorted, Held
<1>6. /\ Append(buckets[b], c) \in Seq(MeteringConvs) /\ IsOnce(Append(buckets[b], c))
      /\ Elements(Append(buckets[b], c)) = Elements(buckets[b]) \union {c}
  BY <1>3, <1>5, AppendIs
<1>7. /\ buckets' \in [0..(NumBuckets - 1) -> Seq(MeteringConvs)] /\ buckets'[b] = Append(buckets[b], c)
      /\ \A d \in 0..(NumBuckets - 1) : d # b => buckets'[d] = buckets[d]
  BY <1>1, <1>2, <1>4, <1>6 DEF MeteringTypeOK
<1>8. \A d \in MeteringConvs : Held(d)' <=> Held(d) \/ d = c
  <2> SUFFICES ASSUME NEW d \in MeteringConvs PROVE Held(d)' <=> Held(d) \/ d = c
    OBVIOUS
  <2>1. CASE BucketOf[d] = b
    BY <1>6, <1>7, <2>1 DEF Held
  <2>2. CASE BucketOf[d] # b
    BY <1>7, <2>2, BucketIs DEF Held
  <2> QED
    BY <2>1, <2>2
<1>9. Sorted'
  <2>1. ASSUME NEW d \in 0..(NumBuckets - 1)
        PROVE  IsOnce(buckets'[d]) /\ \A e \in Elements(buckets'[d]) : BucketOf[e] = d
    <3>1. CASE d = b
      BY <1>2, <1>6, <1>7, <3>1 DEF Sorted
    <3>2. CASE d # b
      BY <1>2, <1>7, <3>2 DEF Sorted
    <3> QED
      BY <3>1, <3>2
  <2> QED
    BY <1>1, <1>3, <2>1 DEF Sorted
<1>10. MeteringTypeOK'
  BY <1>1, <1>2, <1>3, <1>7 DEF MeteringTypeOK
<1>11. InProgress'
  BY <1>1, <1>2 DEF InProgress
<1>12. MeteringUnsent'
  <2>1. Elements(keys) \subseteq MeteringConvs
    BY <1>2 DEF MeteringTypeOK, Elements
  <2>2. \A d \in MeteringConvs : OwnerOf[d] \in accounts => ~Held(d)'
    BY <1>1, <1>2, <1>3, <1>8 DEF MeteringUnsent
  <2>3. \A d \in Elements(keys') : ~Held(d)' /\ OwnerOf[d] \notin accounts
    BY <1>1, <1>2, <1>3, <1>8, <2>1 DEF MeteringUnsent
  <2> QED
    BY <1>1, <1>2, <2>2, <2>3 DEF MeteringUnsent
<1>13. Processed'
  BY <1>1 DEF Processed
<1>14. Steady'
  BY <1>1, <1>2, <1>3, <1>8 DEF Steady, Metering!Enabled, MeteringTypeOK
<1> QED
  BY <1>9, <1>10, <1>11, <1>12, <1>13, <1>14 DEF MeteringIInv

LEMMA FilledKeeps == ASSUME Metering!MetricsConstants, MeteringIInv, Metering!Filled PROVE MeteringIInv'
<1>1. UNCHANGED <<current_bucket, buckets, accounts, keys, commands, collecting, in_progress, raised, ignored,
                  running, disabled, sent, steady>>
  BY DEF Metering!Filled, Metering!application, Metering!world
<1>2. MeteringTypeOK /\ Sorted /\ MeteringUnsent /\ Processed /\ Steady /\ InProgress
  BY DEF MeteringIInv
<1>3. \A c \in MeteringConvs : Held(c)' = Held(c)
  BY <1>1 DEF Held
<1>4. Sorted' /\ InProgress' /\ MeteringTypeOK'
  BY <1>1, <1>2 DEF Sorted, InProgress, MeteringTypeOK
<1>5. CASE metering_at = "fill" /\ keys = <<>> /\ metering_at' = "list"
  <2>1. MeteringUnsent'
    BY <1>1, <1>2, <1>3, <1>5 DEF MeteringUnsent
  <2>2. Processed'
    BY <1>5 DEF Processed
  <2>3. Steady'
    BY <1>1, <1>2, <1>3, <1>5, EmptyIs DEF Steady, Metering!Enabled, MeteringTypeOK
  <2> QED
    BY <1>4, <2>1, <2>2, <2>3 DEF MeteringIInv
<1>6. CASE metering_at = "list" /\ accounts = {} /\ metering_at' = "process"
  <2>1. MeteringUnsent'
    BY <1>1, <1>2, <1>3, <1>6 DEF MeteringUnsent
  <2>2. Processed'
    BY <1>1, <1>2, <1>6 DEF Processed, MeteringUnsent
  <2>3. Steady'
    BY <1>1, <1>2, <1>3, <1>6 DEF Steady, Metering!Enabled, MeteringTypeOK
  <2> QED
    BY <1>4, <2>1, <2>2, <2>3 DEF MeteringIInv
<1> QED
  BY <1>5, <1>6 DEF Metering!Filled

LEMMA ProcessBucketKeeps == ASSUME Metering!MetricsConstants, MeteringIInv, Metering!ProcessBucket PROVE MeteringIInv'
<1>1. /\ metering_at = "process" /\ metering_at' = "send" /\ keys' = buckets[current_bucket]
      /\ buckets' = [buckets EXCEPT ![current_bucket] = <<>>]
      /\ UNCHANGED <<current_bucket, accounts, commands, collecting, in_progress, raised, ignored,
                     running, disabled, sent, steady>>
  BY DEF Metering!ProcessBucket, Metering!Emptied, Metering!application, Metering!world
<1>2. MeteringTypeOK /\ Sorted /\ MeteringUnsent /\ Processed /\ Steady /\ InProgress
  BY DEF MeteringIInv
<1>3. current_bucket \in 0..(NumBuckets - 1) /\ keys' \in Seq(MeteringConvs) /\ <<>> \in Seq(MeteringConvs)
  BY <1>1, <1>2 DEF MeteringTypeOK
<1>4. /\ buckets' \in [0..(NumBuckets - 1) -> Seq(MeteringConvs)] /\ buckets'[current_bucket] = <<>>
      /\ \A d \in 0..(NumBuckets - 1) : d # current_bucket => buckets'[d] = buckets[d]
  BY <1>1, <1>2, <1>3 DEF MeteringTypeOK
<1>5. \A c \in Elements(keys') : c \in MeteringConvs /\ BucketOf[c] = current_bucket /\ Held(c)
  <2>1. Elements(keys') \subseteq MeteringConvs
    BY <1>3 DEF Elements
  <2> QED
    BY <1>1, <1>2, <1>3, <2>1 DEF Sorted, Held
<1>6. \A c \in MeteringConvs : (Held(c)' => Held(c)) /\ (Held(c) => Held(c)' \/ c \in Elements(keys'))
  <2> SUFFICES ASSUME NEW c \in MeteringConvs PROVE (Held(c)' => Held(c)) /\ (Held(c) => Held(c)' \/ c \in Elements(keys'))
    OBVIOUS
  <2>1. CASE BucketOf[c] = current_bucket
    BY <1>1, <1>4, <2>1, EmptyIs DEF Held
  <2>2. CASE BucketOf[c] # current_bucket
    BY <1>4, <2>2, BucketIs DEF Held
  <2> QED
    BY <2>1, <2>2
<1>7. Sorted'
  <2>1. ASSUME NEW d \in 0..(NumBuckets - 1)
        PROVE  IsOnce(buckets'[d]) /\ \A e \in Elements(buckets'[d]) : BucketOf[e] = d
    <3>1. CASE d = current_bucket
      BY <1>4, <3>1, EmptyIs
    <3>2. CASE d # current_bucket
      BY <1>2, <1>4, <3>2 DEF Sorted
    <3> QED
      BY <3>1, <3>2
  <2> QED
    BY <1>1, <1>2, <1>3, <2>1 DEF Sorted
<1>8. MeteringTypeOK'
  BY <1>1, <1>2, <1>3, <1>4 DEF MeteringTypeOK
<1>9. InProgress'
  BY <1>1, <1>2 DEF InProgress
<1>10. MeteringUnsent'
  BY <1>1, <1>2, <1>5, <1>6 DEF MeteringUnsent
<1>11. Processed'
  <2>1. \A d \in 0..(current_bucket - 1) : d \in 0..(NumBuckets - 1) /\ d # current_bucket
    BY <1>3 DEF Metering!MetricsConstants
  <2>2. \A d \in 0..(current_bucket - 1) : buckets'[d] = <<>>
    BY <1>1, <1>2, <1>4, <2>1 DEF Processed
  <2> QED
    BY <1>1, <1>4, <2>2 DEF Processed
<1>12. Steady'
  BY <1>1, <1>2, <1>6 DEF Steady, Metering!Enabled, MeteringTypeOK
<1> QED
  BY <1>7, <1>8, <1>9, <1>10, <1>11, <1>12 DEF MeteringIInv

LEMMA SendMetricsCommandKeeps == ASSUME Metering!MetricsConstants, MeteringIInv, Metering!SendMetricsCommand PROVE MeteringIInv'
<1> DEFINE c == Head(keys)
<1>1. /\ metering_at = "send" /\ metering_at' = "send" /\ keys # <<>> /\ keys' = Tail(keys) /\ commands' = Append(commands, c)
      /\ sent' = [sent EXCEPT ![c] = @ + 1]
      /\ UNCHANGED <<current_bucket, buckets, accounts, collecting, in_progress, raised, ignored,
                     running, disabled, steady>>
  BY DEF Metering!SendMetricsCommand, Metering!application, Metering!world
<1>2. MeteringTypeOK /\ Sorted /\ MeteringUnsent /\ Processed /\ Steady /\ InProgress
  BY DEF MeteringIInv
<1>3. /\ c \in MeteringConvs /\ c \in Elements(keys)
      /\ Tail(keys) \in Seq(MeteringConvs) /\ IsOnce(Tail(keys)) /\ Elements(Tail(keys)) = Elements(keys) \ {c}
  BY <1>1, HeadIs
<1> HIDE DEF c
<1>4. BucketOf[c] = current_bucket /\ sent[c] = 0 /\ ~Held(c)
  BY <1>1, <1>2, <1>3, EmptyIs DEF MeteringUnsent, Processed, Held
<1>5. /\ sent' \in [MeteringConvs -> Nat] /\ sent'[c] = 1 /\ \A d \in MeteringConvs : d # c => sent'[d] = sent[d]
  BY <1>1, <1>2, <1>3, <1>4 DEF MeteringTypeOK
<1>6. \A d \in MeteringConvs : Held(d)' = Held(d)
  BY <1>1 DEF Held
<1>7. Elements(keys) \subseteq MeteringConvs
  BY <1>2 DEF MeteringTypeOK, Elements
<1>8. Sorted' /\ InProgress'
  BY <1>1, <1>2, <1>3 DEF Sorted, InProgress
<1>9. MeteringTypeOK'
  BY <1>1, <1>2, <1>3, <1>5 DEF MeteringTypeOK
<1>10. MeteringUnsent'
  <2>1. \A d \in MeteringConvs : sent'[d] <= 1
    BY <1>2, <1>5 DEF MeteringUnsent
  <2>2. \A d \in MeteringConvs : Held(d)' => sent'[d] = 0
    BY <1>1, <1>2, <1>4, <1>5, <1>6 DEF MeteringUnsent
  <2>3. \A d \in Elements(keys') : sent'[d] = 0 /\ BucketOf[d] = current_bucket
    BY <1>1, <1>2, <1>3, <1>5, <1>7 DEF MeteringUnsent
  <2> QED
    BY <1>1, <2>1, <2>2, <2>3 DEF MeteringUnsent
<1>11. Processed'
  BY <1>1, <1>2 DEF Processed
<1>12. Steady'
  BY <1>1, <1>2, <1>3, <1>5, <1>6 DEF Steady, Metering!Enabled, MeteringTypeOK
<1> QED
  BY <1>8, <1>9, <1>10, <1>11, <1>12 DEF MeteringIInv

LEMMA IncrementBucketKeeps == ASSUME Metering!MetricsConstants, MeteringIInv, Metering!IncrementBucket PROVE MeteringIInv'
<1>1. /\ metering_at = "send" /\ keys = <<>> /\ current_bucket' = (current_bucket + 1) % NumBuckets
      /\ metering_at' = IF current_bucket' = 0 THEN "cycled" ELSE "idle"
      /\ UNCHANGED <<buckets, accounts, keys, commands, collecting, in_progress, raised, ignored,
                     running, disabled, sent, steady>>
  BY DEF Metering!IncrementBucket, Metering!application, Metering!world
<1>2. MeteringTypeOK /\ Sorted /\ MeteringUnsent /\ Processed /\ Steady /\ InProgress
  BY DEF MeteringIInv
<1>3. \A c \in MeteringConvs : Held(c)' = Held(c)
  BY <1>1 DEF Held
<1>4. Sorted' /\ InProgress'
  BY <1>1, <1>2 DEF Sorted, InProgress
<1>5. current_bucket \in 0..(NumBuckets - 1) /\ NumBuckets \in Nat \ {0}
  BY <1>2 DEF MeteringTypeOK, Metering!MetricsConstants
<1>6. \A b \in 0..current_bucket : buckets[b] = <<>>
  <2>1. \A b \in 0..current_bucket : b = current_bucket \/ b \in 0..(current_bucket - 1)
    BY <1>5
  <2> QED
    BY <1>1, <1>2, <2>1 DEF Processed
<1>7. \A c \in steady : Held(c) \/ sent[c] = 1
  BY <1>1, <1>2, EmptyIs DEF Steady
<1>8. \A c \in steady : Metering!Enabled(c)'
  BY <1>1, <1>2 DEF Steady, Metering!Enabled
<1>9. CASE current_bucket = NumBuckets - 1
  <2>1. current_bucket' = 0 /\ metering_at' = "cycled"
    BY <1>1, <1>5, <1>9, NextBucketIs
  <2>2. AllEmpty /\ AllEmpty'
    BY <1>1, <1>6, <1>9 DEF AllEmpty
  <2>3. \A c \in MeteringConvs : ~Held(c)
    BY <2>2, NoneHeld
  <2>4. MeteringTypeOK'
    BY <1>1, <1>2, <1>5, <2>1 DEF MeteringTypeOK
  <2>5. MeteringUnsent'
    BY <1>1, <1>2, <2>1 DEF MeteringUnsent
  <2>6. Processed'
    BY <2>1, <2>2 DEF Processed
  <2>7. Steady'
    BY <1>1, <1>2, <1>7, <1>8, <2>1, <2>3 DEF Steady, MeteringTypeOK
  <2> QED
    BY <1>4, <2>4, <2>5, <2>6, <2>7 DEF MeteringIInv
<1>10. CASE current_bucket # NumBuckets - 1
  <2>1. current_bucket' = current_bucket + 1 /\ current_bucket' \in 0..(NumBuckets - 1) /\ current_bucket' # 0
    BY <1>1, <1>5, <1>10, NextBucketIs
  <2>2. metering_at' = "idle"
    BY <1>1, <2>1
  <2>3. MeteringTypeOK'
    BY <1>1, <1>2, <2>1 DEF MeteringTypeOK
  <2>4. MeteringUnsent'
    BY <1>1, <1>2, <1>3, <2>2 DEF MeteringUnsent
  <2>5. Processed'
    <3>1. \A b \in 0..(current_bucket' - 1) : b \in 0..current_bucket
      BY <1>5, <2>1
    <3> QED
      BY <1>1, <1>6, <2>1, <2>2, <3>1 DEF Processed
  <2>6. Steady'
    BY <1>1, <1>2, <1>3, <1>7, <1>8, <2>2 DEF Steady, MeteringTypeOK
  <2> QED
    BY <1>4, <2>3, <2>4, <2>5, <2>6 DEF MeteringIInv
<1> QED
  BY <1>9, <1>10

\* The loop waits, or does no more.
LEMMA LoopRestsKeeps == ASSUME Metering!MetricsConstants, MeteringIInv, Metering!Granularity \/ Metering!LoopRaises PROVE MeteringIInv'
<1>1. /\ (metering_at = "cycled" /\ metering_at' = "idle") \/ metering_at' = "stopped"
      /\ UNCHANGED <<current_bucket, buckets, accounts, keys, commands, collecting, in_progress, raised, ignored,
                     running, disabled, sent, steady>>
  BY DEF Metering!Granularity, Metering!LoopRaises, Metering!application, Metering!world
<1>2. MeteringTypeOK /\ Sorted /\ MeteringUnsent /\ Processed /\ Steady /\ InProgress
  BY DEF MeteringIInv
<1>3. Sorted' /\ InProgress' /\ MeteringTypeOK'
  BY <1>1, <1>2 DEF Sorted, InProgress, MeteringTypeOK
<1>4. \A c \in steady : Metering!Enabled(c)'
  BY <1>1, <1>2 DEF Steady, Metering!Enabled
<1>5. CASE metering_at = "cycled" /\ metering_at' = "idle"
  <2>1. AllEmpty /\ AllEmpty' /\ current_bucket' = 0
    BY <1>1, <1>2, <1>5 DEF Processed, MeteringUnsent, AllEmpty
  <2>2. \A c \in MeteringConvs : ~Held(c)'
    BY <1>1, <2>1, NoneHeld DEF Held
  <2>3. MeteringUnsent'
    BY <1>1, <1>2, <1>5, <2>2 DEF MeteringUnsent
  <2>4. Processed'
    BY <1>5, <2>1 DEF Processed
  <2>5. Steady'
    BY <1>1, <1>4, <1>5, <2>1 DEF Steady
  <2> QED
    BY <1>3, <2>3, <2>4, <2>5 DEF MeteringIInv
<1>6. CASE metering_at' = "stopped"
  <2>1. MeteringUnsent' /\ Processed' /\ Steady'
    BY <1>1, <1>2, <1>4, <1>6 DEF MeteringUnsent, Processed, Steady
  <2> QED
    BY <1>3, <2>1 DEF MeteringIInv
<1> QED
  BY <1>1, <1>5, <1>6

LEMMA RestartKeeps == ASSUME Metering!MetricsConstants, MeteringIInv, Metering!Restart PROVE MeteringIInv'
<1>1. /\ metering_at' = "idle" /\ current_bucket' = 0 /\ buckets' = [b \in 0..(NumBuckets - 1) |-> <<>>]
      /\ accounts' = {} /\ keys' = <<>>
      /\ UNCHANGED <<commands, collecting, in_progress, raised, ignored, running, disabled, sent, steady>>
  BY DEF Metering!Restart, Metering!SetupWorker, Metering!application, Metering!world
<1>2. MeteringTypeOK /\ Sorted /\ MeteringUnsent /\ Processed /\ Steady /\ InProgress
  BY DEF MeteringIInv
<1>3. AllEmpty'
  BY <1>1 DEF AllEmpty
<1>4. \A c \in MeteringConvs : ~Held(c)'
  BY <1>1, BucketIs, EmptyIs DEF Held
<1>5. Sorted' /\ InProgress'
  BY <1>1, <1>2, EmptyIs DEF Sorted, InProgress
<1>6. MeteringTypeOK'
  <2>1. <<>> \in Seq(MeteringConvs) /\ 0 \in 0..(NumBuckets - 1)
    BY DEF Metering!MetricsConstants
  <2> QED
    BY <1>1, <1>2, <2>1 DEF MeteringTypeOK
<1>7. MeteringUnsent'
  BY <1>1, <1>2, <1>4 DEF MeteringUnsent
<1>8. Processed'
  BY <1>1, <1>3 DEF Processed
<1>9. Steady'
  BY <1>1, <1>2 DEF Steady, Metering!Enabled
<1> QED
  BY <1>5, <1>6, <1>7, <1>8, <1>9 DEF MeteringIInv

-----------------------------------------------------------------------------
(* The application and the others                                          *)
LEMMA ApplicationKeeps ==
  ASSUME Metering!MetricsConstants, MeteringIInv, Metering!CollectMetrics \/ Metering!Publish \/ Metering!CollectRaises \/ Metering!ApplicationDies
  PROVE  MeteringIInv'
<1>1. UNCHANGED <<metering_at, current_bucket, buckets, accounts, keys, sent, steady, running, disabled>>
  BY DEF Metering!CollectMetrics, Metering!Publish, Metering!CollectRaises, Metering!ApplicationDies, Metering!loop, Metering!world
<1>2. MeteringTypeOK /\ Sorted /\ MeteringUnsent /\ Processed /\ Steady /\ InProgress
  BY DEF MeteringIInv
<1>3. \A c \in MeteringConvs : Held(c)' = Held(c)
  BY <1>1 DEF Held
<1>4. Sorted' /\ Processed'
  BY <1>1, <1>2 DEF Sorted, Processed, AllEmpty
<1>5. MeteringUnsent'
  BY <1>1, <1>2, <1>3 DEF MeteringUnsent, Held
<1>6. Steady'
  BY <1>1, <1>2, <1>3 DEF Steady, Metering!Enabled, MeteringTypeOK
<1>7. /\ commands' \in Seq(MeteringConvs) /\ collecting' \in MeteringConvs \union {Nothing} /\ in_progress' \subseteq MeteringConvs
      /\ InProgress'
  <2>1. CASE Metering!CollectMetrics
    <3>1. Head(commands) \in MeteringConvs /\ Tail(commands) \in Seq(MeteringConvs) /\ commands' = Tail(commands)
          /\ collecting = Nothing
      BY <1>2, <2>1 DEF Metering!CollectMetrics, MeteringTypeOK
    <3>2. Nothing \notin in_progress
      BY <1>2 DEF MeteringTypeOK, Metering!MetricsConstants
    <3>3. CASE Head(commands) \in in_progress
      BY <1>2, <2>1, <3>1, <3>2, <3>3 DEF Metering!CollectMetrics, MeteringTypeOK, InProgress
    <3>4. CASE Head(commands) \notin in_progress
      BY <1>2, <2>1, <3>1, <3>2, <3>4 DEF Metering!CollectMetrics, MeteringTypeOK, InProgress
    <3> QED
      BY <3>3, <3>4
  <2>2. CASE Metering!Publish
    BY <1>2, <2>2 DEF Metering!Publish, MeteringTypeOK, InProgress
  <2>3. CASE Metering!CollectRaises
    BY <1>2, <2>3 DEF Metering!CollectRaises, MeteringTypeOK, InProgress
  <2>4. CASE Metering!ApplicationDies
    <3>1. CASE collecting = Nothing
      <4>1. <<>> \o commands = commands /\ commands' = <<>> \o commands
        BY <1>2, <2>4, <3>1 DEF Metering!ApplicationDies, MeteringTypeOK
      <4> QED
        BY <1>2, <2>4, <3>1, <4>1 DEF Metering!ApplicationDies, MeteringTypeOK, InProgress
    <3>2. CASE collecting # Nothing
      <4>1. <<collecting>> \o commands \in Seq(MeteringConvs)
        BY <1>2, <3>2 DEF MeteringTypeOK
      <4> QED
        BY <1>2, <2>4, <3>2, <4>1 DEF Metering!ApplicationDies, MeteringTypeOK, InProgress
    <3> QED
      BY <3>1, <3>2
  <2> QED
    BY <2>1, <2>2, <2>3, <2>4
<1>8. MeteringTypeOK'
  BY <1>1, <1>2, <1>7 DEF MeteringTypeOK
<1> QED
  BY <1>4, <1>5, <1>6, <1>7, <1>8 DEF MeteringIInv

LEMMA ChangesKeep == ASSUME Metering!MetricsConstants, MeteringIInv, Metering!StartOrStop \/ Metering!ManageMetrics PROVE MeteringIInv'
<1>1. /\ UNCHANGED <<metering_at, current_bucket, buckets, accounts, keys, sent, commands, collecting, in_progress, raised, ignored>>
      /\ steady' = {c \in steady : c \in running' /\ OwnerOf[c] \notin disabled'}
  BY DEF Metering!StartOrStop, Metering!ManageMetrics, Metering!Changes, Metering!application
<1>2. MeteringTypeOK /\ Sorted /\ MeteringUnsent /\ Processed /\ Steady /\ InProgress
  BY DEF MeteringIInv
<1>3. running' \subseteq MeteringConvs /\ disabled' \subseteq Accounts
  BY <1>2 DEF Metering!StartOrStop, Metering!ManageMetrics, Metering!Toggled, MeteringTypeOK
<1>4. \A c \in MeteringConvs : Held(c)' = Held(c)
  BY <1>1 DEF Held
<1>5. Sorted' /\ Processed' /\ InProgress'
  BY <1>1, <1>2 DEF Sorted, Processed, AllEmpty, InProgress
<1>6. MeteringUnsent'
  BY <1>1, <1>2 DEF MeteringUnsent, Held
<1>7. Steady'
  <2>1. \A c \in steady' : c \in steady /\ c \in MeteringConvs /\ Metering!Enabled(c)'
    BY <1>1, <1>2 DEF Metering!Enabled, MeteringTypeOK
  <2> QED
    BY <1>1, <1>2, <1>4, <2>1 DEF Steady
<1>8. MeteringTypeOK'
  BY <1>1, <1>2, <1>3 DEF MeteringTypeOK
<1> QED
  BY <1>5, <1>6, <1>7, <1>8 DEF MeteringIInv

LEMMA MeteringStutterKeeps == ASSUME MeteringIInv, UNCHANGED Metering!vars PROVE MeteringIInv'
<1>1. UNCHANGED <<metering_at, current_bucket, buckets, accounts, keys, sent, steady, running, disabled,
                  commands, collecting, in_progress, raised, ignored>>
  BY DEF Metering!vars, Metering!loop, Metering!application, Metering!world
<1> QED
  BY <1>1 DEF MeteringIInv, MeteringTypeOK, Sorted, MeteringUnsent, Processed, Steady, InProgress, AllEmpty, Metering!Enabled, Held

LEMMA InitCollects == ASSUME Metering!MetricsConstants, Metering!Init PROVE MeteringIInv
<1>1. MeteringTypeOK
  <2>1. <<>> \in Seq(MeteringConvs) /\ 0 \in 0..(NumBuckets - 1)
    BY DEF Metering!MetricsConstants
  <2>2. running \subseteq MeteringConvs /\ disabled \subseteq Accounts
    BY DEF Metering!Init
  <2> QED
    BY <2>1, <2>2 DEF Metering!Init, MeteringTypeOK
<1>2. AllEmpty
  BY DEF Metering!Init, AllEmpty
<1>3. \A c \in MeteringConvs : ~Held(c)
  BY <1>2, NoneHeld
<1>4. Sorted
  BY EmptyIs DEF Metering!Init, Sorted
<1>5. MeteringUnsent
  BY <1>3 DEF Metering!Init, MeteringUnsent
<1>6. Processed
  BY <1>2 DEF Metering!Init, Processed
<1>7. Steady /\ InProgress
  BY DEF Metering!Init, Steady, InProgress
<1> QED
  BY <1>1, <1>4, <1>5, <1>6, <1>7 DEF MeteringIInv

(* Nobody is collected twice in a cycle or forgotten, for any number of    *)
(* accounts, conversations and buckets, changes and failures.              *)
THEOREM CollectedOnce ==
  ASSUME Metering!MetricsConstants PROVE Metering!Spec => []Metering!CollectedOncePerCycle
<1>1. Metering!Init => MeteringIInv
  BY InitCollects
<1>2. MeteringIInv /\ [Metering!Next]_(Metering!vars) => MeteringIInv'
  BY LoopStartsKeeps, FindAccountKeysKeeps, FindConversationsKeeps, FillBucketKeeps, FilledKeeps, ProcessBucketKeeps,
     SendMetricsCommandKeeps, IncrementBucketKeeps, LoopRestsKeeps, RestartKeeps, ApplicationKeeps, ChangesKeep,
     MeteringStutterKeeps DEF Metering!Next
<1>3. MeteringIInv => Metering!CollectedOncePerCycle
  BY DEF MeteringIInv, MeteringUnsent, Steady, InProgress, Metering!CollectedOncePerCycle
<1> QED
  BY <1>1, <1>2, <1>3, PTL DEF Metering!Spec

-----------------------------------------------------------------------------
(* The times of sessions (SessionMetrics): the start that is kept for a    *)
(* session is its own until another session of the service overtakes it.   *)
SessionsTypeOK ==
  /\ config \in Configs /\ max_session_time \in Nat \ {0} /\ now \in Nat
  /\ watched \in Connectors \X Users \X Services
  /\ timestamps \in [Sessions!Names -> [Users \union Services -> Nat \union {Nothing}]]
  /\ sessions_session \in Sessions!SessionState \union {Nothing}

\* What Redis keeps is younger than max_session_time.
Young ==
  \A name \in Sessions!Names, addr \in Users \union Services :
    timestamps[name][addr] # Nothing =>
      timestamps[name][addr] <= now /\ now < timestamps[name][addr] + max_session_time

\* The start that is kept for a session is its own until another overtakes it.
SessionsKept ==
  sessions_session # Nothing /\ ~sessions_session.overtaken /\ Sessions!IsMetricConnector(watched[1]) =>
    /\ sessions_session.since <= now
    /\ timestamps[Sessions!GetName(watched[1])][watched[3]] =
         IF sessions_session.since + max_session_time <= now THEN Nothing ELSE sessions_session.since

SessionsIInv == SessionsTypeOK /\ Young /\ SessionsKept /\ Sessions!SessionTimes
-----------------------------------------------------------------------------
(* Rounding up                                                             *)
LEMMA MultipleIs ==
  ASSUME NEW k \in Nat, NEW u \in Nat \ {0}
  PROVE  (k * u) % u = 0
OBVIOUS

LEMMA RoundedIs ==
  ASSUME NEW d \in Nat, NEW u \in Nat \ {0}
  PROVE  Sessions!RoundedUp(d, u) % u = 0 /\ Sessions!RoundedUp(d, u) - d \in 0..(u - 1)
<1> DEFINE x == d + u - 1
           q == x \div u
<1>1. x \in Nat
  OBVIOUS
<1> HIDE DEF x
<1>2. q * u <= x /\ x < q * u + u /\ q \in Nat
  BY <1>1
<1> HIDE DEF q
<1>3. q * u \in Nat /\ (q * u) % u = 0
  BY <1>2, MultipleIs
<1>4. Sessions!RoundedUp(d, u) = q * u
  BY DEF Sessions!RoundedUp, q, x
<1> QED
  BY <1>2, <1>3, <1>4 DEF x

\* What is published of a message, with the time of a session or without.
LEMMA MetricsAre ==
  ASSUME NEW direction \in {"inbound", "outbound"}, NEW event, NEW dt \in Nat \union {Nothing}
  PROVE  /\ Sessions!Metric(direction, 1) \in Sessions!Metrics(direction, event, dt)
         /\ \A m \in Sessions!Metrics(direction, event, dt) :
              m.kind = "session_time" => m = Sessions!Metric("session_time", dt) /\ dt # Nothing /\ dt # 0
         /\ dt \notin {Nothing, 0} => Sessions!Metric("session_time", dt) \in Sessions!Metrics(direction, event, dt)
         /\ dt \notin {Nothing, 0} /\ config.session_billing_unit # Nothing =>
              Sessions!Metric("rounded", Sessions!RoundedUp(dt, config.session_billing_unit)) \in Sessions!Metrics(direction, event, dt)
BY DEF Sessions!Metrics, Sessions!Metric, Sessions!SessionTime

LEMMA ResponseIs ==
  ASSUME NEW name, NEW dt
  PROVE  \A f \in Sessions!ResponseTime(name, dt) : f.metric.kind = "response_time"
BY DEF Sessions!ResponseTime, Sessions!Metric

LEMMA WatchedIs ==
  ASSUME SessionsTypeOK
  PROVE  watched[1] \in Connectors /\ watched[2] \in Users /\ watched[3] \in Services
         /\ watched = <<watched[1], watched[2], watched[3]>>
BY DEF SessionsTypeOK

LEMMA NameIs ==
  ASSUME NEW c \in Connectors
  PROVE  Sessions!GetName(c) \in Sessions!Names
BY DEF Sessions!GetName, Sessions!Names

\* The session that is watched, and its end.
LEMMA SessionIs ==
  ASSUME Sessions!SessionMetricsConstants, SessionsTypeOK, NEW c \in Connectors, NEW u \in Users, NEW s \in Services,
         NEW event \in {"new", "resume", "close"}, Sessions!Session(c, u, s, event)
  PROVE  /\ sessions_session' \in Sessions!SessionState \union {Nothing}
         /\ sessions_session' # Nothing /\ ~sessions_session'.overtaken =>
              \/ <<c, u, s>> = watched /\ event = "new" /\ sessions_session'.since = now
              \/ /\ sessions_session # Nothing /\ ~sessions_session.overtaken /\ sessions_session'.since = sessions_session.since
                 /\ s # watched[3] \/ event # "new"
         /\ sessions_last' # Nothing => /\ <<c, u, s>> = watched /\ event = "close" /\ sessions_session # Nothing /\ sessions_last'.at = now
                              /\ sessions_last'.since = sessions_session.since /\ sessions_last'.overtaken = sessions_session.overtaken
<1>1. sessions_last' # Nothing => /\ <<c, u, s>> = watched /\ event = "close" /\ sessions_session # Nothing /\ sessions_last'.at = now
                         /\ sessions_last'.since = sessions_session.since /\ sessions_last'.overtaken = sessions_session.overtaken
  BY DEF Sessions!Session
<1>2. now \in Nat /\ sessions_session \in Sessions!SessionState \union {Nothing}
  BY DEF SessionsTypeOK
<1>3. CASE <<c, u, s>> = watched /\ event = "new"
  <2>1. sessions_session' = [since |-> now, overtaken |-> FALSE]
    BY <1>3 DEF Sessions!Session
  <2> QED
    BY <1>1, <1>2, <1>3, <2>1 DEF Sessions!SessionState
<1>4. CASE <<c, u, s>> = watched /\ event = "close"
  <2>1. sessions_session' = Nothing
    BY <1>4 DEF Sessions!Session
  <2> QED
    BY <1>1, <2>1
<1>5. CASE <<c, u, s>> = watched /\ event = "resume"
  <2>1. sessions_session' = sessions_session
    BY <1>5 DEF Sessions!Session
  <2> QED
    BY <1>1, <1>2, <1>5, <2>1
<1>6. CASE <<c, u, s>> # watched /\ sessions_session # Nothing /\ event = "new" /\ s = watched[3]
  <2>1. sessions_session' = [sessions_session EXCEPT !.overtaken = TRUE] /\ sessions_session \in Sessions!SessionState
    BY <1>2, <1>6 DEF Sessions!Session
  <2>2. sessions_session' \in Sessions!SessionState /\ sessions_session'.overtaken
    BY <2>1 DEF Sessions!SessionState
  <2> QED
    BY <1>1, <2>2
<1>7. CASE <<c, u, s>> # watched /\ ~(sessions_session # Nothing /\ event = "new" /\ s = watched[3])
  <2>1. sessions_session' = sessions_session
    BY <1>7 DEF Sessions!Session
  <2> QED
    BY <1>1, <1>2, <1>7, <2>1
<1> QED
  BY <1>3, <1>4, <1>5, <1>6, <1>7

-----------------------------------------------------------------------------
LEMMA SessionsHandleKeeps ==
  ASSUME Sessions!SessionMetricsConstants, SessionsIInv,
         NEW direction \in {"inbound", "outbound"}, NEW c \in Connectors, NEW u \in Users, NEW s \in Services,
         NEW event \in {"new", "resume", "close"}, NEW inbound_timestamp \in {Nothing} \union 0..now,
         Sessions!HandleMessage(direction, c, u, s, event, inbound_timestamp)
  PROVE  SessionsIInv'
<1> DEFINE name == Sessions!GetName(c)
           session_dt == IF event = "close" THEN Sessions!GetSessionDt(name, s) ELSE Nothing
           reply_dt == IF direction = "inbound" THEN Nothing ELSE Sessions!GetReplyDt(inbound_timestamp)
           ms == Sessions!Metrics(direction, event, session_dt)
           ps == Sessions!Prefixes(name, u, s)
           rs == Sessions!ResponseTime(name, reply_dt)
           unit == config.session_billing_unit
<1>1. /\ Sessions!Session(c, u, s, event)
      /\ config' = config /\ max_session_time' = max_session_time /\ watched' = watched /\ now' = now
      /\ IF Sessions!IsMetricConnector(c)
         THEN Sessions!SetSessionStart(name, event, s) /\ fired' = rs \union [prefix : ps, metric : ms]
         ELSE fired' = {} /\ timestamps' = timestamps
  BY DEF Sessions!HandleMessage, Sessions!SessionAddr, Sessions!settings
<1>2. SessionsTypeOK /\ Young /\ SessionsKept
  BY DEF SessionsIInv
<1>3. name \in Sessions!Names /\ s \in Users \union Services
  BY NameIs
<1>4. /\ timestamps' \in [Sessions!Names -> [Users \union Services -> Nat \union {Nothing}]]
      /\ Sessions!IsMetricConnector(c) /\ event = "new" => timestamps'[name][s] = now
      /\ \A n \in Sessions!Names, a \in Users \union Services :
           (~Sessions!IsMetricConnector(c) \/ n # name \/ a # s \/ event # "new") => timestamps'[n][a] = timestamps[n][a]
  <2>1. CASE Sessions!IsMetricConnector(c)
    <3>1. Sessions!SetSessionStart(name, event, s)
      BY <1>1, <2>1
    <3> HIDE DEF name
    <3>2. ASSUME NEW m, m = name
          PROVE  /\ timestamps' \in [Sessions!Names -> [Users \union Services -> Nat \union {Nothing}]]
                 /\ event = "new" => timestamps'[m][s] = now
                 /\ \A n \in Sessions!Names, a \in Users \union Services :
                      (n # m \/ a # s \/ event # "new") => timestamps'[n][a] = timestamps[n][a]
      <4>1. m \in Sessions!Names /\ Sessions!SetSessionStart(m, event, s)
        BY <1>3, <3>1, <3>2
      <4>2. CASE event = "new"
        <5>1. timestamps' = [timestamps EXCEPT ![m][s] = now] /\ now \in Nat
          BY <1>2, <4>1, <4>2 DEF Sessions!SetSessionStart, SessionsTypeOK
        <5> QED
          BY <1>2, <1>3, <4>1, <4>2, <5>1 DEF SessionsTypeOK
      <4>3. CASE event # "new"
        BY <1>2, <4>1, <4>3 DEF Sessions!SetSessionStart, SessionsTypeOK
      <4> QED
        BY <4>2, <4>3
    <3> QED
      BY <2>1, <3>2, Zenon
  <2>2. CASE ~Sessions!IsMetricConnector(c)
    <3>1. timestamps' = timestamps
      BY <1>1, <2>2
    <3> QED
      BY <1>2, <2>2, <3>1 DEF SessionsTypeOK
  <2> QED
    BY <2>1, <2>2
<1> HIDE DEF name
<1>5. Young'
  <2> SUFFICES ASSUME NEW n \in Sessions!Names, NEW a \in Users \union Services, timestamps'[n][a] # Nothing
               PROVE  timestamps'[n][a] <= now /\ now < timestamps'[n][a] + max_session_time
    BY <1>1 DEF Young
  <2>1. CASE timestamps'[n][a] = timestamps[n][a]
    BY <1>2, <2>1 DEF Young
  <2>2. CASE timestamps'[n][a] = now
    BY <1>2, <2>2 DEF SessionsTypeOK
  <2> QED
    BY <1>4, <2>1, <2>2
<1>6. /\ sessions_session' \in Sessions!SessionState \union {Nothing}
      /\ sessions_session' # Nothing /\ ~sessions_session'.overtaken =>
           \/ <<c, u, s>> = watched /\ event = "new" /\ sessions_session'.since = now
           \/ /\ sessions_session # Nothing /\ ~sessions_session.overtaken /\ sessions_session'.since = sessions_session.since
              /\ s # watched[3] \/ event # "new"
      /\ sessions_last' # Nothing => /\ <<c, u, s>> = watched /\ event = "close" /\ sessions_session # Nothing /\ sessions_last'.at = now
                           /\ sessions_last'.since = sessions_session.since /\ sessions_last'.overtaken = sessions_session.overtaken
  BY <1>1, <1>2, SessionIs
<1>7. SessionsTypeOK'
  BY <1>1, <1>2, <1>4, <1>6 DEF SessionsTypeOK
<1>8. SessionsKept'
  <2> DEFINE n == Sessions!GetName(watched[1])
  <2> SUFFICES ASSUME sessions_session' # Nothing, ~sessions_session'.overtaken, Sessions!IsMetricConnector(watched[1])
               PROVE  /\ sessions_session'.since <= now
                      /\ timestamps'[n][watched[3]] =
                           IF sessions_session'.since + max_session_time <= now THEN Nothing ELSE sessions_session'.since
    BY <1>1 DEF SessionsKept, Sessions!IsMetricConnector, Sessions!GetName
  <2>1. CASE <<c, u, s>> = watched /\ event = "new" /\ sessions_session'.since = now
    <3>1. c = watched[1] /\ s = watched[3]
      BY <2>1
    <3>2. timestamps'[n][watched[3]] = now
      BY <1>4, <2>1, <3>1 DEF name
    <3>3. ~(now + max_session_time <= now) /\ now <= now
      BY <1>2 DEF SessionsTypeOK
    <3> QED
      BY <2>1, <3>2, <3>3
  <2>2. CASE /\ sessions_session # Nothing /\ ~sessions_session.overtaken /\ sessions_session'.since = sessions_session.since
             /\ s # watched[3] \/ event # "new"
    <3>1. n \in Sessions!Names /\ watched[3] \in Users \union Services
      BY <1>2, WatchedIs, NameIs
    <3>2. timestamps'[n][watched[3]] = timestamps[n][watched[3]]
      BY <1>4, <2>2, <3>1
    <3> QED
      BY <1>2, <2>2, <3>2 DEF SessionsKept
  <2> QED
    BY <1>6, <2>1, <2>2
<1>9. session_dt \in Nat \union {Nothing}
      /\ (session_dt # Nothing => session_dt < max_session_time /\ event = "close")
  <2>1. CASE event = "close" /\ timestamps[name][s] # Nothing
    <3>1. timestamps[name][s] \in Nat /\ now \in Nat /\ max_session_time \in Nat
      BY <1>2, <1>3, <2>1 DEF SessionsTypeOK
    <3>2. timestamps[name][s] <= now /\ now < timestamps[name][s] + max_session_time
      BY <1>2, <1>3, <2>1 DEF Young
    <3>3. session_dt = now - timestamps[name][s]
      BY <2>1 DEF Sessions!GetSessionDt
    <3> HIDE DEF session_dt
    <3> QED
      BY <2>1, <3>1, <3>2, <3>3
  <2>2. CASE ~(event = "close" /\ timestamps[name][s] # Nothing)
    BY <2>2 DEF Sessions!GetSessionDt
  <2> QED
    BY <2>1, <2>2
<1>10. Sessions!SessionTimes'
  <2>1. CASE ~Sessions!IsMetricConnector(c)
    <3>1. fired' = {}
      BY <1>1, <2>1
    <3> QED
      BY <3>1 DEF Sessions!SessionTimes, Sessions!Durations
  <2>2. CASE Sessions!IsMetricConnector(c)
    <3>1. fired' = rs \union [prefix : ps, metric : ms]
      BY <1>1, <2>2
    <3>2. \A f \in rs : f.metric.kind = "response_time"
      BY ResponseIs
    <3>3. /\ Sessions!Metric(direction, 1) \in ms
          /\ \A m \in ms : m.kind = "session_time" =>
               m = Sessions!Metric("session_time", session_dt) /\ session_dt # Nothing /\ session_dt # 0
          /\ session_dt \notin {Nothing, 0} => Sessions!Metric("session_time", session_dt) \in ms
          /\ session_dt \notin {Nothing, 0} /\ unit # Nothing => Sessions!Metric("rounded", Sessions!RoundedUp(session_dt, unit)) \in ms
      BY <1>9, MetricsAre
    <3> HIDE DEF rs, ms, ps, session_dt
    <3>4. \A f \in Sessions!Durations' : /\ f.prefix \in ps /\ f.metric = Sessions!Metric("session_time", session_dt)
                               /\ f = [prefix |-> f.prefix, metric |-> f.metric]
                               /\ session_dt # Nothing /\ session_dt # 0
      BY <3>1, <3>2, <3>3 DEF Sessions!Durations
    <3>5. \A f \in Sessions!Durations' : f.metric.value < max_session_time'
      BY <1>1, <1>9, <3>4 DEF Sessions!Metric
    <3>6. ASSUME unit # Nothing, NEW f \in Sessions!Durations'
          PROVE  \E g \in fired' : /\ g.prefix = f.prefix /\ g.metric.kind = "rounded"
                                  /\ g.metric.value % unit = 0
                                  /\ g.metric.value - f.metric.value \in 0..(unit - 1)
      <4> DEFINE g == [prefix |-> f.prefix, metric |-> Sessions!Metric("rounded", Sessions!RoundedUp(session_dt, unit))]
      <4>1. unit \in Nat \ {0} /\ session_dt \in Nat
        BY <1>2, <1>9, <3>4, <3>6 DEF SessionsTypeOK, Sessions!SessionMetricsConstants
      <4>2. g \in fired' /\ f.metric.value = session_dt
        BY <3>1, <3>3, <3>4, <3>6 DEF Sessions!Metric
      <4>3. g.prefix = f.prefix /\ g.metric.kind = "rounded" /\ g.metric.value = Sessions!RoundedUp(session_dt, unit)
        BY DEF Sessions!Metric
      <4>4. Sessions!RoundedUp(session_dt, unit) % unit = 0 /\ Sessions!RoundedUp(session_dt, unit) - session_dt \in 0..(unit - 1)
        BY <4>1, RoundedIs
      <4> HIDE DEF g
      <4> QED
        BY <4>2, <4>3, <4>4
    <3>7. ASSUME sessions_last' # Nothing, ~sessions_last'.overtaken, Sessions!Length' \in 1..(max_session_time - 1)
          PROVE  Sessions!Durations' = [prefix : Sessions!Counted', metric : {Sessions!Metric("session_time", Sessions!Length')}]
      <4>1. /\ <<c, u, s>> = watched /\ event = "close" /\ sessions_session # Nothing /\ ~sessions_session.overtaken
            /\ sessions_last'.at = now /\ sessions_last'.since = sessions_session.since
        BY <1>6, <3>7
      <4>2. c = watched[1] /\ s = watched[3]
        BY <4>1
      <4>3. sessions_session.since \in Nat /\ now \in Nat /\ max_session_time \in Nat /\ Sessions!Length' = now - sessions_session.since
        BY <1>2, <4>1 DEF SessionsTypeOK, Sessions!SessionState, Sessions!Length
      <4>4. ~(sessions_session.since + max_session_time <= now)
        BY <3>7, <4>3
      <4>5. timestamps[name][s] = sessions_session.since
        BY <1>2, <2>2, <4>1, <4>2, <4>4 DEF SessionsKept, name
      <4>6. session_dt = Sessions!Length' /\ session_dt # Nothing /\ session_dt # 0
        <5>1. sessions_session.since # Nothing
          BY <4>3 DEF Sessions!SessionMetricsConstants
        <5>2. session_dt = now - sessions_session.since
          BY <4>1, <4>5, <5>1 DEF session_dt, Sessions!GetSessionDt
        <5>3. Sessions!Length' # 0 /\ Sessions!Length' \in Nat
          BY <3>7, <4>3
        <5> QED
          BY <4>3, <5>2, <5>3 DEF Sessions!SessionMetricsConstants
      <4>7. Sessions!Durations' = [prefix : ps, metric : {Sessions!Metric("session_time", session_dt)}]
        <5>1. \A p \in ps : [prefix |-> p, metric |-> Sessions!Metric("session_time", session_dt)] \in Sessions!Durations'
          BY <3>1, <3>3, <4>6 DEF Sessions!Durations, Sessions!Metric
        <5>2. \A f \in Sessions!Durations' : f \in [prefix : ps, metric : {Sessions!Metric("session_time", session_dt)}]
          BY <3>4
        <5>3. ASSUME NEW f \in [prefix : ps, metric : {Sessions!Metric("session_time", session_dt)}] PROVE f \in Sessions!Durations'
          <6>1. f.prefix \in ps /\ f = [prefix |-> f.prefix, metric |-> Sessions!Metric("session_time", session_dt)]
            OBVIOUS
          <6> QED
            BY <5>1, <6>1
        <5> QED
          BY <5>2, <5>3
      <4>8. Sessions!Counted' = ps
        <5>1. \A p \in ps : [prefix |-> p, metric |-> Sessions!Metric(direction, 1)] \in fired'
          BY <3>1, <3>3
        <5>2. ASSUME NEW p \in ps PROVE p \in Sessions!Counted'
          <6> DEFINE f == [prefix |-> p, metric |-> Sessions!Metric(direction, 1)]
          <6>1. f \in fired' /\ f.prefix = p /\ f.metric.kind \in {"inbound", "outbound"}
            BY <5>1 DEF Sessions!Metric
          <6> HIDE DEF f
          <6> QED
            BY <6>1 DEF Sessions!Counted
        <5>3. \A f \in fired' : f.metric.kind \in {"inbound", "outbound"} => f.prefix \in ps
          BY <3>1, <3>2
        <5>4. \A p \in Sessions!Counted' : p \in ps
          BY <5>3 DEF Sessions!Counted
        <5> QED
          BY <5>2, <5>4
      <4> QED
        BY <4>6, <4>7, <4>8
    <3> QED
      BY <1>1, <3>5, <3>6, <3>7 DEF Sessions!SessionTimes
  <2> QED
    BY <2>1, <2>2
<1> QED
  BY <1>5, <1>7, <1>8, <1>10 DEF SessionsIInv

LEMMA HandleOtherKeeps ==
  ASSUME SessionsIInv, NEW c \in Connectors, NEW kind \in {"event", "failure"}, Sessions!HandleOther(c, kind)
  PROVE  SessionsIInv'
<1>1. /\ config' = config /\ max_session_time' = max_session_time /\ watched' = watched /\ now' = now
      /\ timestamps' = timestamps /\ sessions_session' = sessions_session /\ sessions_last' = Nothing
      /\ \A f \in fired' : f.metric.kind = kind
  BY DEF Sessions!HandleOther, Sessions!settings, Sessions!Metric
<1>2. SessionsTypeOK' /\ Young' /\ SessionsKept'
  BY <1>1 DEF SessionsIInv, SessionsTypeOK, Young, SessionsKept, Sessions!IsMetricConnector, Sessions!GetName
<1>3. Sessions!Durations' = {}
  BY <1>1 DEF Sessions!Durations
<1> QED
  BY <1>1, <1>2, <1>3 DEF SessionsIInv, Sessions!SessionTimes

LEMMA SessionsTickKeeps == ASSUME Sessions!SessionMetricsConstants, SessionsIInv, Sessions!Tick PROVE SessionsIInv'
<1>1. /\ config' = config /\ max_session_time' = max_session_time /\ watched' = watched /\ now' = now + 1
      /\ sessions_session' = sessions_session /\ sessions_last' = Nothing /\ fired' = {}
  BY DEF Sessions!Tick, Sessions!settings
<1>2. SessionsTypeOK /\ Young /\ SessionsKept
  BY DEF SessionsIInv
<1>3. now \in Nat /\ max_session_time \in Nat \ {0}
  BY <1>2 DEF SessionsTypeOK
<1>4. /\ timestamps' \in [Sessions!Names -> [Users \union Services -> Nat \union {Nothing}]]
      /\ \A n \in Sessions!Names, a \in Users \union Services :
           timestamps'[n][a] = IF timestamps[n][a] = Nothing THEN Nothing
                               ELSE IF timestamps[n][a] + max_session_time <= now + 1 THEN Nothing ELSE timestamps[n][a]
  BY <1>1, <1>2 DEF Sessions!Tick, SessionsTypeOK
<1>5. SessionsTypeOK'
  <2>1. now' \in Nat
    BY <1>1, <1>3
  <2> QED
    BY <1>1, <1>2, <1>4, <2>1, Zenon DEF SessionsTypeOK
<1>6. Young'
  <2> SUFFICES ASSUME NEW n \in Sessions!Names, NEW a \in Users \union Services, timestamps'[n][a] # Nothing
               PROVE  timestamps'[n][a] <= now + 1 /\ now + 1 < timestamps'[n][a] + max_session_time
    BY <1>1 DEF Young
  <2>1. /\ timestamps[n][a] # Nothing /\ timestamps'[n][a] = timestamps[n][a]
        /\ ~(timestamps[n][a] + max_session_time <= now + 1)
    BY <1>4
  <2>2. timestamps[n][a] \in Nat /\ timestamps[n][a] <= now
    BY <1>2, <2>1 DEF SessionsTypeOK, Young
  <2> QED
    BY <1>3, <2>1, <2>2
<1>7. SessionsKept'
  <2> DEFINE n == Sessions!GetName(watched[1])
  <2> SUFFICES ASSUME sessions_session # Nothing, ~sessions_session.overtaken, Sessions!IsMetricConnector(watched[1])
               PROVE  /\ sessions_session.since <= now + 1
                      /\ timestamps'[n][watched[3]] =
                           IF sessions_session.since + max_session_time <= now + 1 THEN Nothing ELSE sessions_session.since
    BY <1>1 DEF SessionsKept, Sessions!IsMetricConnector, Sessions!GetName
  <2>1. n \in Sessions!Names /\ watched[3] \in Users \union Services
    BY <1>2, WatchedIs, NameIs
  <2>2. sessions_session.since \in Nat /\ sessions_session.since # Nothing
    BY <1>2 DEF SessionsTypeOK, Sessions!SessionState, Sessions!SessionMetricsConstants
  <2>3. /\ sessions_session.since <= now
        /\ timestamps[n][watched[3]] = IF sessions_session.since + max_session_time <= now THEN Nothing ELSE sessions_session.since
    BY <1>2 DEF SessionsKept
  <2> QED
    BY <1>3, <1>4, <2>1, <2>2, <2>3
<1>8. Sessions!SessionTimes'
  BY <1>1 DEF Sessions!SessionTimes, Sessions!Durations
<1> QED
  BY <1>5, <1>6, <1>7, <1>8 DEF SessionsIInv

LEMMA InitTimes == ASSUME Sessions!SessionMetricsConstants, Sessions!Init PROVE SessionsIInv
<1>1. SessionsTypeOK
  BY DEF Sessions!Init, SessionsTypeOK, Sessions!SessionMetricsConstants
<1>2. Young /\ SessionsKept
  BY DEF Sessions!Init, Young, SessionsKept
<1>3. Sessions!SessionTimes
  BY DEF Sessions!Init, Sessions!SessionTimes, Sessions!Durations
<1> QED
  BY <1>1, <1>2, <1>3 DEF SessionsIInv

(* The times of sessions are theirs, for any configuration and any number  *)
(* of users, services and connectors, whatever sessions overlap.           *)
THEOREM TimesAreTheirOwn ==
  ASSUME Sessions!SessionMetricsConstants PROVE Sessions!Spec => []Sessions!SessionTimes
<1>1. Sessions!Init => SessionsIInv
  BY InitTimes
<1>2. SessionsIInv /\ [Sessions!Next]_(Sessions!vars) => SessionsIInv'
  <2>1. SessionsIInv /\ UNCHANGED Sessions!vars => SessionsIInv'
    <3> SUFFICES ASSUME SessionsIInv, UNCHANGED Sessions!vars PROVE SessionsIInv'
      OBVIOUS
    <3>1. UNCHANGED <<config, max_session_time, watched, now, timestamps, sessions_session, fired, sessions_last>>
      BY DEF Sessions!vars, Sessions!settings
    <3> QED
      BY <3>1 DEF SessionsIInv, SessionsTypeOK, Young, SessionsKept, Sessions!SessionTimes, Sessions!Durations, Sessions!Counted, Sessions!Length, Sessions!IsMetricConnector, Sessions!GetName
  <2> QED
    BY <2>1, SessionsHandleKeeps, HandleOtherKeeps, SessionsTickKeeps DEF Sessions!Next
<1>3. SessionsIInv => Sessions!SessionTimes
  BY DEF SessionsIInv
<1> QED
  BY <1>1, <1>2, <1>3, PTL DEF Sessions!Spec

-----------------------------------------------------------------------------
(* The streams of the HTTP API (HttpStreams): a client that is connected   *)
(* is known to the worker, so nothing is put in the backlog behind its     *)
(* back.                                                                   *)
(* A connected client is one the worker knows, so what comes is not put in *)
(* the backlog; and once it was told that the backlog is empty it is.      *)
StreamsIInv ==
  /\ backlog \in Seq(Messages)
  /\ client \in [Clients -> {"away", "connected", "gone", "left"}]
  /\ popped = [c \in Clients |-> popped[c]]
  /\ \A c \in Clients : client[c] = "connected" =>
       /\ c \in clients
       /\ popped[c] \in {Nothing, "nil"} => backlog = <<>>

LEMMA StreamsInitIInv == Streams!Init => StreamsIInv
BY DEF Streams!Init, StreamsIInv

\* The oldest message is taken, if there is one.
LEMMA PopIs ==
  ASSUME Streams!HttpStreamsConstants, StreamsIInv, NEW c \in Clients, Streams!Pop(c)
  PROVE  /\ backlog' \in Seq(Messages) /\ (backlog = <<>> => backlog' = <<>>)
         /\ popped' = [d \in Clients |-> popped'[d]]
         /\ popped'[c] \in {Nothing, "nil"} => backlog' = <<>>
         /\ \A d \in Clients \ {c} : popped'[d] = popped[d]
<1>1. CASE backlog = <<>>
  BY <1>1 DEF Streams!Pop, StreamsIInv
<1>2. CASE backlog # <<>>
  <2>1. backlog[Len(backlog)] \in Messages /\ SubSeq(backlog, 1, Len(backlog) - 1) \in Seq(Messages)
    BY <1>2 DEF StreamsIInv
  <2>2. backlog[Len(backlog)] \notin {Nothing, "nil"}
    BY <2>1 DEF Streams!HttpStreamsConstants
  <2> QED
    BY <1>2, <2>1, <2>2 DEF Streams!Pop, StreamsIInv
<1> QED
  BY <1>1, <1>2

LEMMA NextIInv ==
  ASSUME Streams!HttpStreamsConstants PROVE StreamsIInv /\ [Streams!Next]_(Streams!vars) => StreamsIInv'
<1> SUFFICES ASSUME StreamsIInv, [Streams!Next]_(Streams!vars) PROVE StreamsIInv'
  OBVIOUS
<1>1. ASSUME UNCHANGED <<backlog, clients, client, popped>> PROVE StreamsIInv'
  BY <1>1 DEF StreamsIInv
<1>2. ASSUME NEW m \in Messages, Streams!QueueInBacklog(m) PROVE StreamsIInv'
  <2>1. <<m>> \o backlog \in Seq(Messages)
    BY DEF StreamsIInv
  <2>2. \A c \in Clients : client[c] # "connected"
    BY <1>2 DEF Streams!QueueInBacklog, StreamsIInv
  <2> QED
    BY <1>2, <2>1, <2>2 DEF Streams!QueueInBacklog, StreamsIInv
<1>3. ASSUME NEW m \in Messages, Streams!Trim(m) PROVE StreamsIInv'
  <2>1. backlog' \in Seq(Messages) /\ (backlog = <<>> => backlog' = <<>>)
    BY <1>3 DEF Streams!Trim, StreamsIInv, Streams!HttpStreamsConstants
  <2> QED
    BY <1>3, <2>1 DEF Streams!Trim, StreamsIInv
<1>4. ASSUME NEW c \in Clients, Streams!RegisterClient(c) PROVE StreamsIInv'
  <2>1. Streams!Pop(c) /\ client' = [client EXCEPT ![c] = "connected"] /\ clients' = clients \union {c}
    BY <1>4 DEF Streams!RegisterClient
  <2> QED
    BY <2>1, PopIs DEF StreamsIInv
<1>5. ASSUME NEW c \in Clients, Streams!FlushBacklog(c) PROVE StreamsIInv'
  <2>1. Streams!Pop(c) /\ UNCHANGED <<clients, client>>
    BY <1>5 DEF Streams!FlushBacklog, Streams!Again
  <2> QED
    BY <2>1, PopIs DEF StreamsIInv
<1>6. ASSUME NEW c \in Clients, Streams!Flushed(c) PROVE StreamsIInv'
  BY <1>6 DEF Streams!Flushed, StreamsIInv
<1>7. ASSUME NEW c \in Clients, Streams!Leave(c) PROVE StreamsIInv'
  BY <1>7 DEF Streams!Leave, StreamsIInv
<1>8. ASSUME NEW c \in Clients, Streams!TeardownStream(c) PROVE StreamsIInv'
  BY <1>8 DEF Streams!TeardownStream, StreamsIInv
<1>9. ASSUME Streams!WorkerDies PROVE StreamsIInv'
  BY <1>9 DEF Streams!WorkerDies, StreamsIInv
<1>10. CASE Streams!Next
  BY <1>1, <1>2, <1>3, <1>4, <1>5, <1>6, <1>7, <1>8, <1>9, <1>10
  DEF Streams!Next, Streams!Ignore, Streams!Push, Streams!SchedulePushRetry, Streams!Publish
<1> QED
  BY <1>1, <1>10 DEF Streams!vars

(* BacklogReachesClients (StreamingClientManager): behind a client that is *)
(* connected and has had the backlog, nothing waits.                       *)
THEOREM NothingWaitsBehindClients ==
  ASSUME Streams!HttpStreamsConstants PROVE Streams!Spec => []Streams!BacklogReachesClients
<1>1. StreamsIInv => Streams!BacklogReachesClients
  BY DEF StreamsIInv, Streams!BacklogReachesClients
<1> QED
  BY <1>1, StreamsInitIInv, NextIInv, PTL DEF Streams!Spec

-----------------------------------------------------------------------------
(* JavaScript applications (JsBox): what a sandbox has is of its           *)
(* conversation and of a message or trigger of a contact, and what is over *)
(* the limit of the log is about to be trimmed.                            *)
\* What the library says of sets is what the module does.
LEMMA LibrarySandboxes ==
  /\ \A S : Scripts!Cardinality(S) = Cardinality(S)
  /\ \A S : Scripts!IsFiniteSet(S) <=> IsFiniteSet(S)
<1>1. \A S : Scripts!Cardinality(S) = Cardinality(S)
  BY DEF Scripts!Cardinality, Cardinality
<1>2. \A S : Scripts!IsFiniteSet(S) <=> IsFiniteSet(S)
  BY Zenon DEF Scripts!IsFiniteSet, IsFiniteSet
<1> QED
  BY <1>1, <1>2

ScriptsMessages == [id : Nat, from : Users, trigger : BOOLEAN, meta : SUBSET (MetadataKeys \union {"delivery_class", "go"})]
Conversations == {Scripts!Saved(settings) : settings \in Settings}
Apis == [conversation : Conversations, inbound : ScriptsMessages \union {Nothing}]

ScriptsTypeOK ==
  /\ conversation \in Conversations
  /\ api \in [Sandboxes -> Apis \union {Nothing}]
  /\ push \in [at : Nat, waits_for : Sandboxes \union {Nothing}]
  /\ triggered \in [1..Len(Contacts) -> Nat]
  /\ logs \in Seq(Nat) /\ logged \in Nat /\ trimming \subseteq Sandboxes
  /\ runs \in Nat /\ saves \in Nat /\ scripts_deaths \in Nat

\* A contact that was sent a trigger.
Awaited(u) == \E k \in 1..Len(Contacts) : Contacts[k] = u /\ triggered[k] > 0

\* The triggers that sandboxes have are those of contacts, and answers to them open sessions.
Triggers ==
  \A r \in Sandboxes : api[r] # Nothing /\ api[r].inbound # Nothing /\ api[r].inbound.trigger =>
    Awaited(api[r].inbound.from)
Replies ==
  \A m \in scripts_sent :
    /\ m.in_reply_to # Nothing => m.inbound.id = m.in_reply_to /\ ~m.inbound.trigger
    /\ m.new => Awaited(m.to_addr)
    /\ m.endpoint \in {"default"} \union m.endpoints

\* The command has sent a trigger to the contacts it is past, unless it found a bad configuration.
Counted ==
  \A k \in 1..Len(Contacts) :
    /\ triggered[k] <= 1 + scripts_deaths
    /\ k >= push.at => triggered[k] <= scripts_deaths
    /\ k < push.at /\ saves = 0 /\ Scripts!JsConfig # "bad" => triggered[k] > 0

Answers == \A r \in Sandboxes : answer[r] # Nothing => answer[r].of \in {Nothing} \union InAccount

ScriptsIInv == ScriptsTypeOK /\ Triggers /\ Replies /\ Counted /\ (DOMAIN answer = Sandboxes /\ Answers) /\ Scripts!LatestLogsKept
-----------------------------------------------------------------------------
\* The parts of a step that it leaves alone.
Sendings == <<api, triggered, scripts_sent>>
Logging == <<logs, trimming, logged, scripts_deaths>>
Counting == <<conversation, push, triggered, saves, scripts_deaths>>

LEMMA SendingsStay == ASSUME ScriptsIInv, UNCHANGED Sendings PROVE Triggers' /\ Replies'
BY DEF Sendings, ScriptsIInv, Triggers, Replies, Awaited

LEMMA LoggingStays == ASSUME ScriptsIInv, UNCHANGED Logging PROVE Scripts!LatestLogsKept'
BY DEF Logging, ScriptsIInv, Scripts!LatestLogsKept

LEMMA CountingStays == ASSUME ScriptsIInv, UNCHANGED Counting PROVE Counted'
BY DEF Counting, ScriptsIInv, Counted, Scripts!JsConfig

AnswersNow == DOMAIN answer = Sandboxes /\ Answers
LEMMA AnswersStay == ASSUME ScriptsIInv, UNCHANGED answer PROVE AnswersNow'
BY DEF ScriptsIInv, AnswersNow, Answers

LEMMA ScriptsAnswerIs ==
  ASSUME ScriptsIInv, NEW r \in Sandboxes, NEW x, answer' = [answer EXCEPT ![r] = x],
         x # Nothing => x.of \in {Nothing} \union InAccount
  PROVE  AnswersNow'
<1>1. DOMAIN answer = Sandboxes /\ Answers
  BY DEF ScriptsIInv
<1>2. DOMAIN answer' = Sandboxes /\ answer'[r] = x /\ \A q \in Sandboxes : q # r => answer'[q] = answer[q]
  BY <1>1
<1> QED
  BY <1>1, <1>2 DEF AnswersNow, Answers

\* What a sandbox starts with.
LEMMA ScriptsRunIs ==
  ASSUME Scripts!JsBoxConstants, ScriptsIInv, NEW r \in Sandboxes, NEW u \in Users, NEW trigger \in BOOLEAN,
         Scripts!ProcessMessageInSandbox(r, u, trigger)
  PROVE  /\ api' \in [Sandboxes -> Apis \union {Nothing}] /\ runs' \in Nat /\ AnswersNow'
         /\ \A q \in Sandboxes : q # r => api'[q] = api[q]
         /\ api'[r].inbound.trigger = trigger /\ api'[r].inbound.from = u
<1> DEFINE inbound_msg == [id |-> runs, from |-> u, trigger |-> trigger, meta |-> {"delivery_class"}]
           new == [conversation |-> conversation, inbound |-> inbound_msg]
<1>1. api' = [api EXCEPT ![r] = new] /\ answer' = [answer EXCEPT ![r] = Nothing] /\ runs' = runs + 1
  BY DEF Scripts!ProcessMessageInSandbox, Scripts!Run
<1>2. api \in [Sandboxes -> Apis \union {Nothing}] /\ runs \in Nat /\ conversation \in Conversations
  BY DEF ScriptsIInv, ScriptsTypeOK
<1>3. inbound_msg \in ScriptsMessages
  BY <1>2 DEF ScriptsMessages
<1>4. new \in Apis /\ new.inbound.trigger = trigger /\ new.inbound.from = u
  BY <1>2, <1>3 DEF Apis
<1>5. AnswersNow'
  BY <1>1, ScriptsAnswerIs
<1> HIDE DEF new
<1> QED
  BY <1>1, <1>2, <1>4, <1>5

\* A message or a push trigger is given to a sandbox; sent and triggered is all that matters of the others.
LEMMA RunKeepsSendings ==
  ASSUME ScriptsIInv, NEW r \in Sandboxes, NEW u, NEW trigger \in BOOLEAN, scripts_sent' = scripts_sent,
         \A q \in Sandboxes : q # r => api'[q] = api[q],
         api'[r].inbound.trigger = trigger, api'[r].inbound.from = u,
         \A k \in 1..Len(Contacts) : triggered[k] > 0 => triggered'[k] > 0,
         trigger => Awaited(u)'
  PROVE  Triggers' /\ Replies'
<1>1. \A a : Awaited(a) => Awaited(a)'
  BY DEF Awaited
<1>2. Triggers'
  <2> SUFFICES ASSUME NEW q \in Sandboxes, api'[q] # Nothing, api'[q].inbound # Nothing, api'[q].inbound.trigger,
                      NEW v, v = api'[q].inbound.from
               PROVE  Awaited(v)'
    BY DEF Triggers, Awaited
  <2>1. CASE q = r
    BY <2>1
  <2>2. CASE q # r
    <3>1. Awaited(api[q].inbound.from)
      BY <2>2 DEF ScriptsIInv, Triggers
    <3> QED
      BY <1>1, <2>2, <3>1
  <2> QED
    BY <2>1, <2>2
<1>3. Replies'
  BY <1>1 DEF ScriptsIInv, Replies
<1> QED
  BY <1>2, <1>3
-----------------------------------------------------------------------------
LEMMA SaveConversationKeeps ==
  ASSUME Scripts!JsBoxConstants, ScriptsIInv, NEW settings \in Settings, Scripts!SaveConversation(settings) PROVE ScriptsIInv'
<1>1. UNCHANGED <<api, push, logs, trimming, answer, scripts_sent, triggered, logged, runs, scripts_commands, scripts_deaths>>
      /\ saves' = saves + 1 /\ conversation' = Scripts!Saved(settings)
  BY DEF Scripts!SaveConversation
<1>2. ScriptsTypeOK'
  BY <1>1 DEF ScriptsIInv, ScriptsTypeOK, Conversations
<1>3. Triggers' /\ Replies'
  BY <1>1, SendingsStay DEF Sendings
<1>4. AnswersNow' /\ Scripts!LatestLogsKept'
  BY <1>1, AnswersStay, LoggingStays DEF Logging
<1>5. Counted'
  <2>1. saves' # 0 /\ \A k \in 1..Len(Contacts) : triggered[k] <= 1 + scripts_deaths /\ (k >= push.at => triggered[k] <= scripts_deaths)
    BY <1>1 DEF ScriptsIInv, ScriptsTypeOK, Counted
  <2> QED
    BY <1>1, <2>1 DEF Counted
<1> QED
  BY <1>2, <1>3, <1>4, <1>5 DEF ScriptsIInv, AnswersNow

LEMMA ReceiveMessageKeeps ==
  ASSUME Scripts!JsBoxConstants, ScriptsIInv, NEW r \in Sandboxes, NEW u \in Users, Scripts!ReceiveMessage(r, u) PROVE ScriptsIInv'
<1>1. /\ UNCHANGED <<conversation, push, logs, trimming, scripts_sent, triggered, logged, scripts_commands, saves, scripts_deaths>>
      /\ Scripts!ProcessMessageInSandbox(r, u, FALSE)
  BY DEF Scripts!ReceiveMessage, Scripts!bounds
<1>2. /\ api' \in [Sandboxes -> Apis \union {Nothing}] /\ runs' \in Nat /\ AnswersNow'
      /\ \A q \in Sandboxes : q # r => api'[q] = api[q]
      /\ api'[r].inbound.trigger = FALSE /\ api'[r].inbound.from = u
  BY <1>1, ScriptsRunIs
<1>3. Triggers' /\ Replies'
  BY <1>1, <1>2, RunKeepsSendings
<1>4. ScriptsTypeOK'
  BY <1>1, <1>2 DEF ScriptsIInv, ScriptsTypeOK
<1>5. Counted' /\ Scripts!LatestLogsKept'
  BY <1>1, CountingStays, LoggingStays DEF Counting, Logging
<1> QED
  BY <1>2, <1>3, <1>4, <1>5 DEF ScriptsIInv, AnswersNow

\* An entry that is put in front of the others, and one more to trim.
LEMMA PushedIs ==
  ASSUME Scripts!JsBoxConstants, ScriptsIInv, NEW r \in Sandboxes, r \notin trimming, trimming' = trimming \union {r},
         logged' = logged + 1, logs' = <<logged + 1>> \o logs, scripts_deaths' = scripts_deaths
  PROVE  Scripts!LatestLogsKept' /\ logs' \in Seq(Nat) /\ logged' \in Nat /\ trimming' \subseteq Sandboxes
<1>1. /\ logs \in Seq(Nat) /\ logged \in Nat /\ trimming \subseteq Sandboxes /\ scripts_deaths \in Nat
      /\ \A i \in 1..Len(logs) : logs[i] = logged - i + 1
      /\ Len(logs) = logged \/ Len(logs) >= max_logs_per_conversation
      /\ Len(logs) <= max_logs_per_conversation + Scripts!Cardinality(trimming) + scripts_deaths * Scripts!Cardinality(Sandboxes)
  BY DEF ScriptsIInv, ScriptsTypeOK, Scripts!LatestLogsKept
<1>2. max_logs_per_conversation \in Nat
  BY DEF Scripts!JsBoxConstants
<1>3. IsFiniteSet(Sandboxes) /\ Scripts!Cardinality(Sandboxes) \in Nat
  BY LibrarySandboxes, FS_CardinalityType DEF Scripts!JsBoxConstants
<1>4. /\ IsFiniteSet(trimming) /\ Scripts!Cardinality(trimming) \in Nat /\ Scripts!Cardinality(trimming') = Scripts!Cardinality(trimming) + 1
  BY LibrarySandboxes, <1>1, <1>3, FS_Subset, FS_AddElement, FS_CardinalityType
<1>5. /\ logs' \in Seq(Nat) /\ Len(logs') = Len(logs) + 1 /\ logs'[1] = logged + 1
      /\ \A i \in 1..Len(logs') : i # 1 => i - 1 \in 1..Len(logs) /\ logs'[i] = logs[i - 1]
  BY <1>1
<1>6. \A i \in 1..Len(logs') : logs'[i] = logged' - i + 1
  <2> SUFFICES ASSUME NEW i \in 1..Len(logs') PROVE logs'[i] = logged' - i + 1
    OBVIOUS
  <2>1. CASE i = 1
    BY <1>1, <1>5, <2>1
  <2>2. CASE i # 1
    <3>1. logs'[i] = logged - (i - 1) + 1
      BY <1>1, <1>5, <2>2
    <3> QED
      BY <1>1, <1>5, <3>1
  <2> QED
    BY <2>1, <2>2
<1>7. Len(logs') = logged' \/ Len(logs') >= max_logs_per_conversation
  BY <1>1, <1>2, <1>5
<1>8. Len(logs') <= max_logs_per_conversation + Scripts!Cardinality(trimming') + scripts_deaths' * Scripts!Cardinality(Sandboxes)
  <2> DEFINE lost == scripts_deaths * Scripts!Cardinality(Sandboxes)
  <2>1. lost \in Nat
    BY <1>1, <1>3
  <2>2. Len(logs) <= max_logs_per_conversation + Scripts!Cardinality(trimming) + lost
    BY <1>1
  <2>3. scripts_deaths' * Scripts!Cardinality(Sandboxes) = lost
    OBVIOUS
  <2> HIDE DEF lost
  <2> QED
    BY <1>1, <1>2, <1>4, <1>5, <2>1, <2>2, <2>3
<1> QED
  BY <1>1, <1>5, <1>6, <1>7, <1>8 DEF Scripts!LatestLogsKept

LEMMA ReceiveEventKeeps ==
  ASSUME Scripts!JsBoxConstants, ScriptsIInv, NEW r \in Sandboxes, Scripts!ReceiveEvent(r) PROVE ScriptsIInv'
<1>1. UNCHANGED <<conversation, push, scripts_sent, triggered, scripts_commands, saves, scripts_deaths>>
  BY DEF Scripts!ReceiveEvent, Scripts!bounds
<1>2. Counted'
  BY <1>1, CountingStays DEF Counting
<1>3. CASE conversation.config.process_events
  <2> DEFINE new == [conversation |-> conversation, inbound |-> Nothing]
  <2>1. /\ api' = [api EXCEPT ![r] = new] /\ answer' = [answer EXCEPT ![r] = Nothing] /\ runs' = runs + 1
        /\ UNCHANGED <<logs, trimming, logged>>
    BY <1>3 DEF Scripts!ReceiveEvent, Scripts!Run
  <2>2. api \in [Sandboxes -> Apis \union {Nothing}] /\ new \in Apis /\ new.inbound = Nothing
    BY DEF ScriptsIInv, ScriptsTypeOK, Apis
  <2> HIDE DEF new
  <2>3. api' \in [Sandboxes -> Apis \union {Nothing}] /\ api'[r] = new /\ \A q \in Sandboxes : q # r => api'[q] = api[q]
    BY <2>1, <2>2
  <2>4. ScriptsTypeOK'
    BY <1>1, <2>1, <2>3 DEF ScriptsIInv, ScriptsTypeOK
  <2>5. Triggers' /\ Replies'
    BY <1>1, <2>2, <2>3 DEF ScriptsIInv, Triggers, Replies, Awaited
  <2>6. AnswersNow' /\ Scripts!LatestLogsKept'
    BY <1>1, <2>1, ScriptsAnswerIs, LoggingStays DEF Logging
  <2> QED
    BY <1>2, <2>4, <2>5, <2>6 DEF ScriptsIInv, AnswersNow
<1>4. CASE ~conversation.config.process_events
  <2>1. /\ runs' = runs + 1 /\ r \notin trimming /\ trimming' = trimming \union {r}
        /\ logged' = logged + 1 /\ logs' = <<logged + 1>> \o logs /\ UNCHANGED <<api, answer>>
    BY <1>4 DEF Scripts!ReceiveEvent
  <2>2. Scripts!LatestLogsKept' /\ logs' \in Seq(Nat) /\ logged' \in Nat /\ trimming' \subseteq Sandboxes
    BY <1>1, <2>1, PushedIs
  <2>3. ScriptsTypeOK'
    BY <1>1, <2>1, <2>2 DEF ScriptsIInv, ScriptsTypeOK
  <2>4. Triggers' /\ Replies' /\ AnswersNow'
    BY <1>1, <2>1, SendingsStay, AnswersStay DEF Sendings
  <2> QED
    BY <1>2, <2>2, <2>3, <2>4 DEF ScriptsIInv, AnswersNow
<1> QED
  BY <1>3, <1>4

LEMMA FinishKeeps ==
  ASSUME Scripts!JsBoxConstants, ScriptsIInv, NEW r \in Sandboxes, Scripts!Finish(r) PROVE ScriptsIInv'
<1>1. /\ UNCHANGED <<conversation, logs, trimming, answer, scripts_sent, triggered, logged, runs, scripts_commands, saves, scripts_deaths>>
      /\ api' = [api EXCEPT ![r] = Nothing]
      /\ push' = IF push # Nothing /\ push.waits_for = r THEN [at |-> push.at, waits_for |-> Nothing] ELSE push
  BY DEF Scripts!Finish, Scripts!bounds
<1>2. api \in [Sandboxes -> Apis \union {Nothing}] /\ push \in [at : Nat, waits_for : Sandboxes \union {Nothing}]
  BY DEF ScriptsIInv, ScriptsTypeOK
<1>3. /\ api' \in [Sandboxes -> Apis \union {Nothing}] /\ api'[r] = Nothing /\ \A q \in Sandboxes : q # r => api'[q] = api[q]
      /\ push' \in [at : Nat, waits_for : Sandboxes \union {Nothing}] /\ push'.at = push.at
  BY <1>1, <1>2
<1>4. ScriptsTypeOK'
  BY <1>1, <1>3 DEF ScriptsIInv, ScriptsTypeOK
<1>5. Triggers' /\ Replies'
  BY <1>1, <1>3 DEF ScriptsIInv, Triggers, Replies, Awaited
<1>6. Counted'
  BY <1>1, <1>3 DEF ScriptsIInv, Counted, Scripts!JsConfig
<1>7. AnswersNow' /\ Scripts!LatestLogsKept'
  BY <1>1, AnswersStay, LoggingStays DEF Logging
<1> QED
  BY <1>4, <1>5, <1>6, <1>7 DEF ScriptsIInv, AnswersNow

LEMMA ScriptsSendJsboxKeeps == ASSUME Scripts!JsBoxConstants, ScriptsIInv, Scripts!SendJsbox PROVE ScriptsIInv'
<1>1. /\ UNCHANGED <<conversation, api, logs, trimming, answer, scripts_sent, triggered, logged, runs, scripts_commands, saves, scripts_deaths>>
      /\ push.at = 0 /\ push' = [at |-> IF Scripts!JsConfig = "bad" THEN Len(Contacts) + 1 ELSE 1, waits_for |-> push.waits_for]
  BY DEF Scripts!SendJsbox, Scripts!bounds
<1>2. Len(Contacts) \in Nat
  BY DEF Scripts!JsBoxConstants
<1>3. /\ push' \in [at : Nat, waits_for : Sandboxes \union {Nothing}]
      /\ push'.at = IF Scripts!JsConfig = "bad" THEN Len(Contacts) + 1 ELSE 1
  BY <1>1, <1>2 DEF ScriptsIInv, ScriptsTypeOK
<1>4. ScriptsTypeOK'
  BY <1>1, <1>3 DEF ScriptsIInv, ScriptsTypeOK
<1>5. Counted'
  <2> SUFFICES ASSUME NEW k \in 1..Len(Contacts)
               PROVE  /\ triggered[k] <= 1 + scripts_deaths
                      /\ k >= push'.at => triggered[k] <= scripts_deaths
                      /\ k < push'.at /\ saves = 0 /\ Scripts!JsConfig # "bad" => triggered[k] > 0
    BY <1>1 DEF Counted, Scripts!JsConfig
  <2>1. triggered[k] <= scripts_deaths /\ triggered[k] \in Nat /\ scripts_deaths \in Nat
    BY <1>1 DEF ScriptsIInv, ScriptsTypeOK, Counted
  <2> QED
    BY <1>3, <2>1
<1>6. Triggers' /\ Replies' /\ AnswersNow' /\ Scripts!LatestLogsKept'
  BY <1>1, SendingsStay, AnswersStay, LoggingStays DEF Sendings, Logging
<1> QED
  BY <1>4, <1>5, <1>6 DEF ScriptsIInv, AnswersNow

LEMMA ScriptsSendInboundPushTriggerKeeps ==
  ASSUME Scripts!JsBoxConstants, ScriptsIInv, NEW r \in Sandboxes, Scripts!SendInboundPushTrigger(r) PROVE ScriptsIInv'
<1> DEFINE k == push.at
<1>1. /\ UNCHANGED <<conversation, logs, trimming, scripts_sent, logged, scripts_commands, saves, scripts_deaths>>
      /\ k \in 1..Len(Contacts) /\ triggered' = [triggered EXCEPT ![k] = @ + 1]
  BY DEF Scripts!SendInboundPushTrigger, Scripts!bounds
<1>2. Contacts[k] \in Users /\ triggered \in [1..Len(Contacts) -> Nat] /\ scripts_deaths \in Nat /\ k \in Nat
  BY <1>1 DEF ScriptsIInv, ScriptsTypeOK, Scripts!JsBoxConstants
<1>3. \/ Scripts!ProcessMessageInSandbox(r, Contacts[k], TRUE) /\ push' = [at |-> k + 1, waits_for |-> r]
      \/ push' = [at |-> k + 1, waits_for |-> Nothing] /\ UNCHANGED <<api, answer, runs>>
  BY DEF Scripts!SendInboundPushTrigger
<1> HIDE DEF k
<1>4. push' \in [at : Nat, waits_for : Sandboxes \union {Nothing}] /\ push'.at = k + 1
  <2>1. PICK q \in Sandboxes \union {Nothing} : push' = [at |-> k + 1, waits_for |-> q]
    BY <1>3
  <2> QED
    BY <1>2, <2>1
<1>5. /\ triggered' \in [1..Len(Contacts) -> Nat] /\ triggered'[k] = triggered[k] + 1
      /\ \A j \in 1..Len(Contacts) : j # k => triggered'[j] = triggered[j]
  BY <1>1, <1>2
<1>6. Counted'
  <2> SUFFICES ASSUME NEW j \in 1..Len(Contacts)
               PROVE  /\ triggered'[j] <= 1 + scripts_deaths
                      /\ j >= k + 1 => triggered'[j] <= scripts_deaths
                      /\ j < k + 1 /\ saves = 0 /\ Scripts!JsConfig # "bad" => triggered'[j] > 0
    BY <1>1, <1>4 DEF Counted, Scripts!JsConfig
  <2>1. /\ triggered[j] <= 1 + scripts_deaths /\ (j >= k => triggered[j] <= scripts_deaths) /\ triggered[j] \in Nat
        /\ j < k /\ saves = 0 /\ Scripts!JsConfig # "bad" => triggered[j] > 0
    BY <1>2 DEF ScriptsIInv, Counted, k
  <2>2. CASE j = k
    BY <1>2, <1>5, <2>1, <2>2
  <2>3. CASE j # k
    <3>1. triggered'[j] = triggered[j] /\ (j >= k + 1 => j >= k) /\ (j < k + 1 => j < k)
      BY <1>2, <1>5, <2>3
    <3> QED
      BY <2>1, <3>1
  <2> QED
    BY <2>2, <2>3
<1>7. \A j \in 1..Len(Contacts) : triggered[j] > 0 => triggered'[j] > 0
  BY <1>2, <1>5
<1>8. Scripts!LatestLogsKept'
  BY <1>1, LoggingStays DEF Logging
<1>9. CASE Scripts!ProcessMessageInSandbox(r, Contacts[k], TRUE)
  <2>1. /\ api' \in [Sandboxes -> Apis \union {Nothing}] /\ runs' \in Nat /\ AnswersNow'
        /\ \A q \in Sandboxes : q # r => api'[q] = api[q]
        /\ api'[r].inbound.trigger = TRUE /\ api'[r].inbound.from = Contacts[k]
    <3>1. ASSUME NEW u \in Users, u = Contacts[k]
          PROVE  /\ api' \in [Sandboxes -> Apis \union {Nothing}] /\ runs' \in Nat /\ AnswersNow'
                 /\ \A q \in Sandboxes : q # r => api'[q] = api[q]
                 /\ api'[r].inbound.trigger = TRUE /\ api'[r].inbound.from = u
      <4>1. Scripts!ProcessMessageInSandbox(r, u, TRUE)
        BY <1>9, <3>1
      <4> QED
        BY <4>1, ScriptsRunIs
    <3> QED
      BY <1>2, <3>1
  <2>2. ASSUME NEW u, u = Contacts[k] PROVE Awaited(u)'
    BY <1>1, <1>2, <1>5, <2>2 DEF Awaited
  <2>3. ASSUME NEW u, u = Contacts[k] PROVE Triggers' /\ Replies'
    <3>1. Awaited(u)' /\ api'[r].inbound.from = u
      BY <2>1, <2>2, <2>3
    <3> QED
      BY <1>1, <1>7, <2>1, <3>1, RunKeepsSendings
  <2>4. ScriptsTypeOK'
    BY <1>1, <1>4, <1>5, <2>1 DEF ScriptsIInv, ScriptsTypeOK
  <2> QED
    BY <1>6, <1>8, <2>1, <2>3, <2>4 DEF ScriptsIInv, AnswersNow
<1>10. CASE UNCHANGED <<api, answer, runs>>
  <2>1. Triggers' /\ Replies'
    BY <1>1, <1>7, <1>10 DEF ScriptsIInv, Triggers, Replies, Awaited
  <2>2. ScriptsTypeOK'
    BY <1>1, <1>4, <1>5, <1>10 DEF ScriptsIInv, ScriptsTypeOK
  <2>3. AnswersNow'
    BY <1>10, AnswersStay
  <2> QED
    BY <1>6, <1>8, <2>1, <2>2, <2>3 DEF ScriptsIInv, AnswersNow
<1> QED
  BY <1>3, <1>9, <1>10 DEF k

LEMMA ScriptsWorkerDiesKeeps == ASSUME Scripts!JsBoxConstants, ScriptsIInv, Scripts!WorkerDies PROVE ScriptsIInv'
<1>1. /\ UNCHANGED <<conversation, logs, answer, scripts_sent, triggered, logged, runs, scripts_commands, saves>>
      /\ scripts_deaths' = scripts_deaths + 1 /\ api' = [r \in Sandboxes |-> Nothing] /\ trimming' = {}
      /\ push' = push \/ push' = [at |-> 0, waits_for |-> Nothing]
  BY DEF Scripts!WorkerDies
<1>2. ScriptsTypeOK
  BY DEF ScriptsIInv
<1>3. push' \in [at : Nat, waits_for : Sandboxes \union {Nothing}] /\ (push'.at = push.at \/ push'.at = 0)
  BY <1>1, <1>2 DEF ScriptsTypeOK
<1>4. ScriptsTypeOK'
  BY <1>1, <1>2, <1>3 DEF ScriptsTypeOK
<1>5. Triggers' /\ Replies'
  BY <1>1 DEF ScriptsIInv, Triggers, Replies, Awaited
<1>6. Counted'
  <2> SUFFICES ASSUME NEW k \in 1..Len(Contacts)
               PROVE  /\ triggered[k] <= 1 + (scripts_deaths + 1)
                      /\ triggered[k] <= scripts_deaths + 1
                      /\ k < push'.at /\ saves = 0 /\ Scripts!JsConfig # "bad" => triggered[k] > 0
    BY <1>1 DEF Counted, Scripts!JsConfig
  <2>1. /\ triggered[k] <= 1 + scripts_deaths /\ triggered[k] \in Nat /\ scripts_deaths \in Nat
        /\ k < push.at /\ saves = 0 /\ Scripts!JsConfig # "bad" => triggered[k] > 0
    BY <1>2 DEF ScriptsIInv, ScriptsTypeOK, Counted
  <2>2. ~(k < 0)
    OBVIOUS
  <2> QED
    BY <1>3, <2>1, <2>2
<1>7. Scripts!LatestLogsKept'
  <2>1. IsFiniteSet(Sandboxes) /\ Scripts!Cardinality(Sandboxes) \in Nat
    BY LibrarySandboxes, FS_CardinalityType DEF Scripts!JsBoxConstants
  <2>2. Scripts!Cardinality(trimming) \in Nat /\ Scripts!Cardinality(trimming) <= Scripts!Cardinality(Sandboxes) /\ Scripts!Cardinality({}) = 0
    <3>1. IsFiniteSet(trimming) /\ Scripts!Cardinality(trimming) <= Scripts!Cardinality(Sandboxes)
      BY LibrarySandboxes, <1>2, <2>1, FS_Subset DEF ScriptsTypeOK
    <3> QED
      BY LibrarySandboxes, <3>1, FS_CardinalityType, FS_EmptySet
  <2>3. (scripts_deaths + 1) * Scripts!Cardinality(Sandboxes) = scripts_deaths * Scripts!Cardinality(Sandboxes) + Scripts!Cardinality(Sandboxes)
        /\ scripts_deaths * Scripts!Cardinality(Sandboxes) \in Nat
    BY <1>2, <2>1 DEF ScriptsTypeOK
  <2> DEFINE lost == scripts_deaths * Scripts!Cardinality(Sandboxes)
             more == (scripts_deaths + 1) * Scripts!Cardinality(Sandboxes)
  <2>4. Len(logs) <= max_logs_per_conversation + Scripts!Cardinality(trimming) + lost
    BY DEF ScriptsIInv, Scripts!LatestLogsKept
  <2>5. max_logs_per_conversation \in Nat /\ Len(logs) \in Nat /\ lost \in Nat /\ more = lost + Scripts!Cardinality(Sandboxes)
    BY <1>2, <2>3 DEF Scripts!JsBoxConstants, ScriptsTypeOK
  <2>6. Len(logs') <= max_logs_per_conversation + Scripts!Cardinality(trimming') + more
    <3>1. Len(logs') = Len(logs) /\ Scripts!Cardinality(trimming') = 0
      BY <1>1, <2>2
    <3> HIDE DEF lost, more
    <3> QED
      BY <2>1, <2>2, <2>4, <2>5, <3>1
  <2>7. scripts_deaths' * Scripts!Cardinality(Sandboxes) = more
    BY <1>1
  <2> QED
    BY <1>1, <2>6, <2>7 DEF ScriptsIInv, Scripts!LatestLogsKept
<1>8. AnswersNow'
  BY <1>1, AnswersStay
<1> QED
  BY <1>4, <1>5, <1>6, <1>7, <1>8 DEF ScriptsIInv, AnswersNow
-----------------------------------------------------------------------------
\* The metadata of a message that is replied to.
LEMMA WithMetaIs ==
  ASSUME NEW a \in Apis, a.inbound # Nothing, NEW meta \in SUBSET (MetadataKeys \union {"delivery_class", "go"})
  PROVE  /\ Scripts!WithMeta(a, meta) \in Apis /\ Scripts!WithMeta(a, meta).inbound.trigger = a.inbound.trigger
         /\ Scripts!WithMeta(a, meta).inbound.from = a.inbound.from
<1>1. a.inbound \in ScriptsMessages /\ a.conversation \in Conversations
  BY DEF Apis
<1> DEFINE inbound_msg == [a.inbound EXCEPT !.meta = meta]
<1>2. inbound_msg \in ScriptsMessages /\ inbound_msg.trigger = a.inbound.trigger /\ inbound_msg.from = a.inbound.from
  BY <1>1 DEF ScriptsMessages
<1>3. Scripts!WithMeta(a, meta) = [conversation |-> a.conversation, inbound |-> inbound_msg]
  BY DEF Scripts!WithMeta
<1> HIDE DEF inbound_msg
<1> QED
  BY <1>1, <1>2, <1>3 DEF Apis

LEMMA HandleReplyKeeps ==
  ASSUME Scripts!JsBoxConstants, ScriptsIInv, NEW r \in Sandboxes, NEW in_reply_to \in 0..MaxRuns, NEW meta \in SUBSET MetadataKeys,
         Scripts!HandleReply(r, in_reply_to, meta)
  PROVE  ScriptsIInv'
<1> DEFINE inbound_msg == api[r].inbound
           both == inbound_msg.meta \union {"go"} \union meta
<1>1. /\ UNCHANGED <<conversation, push, logs, trimming, answer, triggered, logged, runs, saves, scripts_deaths>>
      /\ api[r] # Nothing /\ inbound_msg # Nothing /\ inbound_msg.id = in_reply_to
      /\ api' = [api EXCEPT ![r] = Scripts!WithMeta(api[r], both)]
      /\ IF inbound_msg.trigger THEN Scripts!Sent(r, inbound_msg.from, Nothing, TRUE, "default", both)
                        ELSE Scripts!Sent(r, inbound_msg.from, inbound_msg.id, FALSE, "default", both)
  BY DEF Scripts!HandleReply, Scripts!Command, Scripts!Idle, Scripts!IsInboundPushTrigger, Scripts!bounds
<1>2. ScriptsTypeOK /\ api \in [Sandboxes -> Apis \union {Nothing}]
  BY DEF ScriptsIInv, ScriptsTypeOK
<1>3. api[r] \in Apis /\ inbound_msg \in ScriptsMessages
  BY <1>1, <1>2 DEF Apis
<1>4. both \in SUBSET (MetadataKeys \union {"delivery_class", "go"})
  BY <1>3 DEF ScriptsMessages
<1>5. /\ Scripts!WithMeta(api[r], both) \in Apis /\ Scripts!WithMeta(api[r], both).inbound.trigger = inbound_msg.trigger
      /\ Scripts!WithMeta(api[r], both).inbound.from = inbound_msg.from
  <2>1. ASSUME NEW a, a = api[r], NEW b, b = both
        PROVE  /\ Scripts!WithMeta(a, b) \in Apis /\ Scripts!WithMeta(a, b).inbound.trigger = inbound_msg.trigger
               /\ Scripts!WithMeta(a, b).inbound.from = inbound_msg.from
    BY <1>1, <1>3, <1>4, <2>1, WithMetaIs
  <2> QED
    BY <2>1
<1> HIDE DEF both
<1>6. /\ api' \in [Sandboxes -> Apis \union {Nothing}] /\ api'[r].inbound.trigger = inbound_msg.trigger
      /\ api'[r].inbound.from = inbound_msg.from /\ \A q \in Sandboxes : q # r => api'[q] = api[q]
  BY <1>1, <1>2, <1>5
<1>7. ScriptsTypeOK'
  BY <1>1, <1>2, <1>6 DEF ScriptsTypeOK
<1>8. inbound_msg.trigger => Awaited(inbound_msg.from)
  BY <1>1 DEF ScriptsIInv, Triggers
<1>9. Triggers'
  <2> SUFFICES ASSUME NEW q \in Sandboxes, api'[q] # Nothing, api'[q].inbound # Nothing, api'[q].inbound.trigger,
                      NEW v, v = api'[q].inbound.from
               PROVE  Awaited(v)'
    BY DEF Triggers, Awaited
  <2>1. CASE q = r
    <3>1. Awaited(inbound_msg.from)
      BY <1>6, <1>8, <2>1
    <3> QED
      BY <1>1, <1>6, <2>1, <3>1 DEF Awaited
  <2>2. CASE q # r
    <3>1. Awaited(api[q].inbound.from)
      BY <1>6, <2>2 DEF ScriptsIInv, Triggers
    <3> QED
      BY <1>1, <1>6, <2>2, <3>1 DEF Awaited
  <2> QED
    BY <2>1, <2>2
<1>10. Replies'
  <2>1. \A a : Awaited(a) => Awaited(a)'
    BY <1>1 DEF Awaited
  <2>2. CASE inbound_msg.trigger
    <3> DEFINE m == [inbound |-> inbound_msg, endpoints |-> api[r].conversation.extra_endpoints, to_addr |-> inbound_msg.from,
                     in_reply_to |-> Nothing, new |-> TRUE, endpoint |-> "default", meta |-> both]
    <3>1. scripts_sent' = scripts_sent \union {m}
      BY <1>1, <2>2 DEF Scripts!Sent
    <3>2. m.in_reply_to = Nothing /\ Awaited(m.to_addr) /\ m.endpoint \in {"default"} \union m.endpoints
      BY <1>8, <2>2
    <3> HIDE DEF m
    <3> QED
      BY <2>1, <3>1, <3>2 DEF ScriptsIInv, Replies
  <2>3. CASE ~inbound_msg.trigger
    <3> DEFINE m == [inbound |-> inbound_msg, endpoints |-> api[r].conversation.extra_endpoints, to_addr |-> inbound_msg.from,
                     in_reply_to |-> inbound_msg.id, new |-> FALSE, endpoint |-> "default", meta |-> both]
    <3>1. scripts_sent' = scripts_sent \union {m}
      BY <1>1, <2>3 DEF Scripts!Sent
    <3>2. m.inbound.id = m.in_reply_to /\ ~m.inbound.trigger /\ ~m.new /\ m.endpoint \in {"default"} \union m.endpoints
      BY <2>3
    <3> HIDE DEF m
    <3> QED
      BY <2>1, <3>1, <3>2 DEF ScriptsIInv, Replies
  <2> QED
    BY <2>2, <2>3
<1>11. Counted' /\ AnswersNow' /\ Scripts!LatestLogsKept'
  BY <1>1, CountingStays, AnswersStay, LoggingStays DEF Counting, Logging
<1> QED
  BY <1>7, <1>9, <1>10, <1>11 DEF ScriptsIInv, AnswersNow

LEMMA SendToEndpointKeeps ==
  ASSUME Scripts!JsBoxConstants, ScriptsIInv, NEW r \in Sandboxes, NEW addr \in Users, NEW endpoint \in Endpoints,
         NEW meta \in SUBSET MetadataKeys, Scripts!SendToEndpoint(r, addr, endpoint, meta)
  PROVE  ScriptsIInv'
<1> DEFINE m == [inbound |-> api[r].inbound, endpoints |-> api[r].conversation.extra_endpoints, to_addr |-> addr,
                 in_reply_to |-> Nothing, new |-> FALSE, endpoint |-> endpoint, meta |-> meta \union {"go"}]
<1>1. /\ UNCHANGED <<conversation, api, push, logs, trimming, answer, triggered, logged, runs, saves, scripts_deaths>>
      /\ scripts_sent' = scripts_sent \union {m} /\ endpoint \in api[r].conversation.extra_endpoints
  BY DEF Scripts!SendToEndpoint, Scripts!Sent, Scripts!bounds
<1>2. m.in_reply_to = Nothing /\ ~m.new /\ m.endpoint \in {"default"} \union m.endpoints
  BY <1>1
<1> HIDE DEF m
<1>3. Replies'
  BY <1>1, <1>2 DEF ScriptsIInv, Replies, Awaited
<1>4. ScriptsTypeOK' /\ Triggers'
  BY <1>1 DEF ScriptsIInv, ScriptsTypeOK, Triggers, Awaited
<1>5. Counted' /\ AnswersNow' /\ Scripts!LatestLogsKept'
  BY <1>1, CountingStays, AnswersStay, LoggingStays DEF Counting, Logging
<1> QED
  BY <1>3, <1>4, <1>5 DEF ScriptsIInv, AnswersNow

LEMMA QueryMessageStoreKeeps ==
  ASSUME Scripts!JsBoxConstants, ScriptsIInv, NEW r \in Sandboxes, NEW of, Scripts!QueryMessageStore(r, of) PROVE ScriptsIInv'
<1>1. /\ UNCHANGED <<conversation, api, push, logs, trimming, scripts_sent, triggered, logged, runs, saves, scripts_deaths>>
      /\ answer' = [answer EXCEPT ![r] = [success |-> Scripts!ConversationOwner(of) # Nothing, of |-> Scripts!ConversationOwner(of)]]
  BY DEF Scripts!QueryMessageStore, Scripts!bounds
<1>2. Scripts!ConversationOwner(of) \in {Nothing} \union InAccount
  BY DEF Scripts!ConversationOwner, Scripts!JsBoxConstants
<1>3. AnswersNow'
  BY <1>1, <1>2, ScriptsAnswerIs
<1>4. ScriptsTypeOK'
  BY <1>1 DEF ScriptsIInv, ScriptsTypeOK
<1>5. Triggers' /\ Replies' /\ Counted' /\ Scripts!LatestLogsKept'
  BY <1>1, SendingsStay, CountingStays, LoggingStays DEF Sendings, Counting, Logging
<1> QED
  BY <1>3, <1>4, <1>5 DEF ScriptsIInv, AnswersNow

LEMMA LPushKeeps == ASSUME Scripts!JsBoxConstants, ScriptsIInv, NEW r \in Sandboxes, Scripts!LPush(r) PROVE ScriptsIInv'
<1>1. /\ UNCHANGED <<conversation, api, push, answer, scripts_sent, triggered, runs, saves, scripts_deaths>>
      /\ r \notin trimming /\ trimming' = trimming \union {r}
      /\ logged' = logged + 1 /\ logs' = <<logged + 1>> \o logs
  BY DEF Scripts!LPush, Scripts!bounds
<1>2. Scripts!LatestLogsKept' /\ logs' \in Seq(Nat) /\ logged' \in Nat /\ trimming' \subseteq Sandboxes
  BY <1>1, PushedIs
<1>3. ScriptsTypeOK'
  BY <1>1, <1>2 DEF ScriptsIInv, ScriptsTypeOK
<1>4. Triggers' /\ Replies' /\ Counted' /\ AnswersNow'
  BY <1>1, SendingsStay, CountingStays, AnswersStay DEF Sendings, Counting
<1> QED
  BY <1>2, <1>3, <1>4 DEF ScriptsIInv, AnswersNow

LEMMA LTrimKeeps == ASSUME Scripts!JsBoxConstants, ScriptsIInv, NEW r \in Sandboxes, Scripts!LTrim(r) PROVE ScriptsIInv'
<1> DEFINE n == IF Len(logs) < max_logs_per_conversation THEN Len(logs) ELSE max_logs_per_conversation
<1>1. /\ UNCHANGED <<conversation, api, push, answer, scripts_sent, triggered, logged, runs, scripts_commands, saves, scripts_deaths>>
      /\ trimming' = trimming \ {r} /\ logs' = SubSeq(logs, 1, n)
  BY DEF Scripts!LTrim, Scripts!bounds
<1>2. ScriptsTypeOK /\ max_logs_per_conversation \in Nat
  BY DEF ScriptsIInv, Scripts!JsBoxConstants
<1>3. logs \in Seq(Nat) /\ n \in Nat /\ n <= Len(logs) /\ n <= max_logs_per_conversation
      /\ (n = Len(logs) \/ n = max_logs_per_conversation)
  BY <1>2 DEF ScriptsTypeOK
<1> HIDE DEF n
<1>4. logs' \in Seq(Nat) /\ Len(logs') = n /\ \A i \in 1..n : i \in 1..Len(logs) /\ logs'[i] = logs[i]
  BY <1>1, <1>3
<1>5. trimming' \subseteq Sandboxes
  BY <1>1, <1>2 DEF ScriptsTypeOK
<1>6. ScriptsTypeOK'
  BY <1>1, <1>2, <1>4, <1>5 DEF ScriptsTypeOK
<1>7. Scripts!LatestLogsKept'
  <2>1. IsFiniteSet(Sandboxes) /\ Scripts!Cardinality(Sandboxes) \in Nat
    BY LibrarySandboxes, FS_CardinalityType DEF Scripts!JsBoxConstants
  <2>2. Scripts!Cardinality(trimming') \in Nat
    BY LibrarySandboxes, <1>5, <2>1, FS_Subset, FS_CardinalityType
  <2>3. scripts_deaths' * Scripts!Cardinality(Sandboxes) \in Nat
    BY <1>1, <1>2, <2>1 DEF ScriptsTypeOK
  <2> DEFINE lost == scripts_deaths' * Scripts!Cardinality(Sandboxes)
  <2>4. Len(logs') <= max_logs_per_conversation + Scripts!Cardinality(trimming') + lost
    <3> HIDE DEF lost
    <3> QED
      BY <1>2, <1>3, <1>4, <2>2, <2>3 DEF lost
  <2>5. Len(logs') = logged' \/ Len(logs') >= max_logs_per_conversation
    BY <1>1, <1>2, <1>3, <1>4 DEF ScriptsIInv, Scripts!LatestLogsKept
  <2>6. \A i \in 1..Len(logs') : logs'[i] = logged' - i + 1
    BY <1>1, <1>4 DEF ScriptsIInv, Scripts!LatestLogsKept
  <2> QED
    BY <2>4, <2>5, <2>6 DEF Scripts!LatestLogsKept
<1>8. Triggers' /\ Replies' /\ Counted' /\ AnswersNow'
  BY <1>1, SendingsStay, CountingStays, AnswersStay DEF Sendings, Counting
<1> QED
  BY <1>6, <1>7, <1>8 DEF ScriptsIInv, AnswersNow
-----------------------------------------------------------------------------
LEMMA InitConfined == ASSUME Scripts!JsBoxConstants, Scripts!Init PROVE ScriptsIInv
<1>1. Len(Contacts) \in Nat
  BY DEF Scripts!JsBoxConstants
<1>2. ScriptsTypeOK
  BY DEF Scripts!Init, ScriptsTypeOK, Conversations
<1>3. Triggers /\ Replies /\ Answers /\ DOMAIN answer = Sandboxes
  BY DEF Scripts!Init, Triggers, Replies, Answers
<1>4. Counted
  BY DEF Scripts!Init, Counted
<1>5. Scripts!LatestLogsKept
  <2>1. IsFiniteSet(Sandboxes) /\ Scripts!Cardinality(Sandboxes) \in Nat /\ Scripts!Cardinality({}) = 0
    BY LibrarySandboxes, FS_CardinalityType, FS_EmptySet DEF Scripts!JsBoxConstants
  <2>2. max_logs_per_conversation \in Nat
    BY DEF Scripts!JsBoxConstants
  <2>3. 0 * Scripts!Cardinality(Sandboxes) = 0
    BY <2>1
  <2>4. logs = <<>> /\ logged = 0 /\ trimming = {} /\ scripts_deaths = 0
    BY DEF Scripts!Init
  <2>5. Len(logs) = 0
    BY <2>4
  <2> QED
    BY <2>1, <2>2, <2>3, <2>4, <2>5 DEF Scripts!LatestLogsKept
<1> QED
  BY <1>2, <1>3, <1>4, <1>5 DEF ScriptsIInv

LEMMA Confined ==
  ASSUME Scripts!JsBoxConstants PROVE Scripts!Spec => []ScriptsIInv
<1>1. Scripts!Init => ScriptsIInv
  BY InitConfined
<1>2. ScriptsIInv /\ [Scripts!Next]_(Scripts!vars) => ScriptsIInv'
  <2>1. ScriptsIInv /\ UNCHANGED Scripts!vars => ScriptsIInv'
    <3> SUFFICES ASSUME ScriptsIInv, UNCHANGED Scripts!vars PROVE ScriptsIInv'
      OBVIOUS
    <3>1. UNCHANGED <<conversation, api, push, logs, trimming, answer, scripts_sent, triggered, logged, runs, saves, scripts_deaths>>
      BY DEF Scripts!vars, Scripts!bounds
    <3>2. ScriptsTypeOK'
      BY <3>1 DEF ScriptsIInv, ScriptsTypeOK
    <3>3. Triggers' /\ Replies' /\ Counted' /\ AnswersNow' /\ Scripts!LatestLogsKept'
      BY <3>1, SendingsStay, CountingStays, LoggingStays, AnswersStay DEF Sendings, Counting, Logging
    <3> QED
      BY <3>2, <3>3 DEF ScriptsIInv, AnswersNow
  <2> QED
    BY <2>1, SaveConversationKeeps, ReceiveMessageKeeps, ReceiveEventKeeps, FinishKeeps, ScriptsSendJsboxKeeps,
       ScriptsSendInboundPushTriggerKeeps, ScriptsWorkerDiesKeeps, HandleReplyKeeps, SendToEndpointKeeps, QueryMessageStoreKeeps,
       LPushKeeps, LTrimKeeps DEF Scripts!Next
<1> QED
  BY <1>1, <1>2, PTL DEF Scripts!Spec

(* An answer to a push trigger opens a session with a contact, and each    *)
(* run of the command gives each contact one trigger, for any number of    *)
(* sandboxes and contacts and whatever the JavaScript answers.             *)
THEOREM TriggersOpenSessions ==
  ASSUME Scripts!JsBoxConstants PROVE Scripts!Spec => []Scripts!PushesOpenSessions
<1>1. ScriptsIInv => Scripts!PushesOpenSessions
  <2> SUFFICES ASSUME ScriptsIInv PROVE Scripts!PushesOpenSessions
    OBVIOUS
  <2>1. \A m \in scripts_sent : m.new => \E k \in 1..Len(Contacts) : Contacts[k] = m.to_addr /\ triggered[k] > 0
    BY DEF ScriptsIInv, Replies, Awaited
  <2> QED
    BY <2>1 DEF ScriptsIInv, Replies, Counted, Scripts!PushesOpenSessions
<1> QED
  BY <1>1, Confined, PTL

(* What sandboxes send and are told is of their conversation and account.  *)
THEOREM SandboxesStayConfined ==
  ASSUME Scripts!JsBoxConstants PROVE Scripts!Spec => []Scripts!SandboxesAreConfined
<1>1. ScriptsIInv => Scripts!SandboxesAreConfined
  BY DEF ScriptsIInv, Replies, Answers, Scripts!SandboxesAreConfined
<1> QED
  BY <1>1, Confined, PTL

(* The log has the latest entries, whichever sandboxes log at once and     *)
(* wherever they die.                                                      *)
THEOREM LogsAreLatest ==
  ASSUME Scripts!JsBoxConstants PROVE Scripts!Spec => []Scripts!LatestLogsKept
<1>1. ScriptsIInv => Scripts!LatestLogsKept
  BY DEF ScriptsIInv
<1> QED
  BY <1>1, Confined, PTL

-----------------------------------------------------------------------------
(* Bulk sends (BulkSend): every entry of the window, or that is being      *)
(* sent, is of a contact the command has passed, and whoever it has passed *)
(* has one, was sent one or was dropped.                                   *)
Running == bulk_at \in {"contact", "add", "progress"}
Untouched(k) == AddressOf[k] \notin touched

BulkTypeOK ==
  /\ dedupe \in BOOLEAN /\ command \in BOOLEAN
  /\ bulk_at \in {"idle", "contact", "add", "progress", "clear", "acknowledge", "done"}
  /\ key \in Nat /\ interrupted \in Nat /\ progress \in Nat /\ added \in Nat
  /\ seen \subseteq Addresses \union {None} /\ to_addr \in Addresses \union {None}
  /\ window \in Seq(Bulk!Entries) /\ sending \in Bulk!SendingState \union {None}
  /\ bulk_opted_out \subseteq touched /\ touched \subseteq Addresses /\ dropped \subseteq Bulk!Keys
  /\ bulk_sent \in [Bulk!Keys -> Nat] /\ resent \in [Bulk!Keys -> Nat]
  /\ reached \in [Addresses -> Nat] /\ repeated \in [Addresses -> Nat]

\* Where the command is: it is at a contact that neither it nor an interrupted one has added.
Place ==
  /\ command <=> bulk_at # "done"
  /\ Running => /\ key \in Bulk!Keys
                /\ progress = interrupted \/ (interrupted < progress /\ progress < key)
  /\ bulk_at \in {"add", "progress"} => interrupted < key
  /\ bulk_at \in {"acknowledge", "done"} => progress = 0

\* The address of the contact, and what was seen.
Address ==
  bulk_at \in {"add", "progress"} =>
    /\ to_addr \in {None, AddressOf[key]} /\ (Untouched(key) => to_addr = AddressOf[key])
    /\ dedupe => to_addr \in seen
    /\ dedupe /\ Untouched(key) => \A k \in Bulk!Keys : k < key => AddressOf[k] # AddressOf[key]
Seen ==
  dedupe /\ Running =>
    /\ \A k \in Bulk!Keys : k < key /\ Untouched(k) => AddressOf[k] \in seen
    /\ \A a \in Addresses : a \in seen =>
         \E k \in Bulk!Keys : AddressOf[k] = a /\ (k < key \/ (k = key /\ bulk_at # "contact"))

\* The entries that are to be sent.
BulkUnsent == IF sending = None THEN {} ELSE IF sending.was_sent THEN {} ELSE {sending.entry}
Pending == Elements(window) \union BulkUnsent
Of(k, S) == {e \in S : e.contact = k}
To(a, S) == {e \in S : e.addr = a}
PendingOf(k) == Of(k, Pending)
PendingTo(a) == To(a, Pending)

BulkQueue ==
  /\ IsOnce(window)
  /\ BulkUnsent \intersect Elements(window) = {}
  /\ \A e \in Pending :
       /\ e.id < added /\ e.addr \in {None, AddressOf[e.contact]}
       /\ Untouched(e.contact) => e.addr = AddressOf[e.contact]

\* The contacts that have had an entry in this run of the command, as far as it is to be resumed.
Done(k) == k <= progress \/ (bulk_at = "progress" /\ k = key) \/ bulk_at \in {"acknowledge", "done"}
DoneTo(a) == \E k \in Bulk!Keys : AddressOf[k] = a /\ Done(k)

Once ==
  /\ \A k \in Bulk!Keys : bulk_sent[k] + Cardinality(PendingOf(k)) <= resent[k] + (IF Done(k) THEN 1 ELSE 0)
  /\ dedupe => \A a \in Addresses \ touched :
       reached[a] + Cardinality(PendingTo(a)) <= repeated[a] + (IF DoneTo(a) THEN 1 ELSE 0)

\* Whoever the command is past has an entry, or had one, or somebody with the address.
Same(k) == IF dedupe THEN Bulk!Having(AddressOf[k]) ELSE {k}
Served(k) == \E j \in Same(k) : PendingOf(j) # {} \/ bulk_sent[j] > 0 \/ j \in dropped
Passed(k) ==
  \/ k <= progress \/ (Running /\ k < key) \/ (bulk_at = "progress" /\ k = key)
  \/ bulk_at \in {"clear", "acknowledge", "done"}
NobodyMissed == \A k \in Bulk!Keys : Passed(k) /\ Untouched(k) => Served(k)

BulkIInv == BulkTypeOK /\ Place /\ Address /\ Seen /\ BulkQueue /\ Once /\ NobodyMissed
-----------------------------------------------------------------------------
(* How many entries there are of a contact, or to an address               *)
LEMMA PendingIs ==
  ASSUME BulkTypeOK
  PROVE  /\ Elements(window) \subseteq Bulk!Entries /\ IsFiniteSet(Elements(window))
         /\ BulkUnsent \subseteq Bulk!Entries /\ IsFiniteSet(BulkUnsent)
         /\ Pending \subseteq Bulk!Entries /\ IsFiniteSet(Pending)
<1>1. window \in Seq(Bulk!Entries) /\ sending \in Bulk!SendingState \union {None}
  BY DEF BulkTypeOK
<1>2. Elements(window) \subseteq Bulk!Entries /\ IsFiniteSet(Elements(window))
  <2>1. Len(window) \in Nat
    BY <1>1
  <2>2. IsFiniteSet(1..Len(window))
    BY <2>1, FS_Interval
  <2> DEFINE f == [i \in 1..Len(window) |-> window[i]]
  <2>3. f \in Surjection(1..Len(window), Elements(window))
    BY DEF Elements, Surjection
  <2>4. IsFiniteSet(Elements(window))
    BY <2>2, <2>3, FS_Surjection
  <2> QED
    BY <1>1, <2>4 DEF Elements
<1>3. BulkUnsent \subseteq Bulk!Entries /\ IsFiniteSet(BulkUnsent)
  <2>1. CASE sending = None \/ sending.was_sent
    <3>1. BulkUnsent = {}
      BY <2>1 DEF BulkUnsent
    <3> QED
      BY <3>1, FS_EmptySet
  <2>2. CASE sending # None /\ ~sending.was_sent
    <3>1. BulkUnsent = {sending.entry} /\ sending.entry \in Bulk!Entries
      BY <1>1, <2>2 DEF BulkUnsent, Bulk!SendingState
    <3> QED
      BY <3>1, FS_Singleton
  <2> QED
    BY <2>1, <2>2
<1> QED
  BY <1>2, <1>3, FS_Union DEF Pending

LEMMA OneMoreOf ==
  ASSUME NEW S, IsFiniteSet(S), NEW e, e \notin S, NEW k
  PROVE  /\ Cardinality(Of(k, S)) \in Nat
         /\ Cardinality(Of(k, S \union {e})) = Cardinality(Of(k, S)) + (IF e.contact = k THEN 1 ELSE 0)
<1>1. IsFiniteSet(Of(k, S)) /\ Cardinality(Of(k, S)) \in Nat
  <2>1. Of(k, S) \subseteq S
    BY DEF Of
  <2> QED
    BY <2>1, FS_Subset, FS_CardinalityType
<1>2. CASE e.contact = k
  <2>1. Of(k, S \union {e}) = Of(k, S) \union {e} /\ e \notin Of(k, S)
    BY <1>2 DEF Of
  <2>2. Cardinality(Of(k, S \union {e})) = Cardinality(Of(k, S)) + 1
    BY <1>1, <2>1, FS_AddElement
  <2> QED
    BY <1>1, <1>2, <2>2
<1>3. CASE e.contact # k
  <2>1. Of(k, S \union {e}) = Of(k, S)
    BY <1>3 DEF Of
  <2> QED
    BY <1>1, <1>3, <2>1
<1> QED
  BY <1>2, <1>3

LEMMA OneMoreTo ==
  ASSUME NEW S, IsFiniteSet(S), NEW e, e \notin S, NEW a
  PROVE  /\ Cardinality(To(a, S)) \in Nat
         /\ Cardinality(To(a, S \union {e})) = Cardinality(To(a, S)) + (IF e.addr = a THEN 1 ELSE 0)
<1>1. IsFiniteSet(To(a, S)) /\ Cardinality(To(a, S)) \in Nat
  <2>1. To(a, S) \subseteq S
    BY DEF To
  <2> QED
    BY <2>1, FS_Subset, FS_CardinalityType
<1>2. CASE e.addr = a
  <2>1. To(a, S \union {e}) = To(a, S) \union {e} /\ e \notin To(a, S)
    BY <1>2 DEF To
  <2>2. Cardinality(To(a, S \union {e})) = Cardinality(To(a, S)) + 1
    BY <1>1, <2>1, FS_AddElement
  <2> QED
    BY <1>1, <1>2, <2>2
<1>3. CASE e.addr # a
  <2>1. To(a, S \union {e}) = To(a, S)
    BY <1>3 DEF To
  <2> QED
    BY <1>1, <1>3, <2>1
<1> QED
  BY <1>2, <1>3

\* The counts are numbers, and a smaller set has no more.
LEMMA CountsAre ==
  ASSUME BulkTypeOK, NEW k, NEW a
  PROVE  /\ IsFiniteSet(PendingOf(k)) /\ Cardinality(PendingOf(k)) \in Nat
         /\ IsFiniteSet(PendingTo(a)) /\ Cardinality(PendingTo(a)) \in Nat
<1>1. IsFiniteSet(Pending) /\ PendingOf(k) \subseteq Pending /\ PendingTo(a) \subseteq Pending
  BY PendingIs DEF PendingOf, PendingTo, Of, To
<1> QED
  BY <1>1, FS_Subset, FS_CardinalityType

LEMMA FewerPending ==
  ASSUME BulkTypeOK, Pending' \subseteq Pending, NEW k, NEW a
  PROVE  /\ Cardinality(PendingOf(k)') \in Nat /\ Cardinality(PendingOf(k)') <= Cardinality(PendingOf(k))
         /\ Cardinality(PendingTo(a)') \in Nat /\ Cardinality(PendingTo(a)') <= Cardinality(PendingTo(a))
<1>1. PendingOf(k)' \subseteq PendingOf(k) /\ PendingTo(a)' \subseteq PendingTo(a)
  BY DEF PendingOf, PendingTo, Of, To
<1>2. IsFiniteSet(PendingOf(k)) /\ IsFiniteSet(PendingTo(a))
  BY CountsAre
<1> QED
  BY <1>1, <1>2, FS_Subset, FS_CardinalityType

LEMMA DoneIs ==
  ASSUME BulkTypeOK, NEW k \in Bulk!Keys
  PROVE  Done(k) \in BOOLEAN
BY DEF Done

\* As many are counted, or fewer, and as much is done, or more.
LEMMA OnceStays ==
  ASSUME BulkTypeOK, Once, dedupe' = dedupe, touched \subseteq touched', Pending' \subseteq Pending,
         UNCHANGED <<bulk_sent, reached, resent, repeated>>, \A k \in Bulk!Keys : Done(k) => Done(k)'
  PROVE  Once'
<1>1. ASSUME NEW k \in Bulk!Keys
      PROVE  bulk_sent'[k] + Cardinality(PendingOf(k)') <= resent'[k] + (IF Done(k)' THEN 1 ELSE 0)
  <2>1. bulk_sent[k] + Cardinality(PendingOf(k)) <= resent[k] + (IF Done(k) THEN 1 ELSE 0)
    BY DEF Once
  <2>2. /\ Cardinality(PendingOf(k)') \in Nat /\ Cardinality(PendingOf(k)') <= Cardinality(PendingOf(k))
        /\ Cardinality(PendingOf(k)) \in Nat
    BY FewerPending, CountsAre
  <2>3. bulk_sent'[k] = bulk_sent[k] /\ resent'[k] = resent[k] /\ bulk_sent[k] \in Nat /\ resent[k] \in Nat
    BY DEF BulkTypeOK
  <2>4. Done(k) => Done(k)'
    OBVIOUS
  <2> QED
    BY <2>1, <2>2, <2>3, <2>4
<1>2. ASSUME dedupe, NEW a \in Addresses \ touched'
      PROVE  reached'[a] + Cardinality(PendingTo(a)') <= repeated'[a] + (IF DoneTo(a)' THEN 1 ELSE 0)
  <2>1. a \in Addresses \ touched
    OBVIOUS
  <2>2. reached[a] + Cardinality(PendingTo(a)) <= repeated[a] + (IF DoneTo(a) THEN 1 ELSE 0)
    BY <1>2, <2>1 DEF Once
  <2>3. /\ Cardinality(PendingTo(a)') \in Nat /\ Cardinality(PendingTo(a)') <= Cardinality(PendingTo(a))
        /\ Cardinality(PendingTo(a)) \in Nat
    BY FewerPending, CountsAre
  <2>4. reached'[a] = reached[a] /\ repeated'[a] = repeated[a] /\ reached[a] \in Nat /\ repeated[a] \in Nat
    BY <2>1 DEF BulkTypeOK
  <2>5. DoneTo(a) => DoneTo(a)'
    BY DEF DoneTo
  <2> QED
    BY <2>2, <2>3, <2>4, <2>5
<1> QED
  BY <1>1, <1>2 DEF Once

\* Who is served stays served.
LEMMA ServedStays ==
  ASSUME BulkTypeOK, dedupe' = dedupe, NEW k \in Bulk!Keys, Untouched(k), Served(k),
         \A j \in Bulk!Keys : PendingOf(j) # {} /\ Untouched(j) => PendingOf(j)' # {} \/ bulk_sent'[j] > 0 \/ j \in dropped',
         \A j \in Bulk!Keys : bulk_sent[j] > 0 => bulk_sent'[j] > 0, dropped \subseteq dropped'
  PROVE  Served(k)'
<1>1. PICK j \in Same(k) : PendingOf(j) # {} \/ bulk_sent[j] > 0 \/ j \in dropped
  BY DEF Served
<1>2. j \in Bulk!Keys /\ AddressOf[j] = AddressOf[k] /\ Untouched(j)
  BY <1>1 DEF Same, Bulk!Having, Untouched
<1>3. PendingOf(j)' # {} \/ bulk_sent'[j] > 0 \/ j \in dropped'
  BY <1>1, <1>2
<1>4. Same(k)' = Same(k)
  BY DEF Same, Bulk!Having
<1> QED
  BY <1>1, <1>3, <1>4 DEF Served

\* Of the command: what is sent stays as it is, and nobody is passed who was not served.
CommandSteps == <<window, sending, added, touched, bulk_sent, dropped, bulk_opted_out>>

LEMMA BulkQueueStays ==
  ASSUME BulkIInv, UNCHANGED CommandSteps
  PROVE  BulkQueue' /\ Pending' = Pending /\ \A k : PendingOf(k)' = PendingOf(k)
<1>1. BulkUnsent' = BulkUnsent /\ Pending' = Pending
  BY DEF CommandSteps, BulkUnsent, Pending
<1> QED
  BY <1>1 DEF CommandSteps, BulkIInv, BulkQueue, PendingOf, Of, Untouched

LEMMA NobodyIsMissed ==
  ASSUME BulkIInv, UNCHANGED CommandSteps, dedupe' = dedupe,
         \A k \in Bulk!Keys : Untouched(k) /\ Passed(k)' => Served(k)
  PROVE  NobodyMissed'
<1>1. \A k : PendingOf(k)' = PendingOf(k)
  BY BulkQueueStays
<1>2. Untouched(1)' \in BOOLEAN /\ \A k \in Bulk!Keys : Untouched(k)' <=> Untouched(k)
  BY DEF CommandSteps, Untouched
<1>3. \A k \in Bulk!Keys : Served(k)' <=> Served(k)
  BY <1>1 DEF CommandSteps, Served, Same, Bulk!Having
<1> QED
  BY <1>2, <1>3 DEF NobodyMissed

\* What the constants are.
LEMMA KeysAre == ASSUME Bulk!BulkSendConstants PROVE NumContacts \in Nat /\ Bulk!Keys = 1..NumContacts /\ Bulk!Keys \subseteq Nat
BY DEF Bulk!BulkSendConstants, Bulk!Keys

LEMMA AddressesAre ==
  ASSUME Bulk!BulkSendConstants
  PROVE  /\ \A k \in Bulk!Keys : AddressOf[k] \in Addresses
         /\ None \notin Addresses /\ None \notin Bulk!SendingState
BY DEF Bulk!BulkSendConstants

\* Nothing of the command or of the window changes.
LEMMA ReceiveKeeps == ASSUME Bulk!BulkSendConstants, BulkIInv, Bulk!Receive PROVE BulkIInv'
<1>1. /\ command /\ bulk_at = "idle" /\ interrupted' = progress /\ seen' = {} /\ key' = 1 /\ to_addr' = None
      /\ bulk_at' = IF NumContacts = 0 THEN "clear" ELSE "contact"
      /\ UNCHANGED <<dedupe, command, progress, resent, repeated, reached>> /\ UNCHANGED CommandSteps
  BY DEF Bulk!Receive, CommandSteps, Bulk!windowing, Bulk!history, Bulk!again
<1>2. BulkTypeOK /\ Place /\ Once /\ NobodyMissed
  BY DEF BulkIInv
<1>3. BulkTypeOK'
  BY <1>1, <1>2 DEF BulkTypeOK, CommandSteps
<1>4. Place'
  <2>1. Running' => key' \in Bulk!Keys
    BY <1>1, KeysAre DEF Running
  <2> QED
    BY <1>1, <1>2, <2>1 DEF Place, Running
<1>5. Address' /\ Seen'
  <2>1. bulk_at' \notin {"add", "progress"}
    BY <1>1
  <2>2. \A k \in Bulk!Keys : ~(k < key')
    BY <1>1, KeysAre
  <2> QED
    BY <1>1, <2>1, <2>2 DEF Address, Seen
<1>6. BulkQueue' /\ Pending' = Pending
  BY <1>1, BulkQueueStays
<1>7. Once'
  <2>1. \A k \in Bulk!Keys : Done(k) => Done(k)'
    BY <1>1 DEF Done
  <2> QED
    BY <1>1, <1>2, <1>6, <2>1, OnceStays DEF CommandSteps
<1>8. NobodyMissed'
  <2>1. \A k \in Bulk!Keys : Passed(k)' => k <= progress
    <3>1. \A k \in Bulk!Keys : NumContacts # 0 /\ ~(k < 1)
      BY KeysAre
    <3> QED
      BY <1>1, <3>1 DEF Passed, Running
  <2>2. \A k \in Bulk!Keys : Passed(k)' => Passed(k)
    BY <2>1 DEF Passed
  <2>3. \A k \in Bulk!Keys : Untouched(k) /\ Passed(k)' => Served(k)
    BY <1>2, <2>2 DEF NobodyMissed
  <2> QED
    BY <1>1, <2>3, NobodyIsMissed
<1> QED
  BY <1>3, <1>4, <1>5, <1>6, <1>7, <1>8 DEF BulkIInv

LEMMA ClearSendProgressKeeps == ASSUME Bulk!BulkSendConstants, BulkIInv, Bulk!ClearSendProgress PROVE BulkIInv'
<1>1. /\ bulk_at = "clear" /\ progress' = 0 /\ bulk_at' = "acknowledge"
      /\ UNCHANGED <<dedupe, command, key, to_addr, seen, interrupted, resent, repeated, reached>>
      /\ UNCHANGED CommandSteps
  BY DEF Bulk!ClearSendProgress, CommandSteps, Bulk!windowing, Bulk!history, Bulk!again
<1>2. BulkTypeOK /\ Place /\ Once /\ NobodyMissed
  BY DEF BulkIInv
<1>3. BulkTypeOK'
  BY <1>1, <1>2 DEF BulkTypeOK, CommandSteps
<1>4. Place' /\ Address' /\ Seen'
  BY <1>1, <1>2 DEF Place, Address, Seen, Running
<1>5. BulkQueue' /\ Pending' = Pending
  BY <1>1, BulkQueueStays
<1>6. Once'
  <2>1. \A k \in Bulk!Keys : Done(k) => Done(k)'
    BY <1>1 DEF Done
  <2> QED
    BY <1>1, <1>2, <1>5, <2>1, OnceStays DEF CommandSteps
<1>7. NobodyMissed'
  <2>1. \A k \in Bulk!Keys : Passed(k)
    BY <1>1 DEF Passed
  <2> QED
    BY <1>1, <1>2, <2>1, NobodyIsMissed DEF NobodyMissed
<1> QED
  BY <1>3, <1>4, <1>5, <1>6, <1>7 DEF BulkIInv

LEMMA AcknowledgeKeeps == ASSUME Bulk!BulkSendConstants, BulkIInv, Bulk!Acknowledge PROVE BulkIInv'
<1>1. /\ bulk_at = "acknowledge" /\ command' = FALSE /\ bulk_at' = "done"
      /\ UNCHANGED <<dedupe, key, to_addr, seen, interrupted, progress, resent, repeated, reached>>
      /\ UNCHANGED CommandSteps
  BY DEF Bulk!Acknowledge, CommandSteps, Bulk!windowing, Bulk!history, Bulk!again
<1>2. BulkTypeOK /\ Place /\ Once /\ NobodyMissed
  BY DEF BulkIInv
<1>3. BulkTypeOK'
  BY <1>1, <1>2 DEF BulkTypeOK, CommandSteps
<1>4. Place' /\ Address' /\ Seen'
  BY <1>1, <1>2 DEF Place, Address, Seen, Running
<1>5. BulkQueue' /\ Pending' = Pending
  BY <1>1, BulkQueueStays
<1>6. Once'
  <2>1. \A k \in Bulk!Keys : Done(k) => Done(k)'
    BY <1>1 DEF Done
  <2> QED
    BY <1>1, <1>2, <1>5, <2>1, OnceStays DEF CommandSteps
<1>7. NobodyMissed'
  <2>1. \A k \in Bulk!Keys : Passed(k)
    BY <1>1 DEF Passed
  <2> QED
    BY <1>1, <1>2, <2>1, NobodyIsMissed DEF NobodyMissed
<1> QED
  BY <1>3, <1>4, <1>5, <1>6, <1>7 DEF BulkIInv

LEMMA SetSendProgressKeeps == ASSUME Bulk!BulkSendConstants, BulkIInv, Bulk!SetSendProgress PROVE BulkIInv'
<1>1. /\ bulk_at = "progress" /\ progress' = key /\ Bulk!NextContact
      /\ UNCHANGED <<dedupe, command, to_addr, seen, interrupted, resent, repeated, reached>>
      /\ UNCHANGED CommandSteps
  BY DEF Bulk!SetSendProgress, CommandSteps, Bulk!windowing, Bulk!history, Bulk!again
<1>2. BulkTypeOK /\ Place /\ Address /\ Seen /\ Once /\ NobodyMissed
  BY DEF BulkIInv
<1>3. /\ NumContacts \in Nat /\ Bulk!Keys = 1..NumContacts /\ key \in Bulk!Keys /\ command
      /\ interrupted \in Nat /\ progress \in Nat /\ interrupted < key /\ progress < key
  BY <1>1, <1>2, KeysAre DEF BulkTypeOK, Place, Running
<1>4. \/ bulk_at' = "clear" /\ key' = key /\ key = NumContacts
      \/ bulk_at' = "contact" /\ key' = key + 1 /\ key + 1 \in Bulk!Keys
  BY <1>1, <1>3 DEF Bulk!NextContact
<1>5. BulkTypeOK'
  <2>1. key' \in Nat /\ bulk_at' \in {"contact", "clear"} /\ progress' \in Nat
    BY <1>1, <1>3, <1>4
  <2> QED
    BY <1>1, <1>2, <2>1 DEF BulkTypeOK, CommandSteps
<1>6. Place'
  BY <1>1, <1>3, <1>4 DEF Place, Running
<1>7. Address'
  BY <1>4 DEF Address
<1>8. Seen'
  <2> SUFFICES ASSUME dedupe, bulk_at' = "contact", key' = key + 1 PROVE Seen'
    BY <1>1, <1>4 DEF Seen, Running
  <2>1. to_addr \in seen /\ (Untouched(key) => to_addr = AddressOf[key])
    BY <1>1, <1>2 DEF Address
  <2>2. /\ \A k \in Bulk!Keys : k < key /\ Untouched(k) => AddressOf[k] \in seen
        /\ \A a \in Addresses : a \in seen => \E k \in Bulk!Keys : AddressOf[k] = a /\ (k < key \/ k = key)
    BY <1>1, <1>2 DEF Seen, Running
  <2>3. \A k \in Bulk!Keys : k < key + 1 <=> k < key \/ k = key
    BY <1>3
  <2>4. \A k \in Bulk!Keys : Untouched(k)' <=> Untouched(k)
    BY <1>1 DEF Untouched, CommandSteps
  <2> QED
    BY <1>1, <2>1, <2>2, <2>3, <2>4 DEF Seen
<1>9. BulkQueue' /\ Pending' = Pending
  BY <1>1, BulkQueueStays
<1>10. Once'
  <2>1. \A k \in Bulk!Keys : Done(k) => Done(k)'
    BY <1>1, <1>3 DEF Done
  <2> QED
    BY <1>1, <1>2, <1>9, <2>1, OnceStays DEF CommandSteps
<1>11. NobodyMissed'
  <2>1. \A k \in Bulk!Keys : Passed(k)' => k <= key
    BY <1>1, <1>3, <1>4 DEF Passed, Running
  <2>2. \A k \in Bulk!Keys : k <= key => Passed(k)
    BY <1>1, <1>3 DEF Passed, Running
  <2> QED
    BY <1>1, <1>2, <2>1, <2>2, NobodyIsMissed DEF NobodyMissed
<1> QED
  BY <1>5, <1>6, <1>7, <1>8, <1>9, <1>10, <1>11 DEF BulkIInv

LEMMA SameServed ==
  ASSUME NEW k, NEW j, AddressOf[j] = AddressOf[k], dedupe, Served(j)
  PROVE  Served(k)
BY DEF Served, Same, Bulk!Having

LEMMA LookUpContactKeeps == ASSUME Bulk!BulkSendConstants, BulkIInv, Bulk!LookUpContact PROVE BulkIInv'
<1> DEFINE a == Bulk!OptedIn(AddressOf[key])
           skipped == (dedupe /\ a \in seen) \/ Bulk!DoneBefore(key)
<1>1. /\ bulk_at = "contact" /\ to_addr' = a /\ seen' = (IF dedupe THEN Bulk!WithSeen(a) ELSE seen)
      /\ IF skipped THEN Bulk!NextContact ELSE bulk_at' = "add" /\ UNCHANGED key
      /\ UNCHANGED <<dedupe, command, interrupted, progress, resent, repeated, reached>>
      /\ UNCHANGED CommandSteps
  BY DEF Bulk!LookUpContact, CommandSteps, Bulk!windowing, Bulk!history, Bulk!again
<1>2. BulkTypeOK /\ Place /\ Seen /\ Once /\ NobodyMissed
  BY DEF BulkIInv
<1>3. /\ NumContacts \in Nat /\ Bulk!Keys = 1..NumContacts /\ key \in Bulk!Keys /\ command
      /\ interrupted \in Nat /\ progress \in Nat /\ interrupted <= progress
      /\ progress = interrupted \/ (interrupted < progress /\ progress < key)
  BY <1>1, <1>2, KeysAre DEF BulkTypeOK, Place, Running
<1>4. /\ a \in {None, AddressOf[key]} /\ (Untouched(key) => a = AddressOf[key])
      /\ a \in Addresses => a = AddressOf[key]
  <2>1. bulk_opted_out \subseteq touched
    BY <1>2 DEF BulkTypeOK
  <2>2. None \notin Addresses
    BY AddressesAre
  <2> QED
    BY <2>1, <2>2 DEF Bulk!OptedIn, Untouched
<1>5. AddressOf[key] \in Addresses
  BY <1>3, AddressesAre
<1> HIDE DEF a
<1>6. \/ skipped /\ bulk_at' = "clear" /\ key' = key /\ key = NumContacts
      \/ skipped /\ bulk_at' = "contact" /\ key' = key + 1 /\ key + 1 \in Bulk!Keys
      \/ ~skipped /\ bulk_at' = "add" /\ key' = key
  BY <1>1, <1>3 DEF Bulk!NextContact
<1>7. BulkTypeOK'
  <2>1. key' \in Nat /\ bulk_at' \in {"contact", "add", "clear"}
    BY <1>3, <1>6
  <2>2. to_addr' \in Addresses \union {None} /\ seen' \subseteq Addresses \union {None}
    BY <1>1, <1>2, <1>4, <1>5 DEF BulkTypeOK, Bulk!WithSeen
  <2> QED
    BY <1>1, <1>2, <2>1, <2>2 DEF BulkTypeOK, CommandSteps
<1>8. Place'
  <2>1. CASE bulk_at' = "add"
    <3>1. ~Bulk!DoneBefore(key) /\ key' = key
      BY <1>6, <2>1
    <3>2. interrupted < key
      BY <1>3, <3>1 DEF Bulk!DoneBefore
    <3> QED
      BY <1>1, <1>3, <2>1, <3>1, <3>2 DEF Place, Running
  <2>2. CASE bulk_at' = "contact"
    BY <1>1, <1>3, <1>6, <2>2 DEF Place, Running
  <2>3. CASE bulk_at' = "clear"
    BY <1>1, <1>3, <2>3 DEF Place, Running
  <2> QED
    BY <1>6, <2>1, <2>2, <2>3
<1>9. \A k \in Bulk!Keys : Untouched(k)' <=> Untouched(k)
  BY <1>1 DEF Untouched, CommandSteps
<1>10. dedupe => /\ \A k \in Bulk!Keys : k < key /\ Untouched(k) => AddressOf[k] \in seen
                 /\ \A b \in Addresses : b \in seen => \E k \in Bulk!Keys : AddressOf[k] = b /\ k < key
  BY <1>1, <1>2 DEF Seen, Running
<1>11. Address'
  <2> SUFFICES ASSUME bulk_at' = "add" PROVE Address'
    BY <1>6 DEF Address
  <2>1. key' = key /\ to_addr' = a /\ (dedupe => a \notin seen)
    BY <1>1, <1>6
  <2>2. dedupe => to_addr' \in seen'
    BY <1>1 DEF Bulk!WithSeen
  <2>3. ASSUME dedupe, Untouched(key), NEW k \in Bulk!Keys, k < key PROVE AddressOf[k] # AddressOf[key]
    BY <1>4, <1>10, <2>1, <2>3 DEF Untouched
  <2> QED
    BY <1>1, <1>3, <1>4, <1>9, <2>1, <2>2, <2>3 DEF Address
<1>12. Seen'
  <2> SUFFICES ASSUME dedupe, bulk_at' \in {"contact", "add"} PROVE Seen'
    BY <1>1, <1>6 DEF Seen, Running
  <2>1. seen' = seen \union {a}
    BY <1>1 DEF Bulk!WithSeen
  <2>2. \A k \in Bulk!Keys : k < key' <=> k < key \/ (k = key /\ bulk_at' = "contact")
    BY <1>3, <1>6
  <2>3. ASSUME NEW k \in Bulk!Keys, k < key', Untouched(k) PROVE AddressOf[k] \in seen'
    BY <1>4, <1>10, <2>1, <2>2, <2>3
  <2>4. ASSUME NEW b \in Addresses, b \in seen'
        PROVE  \E k \in Bulk!Keys : AddressOf[k] = b /\ (k < key' \/ (k = key' /\ bulk_at' # "contact"))
    <3>1. CASE b \in seen
      BY <1>10, <2>2, <2>4, <3>1
    <3>2. CASE b = a
      <4>1. AddressOf[key] = b
        BY <1>4, <3>2
      <4>2. key < key' \/ (key = key' /\ bulk_at' # "contact")
        BY <1>3, <1>6
      <4> QED
        BY <1>3, <4>1, <4>2
    <3> QED
      BY <2>1, <2>4, <3>1, <3>2
  <2> QED
    BY <1>1, <1>9, <2>3, <2>4 DEF Seen
<1>13. BulkQueue' /\ Pending' = Pending
  BY <1>1, BulkQueueStays
<1>14. Once'
  <2>1. \A k \in Bulk!Keys : Done(k) => Done(k)'
    BY <1>1 DEF Done
  <2> QED
    BY <1>1, <1>2, <1>13, <2>1, OnceStays DEF CommandSteps
<1>15. NobodyMissed'
  <2>1. ASSUME NEW k \in Bulk!Keys, Untouched(k), Passed(k)' PROVE Served(k)
    <3>1. CASE k # key
      <4>1. k <= progress \/ k < key
        BY <1>1, <1>3, <1>6, <2>1, <3>1 DEF Passed, Running
      <4>2. Passed(k)
        BY <1>1, <4>1 DEF Passed, Running
      <4> QED
        BY <1>2, <2>1, <4>2 DEF NobodyMissed
    <3>2. CASE k = key /\ key <= progress
      <4>1. Passed(k)
        BY <3>2 DEF Passed
      <4> QED
        BY <1>2, <2>1, <4>1 DEF NobodyMissed
    <3>3. CASE k = key /\ ~(key <= progress)
      <4>1. skipped
        BY <1>1, <1>3, <1>6, <2>1, <3>3 DEF Passed, Running
      <4>2. ~Bulk!DoneBefore(key)
        BY <1>3, <3>3 DEF Bulk!DoneBefore
      <4>3. dedupe /\ a \in seen /\ a = AddressOf[key]
        BY <1>4, <2>1, <3>3, <4>1, <4>2
      <4>4. PICK j \in Bulk!Keys : AddressOf[j] = AddressOf[key] /\ j < key
        BY <1>5, <1>10, <4>3
      <4>5. Passed(j) /\ Untouched(j)
        BY <1>1, <2>1, <3>3, <4>4 DEF Passed, Running, Untouched
      <4>6. Served(j)
        BY <1>2, <4>5 DEF NobodyMissed
      <4> QED
        BY <3>3, <4>3, <4>4, <4>6, SameServed
    <3> QED
      BY <3>1, <3>2, <3>3
  <2> QED
    BY <1>1, <2>1, NobodyIsMissed
<1> QED
  BY <1>7, <1>8, <1>11, <1>12, <1>13, <1>14, <1>15 DEF BulkIInv

-----------------------------------------------------------------------------
\* The window.
LEMMA MissedStays ==
  ASSUME BulkIInv, dedupe' = dedupe, touched \subseteq touched',
         \A k \in Bulk!Keys : Passed(k)' => Passed(k) \/ Served(k)',
         \A j \in Bulk!Keys : PendingOf(j) # {} /\ Untouched(j) => PendingOf(j)' # {} \/ bulk_sent'[j] > 0 \/ j \in dropped',
         \A j \in Bulk!Keys : bulk_sent[j] > 0 => bulk_sent'[j] > 0, dropped \subseteq dropped'
  PROVE  NobodyMissed'
<1>1. ASSUME NEW k \in Bulk!Keys, Passed(k)', Untouched(k)' PROVE Served(k)'
  <2>1. Untouched(k)
    BY <1>1 DEF Untouched
  <2>2. CASE Passed(k)
    <3>1. Served(k)
      BY <2>1, <2>2 DEF BulkIInv, NobodyMissed
    <3> QED
      BY <2>1, <3>1, ServedStays DEF BulkIInv
  <2> QED
    BY <1>1, <2>2
<1> QED
  BY <1>1 DEF NobodyMissed

AtCommand == <<dedupe, command, bulk_at, key, to_addr, seen, interrupted, progress>>

LEMMA CommandStays ==
  ASSUME BulkIInv, UNCHANGED AtCommand, touched \subseteq touched'
  PROVE  Place' /\ Address' /\ Seen'
<1>1. Place'
  BY DEF BulkIInv, AtCommand, Place, Running
<1>2. \A k \in Bulk!Keys : Untouched(k)' => Untouched(k)
  BY DEF Untouched
<1>3. ASSUME bulk_at \in {"add", "progress"} PROVE key \in Bulk!Keys
  BY <1>3 DEF BulkIInv, Place, Running
<1>4. Address'
  BY <1>2, <1>3 DEF BulkIInv, AtCommand, Address
<1>5. Seen'
  BY <1>2 DEF BulkIInv, AtCommand, Seen, Running
<1> QED
  BY <1>1, <1>4, <1>5

LEMMA DoneStays ==
  ASSUME UNCHANGED AtCommand
  PROVE  \A k \in Bulk!Keys : (Done(k)' <=> Done(k)) /\ (Passed(k)' <=> Passed(k))
BY DEF AtCommand, Done, Passed, Running

LEMMA AddToWindowKeeps == ASSUME Bulk!BulkSendConstants, BulkIInv, Bulk!AddToWindow PROVE BulkIInv'
<1> DEFINE e == [id |-> added, contact |-> key, addr |-> to_addr]
<1>1. /\ bulk_at = "add" /\ bulk_at' = "progress" /\ window' = Append(window, e) /\ added' = added + 1
      /\ UNCHANGED <<dedupe, command, key, to_addr, seen, interrupted, progress, sending,
                     bulk_opted_out, touched, bulk_sent, reached, dropped, resent, repeated>>
  BY DEF Bulk!AddToWindow, Bulk!history, Bulk!again
<1>2. BulkTypeOK /\ Place /\ Address /\ Seen /\ BulkQueue /\ Once
  BY DEF BulkIInv
<1>3. /\ Bulk!Keys \subseteq Nat /\ key \in Bulk!Keys /\ command /\ interrupted < key /\ progress < key
      /\ progress \in Nat /\ interrupted \in Nat
  BY <1>1, <1>2, KeysAre DEF BulkTypeOK, Place, Running
<1>4. /\ to_addr \in Addresses \union {None} /\ to_addr \in {None, AddressOf[key]}
      /\ Untouched(key) => to_addr = AddressOf[key]
  BY <1>1, <1>2 DEF BulkTypeOK, Address
<1>5. e \in Bulk!Entries /\ e.id = added /\ e.contact = key /\ e.addr = to_addr
  BY <1>2, <1>3, <1>4 DEF BulkTypeOK, Bulk!Entries
<1> HIDE DEF e
<1>6. e \notin Pending
  <2>1. e \in Pending => e.id < added
    BY <1>2 DEF BulkQueue
  <2>2. added \in Nat
    BY <1>2 DEF BulkTypeOK
  <2> QED
    BY <1>5, <2>1, <2>2
<1>7. window \in Seq(Bulk!Entries) /\ e \notin Elements(window) /\ IsOnce(window)
  BY <1>2, <1>6 DEF BulkTypeOK, BulkQueue, Pending
<1>8. window' \in Seq(Bulk!Entries) /\ IsOnce(window') /\ Elements(window') = Elements(window) \union {e}
  BY <1>1, <1>5, <1>7, AppendIs
<1>9. BulkUnsent' = BulkUnsent /\ Pending' = Pending \union {e}
  BY <1>1, <1>8 DEF BulkUnsent, Pending
<1>10. BulkTypeOK'
  <2>1. added' \in Nat
    BY <1>1, <1>2 DEF BulkTypeOK
  <2> QED
    BY <1>1, <1>2, <1>8, <2>1 DEF BulkTypeOK
<1>11. Place'
  BY <1>1, <1>3, <1>2 DEF Place, Running
<1>12. \A k \in Bulk!Keys : Untouched(k)' <=> Untouched(k)
  BY <1>1 DEF Untouched
<1>13. Address'
  BY <1>1, <1>2, <1>3, <1>12 DEF Address
<1>14. Seen'
  BY <1>1, <1>2, <1>12 DEF Seen, Running
<1>15. BulkQueue'
  <2>1. BulkUnsent' \intersect Elements(window') = {}
    BY <1>2, <1>6, <1>8, <1>9 DEF BulkQueue, Pending
  <2>2. ASSUME NEW f \in Pending'
        PROVE  /\ f.id < added' /\ f.addr \in {None, AddressOf[f.contact]}
               /\ Untouched(f.contact)' => f.addr = AddressOf[f.contact]
    <3>1. added \in Nat
      BY <1>2 DEF BulkTypeOK
    <3>2. Untouched(f.contact)' <=> Untouched(f.contact)
      BY <1>1 DEF Untouched
    <3>3. CASE f = e
      BY <1>1, <1>4, <1>5, <3>1, <3>2, <3>3
    <3>4. CASE f \in Pending
      <4>1. f.id \in Nat
        BY <3>4, <1>2, PendingIs DEF Bulk!Entries
      <4>2. f.id < added /\ f.addr \in {None, AddressOf[f.contact]} /\ (Untouched(f.contact) => f.addr = AddressOf[f.contact])
        BY <1>2, <3>4 DEF BulkQueue
      <4> QED
        BY <1>1, <3>1, <3>2, <4>1, <4>2
    <3> QED
      BY <1>9, <3>3, <3>4
  <2> QED
    BY <1>8, <2>1, <2>2 DEF BulkQueue
<1>16. Once'
  <2>1. IsFiniteSet(Pending)
    BY <1>2, PendingIs
  <2>2. ASSUME NEW k \in Bulk!Keys
        PROVE  bulk_sent'[k] + Cardinality(PendingOf(k)') <= resent'[k] + (IF Done(k)' THEN 1 ELSE 0)
    <3>1. /\ Cardinality(PendingOf(k)) \in Nat
          /\ Cardinality(PendingOf(k)') = Cardinality(PendingOf(k)) + (IF key = k THEN 1 ELSE 0)
      BY <1>5, <1>6, <1>9, <2>1, OneMoreOf DEF PendingOf
    <3>2. bulk_sent[k] + Cardinality(PendingOf(k)) <= resent[k] + (IF Done(k) THEN 1 ELSE 0)
      BY <1>2 DEF Once
    <3>3. bulk_sent'[k] = bulk_sent[k] /\ resent'[k] = resent[k] /\ bulk_sent[k] \in Nat /\ resent[k] \in Nat
      BY <1>1, <1>2 DEF BulkTypeOK
    <3>4. (k = key => ~Done(k) /\ Done(k)') /\ (Done(k) => Done(k)')
      BY <1>1, <1>3 DEF Done
    <3> QED
      BY <3>1, <3>2, <3>3, <3>4
  <2>3. ASSUME dedupe, NEW a \in Addresses \ touched
        PROVE  reached'[a] + Cardinality(PendingTo(a)') <= repeated'[a] + (IF DoneTo(a)' THEN 1 ELSE 0)
    <3>1. /\ Cardinality(PendingTo(a)) \in Nat
          /\ Cardinality(PendingTo(a)') = Cardinality(PendingTo(a)) + (IF to_addr = a THEN 1 ELSE 0)
      BY <1>5, <1>6, <1>9, <2>1, OneMoreTo DEF PendingTo
    <3>2. reached[a] + Cardinality(PendingTo(a)) <= repeated[a] + (IF DoneTo(a) THEN 1 ELSE 0)
      BY <1>2, <2>3 DEF Once
    <3>3. reached'[a] = reached[a] /\ repeated'[a] = repeated[a] /\ reached[a] \in Nat /\ repeated[a] \in Nat
      BY <1>1, <1>2 DEF BulkTypeOK
    <3>4. DoneTo(a) => DoneTo(a)'
      BY <1>1 DEF DoneTo, Done
    <3>5. ASSUME to_addr = a PROVE ~DoneTo(a) /\ DoneTo(a)'
      <4>1. AddressOf[key] = a /\ Untouched(key)
        BY <1>4, <3>5, AddressesAre DEF Untouched
      <4>2. \A k \in Bulk!Keys : k < key => AddressOf[k] # a
        BY <1>1, <1>2, <2>3, <4>1 DEF Address
      <4>3. \A k \in Bulk!Keys : Done(k) => k < key
        BY <1>1, <1>3 DEF Done
      <4>4. Done(key)'
        BY <1>1 DEF Done
      <4>5. ~DoneTo(a)
        BY <4>2, <4>3 DEF DoneTo
      <4>6. ASSUME NEW k \in Bulk!Keys, k = key PROVE Done(k)'
        BY <1>1, <4>6 DEF Done
      <4>7. DoneTo(a)'
        BY <1>3, <4>1, <4>6 DEF DoneTo
      <4> QED
        BY <4>5, <4>7
    <3> QED
      BY <3>1, <3>2, <3>3, <3>4, <3>5
  <2> QED
    BY <1>1, <2>2, <2>3 DEF Once
<1>17. NobodyMissed'
  <2>1. \A j : PendingOf(j)' = PendingOf(j) \union (IF key = j THEN {e} ELSE {})
    BY <1>5, <1>9 DEF PendingOf, Of
  <2>3. \A k \in Bulk!Keys : Passed(k)' => Passed(k) \/ k = key
    BY <1>1 DEF Passed, Running
  <2>4. \A k \in Bulk!Keys : k = key => Served(k)'
    <3> SUFFICES ASSUME NEW k \in Bulk!Keys, k = key PROVE Served(k)'
      OBVIOUS
    <3>1. PendingOf(k)' # {} /\ k \in Same(k)'
      BY <2>1 DEF Same, Bulk!Having
    <3> QED
      BY <3>1 DEF Served
  <2> QED
    BY <1>1, <2>1, <2>3, <2>4, MissedStays
<1> QED
  BY <1>10, <1>11, <1>13, <1>14, <1>15, <1>16, <1>17 DEF BulkIInv

LEMMA NextKeyKeeps == ASSUME Bulk!BulkSendConstants, BulkIInv, Bulk!NextKey PROVE BulkIInv'
<1> DEFINE e == Head(window)
<1>1. /\ sending = None /\ window # <<>> /\ window' = Tail(window)
      /\ sending' = [entry |-> e, was_sent |-> FALSE] /\ UNCHANGED AtCommand
      /\ UNCHANGED <<added, bulk_opted_out, touched, bulk_sent, reached, dropped, resent, repeated>>
  BY DEF Bulk!NextKey, Bulk!handler, Bulk!history, Bulk!again, AtCommand
<1>2. BulkTypeOK /\ BulkQueue /\ Once /\ None \notin Bulk!SendingState
  BY AddressesAre DEF BulkIInv
<1>3. window \in Seq(Bulk!Entries) /\ IsOnce(window)
  BY <1>2 DEF BulkTypeOK, BulkQueue
<1>4. e = window[1]
  BY <1>1, <1>3
<1>5. /\ window' \in Seq(Bulk!Entries) /\ IsOnce(window') /\ e \in Elements(window) /\ e \in Bulk!Entries
      /\ Elements(window') = Elements(window) \ {e}
  BY <1>1, <1>3, <1>4, TailIs
<1> HIDE DEF e
<1>6. sending' \in Bulk!SendingState /\ sending' # None /\ sending'.entry = e /\ ~sending'.was_sent
  <2>1. [entry |-> e, was_sent |-> FALSE] \in Bulk!SendingState
    BY <1>5 DEF Bulk!SendingState
  <2>2. sending' = [entry |-> e, was_sent |-> FALSE]
    BY <1>1
  <2>3. sending' \in Bulk!SendingState /\ sending' # None
    BY <1>2, <2>1, <2>2
  <2> QED
    BY <2>2, <2>3
<1>7. BulkUnsent = {} /\ BulkUnsent' = {e} /\ Pending' = Pending
  BY <1>1, <1>5, <1>6 DEF BulkUnsent, Pending
<1>8. BulkTypeOK'
  BY <1>1, <1>2, <1>5, <1>6 DEF BulkTypeOK, AtCommand
<1>9. Place' /\ Address' /\ Seen'
  BY <1>1, CommandStays
<1>10. BulkQueue'
  BY <1>1, <1>2, <1>5, <1>7 DEF BulkQueue, Untouched
<1>11. Once'
  <2>1. \A k \in Bulk!Keys : Done(k) => Done(k)'
    BY <1>1, DoneStays
  <2> QED
    BY <1>1, <1>2, <1>7, <2>1, OnceStays DEF AtCommand
<1>12. NobodyMissed'
  <2>1. \A j : PendingOf(j)' = PendingOf(j)
    BY <1>7 DEF PendingOf
  <2>2. \A k \in Bulk!Keys : Passed(k)' => Passed(k)
    BY <1>1, DoneStays
  <2> QED
    BY <1>1, <2>1, <2>2, MissedStays DEF AtCommand
<1> QED
  BY <1>8, <1>9, <1>10, <1>11, <1>12 DEF BulkIInv

LEMMA SendToKeeps == ASSUME Bulk!BulkSendConstants, BulkIInv, Bulk!SendTo PROVE BulkIInv'
<1> DEFINE e == sending.entry
<1>1. /\ sending # None /\ ~sending.was_sent /\ UNCHANGED AtCommand
      /\ UNCHANGED <<added, window, bulk_opted_out, touched, resent, repeated>>
      /\ \/ /\ sending' = [sending EXCEPT !.was_sent = TRUE]
            /\ bulk_sent' = IF e.addr = None THEN bulk_sent ELSE [bulk_sent EXCEPT ![e.contact] = @ + 1]
            /\ reached' = IF e.addr = None THEN reached ELSE [reached EXCEPT ![e.addr] = @ + 1]
            /\ dropped' = dropped
         \/ sending' = None /\ dropped' = dropped \union {e.contact} /\ bulk_sent' = bulk_sent /\ reached' = reached
  BY DEF Bulk!SendTo, Bulk!handler, Bulk!again, AtCommand
<1>2. BulkTypeOK /\ BulkQueue /\ Once /\ None \notin Bulk!SendingState /\ None \notin Addresses
  BY AddressesAre DEF BulkIInv
<1>3. sending \in Bulk!SendingState /\ e \in Bulk!Entries
  BY <1>1, <1>2 DEF BulkTypeOK, Bulk!SendingState
<1>4. e.contact \in Bulk!Keys /\ e.addr \in Addresses \union {None}
  BY <1>3 DEF Bulk!Entries
<1>5. BulkUnsent = {e}
  BY <1>1 DEF BulkUnsent
<1>6. sending' = None \/ (sending' \in Bulk!SendingState /\ sending'.was_sent)
  BY <1>1, <1>3 DEF Bulk!SendingState
<1> HIDE DEF e
<1>7. BulkUnsent' = {}
  BY <1>6 DEF BulkUnsent
<1>8. Pending = Pending' \union {e} /\ e \notin Pending' /\ Pending' \subseteq Pending
  BY <1>1, <1>2, <1>5, <1>7 DEF Pending, BulkQueue
<1>9. IsFiniteSet(Pending')
  BY <1>2, <1>8, PendingIs, FS_Subset
<1>10. bulk_sent' \in [Bulk!Keys -> Nat] /\ reached' \in [Addresses -> Nat] /\ dropped' \subseteq Bulk!Keys
  <2>1. bulk_sent \in [Bulk!Keys -> Nat] /\ reached \in [Addresses -> Nat] /\ dropped \subseteq Bulk!Keys
    BY <1>2 DEF BulkTypeOK
  <2>2. \A n \in Nat : n + 1 \in Nat
    OBVIOUS
  <2>3. [bulk_sent EXCEPT ![e.contact] = @ + 1] \in [Bulk!Keys -> Nat]
    BY <2>1, <2>2
  <2>4. e.addr # None => [reached EXCEPT ![e.addr] = @ + 1] \in [Addresses -> Nat]
    BY <2>1, <2>2
  <2> QED
    BY <1>1, <1>4, <2>1, <2>3, <2>4
<1>11. BulkTypeOK'
  BY <1>1, <1>2, <1>6, <1>10 DEF BulkTypeOK, AtCommand
<1>12. Place' /\ Address' /\ Seen'
  BY <1>1, CommandStays
<1>13. BulkQueue'
  BY <1>1, <1>2, <1>7, <1>8 DEF BulkQueue, Untouched
<1>14. \A k \in Bulk!Keys : bulk_sent'[k] <= bulk_sent[k] + (IF e.contact = k THEN 1 ELSE 0) /\ bulk_sent[k] <= bulk_sent'[k]
  BY <1>1, <1>2, <1>4 DEF BulkTypeOK
<1>15. \A a \in Addresses : reached'[a] <= reached[a] + (IF e.addr = a THEN 1 ELSE 0)
  <2> SUFFICES ASSUME NEW a \in Addresses PROVE reached'[a] <= reached[a] + (IF e.addr = a THEN 1 ELSE 0)
    OBVIOUS
  <2>1. reached \in [Addresses -> Nat] /\ reached[a] \in Nat /\ a # None
    BY <1>2 DEF BulkTypeOK
  <2>2. CASE reached' = reached
    BY <2>1, <2>2
  <2>3. CASE reached' # reached
    <3>1. e.addr # None /\ reached' = [reached EXCEPT ![e.addr] = @ + 1]
      BY <1>1, <2>3
    <3>2. CASE e.addr = a
      BY <2>1, <3>1, <3>2
    <3>3. CASE e.addr # a
      BY <2>1, <3>1, <3>3
    <3> QED
      BY <3>2, <3>3
  <2> QED
    BY <2>2, <2>3
<1>16. Once'
  <2>1. ASSUME NEW k \in Bulk!Keys
        PROVE  bulk_sent'[k] + Cardinality(PendingOf(k)') <= resent'[k] + (IF Done(k)' THEN 1 ELSE 0)
    <3>1. /\ Cardinality(PendingOf(k)') \in Nat
          /\ Cardinality(PendingOf(k)) = Cardinality(PendingOf(k)') + (IF e.contact = k THEN 1 ELSE 0)
      BY <1>8, <1>9, OneMoreOf DEF PendingOf
    <3>2. bulk_sent[k] + Cardinality(PendingOf(k)) <= resent[k] + (IF Done(k) THEN 1 ELSE 0)
      BY <1>2 DEF Once
    <3>3. resent'[k] = resent[k] /\ bulk_sent[k] \in Nat /\ bulk_sent'[k] \in Nat /\ resent[k] \in Nat
      BY <1>1, <1>2, <1>10 DEF BulkTypeOK
    <3>4. Done(k)' <=> Done(k)
      BY <1>1, DoneStays
    <3> QED
      BY <1>14, <3>1, <3>2, <3>3, <3>4
  <2>2. ASSUME dedupe, NEW a \in Addresses \ touched
        PROVE  reached'[a] + Cardinality(PendingTo(a)') <= repeated'[a] + (IF DoneTo(a)' THEN 1 ELSE 0)
    <3>1. /\ Cardinality(PendingTo(a)') \in Nat
          /\ Cardinality(PendingTo(a)) = Cardinality(PendingTo(a)') + (IF e.addr = a THEN 1 ELSE 0)
      BY <1>8, <1>9, OneMoreTo DEF PendingTo
    <3>2. reached[a] + Cardinality(PendingTo(a)) <= repeated[a] + (IF DoneTo(a) THEN 1 ELSE 0)
      BY <1>2, <2>2 DEF Once
    <3>3. repeated'[a] = repeated[a] /\ reached[a] \in Nat /\ reached'[a] \in Nat /\ repeated[a] \in Nat
      BY <1>1, <1>2, <1>10 DEF BulkTypeOK
    <3>4. DoneTo(a)' <=> DoneTo(a)
      BY <1>1, DoneStays DEF DoneTo
    <3> QED
      BY <1>15, <3>1, <3>2, <3>3, <3>4
  <2> QED
    BY <1>1, <2>1, <2>2 DEF Once, AtCommand
<1>17. NobodyMissed'
  <2>1. ASSUME NEW j \in Bulk!Keys, PendingOf(j) # {}, Untouched(j)
        PROVE  PendingOf(j)' # {} \/ bulk_sent'[j] > 0 \/ j \in dropped'
    <3>1. CASE j # e.contact
      <4>1. PendingOf(j)' = PendingOf(j)
        BY <1>8, <3>1 DEF PendingOf, Of
      <4> QED
        BY <2>1, <4>1
    <3>2. CASE j = e.contact
      <4>1. e.addr = AddressOf[j] /\ AddressOf[j] \in Addresses
        BY <1>2, <1>8, <2>1, <3>2, AddressesAre DEF BulkQueue
      <4>2. CASE dropped' = dropped \union {e.contact}
        BY <3>2, <4>2
      <4>3. CASE bulk_sent' = [bulk_sent EXCEPT ![e.contact] = @ + 1]
        <5>1. bulk_sent'[j] = bulk_sent[j] + 1 /\ bulk_sent[j] \in Nat
          BY <1>2, <3>2, <4>3 DEF BulkTypeOK
        <5> QED
          BY <5>1
      <4> QED
        BY <1>1, <1>2, <4>1, <4>2, <4>3
    <3> QED
      BY <3>1, <3>2
  <2>2. \A j \in Bulk!Keys : bulk_sent[j] > 0 => bulk_sent'[j] > 0
    BY <1>2, <1>10, <1>14 DEF BulkTypeOK
  <2>3. \A k \in Bulk!Keys : Passed(k)' => Passed(k)
    BY <1>1, DoneStays
  <2>4. dropped \subseteq dropped'
    BY <1>1
  <2> QED
    BY <1>1, <2>1, <2>2, <2>3, <2>4, MissedStays DEF AtCommand
<1> QED
  BY <1>11, <1>12, <1>13, <1>16, <1>17 DEF BulkIInv

\* What is pending stays so, and nothing else happens but an opt-out or opt-in.
LEMMA BulkOthersKeep ==
  ASSUME BulkIInv, UNCHANGED AtCommand, UNCHANGED <<window, added, bulk_sent, reached, dropped, resent, repeated>>,
         sending' \in Bulk!SendingState \union {None}, BulkUnsent' = BulkUnsent,
         touched \subseteq touched', touched' \subseteq Addresses, bulk_opted_out' \subseteq touched'
  PROVE  BulkIInv'
<1>1. BulkTypeOK /\ BulkQueue /\ Once /\ Pending' = Pending
  BY DEF BulkIInv, Pending
<1>2. BulkTypeOK'
  BY <1>1 DEF BulkTypeOK, AtCommand
<1>3. Place' /\ Address' /\ Seen'
  BY CommandStays
<1>4. BulkQueue'
  <2>1. \A e \in Pending : Untouched(e.contact)' => Untouched(e.contact)
    BY DEF Untouched
  <2> QED
    BY <1>1, <2>1 DEF BulkQueue
<1>5. Once'
  <2>1. \A k \in Bulk!Keys : Done(k) => Done(k)'
    BY DoneStays
  <2> QED
    BY <1>1, <2>1, OnceStays DEF AtCommand
<1>6. NobodyMissed'
  <2>1. \A j : PendingOf(j)' = PendingOf(j)
    BY <1>1 DEF PendingOf
  <2>2. \A k \in Bulk!Keys : Passed(k)' => Passed(k)
    BY DoneStays
  <2> QED
    BY <2>1, <2>2, MissedStays DEF AtCommand
<1> QED
  BY <1>2, <1>3, <1>4, <1>5, <1>6 DEF BulkIInv

LEMMA SetExternalIdKeeps == ASSUME BulkIInv, Bulk!SetExternalId PROVE BulkIInv'
<1>1. /\ UNCHANGED AtCommand /\ UNCHANGED <<window, added, bulk_sent, reached, dropped, resent, repeated, touched, bulk_opted_out>>
      /\ sending # None /\ sending.was_sent /\ sending' = None
  BY DEF Bulk!SetExternalId, Bulk!handler, Bulk!history, Bulk!again, AtCommand
<1>2. BulkUnsent' = BulkUnsent
  BY <1>1 DEF BulkUnsent
<1>3. bulk_opted_out' \subseteq touched' /\ touched' \subseteq Addresses
  BY <1>1 DEF BulkIInv, BulkTypeOK
<1> QED
  BY <1>1, <1>2, <1>3, BulkOthersKeep

LEMMA FlightKeeps == ASSUME BulkIInv, NEW e, Bulk!HandleEvent(e) \/ Bulk!FlightExpires(e) PROVE BulkIInv'
<1>1. /\ UNCHANGED AtCommand
      /\ UNCHANGED <<window, added, bulk_sent, reached, dropped, resent, repeated, touched, bulk_opted_out, sending>>
  BY DEF Bulk!HandleEvent, Bulk!FlightExpires, Bulk!handler, Bulk!history, Bulk!again, AtCommand
<1>2. BulkUnsent' = BulkUnsent
  BY <1>1 DEF BulkUnsent
<1>3. bulk_opted_out' \subseteq touched' /\ touched' \subseteq Addresses /\ sending' \in Bulk!SendingState \union {None}
  BY <1>1 DEF BulkIInv, BulkTypeOK
<1> QED
  BY <1>1, <1>2, <1>3, BulkOthersKeep

LEMMA OptOutOrInKeeps == ASSUME BulkIInv, NEW a \in Addresses, Bulk!OptOutOrIn(a) PROVE BulkIInv'
<1>1. /\ UNCHANGED AtCommand /\ UNCHANGED <<window, added, bulk_sent, reached, dropped, resent, repeated, sending>>
      /\ bulk_opted_out' = (bulk_opted_out \ {a}) \union ({a} \ bulk_opted_out) /\ touched' = touched \union {a}
  BY DEF Bulk!OptOutOrIn, Bulk!handler, Bulk!windowing, Bulk!history, Bulk!again, AtCommand
<1>2. BulkUnsent' = BulkUnsent
  BY <1>1 DEF BulkUnsent
<1>3. bulk_opted_out' \subseteq touched' /\ touched' \subseteq Addresses /\ sending' \in Bulk!SendingState \union {None}
  BY <1>1 DEF BulkIInv, BulkTypeOK
<1> QED
  BY <1>1, <1>2, <1>3, BulkOthersKeep

LEMMA BulkWorkerDiesKeeps == ASSUME Bulk!BulkSendConstants, BulkIInv, Bulk!WorkerDies PROVE BulkIInv'
<1> DEFINE more == [resent EXCEPT ![key] = @ + 1]
           all == [k \in Bulk!Keys |-> resent[k] + 1]
           moreTo == [repeated EXCEPT ![AddressOf[key]] = @ + 1]
           allTo == [a \in Addresses |-> repeated[a] + 1]
<1>1. /\ bulk_at' = (IF command THEN "idle" ELSE bulk_at) /\ sending' = None
      /\ bulk_at = "progress" => resent' = more /\ repeated' = moreTo
      /\ bulk_at = "acknowledge" => resent' = all /\ repeated' = allTo
      /\ bulk_at \notin {"progress", "acknowledge"} => resent' = resent /\ repeated' = repeated
      /\ dropped' = IF sending # None /\ ~sending.was_sent THEN dropped \union {sending.entry.contact}
                    ELSE dropped
      /\ UNCHANGED <<dedupe, command, key, to_addr, seen, interrupted, progress, added, window,
                     bulk_opted_out, touched, bulk_sent, reached>>
  <2>1. /\ bulk_at = "progress" => resent' = more /\ repeated' = moreTo
        /\ bulk_at = "acknowledge" => resent' = all /\ repeated' = allTo
        /\ bulk_at \notin {"progress", "acknowledge"} => resent' = resent /\ repeated' = repeated
    <3>1. CASE bulk_at = "progress"
      BY <3>1 DEF Bulk!WorkerDies
    <3>2. CASE bulk_at = "acknowledge"
      BY <3>2 DEF Bulk!WorkerDies
    <3>3. CASE bulk_at \notin {"progress", "acknowledge"}
      BY <3>3 DEF Bulk!WorkerDies
    <3> QED
      BY <3>1, <3>2, <3>3
  <2> QED
    BY <2>1 DEF Bulk!WorkerDies
<1>2. BulkTypeOK /\ Place /\ BulkQueue /\ Once
  BY DEF BulkIInv
<1>3. bulk_at = "progress" => key \in Bulk!Keys /\ AddressOf[key] \in Addresses /\ progress < key
  BY <1>2, AddressesAre DEF Place, Running, BulkTypeOK
<1>4. bulk_at = "acknowledge" => progress = 0
  BY <1>2 DEF Place
<1>5. bulk_at' \in {"idle", "done"} /\ (bulk_at' = "done" <=> bulk_at = "done")
  BY <1>1, <1>2 DEF Place
<1>6. BulkUnsent' = {} /\ Pending' \subseteq Pending /\ Pending' = Elements(window)
  BY <1>1 DEF BulkUnsent, Pending
<1>7. resent' \in [Bulk!Keys -> Nat] /\ repeated' \in [Addresses -> Nat] /\ dropped' \subseteq Bulk!Keys
  <2>1. resent \in [Bulk!Keys -> Nat] /\ repeated \in [Addresses -> Nat] /\ dropped \subseteq Bulk!Keys
    BY <1>2 DEF BulkTypeOK
  <2>2. \A n \in Nat : n + 1 \in Nat
    OBVIOUS
  <2>3. bulk_at = "progress" => more \in [Bulk!Keys -> Nat] /\ moreTo \in [Addresses -> Nat]
    BY <1>3, <2>1, <2>2
  <2>4. all \in [Bulk!Keys -> Nat] /\ allTo \in [Addresses -> Nat]
    BY <2>1, <2>2
  <2>5. sending # None => sending.entry.contact \in Bulk!Keys
    BY <1>2 DEF BulkTypeOK, Bulk!SendingState, Bulk!Entries
  <2>6. dropped' \subseteq Bulk!Keys
    BY <1>1, <2>1, <2>5
  <2> HIDE DEF more, all, moreTo, allTo
  <2> QED
    BY <1>1, <2>1, <2>3, <2>4, <2>6
<1>8. BulkTypeOK'
  BY <1>1, <1>2, <1>5, <1>7 DEF BulkTypeOK
<1>9. Place' /\ Address' /\ Seen'
  <2>1. ~Running' /\ bulk_at' \notin {"add", "progress"}
    BY <1>5 DEF Running
  <2>2. Place'
    BY <1>1, <1>2, <1>5, <2>1 DEF Place
  <2> QED
    BY <2>1, <2>2 DEF Address, Seen
<1>10. BulkQueue'
  BY <1>1, <1>2, <1>6 DEF BulkQueue, Untouched
<1>11. Once'
  <2>1. ASSUME NEW k \in Bulk!Keys
        PROVE  bulk_sent'[k] + Cardinality(PendingOf(k)') <= resent'[k] + (IF Done(k)' THEN 1 ELSE 0)
    <3>1. bulk_sent[k] + Cardinality(PendingOf(k)) <= resent[k] + (IF Done(k) THEN 1 ELSE 0)
      BY <1>2 DEF Once
    <3>2. /\ Cardinality(PendingOf(k)') \in Nat /\ Cardinality(PendingOf(k)') <= Cardinality(PendingOf(k))
          /\ Cardinality(PendingOf(k)) \in Nat
      BY <1>2, <1>6, FewerPending, CountsAre
    <3>3. bulk_sent'[k] = bulk_sent[k] /\ bulk_sent[k] \in Nat /\ resent[k] \in Nat /\ resent'[k] \in Nat
      BY <1>1, <1>2, <1>7 DEF BulkTypeOK
    <3>4. resent'[k] >= resent[k] /\ (Done(k) => Done(k)' \/ resent'[k] = resent[k] + 1)
      <4>1. CASE bulk_at = "progress"
        <5>1. resent' = more
          BY <1>1, <4>1
        <5>2. resent'[k] = IF k = key THEN resent[k] + 1 ELSE resent[k]
          BY <1>2, <1>3, <4>1, <5>1 DEF BulkTypeOK
        <5>3. Done(k) => k = key \/ Done(k)'
          BY <1>1, <1>5, <4>1 DEF Done
        <5> HIDE DEF more
        <5> QED
          BY <3>3, <5>2, <5>3
      <4>2. CASE bulk_at = "acknowledge"
        <5>1. resent'[k] = resent[k] + 1
          BY <1>1, <4>2
        <5> QED
          BY <3>3, <5>1
      <4>3. CASE bulk_at \notin {"progress", "acknowledge"}
        <5>1. resent' = resent
          BY <1>1, <4>3
        <5>2. Done(k) => Done(k)'
          BY <1>1, <1>5, <4>3 DEF Done
        <5> QED
          BY <3>3, <5>1, <5>2
      <4> QED
        BY <4>1, <4>2, <4>3
    <3> QED
      BY <3>1, <3>2, <3>3, <3>4
  <2>2. ASSUME dedupe, NEW a \in Addresses \ touched
        PROVE  reached'[a] + Cardinality(PendingTo(a)') <= repeated'[a] + (IF DoneTo(a)' THEN 1 ELSE 0)
    <3>1. reached[a] + Cardinality(PendingTo(a)) <= repeated[a] + (IF DoneTo(a) THEN 1 ELSE 0)
      BY <1>2, <2>2 DEF Once
    <3>2. /\ Cardinality(PendingTo(a)') \in Nat /\ Cardinality(PendingTo(a)') <= Cardinality(PendingTo(a))
          /\ Cardinality(PendingTo(a)) \in Nat
      BY <1>2, <1>6, FewerPending, CountsAre
    <3>3. reached'[a] = reached[a] /\ reached[a] \in Nat /\ repeated[a] \in Nat /\ repeated'[a] \in Nat
      BY <1>1, <1>2, <1>7 DEF BulkTypeOK
    <3>4. repeated'[a] >= repeated[a] /\ (DoneTo(a) => DoneTo(a)' \/ repeated'[a] = repeated[a] + 1)
      <4>1. CASE bulk_at = "progress"
        <5>1. repeated' = moreTo
          BY <1>1, <4>1
        <5>2. repeated'[a] = IF a = AddressOf[key] THEN repeated[a] + 1 ELSE repeated[a]
          BY <1>2, <1>3, <4>1, <5>1 DEF BulkTypeOK
        <5>3. \A k \in Bulk!Keys : Done(k) => k = key \/ Done(k)'
          BY <1>1, <1>5, <4>1 DEF Done
        <5>4. DoneTo(a) => a = AddressOf[key] \/ DoneTo(a)'
          BY <5>3 DEF DoneTo
        <5> HIDE DEF moreTo
        <5> QED
          BY <3>3, <5>2, <5>4
      <4>2. CASE bulk_at = "acknowledge"
        <5>1. repeated'[a] = repeated[a] + 1
          BY <1>1, <4>2
        <5> QED
          BY <3>3, <5>1
      <4>3. CASE bulk_at \notin {"progress", "acknowledge"}
        <5>1. repeated' = repeated
          BY <1>1, <4>3
        <5>2. \A k \in Bulk!Keys : Done(k) => Done(k)'
          BY <1>1, <1>5, <4>3 DEF Done
        <5>3. DoneTo(a) => DoneTo(a)'
          BY <5>2 DEF DoneTo
        <5> QED
          BY <3>3, <5>1, <5>3
      <4> QED
        BY <4>1, <4>2, <4>3
    <3> QED
      BY <3>1, <3>2, <3>3, <3>4
  <2> QED
    BY <1>1, <2>1, <2>2 DEF Once
<1>12. NobodyMissed'
  <2>1. ASSUME NEW j \in Bulk!Keys, PendingOf(j) # {} PROVE PendingOf(j)' # {} \/ j \in dropped'
    <3>1. PICK f \in Pending : f.contact = j
      BY <2>1 DEF PendingOf, Of
    <3>2. CASE f \in Elements(window)
      BY <1>6, <3>1, <3>2 DEF PendingOf, Of
    <3>3. CASE f \in BulkUnsent
      <4>1. sending # None /\ ~sending.was_sent /\ f = sending.entry
        BY <3>3 DEF BulkUnsent
      <4> QED
        BY <1>1, <3>1, <4>1
    <3> QED
      BY <3>1, <3>2, <3>3 DEF Pending
  <2>2. \A k \in Bulk!Keys : Passed(k)' => Passed(k)
    BY <1>1, <1>5 DEF Passed, Running
  <2>3. dropped \subseteq dropped'
    BY <1>1
  <2> QED
    BY <1>1, <2>1, <2>2, <2>3, MissedStays
<1> QED
  BY <1>8, <1>9, <1>10, <1>11, <1>12 DEF BulkIInv

LEMMA InitOnce == ASSUME Bulk!BulkSendConstants, Bulk!Init PROVE BulkIInv
<1>1. BulkUnsent = {} /\ Pending = {} /\ window = <<>>
  BY DEF Bulk!Init, BulkUnsent, Pending, Elements
<1>2. \A k, a : Cardinality(PendingOf(k)) = 0 /\ Cardinality(PendingTo(a)) = 0
  <2>1. \A k, a : PendingOf(k) = {} /\ PendingTo(a) = {}
    BY <1>1 DEF PendingOf, PendingTo, Of, To
  <2> QED
    BY <2>1, FS_EmptySet
<1>3. BulkTypeOK
  BY DEF Bulk!Init, BulkTypeOK
<1>4. Place /\ Address /\ Seen
  BY DEF Bulk!Init, Place, Address, Seen, Running
<1>5. BulkQueue
  BY <1>1 DEF BulkQueue, Elements, IsOnce
<1>6. Once
  <2>1. \A k \in Bulk!Keys : bulk_sent[k] = 0 /\ resent[k] = 0
    BY DEF Bulk!Init
  <2>2. \A a \in Addresses : reached[a] = 0 /\ repeated[a] = 0
    BY DEF Bulk!Init
  <2> QED
    BY <1>2, <2>1, <2>2 DEF Once
<1>7. NobodyMissed
  <2>1. \A k \in Bulk!Keys : ~Passed(k)
    BY KeysAre DEF Bulk!Init, Passed, Running
  <2> QED
    BY <2>1 DEF NobodyMissed
<1> QED
  BY <1>3, <1>4, <1>5, <1>6, <1>7 DEF BulkIInv

(* Each contact and, with dedupe, each address gets the message once and   *)
(* once more for each death that hid it, and nobody is missed, for any     *)
(* contacts, addresses and window, and whoever opts out meanwhile.         *)
THEOREM NobodyTwiceNobodyMissed ==
  ASSUME Bulk!BulkSendConstants PROVE Bulk!Spec => []Bulk!EachContactOnce
<1>1. Bulk!Init => BulkIInv
  BY InitOnce
<1>2. BulkIInv /\ [Bulk!Next]_(Bulk!vars) => BulkIInv'
  <2>1. BulkIInv /\ UNCHANGED Bulk!vars => BulkIInv'
    <3> SUFFICES ASSUME BulkIInv, UNCHANGED Bulk!vars PROVE BulkIInv'
      OBVIOUS
    <3>1. /\ UNCHANGED AtCommand
          /\ UNCHANGED <<window, added, bulk_sent, reached, dropped, resent, repeated, touched, bulk_opted_out, sending>>
      BY DEF Bulk!vars, Bulk!handler, Bulk!windowing, Bulk!history, Bulk!again, AtCommand
    <3>2. BulkUnsent' = BulkUnsent
      BY <3>1 DEF BulkUnsent
    <3>3. bulk_opted_out' \subseteq touched' /\ touched' \subseteq Addresses /\ sending' \in Bulk!SendingState \union {None}
      BY <3>1 DEF BulkIInv, BulkTypeOK
    <3> QED
      BY <3>1, <3>2, <3>3, BulkOthersKeep
  <2> QED
    BY <2>1, ReceiveKeeps, LookUpContactKeeps, AddToWindowKeeps, SetSendProgressKeeps, ClearSendProgressKeeps,
       AcknowledgeKeeps, NextKeyKeeps, SendToKeeps, SetExternalIdKeeps, FlightKeeps, OptOutOrInKeeps,
       BulkWorkerDiesKeeps DEF Bulk!Next
<1>3. BulkIInv => Bulk!EachContactOnce
  <2> SUFFICES ASSUME BulkIInv PROVE Bulk!EachContactOnce
    OBVIOUS
  <2>1. BulkTypeOK /\ Once /\ NobodyMissed
    BY DEF BulkIInv
  <2>2. \A k \in Bulk!Keys : bulk_sent[k] <= 1 + resent[k]
    <3> SUFFICES ASSUME NEW k \in Bulk!Keys PROVE bulk_sent[k] <= 1 + resent[k]
      OBVIOUS
    <3>1. bulk_sent[k] + Cardinality(PendingOf(k)) <= resent[k] + (IF Done(k) THEN 1 ELSE 0)
      BY <2>1 DEF Once
    <3>2. Cardinality(PendingOf(k)) \in Nat /\ bulk_sent[k] \in Nat /\ resent[k] \in Nat
      BY <2>1, CountsAre DEF BulkTypeOK
    <3> QED
      BY <3>1, <3>2
  <2>3. dedupe => \A a \in Addresses \ touched : reached[a] <= 1 + repeated[a]
    <3> SUFFICES ASSUME dedupe, NEW a \in Addresses \ touched PROVE reached[a] <= 1 + repeated[a]
      OBVIOUS
    <3>1. reached[a] + Cardinality(PendingTo(a)) <= repeated[a] + (IF DoneTo(a) THEN 1 ELSE 0)
      BY <2>1 DEF Once
    <3>2. Cardinality(PendingTo(a)) \in Nat /\ reached[a] \in Nat /\ repeated[a] \in Nat
      BY <2>1, CountsAre DEF BulkTypeOK
    <3> QED
      BY <3>1, <3>2
  <2>4. ASSUME bulk_at = "done", window = <<>>, sending = None, NEW k \in Bulk!Keys, AddressOf[k] \notin touched
        PROVE  \E j \in (IF dedupe THEN Bulk!Having(AddressOf[k]) ELSE {k}) : bulk_sent[j] > 0 \/ j \in dropped
    <3>1. Served(k)
      BY <2>1, <2>4 DEF NobodyMissed, Passed, Untouched
    <3>2. \A j : PendingOf(j) = {}
      BY <2>4 DEF PendingOf, Of, Pending, BulkUnsent, Elements
    <3> QED
      BY <3>1, <3>2 DEF Served, Same
  <2> QED
    BY <2>2, <2>3, <2>4 DEF Bulk!EachContactOnce
<1> QED
  BY <1>1, <1>2, <1>3, PTL DEF Bulk!Spec

-----------------------------------------------------------------------------
(* Sequential sends (SequentialSend): a contact has had a message for each *)
(* date up to the end of the interval at most, or up to its beginning      *)
(* while it waits for the next.                                            *)
\* What the library says of sets is what the module does.
LEMMA LibraryDates == \A S : Sequence!Cardinality(S) = Cardinality(S)
BY DEF Sequence!Cardinality, Cardinality

SequenceTypeOK ==
  /\ sequence_now \in Nat /\ last_poll_time \in Nat
  /\ status \in {"stopped", "starting", "stopping", "running"} /\ scheduled \in BOOLEAN
  /\ sequence_commands \in Seq({"start", "stop"}) /\ sequence_command \in {"none", "save", "schedule"}
  /\ sequence_at \in {"idle", "conversations", "contacts"} /\ interval \in Nat \X Nat
  /\ bunch \in [SequenceContacts -> Nat \union {Nothing}] /\ saving \in SequenceContacts \union {Nothing}
  /\ index \in [SequenceContacts -> Nat] /\ (edit # Nothing => edit \in SequenceContacts \X Nat)
  /\ received \in [SequenceContacts -> Seq(Nat)] /\ sequence_excused \in BOOLEAN

\* The status is what the latest command asks for, or leads to; when the last is
\* about to be watched it has been saved, or was already.
Asked(what) == IF what = "start" THEN "starting" ELSE "stopping"
Final(what) == IF what = "start" THEN "running" ELSE "stopped"
Latest == sequence_commands[Len(sequence_commands)]
SequenceQueue ==
  /\ sequence_command # "none" => sequence_commands # <<>>
  /\ ~sequence_excused =>
       /\ sequence_commands = <<>> => (scheduled <=> status = "running")
       /\ sequence_commands # <<>> => status \in {Asked(Latest), Final(Latest)}
       /\ sequence_command = "save" => status = Asked(Head(sequence_commands))
       /\ sequence_command = "schedule" /\ Len(sequence_commands) = 1 => status = Final(Head(sequence_commands))

Poll ==
  /\ last_poll_time <= sequence_now
  /\ sequence_at # "idle" => interval[2] = last_poll_time /\ interval[1] <= interval[2]
  /\ sequence_at = "contacts" => Sequence!IsScheduled
  /\ sequence_at # "contacts" => saving = Nothing
  /\ saving # Nothing => bunch[saving] # Nothing

\* A contact was sent no more messages than there are dates up to the end of the interval,
\* and up to its beginning while it is still to be sent one.
UpTo(t) == {d \in Dates : d <= t}
Count(t) == Cardinality(UpTo(t))
SequenceWaits(c) == sequence_at = "conversations" \/ (sequence_at = "contacts" /\ bunch[c] # Nothing /\ saving # c)
Bound(c) == IF sequence_at = "idle" THEN last_poll_time ELSE IF SequenceWaits(c) THEN interval[1] ELSE interval[2]
Dated == \A c \in SequenceContacts : Len(received[c]) <= Count(Bound(c))

\* The index is the number of messages, but for the contact that is not saved yet.
InOrder ==
  ~sequence_excused => \A c \in SequenceContacts :
    /\ \A i \in 1..Len(received[c]) : received[c][i] = i - 1
    /\ Len(received[c]) = (IF saving = c THEN index[c] + 1 ELSE index[c])
    /\ bunch[c] # Nothing => bunch[c] = index[c]

SequenceIInv == SequenceTypeOK /\ SequenceQueue /\ Poll /\ Dated /\ InOrder
-----------------------------------------------------------------------------
LEMMA DatesAreTimes == ASSUME Sequence!SequentialSendConstants PROVE \A d \in Dates : d \in Nat
BY DEF Sequence!SequentialSendConstants

\* The dates that are over are finitely many, and more when another is.
LEMMA DatesAre ==
  ASSUME Sequence!SequentialSendConstants, NEW t \in Nat
  PROVE  IsFiniteSet(UpTo(t)) /\ Count(t) \in Nat
<1>1. UpTo(t) \subseteq 0..t
  <2>1. \A d \in Nat : d <= t => d \in 0..t
    OBVIOUS
  <2> QED
    BY <2>1, DatesAreTimes DEF UpTo
<1>2. IsFiniteSet(0..t)
  BY FS_Interval
<1>3. IsFiniteSet(UpTo(t))
  BY <1>1, <1>2, FS_Subset
<1> QED
  BY <1>3, FS_CardinalityType DEF Count

LEMMA DatesGrow ==
  ASSUME Sequence!SequentialSendConstants, NEW s \in Nat, NEW t \in Nat, s <= t
  PROVE  Count(s) <= Count(t)
<1>1. IsFiniteSet(UpTo(t))
  BY DatesAre
<1>2. UpTo(s) \subseteq UpTo(t)
  <2>1. \A d \in Nat : d <= s => d <= t
    OBVIOUS
  <2> QED
    BY <2>1, DatesAreTimes DEF UpTo
<1> QED
  BY <1>1, <1>2, FS_Subset DEF Count

LEMMA AnotherDate ==
  ASSUME Sequence!SequentialSendConstants, NEW s \in Nat, NEW t \in Nat, NEW d \in Dates, s < d, d <= t
  PROVE  Count(s) + 1 <= Count(t)
<1>1. d \in Nat
  BY DatesAreTimes
<1>2. IsFiniteSet(UpTo(s)) /\ IsFiniteSet(UpTo(t))
  BY DatesAre
<1>3. d \notin UpTo(s)
  BY <1>1 DEF UpTo
<1>4. UpTo(s) \union {d} \subseteq UpTo(t)
  <2>1. \A e \in Nat : e <= s => e <= t
    BY <1>1
  <2> QED
    BY <2>1, DatesAreTimes DEF UpTo
<1>5. Cardinality(UpTo(s) \union {d}) = Count(s) + 1
  BY <1>2, <1>3, FS_AddElement DEF Count
<1>6. Cardinality(UpTo(s) \union {d}) <= Count(t)
  BY <1>2, <1>4, FS_Subset DEF Count
<1> QED
  BY <1>5, <1>6

LEMMA BoundsAreTimes == \A c \in SequenceContacts : SequenceTypeOK => Bound(c) \in Nat
BY DEF Bound, SequenceTypeOK

LEMMA ContactsAre ==
  ASSUME Sequence!SequentialSendConstants PROVE Nothing \notin SequenceContacts /\ Nothing \notin Nat
BY DEF Sequence!SequentialSendConstants
-----------------------------------------------------------------------------
\* What an action leaves alone.
LEMMA SequenceQueueStays == ASSUME SequenceIInv, UNCHANGED Sequence!queue, sequence_excused => sequence_excused' PROVE SequenceQueue'
<1>1. SequenceQueue /\ UNCHANGED <<status, scheduled, sequence_commands, asked, sequence_command>>
  BY DEF SequenceIInv, Sequence!queue
<1> QED
  BY <1>1 DEF SequenceQueue, Latest

LEMMA PollStays == ASSUME SequenceIInv, UNCHANGED <<last_poll_time, sequence_at, interval, bunch, saving>>, sequence_now <= sequence_now', sequence_now' \in Nat PROVE Poll'
<1>1. sequence_now \in Nat /\ last_poll_time \in Nat /\ Poll
  BY DEF SequenceIInv, SequenceTypeOK
<1> QED
  BY <1>1 DEF Poll, Sequence!IsScheduled

LEMMA DatedStays ==
  ASSUME Sequence!SequentialSendConstants, SequenceIInv, SequenceTypeOK', received' = received,
         \A c \in SequenceContacts : Bound(c) <= Bound(c)'
  PROVE  Dated'
<1> SUFFICES ASSUME NEW c \in SequenceContacts PROVE Len(received[c]) <= Count(Bound(c)')
  BY DEF Dated, Count, UpTo
<1>1. Bound(c) \in Nat
  BY BoundsAreTimes DEF SequenceIInv
<1>2. Bound(c)' \in Nat
  BY DEF Bound, SequenceTypeOK
<1>3. ASSUME NEW s \in Nat, NEW t \in Nat, s <= t PROVE Count(s) <= Count(t) /\ Count(s) \in Nat /\ Count(t) \in Nat
  BY <1>3, DatesGrow, DatesAre
<1>4. /\ Count(Bound(c)) <= Count(Bound(c)')
      /\ Count(Bound(c)) \in Nat /\ Count(Bound(c)') \in Nat
  BY <1>1, <1>2, <1>3
<1>5. Len(received[c]) <= Count(Bound(c)) /\ Len(received[c]) \in Nat
  BY DEF SequenceIInv, Dated, SequenceTypeOK
<1> QED
  BY <1>4, <1>5

LEMMA BoundStays ==
  ASSUME SequenceIInv, UNCHANGED <<last_poll_time, sequence_at, interval, bunch, saving>>
  PROVE  \A c \in SequenceContacts : Bound(c) <= Bound(c)'
<1> SUFFICES ASSUME NEW c \in SequenceContacts PROVE Bound(c) <= Bound(c)'
  OBVIOUS
<1>1. Bound(c) \in Nat
  BY BoundsAreTimes DEF SequenceIInv
<1>2. Bound(c)' = Bound(c)
  BY DEF Bound, SequenceWaits
<1> QED
  BY <1>1, <1>2

LEMMA InOrderStays ==
  ASSUME SequenceIInv, UNCHANGED <<bunch, saving, index, received>>, sequence_excused => sequence_excused' PROVE InOrder'
BY DEF SequenceIInv, InOrder
-----------------------------------------------------------------------------
\* The commands.
Elsewhere == <<sequence_now, last_poll_time, sequence_at, interval, bunch, saving, index, edit, received>>
LEMMA SequenceOthersKeep ==
  ASSUME Sequence!SequentialSendConstants, SequenceIInv, UNCHANGED Elsewhere, sequence_excused => sequence_excused', SequenceTypeOK', SequenceQueue'
  PROVE  SequenceIInv'
<1>1. UNCHANGED <<sequence_now, last_poll_time, sequence_at, interval, bunch, saving, index, edit, received>>
  BY DEF Elsewhere
<1>2. sequence_now \in Nat
  BY DEF SequenceIInv, SequenceTypeOK
<1>3. Poll'
  BY <1>1, <1>2, PollStays
<1>4. \A c \in SequenceContacts : Bound(c) <= Bound(c)'
  BY <1>1, BoundStays
<1>5. Dated'
  BY <1>1, <1>4, DatedStays
<1>6. InOrder'
  BY <1>1, InOrderStays
<1> QED
  BY <1>3, <1>5, <1>6 DEF SequenceIInv

LEMMA AskKeeps ==
  ASSUME Sequence!SequentialSendConstants, SequenceIInv,
         NEW what \in {"start", "stop"}, Sequence!Ask(what, Asked(what))
  PROVE  SequenceIInv'
<1>1. /\ status' = Asked(what) /\ sequence_commands' = Append(sequence_commands, what)
      /\ sequence_excused' = (sequence_excused \/ sequence_command = "save")
      /\ UNCHANGED <<sequence_now, last_poll_time, scheduled, sequence_command, sequence_at, interval, bunch, saving, index, edit, received>>
  BY DEF Sequence!Ask, Sequence!poll
<1>2. SequenceTypeOK /\ SequenceQueue
  BY DEF SequenceIInv
<1>3. sequence_commands \in Seq({"start", "stop"}) /\ Len(sequence_commands) \in Nat
  BY <1>2 DEF SequenceTypeOK
<1>4. /\ sequence_commands' \in Seq({"start", "stop"}) /\ sequence_commands' # <<>> /\ Len(sequence_commands') = Len(sequence_commands) + 1
      /\ sequence_commands'[Len(sequence_commands) + 1] = what
  BY <1>1, <1>3
<1>5. SequenceTypeOK'
  BY <1>1, <1>2, <1>4 DEF SequenceTypeOK, Asked
<1>6. SequenceQueue'
  <2>1. Latest' = what
    BY <1>4 DEF Latest
  <2>2. sequence_command' = "schedule" => Len(sequence_commands') # 1
    BY <1>1, <1>2, <1>3, <1>4 DEF SequenceQueue
  <2>3. sequence_command' = "save" => sequence_excused'
    BY <1>1
  <2> QED
    BY <1>1, <1>4, <2>1, <2>2, <2>3 DEF SequenceQueue
<1>7. UNCHANGED Elsewhere /\ (sequence_excused => sequence_excused')
  BY <1>1 DEF Elsewhere
<1> QED
  BY <1>5, <1>6, <1>7, SequenceOthersKeep

LEMMA HeadsAre ==
  ASSUME NEW s \in Seq({"start", "stop"}), s # <<>>
  PROVE  /\ Len(s) \in Nat /\ Len(s) >= 1 /\ Head(s) \in {"start", "stop"} /\ s[Len(s)] \in {"start", "stop"}
         /\ Head(s) = s[1] /\ Tail(s) \in Seq({"start", "stop"}) /\ Len(Tail(s)) = Len(s) - 1
         /\ (Tail(s) = <<>> <=> Len(s) = 1)
         /\ (Len(s) # 1 => Tail(s)[Len(Tail(s))] = s[Len(s)])
<1>1. /\ Len(s) \in Nat /\ Len(s) >= 1 /\ Head(s) = s[1] /\ Tail(s) \in Seq({"start", "stop"})
      /\ Len(Tail(s)) = Len(s) - 1
  OBVIOUS
<1>2. s[1] \in {"start", "stop"} /\ s[Len(s)] \in {"start", "stop"}
  BY <1>1
<1>3. Tail(s) = <<>> <=> Len(s) = 1
  <2>1. \A r \in Seq({"start", "stop"}) : r = <<>> <=> Len(r) = 0
    OBVIOUS
  <2>2. Tail(s) = <<>> <=> Len(Tail(s)) = 0
    BY <1>1, <2>1
  <2> QED
    BY <1>1, <2>2
<1>4. ASSUME Len(s) # 1 PROVE Tail(s)[Len(s) - 1] = s[Len(s)]
  BY <1>1, <1>4
<1> QED
  BY <1>1, <1>2, <1>3, <1>4

LEMMA LoadForCommandKeeps == ASSUME Sequence!SequentialSendConstants, SequenceIInv, Sequence!LoadForCommand PROVE SequenceIInv'
<1>1. /\ sequence_commands # <<>> /\ sequence_command = "none"
      /\ sequence_command' = IF status = Asked(Head(sequence_commands)) THEN "save" ELSE "schedule"
      /\ UNCHANGED <<sequence_now, last_poll_time, status, scheduled, sequence_commands, sequence_at, interval, bunch, saving, index, edit,
                     received, sequence_excused>>
  BY DEF Sequence!LoadForCommand, Sequence!poll, Asked
<1>2. SequenceTypeOK /\ SequenceQueue /\ sequence_commands \in Seq({"start", "stop"})
  BY DEF SequenceIInv, SequenceTypeOK
<1>3. SequenceTypeOK'
  BY <1>1, <1>2 DEF SequenceTypeOK
<1>4. Len(sequence_commands) = 1 => Latest = Head(sequence_commands)
  BY <1>1, <1>2, HeadsAre DEF Latest
<1>5. SequenceQueue'
  BY <1>1, <1>2, <1>4 DEF SequenceQueue, Latest
<1>6. UNCHANGED Elsewhere /\ (sequence_excused => sequence_excused')
  BY <1>1 DEF Elsewhere
<1> QED
  BY <1>3, <1>5, <1>6, SequenceOthersKeep

LEMMA SaveStatusKeeps == ASSUME Sequence!SequentialSendConstants, SequenceIInv, Sequence!SaveStatus PROVE SequenceIInv'
<1>1. /\ sequence_command = "save" /\ sequence_command' = "schedule" /\ status' = Final(Head(sequence_commands))
      /\ UNCHANGED <<sequence_now, last_poll_time, scheduled, sequence_commands, sequence_at, interval, bunch, saving, index, edit,
                     received, sequence_excused>>
  BY DEF Sequence!SaveStatus, Sequence!poll, Final
<1>2. SequenceTypeOK /\ SequenceQueue /\ sequence_commands \in Seq({"start", "stop"}) /\ sequence_commands # <<>>
  BY <1>1 DEF SequenceIInv, SequenceTypeOK, SequenceQueue
<1>3. SequenceTypeOK'
  BY <1>1, <1>2 DEF SequenceTypeOK, Final
<1>4. ~sequence_excused => Latest = Head(sequence_commands)
  BY <1>1, <1>2, HeadsAre DEF SequenceQueue, Latest, Asked, Final
<1>5. SequenceQueue'
  BY <1>1, <1>2, <1>4 DEF SequenceQueue, Latest
<1>6. UNCHANGED Elsewhere /\ (sequence_excused => sequence_excused')
  BY <1>1 DEF Elsewhere
<1> QED
  BY <1>3, <1>5, <1>6, SequenceOthersKeep

LEMMA ScheduleKeeps == ASSUME Sequence!SequentialSendConstants, SequenceIInv, Sequence!Schedule PROVE SequenceIInv'
<1>1. /\ sequence_command = "schedule" /\ sequence_command' = "none" /\ scheduled' = (Head(sequence_commands) = "start")
      /\ sequence_commands' = Tail(sequence_commands)
      /\ UNCHANGED <<sequence_now, last_poll_time, status, sequence_at, interval, bunch, saving, index, edit, received, sequence_excused>>
  BY DEF Sequence!Schedule, Sequence!poll, Sequence!Watched
<1>2. SequenceTypeOK /\ SequenceQueue /\ sequence_commands \in Seq({"start", "stop"}) /\ sequence_commands # <<>>
  BY <1>1 DEF SequenceIInv, SequenceTypeOK, SequenceQueue
<1>3. /\ Head(sequence_commands) \in {"start", "stop"} /\ sequence_commands' \in Seq({"start", "stop"})
      /\ (sequence_commands' = <<>> <=> Len(sequence_commands) = 1)
      /\ (Len(sequence_commands) # 1 => Latest' = Latest)
  BY <1>1, <1>2, HeadsAre DEF Latest
<1>4. SequenceTypeOK'
  BY <1>1, <1>2, <1>3 DEF SequenceTypeOK
<1>5. SequenceQueue'
  <2>1. CASE Len(sequence_commands) = 1
    <3>1. ~sequence_excused => status = Final(Head(sequence_commands))
      BY <1>1, <1>2, <2>1 DEF SequenceQueue
    <3> QED
      BY <1>1, <1>3, <2>1, <3>1 DEF SequenceQueue, Final
  <2>2. CASE Len(sequence_commands) # 1
    BY <1>1, <1>2, <1>3, <2>2 DEF SequenceQueue
  <2> QED
    BY <2>1, <2>2
<1>6. UNCHANGED Elsewhere /\ (sequence_excused => sequence_excused')
  BY <1>1 DEF Elsewhere
<1> QED
  BY <1>4, <1>5, <1>6, SequenceOthersKeep
-----------------------------------------------------------------------------
\* The polls.
LEMMA SequenceTickKeeps == ASSUME Sequence!SequentialSendConstants, SequenceIInv, Sequence!Tick PROVE SequenceIInv'
<1>1. /\ sequence_now' = sequence_now + 1
      /\ UNCHANGED <<last_poll_time, Sequence!queue, sequence_at, interval, bunch, saving, index, edit, received, sequence_excused>>
  BY DEF Sequence!Tick, Sequence!poll
<1>2. sequence_now \in Nat /\ SequenceTypeOK
  BY DEF SequenceIInv, SequenceTypeOK
<1>3. SequenceTypeOK'
  BY <1>1, <1>2 DEF SequenceTypeOK, Sequence!queue
<1>4. SequenceQueue'
  BY <1>1, SequenceQueueStays
<1>5. Poll'
  BY <1>1, <1>2, PollStays
<1>6. \A c \in SequenceContacts : Bound(c) <= Bound(c)'
  BY <1>1, BoundStays
<1>7. Dated'
  BY <1>1, <1>3, <1>6, DatedStays
<1>8. InOrder'
  BY <1>1, InOrderStays
<1> QED
  BY <1>3, <1>4, <1>5, <1>7, <1>8 DEF SequenceIInv

LEMMA PollConversationsKeeps == ASSUME Sequence!SequentialSendConstants, SequenceIInv, Sequence!PollConversations PROVE SequenceIInv'
<1>1. /\ sequence_at = "idle" /\ last_poll_time < sequence_now /\ interval' = <<last_poll_time, sequence_now>> /\ last_poll_time' = sequence_now
      /\ sequence_at' = "conversations"
      /\ UNCHANGED <<sequence_now, Sequence!queue, bunch, saving, index, edit, received, sequence_excused>>
  BY DEF Sequence!PollConversations
<1>2. sequence_now \in Nat /\ last_poll_time \in Nat /\ SequenceTypeOK /\ Poll
  BY DEF SequenceIInv, SequenceTypeOK
<1>3. interval' \in Nat \X Nat /\ interval'[1] = last_poll_time /\ interval'[2] = sequence_now
  BY <1>1, <1>2
<1>4. SequenceTypeOK'
  BY <1>1, <1>2, <1>3 DEF SequenceTypeOK, Sequence!queue
<1>5. SequenceQueue'
  BY <1>1, SequenceQueueStays
<1>6. Poll'
  BY <1>1, <1>2, <1>3 DEF Poll
<1>7. \A c \in SequenceContacts : Bound(c) <= Bound(c)'
  BY <1>1, <1>2, <1>3 DEF Bound, SequenceWaits
<1>8. Dated'
  BY <1>1, <1>4, <1>7, DatedStays
<1>9. InOrder'
  BY <1>1, InOrderStays
<1> QED
  BY <1>4, <1>5, <1>6, <1>8, <1>9 DEF SequenceIInv

LEMMA ProcessConversationScheduleKeeps ==
  ASSUME Sequence!SequentialSendConstants, SequenceIInv, Sequence!ProcessConversationSchedule PROVE SequenceIInv'
<1>1. /\ sequence_at = "conversations"
      /\ \/ sequence_at' = "contacts" /\ bunch' = index /\ Sequence!IsScheduled
         \/ sequence_at' = "idle" /\ bunch' = bunch
      /\ UNCHANGED <<sequence_now, last_poll_time, Sequence!queue, interval, saving, index, edit, received, sequence_excused>>
  BY DEF Sequence!ProcessConversationSchedule
<1>2. SequenceTypeOK /\ Poll /\ InOrder
  BY DEF SequenceIInv
<1>3. /\ sequence_now \in Nat /\ last_poll_time \in Nat /\ interval[1] \in Nat /\ interval[2] \in Nat
      /\ interval[2] = last_poll_time /\ interval[1] <= interval[2] /\ saving = Nothing
  BY <1>1, <1>2 DEF SequenceTypeOK, Poll
<1>4. SequenceTypeOK'
  BY <1>1, <1>2 DEF SequenceTypeOK, Sequence!queue
<1>5. SequenceQueue'
  BY <1>1, SequenceQueueStays
<1>6. Poll'
  BY <1>1, <1>2, <1>3 DEF Poll, Sequence!IsScheduled
<1>7. \A c \in SequenceContacts : Bound(c) <= Bound(c)'
  <2>1. \A c \in SequenceContacts : index[c] \in Nat /\ Nothing \notin Nat /\ Nothing # c
    BY <1>2, ContactsAre DEF SequenceTypeOK
  <2> QED
    BY <1>1, <1>3, <2>1 DEF Bound, SequenceWaits
<1>8. Dated'
  BY <1>1, <1>4, <1>7, DatedStays
<1>9. InOrder'
  BY <1>1, <1>2 DEF InOrder
<1> QED
  BY <1>4, <1>5, <1>6, <1>8, <1>9 DEF SequenceIInv

LEMMA SkipKeeps == ASSUME Sequence!SequentialSendConstants, SequenceIInv, NEW c \in SequenceContacts, Sequence!Skip(c) PROVE SequenceIInv'
<1>1. /\ sequence_at = "contacts" /\ saving = Nothing /\ bunch[c] # Nothing
      /\ bunch' = [bunch EXCEPT ![c] = Nothing]
      /\ UNCHANGED <<sequence_now, last_poll_time, Sequence!queue, sequence_at, interval, saving, index, edit, received, sequence_excused>>
  BY DEF Sequence!Skip
<1>2. SequenceTypeOK /\ Poll /\ InOrder
  BY DEF SequenceIInv
<1>3. /\ bunch' \in [SequenceContacts -> Nat \union {Nothing}]
      /\ \A k \in SequenceContacts : bunch'[k] # Nothing => bunch'[k] = bunch[k]
  BY <1>1, <1>2 DEF SequenceTypeOK
<1>4. SequenceTypeOK'
  BY <1>1, <1>2, <1>3 DEF SequenceTypeOK, Sequence!queue
<1>5. SequenceQueue'
  BY <1>1, SequenceQueueStays
<1>6. Poll'
  BY <1>1, <1>2 DEF Poll, Sequence!IsScheduled
<1>7. \A k \in SequenceContacts : Bound(k) <= Bound(k)'
  <2>1. interval[1] \in Nat /\ interval[2] \in Nat /\ interval[1] <= interval[2]
    BY <1>1, <1>2 DEF SequenceTypeOK, Poll
  <2> QED
    BY <1>1, <1>3, <2>1 DEF Bound, SequenceWaits
<1>8. Dated'
  BY <1>1, <1>4, <1>7, DatedStays
<1>9. InOrder'
  BY <1>1, <1>2, <1>3 DEF InOrder
<1> QED
  BY <1>4, <1>5, <1>6, <1>8, <1>9 DEF SequenceIInv

LEMMA SendMessageKeeps == ASSUME Sequence!SequentialSendConstants, SequenceIInv, NEW c \in SequenceContacts, Sequence!SendMessage(c) PROVE SequenceIInv'
<1>1. /\ sequence_at = "contacts" /\ saving = Nothing /\ bunch[c] # Nothing
      /\ received' = [received EXCEPT ![c] = Append(received[c], bunch[c])] /\ saving' = c
      /\ UNCHANGED <<sequence_now, last_poll_time, Sequence!queue, sequence_at, interval, bunch, index, edit, sequence_excused>>
  BY DEF Sequence!SendMessage
<1>2. SequenceTypeOK /\ Poll /\ Dated /\ InOrder
  BY DEF SequenceIInv
<1>3. /\ received \in [SequenceContacts -> Seq(Nat)] /\ bunch[c] \in Nat /\ Nothing # c
      /\ interval[1] \in Nat /\ interval[2] \in Nat /\ interval[1] <= interval[2] /\ Sequence!IsScheduled
  BY <1>1, <1>2, ContactsAre DEF SequenceTypeOK, Poll
<1> DEFINE more == Append(received[c], bunch[c])
<1>4. /\ received[c] \in Seq(Nat) /\ Len(received[c]) \in Nat
      /\ more \in Seq(Nat) /\ Len(more) = Len(received[c]) + 1 /\ more[Len(received[c]) + 1] = bunch[c]
      /\ \A i \in 1..Len(received[c]) : more[i] = received[c][i]
  BY <1>3
<1>5. received' = [received EXCEPT ![c] = more]
  BY <1>1
<1> HIDE DEF more
<1>6. /\ received' \in [SequenceContacts -> Seq(Nat)] /\ received'[c] = more
      /\ \A k \in SequenceContacts : k # c => received'[k] = received[k]
  BY <1>3, <1>4, <1>5
<1>7. SequenceTypeOK'
  BY <1>1, <1>2, <1>6 DEF SequenceTypeOK, Sequence!queue
<1>8. SequenceQueue'
  BY <1>1, SequenceQueueStays
<1>9. Poll'
  BY <1>1, <1>2 DEF Poll, Sequence!IsScheduled
<1>10. Dated'
  <2>1. PICK d \in Dates : interval[1] < d /\ d <= interval[2]
    BY <1>3 DEF Sequence!IsScheduled
  <2>2. ASSUME NEW s \in Nat, NEW t \in Nat, s = interval[1], t = interval[2] PROVE Count(s) + 1 <= Count(t)
    BY <2>1, <2>2, AnotherDate
  <2>3. Count(interval[1]) + 1 <= Count(interval[2])
    BY <1>3, <2>2
  <2>4. ASSUME NEW s \in Nat PROVE Count(s) \in Nat
    BY DatesAre
  <2>5. Count(interval[1]) \in Nat /\ Count(interval[2]) \in Nat
    BY <1>3, <2>4
  <2>6. ASSUME NEW k \in SequenceContacts PROVE Len(received'[k]) <= Count(Bound(k)')
    <3>1. CASE k = c
      <4>1. Bound(c) = interval[1] /\ Bound(c)' = interval[2]
        BY <1>1, <1>3 DEF Bound, SequenceWaits
      <4>2. Len(received[c]) <= Count(interval[1])
        BY <1>2, <4>1 DEF Dated
      <4>3. Len(more) <= Count(interval[2])
        BY <1>4, <2>3, <2>5, <4>2
      <4> QED
        BY <1>6, <3>1, <4>1, <4>3
    <3>2. CASE k # c
      <4>1. saving # k
        BY <1>1, ContactsAre
      <4>2. Bound(k)' = Bound(k)
        BY <1>1, <3>2, <4>1 DEF Bound, SequenceWaits
      <4> QED
        BY <1>2, <1>6, <3>2, <4>2 DEF Dated
    <3> QED
      BY <3>1, <3>2
  <2> QED
    BY <2>6 DEF Dated, Count, UpTo
<1>11. InOrder'
  <2> SUFFICES ASSUME ~sequence_excused, NEW k \in SequenceContacts
               PROVE  /\ \A i \in 1..Len(received'[k]) : received'[k][i] = i - 1
                      /\ Len(received'[k]) = (IF c = k THEN index[k] + 1 ELSE index[k])
                      /\ bunch[k] # Nothing => bunch[k] = index[k]
    BY <1>1 DEF InOrder
  <2>1. /\ \A i \in 1..Len(received[k]) : received[k][i] = i - 1
        /\ Len(received[k]) = (IF saving = k THEN index[k] + 1 ELSE index[k])
        /\ bunch[k] # Nothing => bunch[k] = index[k]
    BY <1>2 DEF InOrder
  <2>2. Len(received[k]) = index[k]
    BY <1>1, <2>1, ContactsAre
  <2>3. CASE k = c
    <3>1. bunch[c] = Len(received[c])
      BY <1>1, <2>1, <2>2, <2>3
    <3>2. ASSUME NEW i \in 1..Len(more) PROVE more[i] = i - 1
      <4>1. i \in 1..Len(received[c]) \/ i = Len(received[c]) + 1
        BY <1>4
      <4> QED
        BY <1>4, <2>1, <2>3, <3>1, <4>1
    <3> QED
      BY <1>4, <1>6, <2>1, <2>2, <2>3, <3>2
  <2>4. CASE k # c
    BY <1>6, <2>1, <2>2, <2>4
  <2> QED
    BY <2>3, <2>4
<1> QED
  BY <1>7, <1>8, <1>9, <1>10, <1>11 DEF SequenceIInv

LEMMA SaveIndexKeeps == ASSUME Sequence!SequentialSendConstants, SequenceIInv, Sequence!SaveIndex PROVE SequenceIInv'
<1>1. /\ saving # Nothing /\ index' = [index EXCEPT ![saving] = bunch[saving] + 1]
      /\ bunch' = [bunch EXCEPT ![saving] = Nothing] /\ saving' = Nothing
      /\ UNCHANGED <<sequence_now, last_poll_time, Sequence!queue, sequence_at, interval, edit, received, sequence_excused>>
  BY DEF Sequence!SaveIndex
<1>2. SequenceTypeOK /\ Poll /\ InOrder
  BY DEF SequenceIInv
<1>3. /\ saving \in SequenceContacts /\ sequence_at = "contacts" /\ bunch[saving] \in Nat
      /\ index \in [SequenceContacts -> Nat] /\ bunch \in [SequenceContacts -> Nat \union {Nothing}]
      /\ interval[1] \in Nat /\ interval[2] \in Nat /\ interval[1] <= interval[2]
  BY <1>1, <1>2 DEF SequenceTypeOK, Poll
<1>4. /\ index' \in [SequenceContacts -> Nat] /\ bunch' \in [SequenceContacts -> Nat \union {Nothing}]
      /\ index'[saving] = bunch[saving] + 1 /\ bunch'[saving] = Nothing
      /\ \A k \in SequenceContacts : k # saving => index'[k] = index[k] /\ bunch'[k] = bunch[k]
  BY <1>1, <1>3
<1>5. SequenceTypeOK'
  BY <1>1, <1>2, <1>4 DEF SequenceTypeOK, Sequence!queue
<1>6. SequenceQueue'
  BY <1>1, SequenceQueueStays
<1>7. Poll'
  BY <1>1, <1>2 DEF Poll, Sequence!IsScheduled
<1>8. \A k \in SequenceContacts : Bound(k) <= Bound(k)'
  <2> SUFFICES ASSUME NEW k \in SequenceContacts PROVE Bound(k) <= Bound(k)'
    OBVIOUS
  <2>1. CASE k = saving
    BY <1>1, <1>3, <1>4, <2>1 DEF Bound, SequenceWaits
  <2>2. CASE k # saving
    BY <1>1, <1>3, <1>4, <2>2, ContactsAre DEF Bound, SequenceWaits
  <2> QED
    BY <2>1, <2>2
<1>9. Dated'
  BY <1>1, <1>5, <1>8, DatedStays
<1>10. InOrder'
  <2> SUFFICES ASSUME ~sequence_excused, NEW k \in SequenceContacts
               PROVE  /\ \A i \in 1..Len(received[k]) : received[k][i] = i - 1
                      /\ Len(received[k]) = index'[k]
                      /\ bunch'[k] # Nothing => bunch'[k] = index'[k]
    <3>1. \A k \in SequenceContacts : Nothing # k
      BY ContactsAre
    <3> QED
      BY <1>1, <3>1 DEF InOrder
  <2>1. /\ \A i \in 1..Len(received[k]) : received[k][i] = i - 1
        /\ Len(received[k]) = (IF saving = k THEN index[k] + 1 ELSE index[k])
        /\ bunch[k] # Nothing => bunch[k] = index[k]
    BY <1>2 DEF InOrder
  <2>2. CASE k = saving
    BY <1>2, <1>4, <2>1, <2>2, <1>1 DEF Poll
  <2>3. CASE k # saving
    BY <1>4, <2>1, <2>3
  <2> QED
    BY <2>2, <2>3
<1> QED
  BY <1>5, <1>6, <1>7, <1>9, <1>10 DEF SequenceIInv

LEMMA AllSentKeeps == ASSUME Sequence!SequentialSendConstants, SequenceIInv, Sequence!AllSent PROVE SequenceIInv'
<1>1. /\ sequence_at = "contacts" /\ bunch = Sequence!NoBunch /\ sequence_at' = "idle"
      /\ UNCHANGED <<sequence_now, last_poll_time, Sequence!queue, interval, bunch, saving, index, edit, received, sequence_excused>>
  BY DEF Sequence!AllSent
<1>2. SequenceTypeOK /\ Poll
  BY DEF SequenceIInv
<1>3. saving = Nothing
  BY <1>1, <1>2 DEF Sequence!NoBunch, Poll, SequenceTypeOK
<1>4. SequenceTypeOK'
  BY <1>1, <1>2 DEF SequenceTypeOK, Sequence!queue
<1>5. SequenceQueue'
  BY <1>1, SequenceQueueStays
<1>6. Poll'
  BY <1>1, <1>2, <1>3 DEF Poll
<1>7. \A c \in SequenceContacts : Bound(c) <= Bound(c)'
  <2>1. /\ interval[1] \in Nat /\ interval[2] \in Nat /\ interval[1] <= interval[2]
        /\ interval[2] = last_poll_time
    BY <1>1, <1>2 DEF SequenceTypeOK, Poll
  <2> QED
    BY <1>1, <2>1 DEF Bound
<1>8. Dated'
  BY <1>1, <1>4, <1>7, DatedStays
<1>9. InOrder'
  BY <1>1, InOrderStays
<1> QED
  BY <1>4, <1>5, <1>6, <1>8, <1>9 DEF SequenceIInv

\* The rest is given up; if the index was not saved it is behind.
LEMMA GivenUp ==
  ASSUME Sequence!SequentialSendConstants, SequenceIInv, SequenceTypeOK', SequenceQueue', UNCHANGED <<sequence_now, index, received>>,
         sequence_at' = "idle", bunch' = Sequence!NoBunch, saving' = Nothing, sequence_excused' = (sequence_excused \/ saving # Nothing),
         last_poll_time' <= sequence_now, \A c \in SequenceContacts : Bound(c) <= last_poll_time'
  PROVE  SequenceIInv'
<1>1. Poll'
  BY DEF Poll
<1>2. \A c \in SequenceContacts : Bound(c) <= Bound(c)'
  BY DEF Bound
<1>3. Dated'
  BY <1>2, DatedStays
<1>4. InOrder'
  <2>1. \A c \in SequenceContacts : bunch'[c] = Nothing /\ Nothing # c
    BY ContactsAre DEF Sequence!NoBunch
  <2> QED
    BY <2>1 DEF SequenceIInv, InOrder
<1> QED
  BY <1>1, <1>3, <1>4 DEF SequenceIInv

LEMMA BoundsArePast ==
  ASSUME SequenceIInv, NEW c \in SequenceContacts
  PROVE  Bound(c) \in Nat /\ Bound(c) <= sequence_now /\ (sequence_at = "contacts" => Bound(c) <= last_poll_time)
<1>1. /\ sequence_now \in Nat /\ last_poll_time \in Nat /\ interval[1] \in Nat /\ interval[2] \in Nat
      /\ last_poll_time <= sequence_now
  BY DEF SequenceIInv, SequenceTypeOK, Poll
<1>2. sequence_at # "idle" => interval[2] = last_poll_time /\ interval[1] <= interval[2]
  BY DEF SequenceIInv, Poll
<1> QED
  BY <1>1, <1>2 DEF Bound

LEMMA NoBunchIs == Sequence!NoBunch \in [SequenceContacts -> Nat \union {Nothing}]
BY DEF Sequence!NoBunch

LEMMA SendRaisesKeeps == ASSUME Sequence!SequentialSendConstants, SequenceIInv, Sequence!SendRaises PROVE SequenceIInv'
<1>1. /\ sequence_at = "contacts" /\ sequence_at' = "idle" /\ bunch' = Sequence!NoBunch /\ saving' = Nothing
      /\ sequence_excused' = (sequence_excused \/ saving # Nothing)
      /\ UNCHANGED <<sequence_now, last_poll_time, Sequence!queue, interval, index, edit, received>>
  BY DEF Sequence!SendRaises
<1>2. SequenceTypeOK /\ Poll
  BY DEF SequenceIInv
<1>3. SequenceTypeOK'
  BY <1>1, <1>2, NoBunchIs DEF SequenceTypeOK, Sequence!queue
<1>4. SequenceQueue'
  BY <1>1, SequenceQueueStays
<1>5. last_poll_time' <= sequence_now
  BY <1>1, <1>2 DEF Poll
<1>6. \A c \in SequenceContacts : Bound(c) <= last_poll_time'
  BY <1>1, BoundsArePast
<1> QED
  BY <1>1, <1>3, <1>4, <1>5, <1>6, GivenUp

LEMMA SequenceWorkerDiesKeeps == ASSUME Sequence!SequentialSendConstants, SequenceIInv, Sequence!WorkerDies PROVE SequenceIInv'
<1>1. /\ last_poll_time' = sequence_now /\ sequence_command' = "none" /\ sequence_at' = "idle" /\ bunch' = Sequence!NoBunch /\ saving' = Nothing
      /\ sequence_excused' = (sequence_excused \/ saving # Nothing)
      /\ UNCHANGED <<sequence_now, status, scheduled, sequence_commands, asked, interval, index, edit, received>>
  BY DEF Sequence!WorkerDies
<1>2. SequenceTypeOK /\ SequenceQueue
  BY DEF SequenceIInv
<1>3. SequenceTypeOK'
  BY <1>1, <1>2, NoBunchIs DEF SequenceTypeOK
<1>4. SequenceQueue'
  BY <1>1, <1>2 DEF SequenceQueue, Latest
<1>5. sequence_now \in Nat /\ last_poll_time' <= sequence_now
  BY <1>1, <1>2 DEF SequenceTypeOK
<1>6. \A c \in SequenceContacts : Bound(c) <= last_poll_time'
  BY <1>1, BoundsArePast
<1> QED
  BY <1>1, <1>3, <1>4, <1>5, <1>6, GivenUp

LEMMA LoadContactKeeps == ASSUME Sequence!SequentialSendConstants, SequenceIInv, NEW c \in SequenceContacts, Sequence!LoadContact(c) PROVE SequenceIInv'
<1>1. /\ edit' = <<c, index[c]>>
      /\ UNCHANGED <<sequence_now, last_poll_time, Sequence!queue, sequence_at, interval, bunch, saving, index, received, sequence_excused>>
  BY DEF Sequence!LoadContact, Sequence!poll
<1>2. SequenceTypeOK /\ sequence_now \in Nat /\ index[c] \in Nat
  BY DEF SequenceIInv, SequenceTypeOK
<1>3. SequenceTypeOK'
  BY <1>1, <1>2 DEF SequenceTypeOK, Sequence!queue
<1>4. SequenceQueue'
  BY <1>1, SequenceQueueStays
<1>5. Poll'
  BY <1>1, <1>2, PollStays
<1>6. \A k \in SequenceContacts : Bound(k) <= Bound(k)'
  BY <1>1, BoundStays
<1>7. Dated'
  BY <1>1, <1>3, <1>6, DatedStays
<1>8. InOrder'
  BY <1>1, InOrderStays
<1> QED
  BY <1>3, <1>4, <1>5, <1>7, <1>8 DEF SequenceIInv

LEMMA SaveContactKeeps == ASSUME Sequence!SequentialSendConstants, SequenceIInv, Sequence!SaveContact PROVE SequenceIInv'
<1>1. /\ edit # Nothing /\ edit' = Nothing /\ index' = [index EXCEPT ![edit[1]] = edit[2]]
      /\ sequence_excused' = (sequence_excused \/ index[edit[1]] # edit[2])
      /\ UNCHANGED <<sequence_now, last_poll_time, Sequence!queue, sequence_at, interval, bunch, saving, received>>
  BY DEF Sequence!SaveContact, Sequence!poll
<1>2. SequenceTypeOK /\ sequence_now \in Nat /\ edit[1] \in SequenceContacts /\ edit[2] \in Nat /\ index \in [SequenceContacts -> Nat]
  BY <1>1 DEF SequenceIInv, SequenceTypeOK
<1>3. index' \in [SequenceContacts -> Nat] /\ (~sequence_excused' => index' = index)
  BY <1>1, <1>2
<1>4. SequenceTypeOK'
  BY <1>1, <1>2, <1>3 DEF SequenceTypeOK, Sequence!queue
<1>5. SequenceQueue'
  BY <1>1, SequenceQueueStays
<1>6. Poll'
  BY <1>1, <1>2, PollStays
<1>7. \A k \in SequenceContacts : Bound(k) <= Bound(k)'
  BY <1>1, BoundStays
<1>8. Dated'
  BY <1>1, <1>4, <1>7, DatedStays
<1>9. InOrder'
  BY <1>1, <1>3 DEF SequenceIInv, InOrder
<1> QED
  BY <1>4, <1>5, <1>6, <1>8, <1>9 DEF SequenceIInv

LEMMA SequenceStutterKeeps == ASSUME Sequence!SequentialSendConstants, SequenceIInv, UNCHANGED Sequence!vars PROVE SequenceIInv'
<1>1. UNCHANGED Elsewhere /\ UNCHANGED Sequence!queue /\ UNCHANGED sequence_excused
  BY DEF Sequence!vars, Sequence!poll, Elsewhere
<1>2. SequenceTypeOK'
  BY <1>1 DEF SequenceIInv, SequenceTypeOK, Sequence!queue, Elsewhere
<1>3. SequenceQueue'
  BY <1>1, SequenceQueueStays
<1> QED
  BY <1>1, <1>2, <1>3, SequenceOthersKeep

(* No contact is sent more messages than dates have passed, the messages    *)
(* come in their order, and a conversation whose commands are handled is    *)
(* watched when it runs, for any contacts, list, schedule and faults.       *)
THEOREM MessagesComeInOrder ==
  ASSUME Sequence!SequentialSendConstants PROVE Sequence!Spec => []Sequence!InSequence
<1>1. Sequence!Init => SequenceIInv
  <2> SUFFICES ASSUME Sequence!Init PROVE SequenceIInv
    OBVIOUS
  <2>1. /\ sequence_now = 0 /\ last_poll_time = 0 /\ status = "stopped" /\ scheduled = FALSE /\ sequence_commands = <<>>
        /\ sequence_command = "none" /\ sequence_at = "idle" /\ interval = <<0, 0>> /\ bunch = Sequence!NoBunch /\ saving = Nothing
        /\ index = [c \in SequenceContacts |-> 0] /\ edit = Nothing /\ received = [c \in SequenceContacts |-> <<>>]
        /\ sequence_excused = FALSE
    BY DEF Sequence!Init
  <2>2. SequenceTypeOK
    <3>1. /\ interval \in Nat \X Nat /\ index \in [SequenceContacts -> Nat] /\ received \in [SequenceContacts -> Seq(Nat)]
          /\ sequence_commands \in Seq({"start", "stop"}) /\ bunch \in [SequenceContacts -> Nat \union {Nothing}]
      BY <2>1, NoBunchIs
    <3>2. /\ sequence_now \in Nat /\ last_poll_time \in Nat /\ status \in {"stopped", "starting", "stopping", "running"}
          /\ sequence_command \in {"none", "save", "schedule"} /\ sequence_at \in {"idle", "conversations", "contacts"}
      BY <2>1
    <3>3. scheduled \in BOOLEAN /\ sequence_excused \in BOOLEAN /\ saving \in SequenceContacts \union {Nothing} /\ edit = Nothing
      BY <2>1
    <3> QED
      BY <3>1, <3>2, <3>3 DEF SequenceTypeOK
  <2>3. SequenceQueue /\ Poll
    BY <2>1 DEF SequenceQueue, Poll
  <2>4. \A c \in SequenceContacts : received[c] = <<>> /\ index[c] = 0 /\ bunch[c] = Nothing /\ Nothing # c
    BY <2>1, ContactsAre DEF Sequence!NoBunch
  <2>5. Dated
    <3>1. Count(0) \in Nat
      BY DatesAre
    <3> QED
      BY <2>1, <2>4, <3>1 DEF Dated, Bound
  <2>6. InOrder
    BY <2>1, <2>4 DEF InOrder
  <2> QED
    BY <2>2, <2>3, <2>5, <2>6 DEF SequenceIInv
<1>2. SequenceIInv /\ [Sequence!Next]_(Sequence!vars) => SequenceIInv'
  <2>1. ASSUME SequenceIInv, Sequence!Ask("start", "starting") PROVE SequenceIInv'
    BY <2>1, AskKeeps DEF Asked
  <2>2. ASSUME SequenceIInv, Sequence!Ask("stop", "stopping") PROVE SequenceIInv'
    BY <2>2, AskKeeps DEF Asked
  <2>3. ASSUME SequenceIInv, NEW c \in SequenceContacts, Sequence!Skip(c) \/ Sequence!SendMessage(c) \/ Sequence!LoadContact(c) PROVE SequenceIInv'
    BY <2>3, SkipKeeps, SendMessageKeeps, LoadContactKeeps
  <2>4. ASSUME SequenceIInv, Sequence!LoadForCommand \/ Sequence!SaveStatus \/ Sequence!Schedule PROVE SequenceIInv'
    BY <2>4, LoadForCommandKeeps, SaveStatusKeeps, ScheduleKeeps
  <2>5. ASSUME SequenceIInv, Sequence!Tick \/ Sequence!PollConversations \/ Sequence!ProcessConversationSchedule PROVE SequenceIInv'
    BY <2>5, SequenceTickKeeps, PollConversationsKeeps, ProcessConversationScheduleKeeps
  <2>6. ASSUME SequenceIInv, Sequence!SaveIndex \/ Sequence!AllSent \/ Sequence!SendRaises \/ Sequence!WorkerDies \/ Sequence!SaveContact PROVE SequenceIInv'
    BY <2>6, SaveIndexKeeps, AllSentKeeps, SendRaisesKeeps, SequenceWorkerDiesKeeps, SaveContactKeeps
  <2> QED
    BY <2>1, <2>2, <2>3, <2>4, <2>5, <2>6, SequenceStutterKeeps DEF Sequence!Next
<1>3. SequenceIInv => Sequence!InSequence
  <2> SUFFICES ASSUME SequenceIInv PROVE Sequence!InSequence
    OBVIOUS
  <2>1. ASSUME NEW c \in SequenceContacts
        PROVE  /\ Len(received[c]) <= Count(sequence_now)
               /\ ~sequence_excused => \A i \in DOMAIN received[c] : received[c][i] = i - 1
    <3>1. Bound(c) \in Nat /\ Bound(c) <= sequence_now /\ sequence_now \in Nat
      BY BoundsArePast DEF SequenceIInv, SequenceTypeOK
    <3>2. ASSUME NEW s \in Nat, NEW t \in Nat, s <= t PROVE Count(s) <= Count(t) /\ Count(s) \in Nat /\ Count(t) \in Nat
      BY <3>2, DatesGrow, DatesAre
    <3>3. Count(Bound(c)) <= Count(sequence_now) /\ Count(Bound(c)) \in Nat /\ Count(sequence_now) \in Nat
      BY <3>1, <3>2
    <3>4. /\ Len(received[c]) \in Nat /\ DOMAIN received[c] = 1..Len(received[c])
          /\ Len(received[c]) <= Count(Bound(c))
      BY DEF SequenceIInv, SequenceTypeOK, Dated
    <3>5. ~sequence_excused => \A i \in 1..Len(received[c]) : received[c][i] = i - 1
      BY DEF SequenceIInv, InOrder
    <3> QED
      BY <3>3, <3>4, <3>5
  <2>2. Count(sequence_now) = Cardinality({d \in Dates : d <= sequence_now})
    BY DEF Count, UpTo
  <2>3. sequence_commands = <<>> /\ ~sequence_excused => (scheduled <=> status = "running")
    BY DEF SequenceIInv, SequenceQueue
  <2> QED
    BY <2>1, <2>2, <2>3, LibraryDates DEF Sequence!InSequence
<1> QED
  BY <1>1, <1>2, <1>3, PTL DEF Sequence!Spec

-----------------------------------------------------------------------------
(* The push triggers of the command (JsBoxSend): when the ticker was       *)
(* called last, and that it lets go no sooner than its time after the      *)
(* trigger before the last.                                                *)
PushTypeOK ==
  /\ push_now \in Nat /\ wake \in Nat /\ push_last \in Nat \union {Nothing}
  /\ run \in [at : {"idle", "send", "publish", "tick", "wait"}, left : SUBSET Push!Positions,
              to_addr : Push!Addresses \union {Nothing}]
  /\ run.at = "publish" => run.to_addr \in Push!Addresses
  /\ push_sent \in Seq([to_addr : Push!Addresses, at : Nat])

\* No address is sent to that was reported before the run, and all are reported that are.
Before ==
  /\ earlier \subseteq excluded /\ excluded \subseteq reported
  /\ \A i \in 1..Len(push_sent) : push_sent[i].to_addr \in reported /\ push_sent[i].to_addr \notin excluded
  /\ run.at # "idle" => \A k \in run.left : PushContacts[k] \notin excluded
  /\ run.at = "publish" => run.to_addr \in reported /\ run.to_addr \notin excluded

\* The times of the triggers; when the ticker was called after the last, and lets go.
Times ==
  /\ \A i \in 1..Len(push_sent) : push_sent[i].at <= push_now
  /\ \A i \in 1..Len(push_sent) : i + 2 <= Len(push_sent) => push_sent[i + 2].at >= push_sent[i].at + MinDt
CalledAfter(n) == n >= 1 => push_last \in Nat /\ push_last >= push_sent[n].at /\ push_last <= push_now
Before2(t) == \A i \in 1..Len(push_sent) : i + 1 = Len(push_sent) => t >= push_sent[i].at + MinDt
Ticking ==
  /\ run.at \in {"send", "publish"} =>
       /\ CalledAfter(Len(push_sent)) /\ (Len(push_sent) = 0 => push_last = Nothing)
       /\ Before2(push_now)
  /\ run.at = "tick" =>
       /\ Len(push_sent) >= 1 /\ (Len(push_sent) = 1 => push_last = Nothing)
       /\ CalledAfter(Len(push_sent) - 1)
  /\ run.at = "wait" => Len(push_sent) >= 1 /\ CalledAfter(Len(push_sent)) /\ Before2(wake)

PushIInv == PushTypeOK /\ Before /\ Times /\ Ticking
-----------------------------------------------------------------------------
LEMMA NumbersAre == ASSUME Push!JsBoxSendConstants PROVE MinDt \in Nat /\ MinDt > 0 /\ Nothing \notin Nat
BY DEF Push!JsBoxSendConstants

LEMMA PushRunIs ==
  \A where \in {"idle", "send", "publish", "tick", "wait"}, left \in SUBSET Push!Positions,
     addr \in Push!Addresses \union {Nothing} :
    LET is == Push!Run(where, left, addr) IN
    /\ is \in [at : {"idle", "send", "publish", "tick", "wait"},
               left : SUBSET Push!Positions, to_addr : Push!Addresses \union {Nothing}]
    /\ is.at = where /\ is.left = left /\ is.to_addr = addr
BY DEF Push!Run

\* What the triggers of a run are.
LEMMA TriggersHaveTimes ==
  ASSUME NEW R, NEW T \in Seq(R), \A m \in R : m.at \in Nat
  PROVE  Len(T) \in Nat /\ \A i \in 1..Len(T) : T[i].at \in Nat
OBVIOUS

LEMMA SentHasTimes ==
  ASSUME PushTypeOK
  PROVE  Len(push_sent) \in Nat /\ \A i \in 1..Len(push_sent) : push_sent[i].at \in Nat
<1> DEFINE R == [to_addr : Push!Addresses, at : Nat]
<1>1. push_sent \in Seq(R)
  BY DEF PushTypeOK
<1>2. \A m \in R : m.at \in Nat
  OBVIOUS
<1> HIDE DEF R
<1> QED
  BY <1>1, <1>2, TriggersHaveTimes

\* What the clock and the opt-outs do not touch.
LEMMA SentStays ==
  ASSUME Push!JsBoxSendConstants, PushIInv, UNCHANGED <<push_sent, push_last, wake>>, push_now' \in Nat, push_now <= push_now'
  PROVE  /\ Times' /\ (Before2(push_now) => Before2(push_now)')
         /\ \A n \in 0..Len(push_sent) : CalledAfter(n) => CalledAfter(n)'
<1>1. push_now \in Nat /\ push_sent \in Seq([to_addr : Push!Addresses, at : Nat]) /\ Times
  BY DEF PushIInv, PushTypeOK
<1>2. Len(push_sent) \in Nat /\ \A i \in 1..Len(push_sent) : push_sent[i].at \in Nat
  BY SentHasTimes DEF PushIInv
<1>3. Times'
  BY <1>1, <1>2 DEF Times
<1>4. ASSUME Before2(push_now) PROVE Before2(push_now)'
  <2>1. ASSUME NEW i \in 1..Len(push_sent), i + 1 = Len(push_sent), NEW m, m = push_sent[i].at + MinDt PROVE push_now' >= m
    <3>1. push_now >= m
      BY <1>4, <2>1 DEF Before2
    <3>2. push_sent[i].at \in Nat /\ MinDt \in Nat
      BY <1>2, NumbersAre
    <3>3. m \in Nat
      BY <2>1, <3>2
    <3> QED
      BY <1>1, <3>1, <3>3
  <2> QED
    BY <2>1 DEF Before2
<1>5. ASSUME NEW n \in 0..Len(push_sent), CalledAfter(n) PROVE CalledAfter(n)'
  BY <1>1, <1>5 DEF CalledAfter
<1> QED
  BY <1>3, <1>4, <1>5

LEMMA ClockKeeps == ASSUME Push!JsBoxSendConstants, PushIInv, Push!Clock PROVE PushIInv'
<1>1. push_now' = push_now + 1 /\ UNCHANGED <<push_opted_out, run, push_last, wake, excluded, reported, push_sent, earlier>>
  BY DEF Push!Clock
<1>2. PushTypeOK /\ Before /\ Ticking /\ push_now \in Nat /\ Len(push_sent) \in Nat
  BY DEF PushIInv, PushTypeOK
<1>3. PushTypeOK'
  BY <1>1, <1>2 DEF PushTypeOK
<1>4. Before'
  BY <1>1, <1>2 DEF Before
<1>5. /\ Times' /\ (Before2(push_now) => Before2(push_now)')
      /\ \A n \in 0..Len(push_sent) : CalledAfter(n) => CalledAfter(n)'
  BY <1>1, <1>2, SentStays
<1>6. Before2(wake) => Before2(wake)'
  BY <1>1 DEF Before2
<1>7. Ticking'
  <2>1. CASE run.at \in {"send", "publish"}
    <3>1. Len(push_sent) \in 0..Len(push_sent)
      BY <1>2
    <3>2. (CalledAfter(Len(push_sent)) => CalledAfter(Len(push_sent))') /\ run' = run /\ Len(push_sent)' = Len(push_sent) /\ push_last' = push_last
      BY <1>1, <1>5, <3>1 DEF CalledAfter
    <3> QED
      BY <1>2, <1>5, <2>1, <3>2 DEF Ticking
  <2>2. CASE run.at = "tick"
    <3>1. Len(push_sent) >= 1 /\ Len(push_sent) - 1 \in 0..Len(push_sent) /\ CalledAfter(Len(push_sent) - 1)
      BY <1>2, <2>2 DEF Ticking
    <3>2. CalledAfter(Len(push_sent) - 1)'
      BY <1>1, <1>5, <3>1 DEF CalledAfter
    <3> QED
      BY <1>1, <1>2, <2>2, <3>1, <3>2 DEF Ticking
  <2>3. CASE run.at = "wait"
    <3>1. Len(push_sent) \in 0..Len(push_sent) /\ CalledAfter(Len(push_sent))
      BY <1>2, <2>3 DEF Ticking
    <3>2. CalledAfter(Len(push_sent))'
      BY <1>1, <1>5, <3>1 DEF CalledAfter
    <3> QED
      BY <1>1, <1>2, <1>6, <2>3, <3>2 DEF Ticking
  <2>4. CASE run.at = "idle"
    BY <1>1, <2>4 DEF Ticking
  <2> QED
    BY <1>2, <2>1, <2>2, <2>3, <2>4 DEF PushTypeOK
<1> QED
  BY <1>3, <1>4, <1>5, <1>7 DEF PushIInv

\* Only where the script is changes.
LEMMA RunOnly ==
  ASSUME PushIInv, UNCHANGED <<push_now, push_last, wake, excluded, push_sent, earlier>>, reported \subseteq reported',
         NEW where \in {"idle", "send", "publish", "tick", "wait"}, NEW left \in SUBSET Push!Positions,
         NEW addr \in Push!Addresses \union {Nothing}, run' = Push!Run(where, left, addr),
         run.at = "idle" => where = "idle",
         left \subseteq run.left \/ where = "idle",
         where = "publish" => addr \in Push!Addresses /\ addr \in reported' /\ addr \notin excluded
  PROVE  PushTypeOK' /\ Before' /\ Times'
<1>1. run'.at = where /\ run'.left = left /\ run'.to_addr = addr
      /\ run' \in [at : {"idle", "send", "publish", "tick", "wait"}, left : SUBSET Push!Positions,
                   to_addr : Push!Addresses \union {Nothing}]
  BY DEF Push!Run
<1>2. PushTypeOK'
  BY <1>1 DEF PushIInv, PushTypeOK
<1>3. Before'
  BY <1>1 DEF PushIInv, Before
<1>4. Times'
  BY DEF PushIInv, Times
<1> QED
  BY <1>2, <1>3, <1>4

LEMMA PushSendJsboxKeeps == ASSUME Push!JsBoxSendConstants, PushIInv, Push!SendJsbox PROVE PushIInv'
<1>1. /\ excluded' = reported /\ run' = Push!Run("send", Push!Collected, Nothing) /\ push_last' = Nothing
      /\ earlier' = earlier \union {push_sent[i].to_addr : i \in 1..Len(push_sent)} /\ push_sent' = <<>>
      /\ UNCHANGED <<push_now, push_opted_out, wake, reported>>
  BY DEF Push!SendJsbox
<1>2. PushTypeOK /\ Before
  BY DEF PushIInv
<1>3. Push!Collected \in SUBSET Push!Positions /\ \A k \in Push!Collected : PushContacts[k] \notin excluded'
  BY DEF Push!Collected
<1>4. run'.at = "send" /\ run'.left = Push!Collected
      /\ run' \in [at : {"idle", "send", "publish", "tick", "wait"}, left : SUBSET Push!Positions,
                   to_addr : Push!Addresses \union {Nothing}]
  BY <1>1, <1>3, PushRunIs
<1>5. Len(push_sent') = 0 /\ push_sent' \in Seq([to_addr : Push!Addresses, at : Nat])
  BY <1>1
<1>6. PushTypeOK'
  BY <1>1, <1>2, <1>4, <1>5 DEF PushTypeOK
<1>7. Before'
  BY <1>1, <1>2, <1>3, <1>4, <1>5 DEF Before
<1>8. Times' /\ Ticking'
  BY <1>1, <1>4, <1>5 DEF Times, Ticking, CalledAfter, Before2
<1> QED
  BY <1>6, <1>7, <1>8 DEF PushIInv

LEMMA PushSendInboundPushTriggerKeeps == ASSUME Push!JsBoxSendConstants, PushIInv, Push!SendInboundPushTrigger PROVE PushIInv'
<1>1. PICK k \in run.left : reported' = reported \union {PushContacts[k]} /\ run' = Push!Run("publish", run.left \ {k}, PushContacts[k])
  BY DEF Push!SendInboundPushTrigger
<1>2. run.at = "send" /\ UNCHANGED <<push_now, push_opted_out, push_last, wake, excluded, push_sent, earlier>>
  BY DEF Push!SendInboundPushTrigger
<1>3. PushTypeOK /\ Before /\ Ticking
  BY DEF PushIInv
<1>4. run.left \in SUBSET Push!Positions /\ k \in Push!Positions /\ PushContacts[k] \in Push!Addresses /\ PushContacts[k] \notin excluded
  BY <1>2, <1>3 DEF PushTypeOK, Push!Addresses, Before
<1>5. run'.at = "publish"
  BY <1>1 DEF Push!Run
<1>6. PushTypeOK' /\ Before' /\ Times'
  BY <1>1, <1>2, <1>4, RunOnly
<1>7. Ticking'
  BY <1>2, <1>3, <1>5 DEF Ticking, CalledAfter, Before2
<1> QED
  BY <1>6, <1>7 DEF PushIInv

LEMMA SendToConvKeeps == ASSUME Push!JsBoxSendConstants, PushIInv, Push!SendToConv PROVE PushIInv'
<1> DEFINE m == [to_addr |-> run.to_addr, at |-> push_now]
           n == Len(push_sent)
<1>1. /\ run.at = "publish" /\ push_sent' = Append(push_sent, m) /\ run' = Push!Run("tick", run.left, Nothing)
      /\ UNCHANGED <<push_now, push_opted_out, push_last, wake, excluded, reported, earlier>>
  BY DEF Push!SendToConv
<1>2. PushTypeOK /\ Before /\ Times /\ Ticking
  BY DEF PushIInv
<1>3. /\ push_now \in Nat /\ run.left \in SUBSET Push!Positions /\ run.to_addr \in Push!Addresses
      /\ push_sent \in Seq([to_addr : Push!Addresses, at : Nat])
  BY <1>1, <1>2 DEF PushTypeOK
<1>4. m \in [to_addr : Push!Addresses, at : Nat] /\ m.to_addr = run.to_addr /\ m.at = push_now
  BY <1>3
<1> HIDE DEF m
<1>5. /\ n \in Nat /\ Len(push_sent') = n + 1 /\ push_sent' \in Seq([to_addr : Push!Addresses, at : Nat])
      /\ push_sent'[n + 1] = m /\ \A i \in 1..n : push_sent'[i] = push_sent[i] /\ push_sent[i].at \in Nat
  <2>1. \A i \in 1..n : push_sent[i].at \in Nat
    BY <1>2, SentHasTimes
  <2> QED
    BY <1>1, <1>3, <1>4, <2>1
<1>6. run'.at = "tick" /\ run'.left = run.left
      /\ run' \in [at : {"idle", "send", "publish", "tick", "wait"}, left : SUBSET Push!Positions,
                   to_addr : Push!Addresses \union {Nothing}]
  BY <1>1, <1>3 DEF Push!Run
<1>7. PushTypeOK'
  BY <1>1, <1>2, <1>5, <1>6 DEF PushTypeOK
<1>8. \A i \in 1..(n + 1) : i \in 1..n \/ i = n + 1
  BY <1>5
<1>9. Before'
  <2>1. ASSUME NEW i \in 1..(n + 1) PROVE push_sent'[i].to_addr \in reported /\ push_sent'[i].to_addr \notin excluded
    <3>1. CASE i \in 1..n
      BY <1>2, <1>5, <3>1 DEF Before
    <3>2. CASE i = n + 1
      BY <1>1, <1>2, <1>4, <1>5, <3>2 DEF Before
    <3> QED
      BY <1>8, <3>1, <3>2
  <2> QED
    BY <1>1, <1>2, <1>5, <1>6, <2>1 DEF Before
<1>10. CalledAfter(n) /\ (n = 0 => push_last = Nothing) /\ Before2(push_now)
  BY <1>1, <1>2 DEF Ticking
<1>11. MinDt \in Nat
  BY NumbersAre
<1>12. Times'
  <2>1. ASSUME NEW i \in 1..(n + 1) PROVE push_sent'[i].at <= push_now
    <3>1. CASE i \in 1..n
      BY <1>2, <1>5, <3>1 DEF Times
    <3>2. CASE i = n + 1
      BY <1>3, <1>4, <1>5, <3>2
    <3> QED
      BY <1>8, <3>1, <3>2
  <2>2. ASSUME NEW i \in 1..(n + 1), i + 2 <= n + 1 PROVE push_sent'[i + 2].at >= push_sent'[i].at + MinDt
    <3>1. i \in 1..n /\ push_sent'[i] = push_sent[i]
      BY <1>5, <2>2
    <3>2. CASE i + 2 <= n
      <4>1. i + 2 \in 1..n
        BY <1>5, <3>1, <3>2
      <4>2. push_sent'[i + 2] = push_sent[i + 2]
        BY <1>5, <4>1
      <4>3. push_sent[i + 2].at >= push_sent[i].at + MinDt
        BY <1>2, <3>1, <3>2 DEF Times
      <4> QED
        BY <3>1, <4>2, <4>3
    <3>3. CASE i + 2 = n + 1
      <4>1. i + 1 = n
        BY <1>5, <3>1, <3>3
      <4>2. push_now >= push_sent[i].at + MinDt
        BY <1>10, <3>1, <4>1 DEF Before2
      <4> QED
        BY <1>4, <1>5, <3>1, <3>3, <4>2
    <3> QED
      BY <1>5, <2>2, <3>1, <3>2, <3>3
  <2> QED
    BY <1>1, <1>5, <2>1, <2>2 DEF Times
<1>13. Ticking'
  <2>1. Len(push_sent)' = n + 1 /\ n + 1 >= 1 /\ (n + 1 = 1 => push_last' = Nothing) /\ (n + 1) - 1 = n
    BY <1>1, <1>5, <1>10
  <2>2. ASSUME NEW l, l = n PROVE CalledAfter(l)'
    <3>1. n >= 1 => push_sent'[n] = push_sent[n]
      BY <1>5
    <3> QED
      BY <1>1, <1>10, <2>2, <3>1 DEF CalledAfter
  <2>3. CalledAfter(Len(push_sent) - 1)'
    BY <2>1, <2>2
  <2> QED
    BY <1>6, <2>1, <2>3 DEF Ticking
<1> QED
  BY <1>7, <1>9, <1>12, <1>13 DEF PushIInv

LEMMA TickerTickKeeps == ASSUME Push!JsBoxSendConstants, PushIInv, Push!TickerTick PROVE PushIInv'
<1> DEFINE n == Len(push_sent)
<1>1. /\ run.at = "tick" /\ wake' = (IF push_last = Nothing THEN push_now ELSE push_now + Push!Delay(push_now - push_last))
      /\ push_last' = push_now /\ run' = Push!Run("wait", run.left, Nothing)
      /\ UNCHANGED <<push_now, push_opted_out, excluded, reported, push_sent, earlier>>
  BY DEF Push!TickerTick
<1>2. PushTypeOK /\ Before /\ Times /\ Ticking
  BY DEF PushIInv
<1>3. /\ push_now \in Nat /\ run.left \in SUBSET Push!Positions /\ push_last \in Nat \union {Nothing}
      /\ push_sent \in Seq([to_addr : Push!Addresses, at : Nat])
  BY <1>2 DEF PushTypeOK
<1>4. n \in Nat /\ \A i \in 1..n : push_sent[i].at \in Nat
  BY <1>2, SentHasTimes
<1>5. n >= 1 /\ (n = 1 => push_last = Nothing) /\ CalledAfter(n - 1)
  BY <1>1, <1>2 DEF Ticking
<1>6. MinDt \in Nat /\ MinDt > 0 /\ Nothing \notin Nat
  BY NumbersAre
<1>7. run'.at = "wait" /\ run'.left = run.left
      /\ run' \in [at : {"idle", "send", "publish", "tick", "wait"}, left : SUBSET Push!Positions,
                   to_addr : Push!Addresses \union {Nothing}]
  BY <1>1, <1>3 DEF Push!Run
<1>8. ASSUME push_last \in Nat, push_last <= push_now PROVE wake' \in Nat /\ wake' >= push_last + MinDt
  <2>1. wake' = push_now + Push!Delay(push_now - push_last)
    BY <1>1, <1>6, <1>8
  <2>2. CASE push_now - push_last > MinDt
    BY <1>3, <1>6, <1>8, <2>1, <2>2 DEF Push!Delay
  <2>3. CASE ~(push_now - push_last > MinDt)
    <3>1. Push!Delay(push_now - push_last) = MinDt - (push_now - push_last)
      BY <2>3 DEF Push!Delay
    <3>2. push_now - push_last \in Int /\ push_now - push_last <= MinDt /\ push_now - push_last >= 0
      BY <1>3, <1>6, <1>8, <2>3
    <3> QED
      BY <1>3, <1>6, <1>8, <2>1, <3>1, <3>2
  <2> QED
    BY <2>2, <2>3
<1>9. n >= 2 => push_last \in Nat /\ push_last >= push_sent[n - 1].at /\ push_last <= push_now
  BY <1>4, <1>5 DEF CalledAfter
<1>10. wake' \in Nat
  <2>1. CASE n = 1
    <3>1. push_last = Nothing
      BY <1>5, <2>1
    <3>2. wake' = push_now
      BY <1>1, <3>1
    <3> QED
      BY <1>3, <3>2
  <2>2. n = 1 \/ n >= 2
    <3>1. \A k \in Nat : k >= 1 => k = 1 \/ k >= 2
      OBVIOUS
    <3> HIDE DEF n
    <3>2. n >= 1
      BY <1>5
    <3> QED
      BY <1>4, <3>1, <3>2
  <2>3. CASE n >= 2
    BY <1>8, <1>9, <2>3
  <2> QED
    BY <2>1, <2>2, <2>3
<1>11. PushTypeOK'
  BY <1>1, <1>2, <1>3, <1>7, <1>10 DEF PushTypeOK
<1>12. Before' /\ Times'
  BY <1>1, <1>2, <1>7 DEF Before, Times
<1>13. Ticking'
  <2>1. ASSUME NEW i \in 1..n, i + 1 = n, NEW m, m = push_sent[i].at + MinDt PROVE wake' >= m
    <3>1. i = n - 1 /\ n >= 2
      BY <1>4, <2>1
    <3>2. push_last \in Nat /\ push_last >= push_sent[i].at /\ push_last <= push_now
      BY <1>9, <3>1
    <3>3. push_sent[i].at \in Nat
      BY <1>4
    <3> QED
      BY <1>6, <1>8, <2>1, <3>2, <3>3
  <2>2. Before2(wake)'
    BY <1>1, <2>1 DEF Before2
  <2>3. push_sent[n].at <= push_now
    BY <1>2, <1>4, <1>5 DEF Times
  <2>4. CalledAfter(Len(push_sent))'
    BY <1>1, <1>3, <2>3 DEF CalledAfter
  <2> QED
    BY <1>1, <1>5, <1>7, <2>2, <2>4 DEF Ticking
<1> QED
  BY <1>11, <1>12, <1>13 DEF PushIInv

LEMMA TickedKeeps == ASSUME Push!JsBoxSendConstants, PushIInv, Push!Ticked PROVE PushIInv'
<1>1. /\ run.at = "wait" /\ push_now >= wake /\ run' = Push!Run("send", run.left, Nothing)
      /\ UNCHANGED <<push_now, push_opted_out, push_last, wake, excluded, reported, push_sent, earlier>>
  BY DEF Push!Ticked
<1>2. PushTypeOK /\ Ticking /\ MinDt \in Nat
  BY NumbersAre DEF PushIInv
<1>3. push_now \in Nat /\ wake \in Nat /\ run.left \in SUBSET Push!Positions /\ Len(push_sent) \in Nat
      /\ \A i \in 1..Len(push_sent) : push_sent[i].at \in Nat
  BY <1>2, SentHasTimes DEF PushTypeOK
<1>4. run'.at = "send"
  BY <1>1, <1>3 DEF Push!Run
<1>5. PushTypeOK' /\ Before' /\ Times'
  BY <1>1, <1>3, RunOnly
<1>6. Len(push_sent) >= 1 /\ CalledAfter(Len(push_sent)) /\ Before2(wake)
  BY <1>1, <1>2 DEF Ticking
<1>7. Before2(push_now)
  <2>1. ASSUME NEW i \in 1..Len(push_sent), i + 1 = Len(push_sent), NEW m, m = push_sent[i].at + MinDt PROVE push_now >= m
    <3>1. wake >= m /\ m \in Nat
      BY <1>2, <1>3, <1>6, <2>1 DEF Before2
    <3> QED
      BY <1>1, <1>3, <3>1
  <2> QED
    BY <2>1 DEF Before2
<1>8. Ticking'
  <2>1. CalledAfter(Len(push_sent))' /\ Before2(push_now)' /\ Len(push_sent)' # 0
    BY <1>1, <1>3, <1>6, <1>7 DEF CalledAfter, Before2
  <2> QED
    BY <1>4, <2>1 DEF Ticking
<1> QED
  BY <1>5, <1>8 DEF PushIInv

LEMMA StopKeeps == ASSUME PushIInv, Push!Stop \/ Push!Die PROVE PushIInv'
<1>1. run' = Push!Run("idle", {}, Nothing) /\ UNCHANGED <<push_now, push_opted_out, push_last, wake, excluded, reported, push_sent, earlier>>
  BY DEF Push!Stop, Push!Die
<1>2. run'.at = "idle"
  BY <1>1, PushRunIs
<1>3. PushTypeOK' /\ Before' /\ Times'
  BY <1>1, RunOnly
<1>4. Ticking'
  BY <1>2 DEF Ticking
<1> QED
  BY <1>3, <1>4 DEF PushIInv

LEMMA OptInOrOutKeeps == ASSUME PushIInv, UNCHANGED <<push_now, run, push_last, wake, excluded, reported, push_sent, earlier>> PROVE PushIInv'
<1>1. PushTypeOK' /\ Before' /\ Times'
  BY DEF PushIInv, PushTypeOK, Before, Times
<1>2. Ticking'
  BY DEF PushIInv, Ticking, CalledAfter, Before2
<1> QED
  BY <1>1, <1>2 DEF PushIInv

(* Two push triggers at most leave in the time the ticker has for one, and *)
(* none to an address that an earlier run has started, for any contacts    *)
(* and rates, however late the ticker is called and wherever a run dies.   *)
THEOREM TriggersAreTicked ==
  ASSUME Push!JsBoxSendConstants PROVE Push!Spec => []Push!SendsAreTicked
<1>1. Push!Init => PushIInv
  <2> SUFFICES ASSUME Push!Init PROVE PushIInv
    OBVIOUS
  <2>1. run = Push!Run("idle", {}, Nothing) /\ run.at = "idle"
        /\ run \in [at : {"idle", "send", "publish", "tick", "wait"}, left : SUBSET Push!Positions,
                    to_addr : Push!Addresses \union {Nothing}]
    BY PushRunIs DEF Push!Init
  <2>2. Len(push_sent) = 0 /\ push_sent \in Seq([to_addr : Push!Addresses, at : Nat])
    BY DEF Push!Init
  <2>3. PushTypeOK
    BY <2>1, <2>2 DEF Push!Init, PushTypeOK
  <2>4. Before /\ Times /\ Ticking
    BY <2>1, <2>2 DEF Push!Init, Before, Times, Ticking
  <2> QED
    BY <2>3, <2>4 DEF PushIInv
<1>2. PushIInv /\ [Push!Next]_(Push!vars) => PushIInv'
  <2>1. PushIInv /\ UNCHANGED Push!vars => PushIInv'
    BY OptInOrOutKeeps DEF Push!vars
  <2>2. ASSUME PushIInv, NEW a \in Push!Addresses, Push!OptInOrOut(a) PROVE PushIInv'
    BY <2>2, OptInOrOutKeeps DEF Push!OptInOrOut
  <2> QED
    BY <2>1, <2>2, PushSendJsboxKeeps, PushSendInboundPushTriggerKeeps, SendToConvKeeps, TickerTickKeeps, TickedKeeps,
       StopKeeps, ClockKeeps DEF Push!Next
<1>3. PushIInv => Push!SendsAreTicked
  BY DEF PushIInv, Before, Times, Push!SendsAreTicked
<1> QED
  BY <1>1, <1>2, <1>3, PTL DEF Push!Spec

-----------------------------------------------------------------------------
(* Contacts, groups and opt-outs (Contacts): what a job has read is still  *)
(* so when it writes, as long as jobs run in turn, and what a conversation *)
(* stood by is still opted out however they run.                           *)
\* The addresses that contacts are saved under.
Given == {s.addr : s \in Senders} \union {People!NormalizeAddr(s.delivery, s.addr) : s \in Senders}
FieldsOf == [Labels -> Values \union {Nothing}]
ContactRec == [msisdn : Given \union {Nothing, Unknown}, gtalk_id : Given \union {Nothing, Unknown},
               groups : SUBSET Groups, extra : FieldsOf, subscription : FieldsOf, created_at : Nat]
GroupRec == [name : GroupNames, smart : BOOLEAN]

DataOK ==
  /\ contacts \in [Keys -> ContactRec \union {Nothing}]
  /\ groups \in [Groups -> GroupRec \union {Nothing}]
  /\ people_started \in Nat

\* A job has its fields; which operations have a step, and what they have with them there.
HasFields(r) ==
  DOMAIN r = {"op", "at", "sender", "key", "copy", "group", "label", "value", "todo", "rows", "made", "stood"}

Merges == {"upload_is_truth", "existing_is_truth"}
Exports == {"export_contacts", "export_all_contacts", "export_groups"}
Saving == {"subscribe", "end_survey", "delete_group"} \union Merges \union (People!Edits \ {"delete", "get_by_key"})

OpsOf(step) ==
  CASE step = "idle" -> {"none"}
    [] step \in {"query", "load_found"} -> People!LookUps
    [] step = "new_for_addr" -> {"get_or_create"}
    [] step = "load" -> People!Edits
    [] step = "save" -> Saving
    [] step = "delete" -> {"delete", "delete_group_contacts"}
    [] step \in {"search", "new_group"} -> {"group_by_name"}
    [] step = "load_group" -> People!GroupJobs
    [] step = "save_group" -> {"edit_group"}
    [] step \in {"members", "sweep"} -> {"delete_group"}
    [] step \in {"pages", "purge", "raised"} -> {"delete_group_contacts"}
    [] step = "row" -> Merges \union {"import_new"}
    [] step = "reload" -> Merges
    [] step = "clean_up" -> {"import_new"}
    [] step \in {"look", "opt_in"} -> {"cancel"}
    [] step \in {"gather", "bunch", "filter"} -> {"bunches"}
    [] step = "all_keys" -> {"export_all_contacts"}
    [] step = "cut" -> {"export_contacts", "export_all_contacts"}
    [] step \in {"get_groups", "list_rows"} -> {"export_groups"}
    [] step \in {"load_rows", "mail"} -> Exports
    [] OTHER -> {}

Fits(r) ==
  /\ r.op \in OpsOf(r.at)
  /\ r.at = "idle" => r = People!Idle
  /\ r.at \in {"query", "load_found", "new_for_addr"} => r.sender \in Senders
  /\ r.at \in {"query", "load_found", "load"} => r.label \in Labels /\ r.value \in Values
  /\ r.at \in {"load_found", "new_for_addr"} => People!Supported(r.sender.delivery)
  /\ r.at = "load_found" => r.todo \subseteq Keys
  /\ r.at \in {"load", "save", "delete", "reload"} => r.key \in Keys
  /\ r.at \in {"save", "reload"} => r.copy \in ContactRec
  /\ r.at \in {"load", "load_group", "save_group", "members", "sweep", "row", "reload"} => r.group \in Groups
  /\ r.op = "delete_group" => r.group \in Groups
  /\ r.op \in Merges => r.group \in Groups
  /\ r.at \in {"search", "new_group", "load_group", "save_group"} => r.value \in GroupNames
  /\ r.at = "sweep" \/ r.op = "delete_group" => r.todo \subseteq Keys
  /\ r.at \in {"purge", "delete", "cut", "load_rows"} /\ r.op \in Exports \union {"delete_group_contacts"} =>
       \A m \in r.todo : m[1] \in Keys
  /\ r.op = "import_new" => r.made \subseteq Keys /\ r.todo \subseteq Keys

\* What a conversation stood by when it asked is still opted out.
Skips(r) ==
  r.op = "bunches" =>
    /\ r.stood \subseteq opt_outs
    /\ \A a \in r.made : <<People!AddrType(r.value), a>> \notin r.stood
-----------------------------------------------------------------------------
(* What holds of a job while jobs run in turn, as nobody else writes. *)

\* What an import has written, and what it has taken back.
Imports(r) ==
  r.op = "import_new" =>
    /\ r.made \union r.todo \subseteq used
    /\ \A k \in r.todo : contacts[k] = Nothing

\* What is about to be saved is of no failed import, and in groups that are there.
Saves(r) ==
  /\ r.at = "save" => r.key \notin undone /\ \A g \in r.copy.groups : People!Known(g)
  /\ r.at = "load" \/ r.op \in Merges \/ (r.op = "import_new" /\ r.at = "row") => People!Known(r.group)

\* The members of a group that is being deleted are those still to be swept.
Sweeps(r) ==
  r.op = "delete_group" /\ r.at \in {"sweep", "save"} =>
    /\ \A k \in Keys : contacts[k] # Nothing /\ r.group \in contacts[k].groups =>
         k \in r.todo \/ (r.at = "save" /\ k = r.key)
    /\ r.at = "save" => r.group \notin r.copy.groups

Stored == {k \in Keys : contacts[k] # Nothing}
MembersOf(gs) ==
  {k \in Stored : contacts[k].groups \intersect gs # {}} \union
  {k \in Stored : contacts[k].extra # People!NoFields /\ \E g \in gs : groups[g].smart}
AtMost(n) == IF n > ExportLimit THEN ExportLimit ELSE n

\* An export goes on with what is there.
ExportsWhole(r) ==
  /\ r.op = "export_all_contacts" /\ r.at = "cut" => r.todo = Stored \X {"index"}
  /\ r.op = "export_all_contacts" /\ r.at = "load_rows" =>
       /\ r.todo \subseteq Stored \X {"index"} /\ r.rows = Cardinality(Stored)
       /\ Cardinality(r.todo) = AtMost(r.rows)
  /\ r.op = "export_groups" /\ r.at = "load_rows" => {m[1] : m \in r.todo} = MembersOf(r.stood)
  /\ r.at = "mail" =>
       /\ {m[1] : m \in r.made} \subseteq Stored
       /\ r.op = "export_all_contacts" =>
            r.rows = Cardinality(Stored) /\ Cardinality(r.made) = AtMost(r.rows)
       /\ r.op = "export_groups" => {m[1] : m \in r.made} = MembersOf(r.stood)

\* Whoever makes something has found that it is not there.
Missing(r) ==
  /\ r.at = "load_found" => r.todo = People!Indexed(r.sender)
  /\ r.at = "new_for_addr" => People!Indexed(r.sender) = {}
  /\ r.at = "new_group" => People!Named(r.value) = {}

\* What an import takes for the truth is in what it is about to save.
Keeps(before, later) ==
  /\ later.subscription = before.subscription
  /\ \A l \in Labels : before.extra[l] # Nothing => later.extra[l] = before.extra[l]
Truths(r) ==
  r.op = "existing_is_truth" /\ r.at \in {"reload", "save"} /\ contacts[r.key] # Nothing =>
    /\ Keeps(contacts[r.key], r.copy)
    /\ r.at = "save" => contacts[r.key].groups \subseteq r.copy.groups

InTurn(r) == Imports(r) /\ Saves(r) /\ Sweeps(r) /\ ExportsWhole(r) /\ Missing(r) /\ Truths(r)
Good(r) == HasFields(r) /\ Fits(r) /\ Skips(r) /\ (~together => InTurn(r))

Alone(j) == ~together => \A i \in Jobs : i # j => job[i] = People!Idle
JobsGood ==
  /\ job = [j \in Jobs |-> job[j]]
  /\ \A j \in Jobs : Good(job[j])
  /\ \A j \in Jobs : job[j] # People!Idle => Alone(j)

Books ==
  /\ undone \subseteq Keys /\ (~together => undone \subseteq used)
  /\ People!ImportAllOrNothing /\ People!NoDanglingGroups

PeopleIInv == DataOK /\ JobsGood /\ Books
-----------------------------------------------------------------------------
\* A job that does nothing is as it should be, whatever is stored.
LEMMA IdleGood == Good(People!Idle) /\ Good(People!Idle)'
<1>1. HasFields(People!Idle) /\ Fits(People!Idle)
  BY DEF HasFields, Fits, People!Idle, OpsOf, Exports, Merges
<1>2. Skips(People!Idle) /\ Skips(People!Idle)'
  BY DEF Skips, People!Idle
<1>3. InTurn(People!Idle) /\ InTurn(People!Idle)'
  BY DEF InTurn, Imports, Saves, Sweeps, ExportsWhole, Missing, Truths, People!Idle, Merges
<1> QED
  BY <1>1, <1>2, <1>3 DEF Good

\* A step of one job changes no other; in turn there is no other.
LEMMA StepInv ==
  ASSUME PeopleIInv, NEW j \in Jobs, Alone(j), together' = together, opt_outs \subseteq opt_outs',
         job' = [job EXCEPT ![j] = job'[j]], DataOK', Good(job[j])', Books'
  PROVE  PeopleIInv'
<1>1. \A i \in Jobs : i # j => job'[i] = job[i]
  BY DEF PeopleIInv, JobsGood
<1>2. job' = [i \in Jobs |-> job'[i]]
  BY DEF PeopleIInv, JobsGood
<1>3. ASSUME NEW i \in Jobs, i # j PROVE Good(job[i])'
  <2>1. CASE together
    <3>1. HasFields(job[i]) /\ Fits(job[i]) /\ Skips(job[i])
      BY DEF PeopleIInv, JobsGood, Good
    <3>2. Skips(job[i])'
      BY <3>1, <1>1, <1>3 DEF Skips
    <3>3. (HasFields(job[i]) /\ Fits(job[i]))'
      BY <3>1, <1>1, <1>3 DEF HasFields, Fits
    <3> QED
      BY <3>2, <3>3, <2>1 DEF Good
  <2>2. CASE ~together
    <3>1. job'[i] = People!Idle
      BY <2>2, <1>1, <1>3 DEF Alone
    <3>2. Good(job[i])' <=> Good(People!Idle)'
      BY <3>1 DEF Good, HasFields, Fits, Skips, InTurn, Imports, Saves, Sweeps, ExportsWhole, Missing, Truths
    <3> QED
      BY <3>2, IdleGood
  <2> QED
    BY <2>1, <2>2
<1>4. ASSUME NEW i \in Jobs, job'[i] # People!Idle PROVE Alone(i)'
  BY <1>1, <1>4 DEF Alone
<1> QED
  BY <1>2, <1>3, <1>4 DEF PeopleIInv, JobsGood

\* A step that changes a job only.
LEMMA MoveInv ==
  ASSUME PeopleIInv, NEW j \in Jobs, Alone(j), UNCHANGED <<People!data, together, undone>>, people_started' \in Nat,
         job' = [job EXCEPT ![j] = job'[j]], Good(job[j])'
  PROVE  PeopleIInv'
<1>1. DataOK'
  BY DEF PeopleIInv, DataOK, People!data
<1>2. Books'
  BY DEF PeopleIInv, Books, People!ImportAllOrNothing, People!NoDanglingGroups, People!Known, People!data
<1> QED
  BY <1>1, <1>2, StepInv DEF People!data

\* Who is at work, or may start, is alone if jobs run in turn.
LEMMA AtWork ==
  ASSUME PeopleIInv, NEW j \in Jobs
  PROVE  /\ Good(job[j]) /\ HasFields(job[j]) /\ Fits(job[j]) /\ Skips(job[j])
         /\ ~together => InTurn(job[j])
         /\ job[j].at # "idle" => Alone(j)
BY DEF PeopleIInv, JobsGood, Good, People!Idle

LEMMA Begins ==
  ASSUME PeopleIInv, NEW j \in Jobs, NEW op, People!MayStart(j, op)
  PROVE  Alone(j) /\ job[j] = People!Idle /\ people_started' \in Nat
BY DEF People!MayStart, Alone, PeopleIInv, DataOK

LEMMA EndInv ==
  ASSUME PeopleIInv, NEW j \in Jobs, Alone(j), People!Ends(j), UNCHANGED <<People!data, together, undone>>, people_started' \in Nat
  PROVE  PeopleIInv'
<1>1. job' = [job EXCEPT ![j] = People!Idle] /\ job'[j] = People!Idle
  BY DEF People!Ends, People!Becomes, PeopleIInv, JobsGood
<1>2. Good(job[j])'
  BY <1>1, IdleGood DEF Good, HasFields, Fits, Skips, InTurn, Imports, Saves, Sweeps, ExportsWhole, Missing, Truths
<1> QED
  BY <1>1, <1>2, MoveInv

LEMMA StartsInv ==
  ASSUME PeopleIInv, NEW j \in Jobs, NEW r, People!Starts(j, r), Good(r)'
  PROVE  PeopleIInv'
<1>1. Alone(j) /\ people_started' \in Nat
  BY Begins DEF People!Starts
<1>2. job' = [job EXCEPT ![j] = r] /\ job'[j] = r
  BY DEF People!Starts, People!Becomes, PeopleIInv, JobsGood
<1>3. Good(job[j])'
  BY <1>2 DEF Good, HasFields, Fits, Skips, InTurn, Imports, Saves, Sweeps, ExportsWhole, Missing, Truths
<1> QED
  BY <1>1, <1>2, <1>3, MoveInv DEF People!Starts

LEMMA Records ==
  /\ People!NoFields \in FieldsOf
  /\ \A l \in Labels, v \in Values : People!OneField(l, v) \in FieldsOf
  /\ \A a \in Given, step \in Nat, f \in {"msisdn", "gtalk_id"} :
       People!ContactAt(f, a, step) \in ContactRec /\ People!ContactAt(f, a, step).groups = {}
  /\ \A c \in ContactRec, x \in FieldsOf, gs \in SUBSET Groups :
       /\ [c EXCEPT !.groups = gs, !.extra = x] \in ContactRec
       /\ [c EXCEPT !.groups = gs, !.extra = x].groups = gs
  /\ \A d : People!Field(d) \in {"msisdn", "gtalk_id"}
  /\ \A s \in Senders : s.addr \in Given /\ People!NormalizeAddr(s.delivery, s.addr) \in Given
<1>1. People!NoFields \in FieldsOf
  BY DEF People!NoFields, FieldsOf
<1>2. \A l \in Labels, v \in Values : People!OneField(l, v) \in FieldsOf
  BY DEF People!OneField, People!NoFields, FieldsOf
<1>3. ASSUME NEW a \in Given, NEW step \in Nat, NEW f \in {"msisdn", "gtalk_id"}
      PROVE  People!ContactAt(f, a, step) \in ContactRec /\ People!ContactAt(f, a, step).groups = {}
  BY <1>1 DEF People!ContactAt, People!Blank, ContactRec
<1>4. ASSUME NEW c \in ContactRec, NEW x \in FieldsOf, NEW gs \in SUBSET Groups
      PROVE  /\ [c EXCEPT !.groups = gs, !.extra = x] \in ContactRec
             /\ [c EXCEPT !.groups = gs, !.extra = x].groups = gs
  BY DEF ContactRec
<1> QED
  BY <1>1, <1>2, <1>3, <1>4 DEF People!Field, Given

\* A contact that is saved is of no failed import and in groups that are there.
LEMMA WriteInv ==
  ASSUME PeopleIInv, NEW j \in Jobs, NEW k \in Keys, Alone(j), contacts' = [contacts EXCEPT ![k] = contacts'[k]],
         contacts'[k] \in ContactRec, used \subseteq used',
         ~together => k \notin undone /\ \A g \in contacts'[k].groups : People!Known(g),
         UNCHANGED <<groups, opt_outs, together, undone>>, people_started' \in Nat,
         job' = [job EXCEPT ![j] = job'[j]], Good(job[j])'
  PROVE  PeopleIInv'
<1>1. DataOK'
  BY DEF PeopleIInv, DataOK
<1>2. \A i \in Keys : i # k => contacts'[i] = contacts[i]
  BY DEF PeopleIInv, DataOK
<1>3. undone' \subseteq Keys /\ (~together' => undone' \subseteq used')
  BY DEF PeopleIInv, Books
<1>4. People!ImportAllOrNothing'
  BY <1>2 DEF PeopleIInv, Books, People!ImportAllOrNothing
<1>5. People!NoDanglingGroups'
  BY <1>2 DEF PeopleIInv, Books, People!NoDanglingGroups, People!Known
<1> QED
  BY <1>1, <1>3, <1>4, <1>5, StepInv DEF Books

\* A group that is saved takes none from its contacts.
LEMMA NewGroupInv ==
  ASSUME People!ContactsConstants, PeopleIInv, NEW j \in Jobs, NEW g \in Groups, NEW n \in GroupNames, NEW smart \in BOOLEAN, Alone(j),
         groups' = [groups EXCEPT ![g] = [name |-> n, smart |-> smart]], used \subseteq used',
         UNCHANGED <<contacts, opt_outs, together, undone>>, people_started' \in Nat,
         job' = [job EXCEPT ![j] = job'[j]], Good(job[j])'
  PROVE  PeopleIInv'
<1>1. [name |-> n, smart |-> smart] \in GroupRec /\ [name |-> n, smart |-> smart] # Nothing
  BY DEF GroupRec, People!ContactsConstants
<1>2. DataOK'
  BY <1>1 DEF PeopleIInv, DataOK
<1>3. \A h \in Groups : People!Known(h) => People!Known(h)'
  BY <1>1 DEF People!Known, PeopleIInv, DataOK
<1>5. People!NoDanglingGroups'
  <2> SUFFICES ASSUME ~together, NEW k \in Keys, contacts[k] # Nothing, NEW h \in contacts[k].groups
               PROVE  People!Known(h)'
    BY DEF People!NoDanglingGroups
  <2>1. h \in Groups
    BY DEF PeopleIInv, DataOK, ContactRec
  <2>2. People!Known(h)
    BY DEF PeopleIInv, Books, People!NoDanglingGroups
  <2> QED
    BY <2>1, <2>2, <1>3
<1> QED
  BY <1>2, <1>5, StepInv DEF Books, People!ImportAllOrNothing, PeopleIInv

LEMMA IdleIsGood ==
  ASSUME NEW j \in Jobs, job'[j] = People!Idle
  PROVE  Good(job[j])'
BY IdleGood DEF Good, HasFields, Fits, Skips, InTurn, Imports, Saves, Sweeps, ExportsWhole, Missing, Truths

\* In which a job starts that has nothing yet but what it was asked for.
LEMMA StartOneInv ==
  ASSUME People!ContactsConstants, PeopleIInv, NEW j \in Jobs, People!StartOne(j)
  PROVE  PeopleIInv'
<1>1. ASSUME NEW s \in Senders, NEW op \in People!LookUps, NEW l \in Labels, NEW v \in Values, People!StartLookUp(j, op, s, l, v)
      PROVE  PeopleIInv'
  <2> DEFINE r == [People!Idle EXCEPT !.op = op, !.at = "query", !.sender = s, !.label = l, !.value = v]
  <2>1. HasFields(r) /\ Fits(r)
    <3>1. HasFields(r)
      BY DEF HasFields, People!Idle
    <3>2. Fits(r)
      BY DEF Fits, People!Idle, OpsOf, People!LookUps, Exports, Merges
    <3> QED
      BY <3>1, <3>2
  <2>2. Skips(r)' /\ InTurn(r)'
    BY DEF Skips, InTurn, Imports, Saves, Sweeps, ExportsWhole, Missing, Truths, People!Idle, People!LookUps, Merges
  <2> QED
    BY <1>1, <2>1, <2>2, StartsInv DEF People!StartLookUp, Good
<1>2. ASSUME NEW op \in People!Edits, NEW k \in Keys, NEW l \in Labels, NEW v \in Values, NEW g \in Groups, People!Known(g),
             People!StartEdit(j, op, k, l, v, g)
      PROVE  PeopleIInv'
  <2> DEFINE r == [People!Idle EXCEPT !.op = op, !.at = "load", !.key = k, !.label = l, !.value = v, !.group = g]
  <2>1. HasFields(r) /\ Fits(r)
    <3>1. HasFields(r)
      BY DEF HasFields, People!Idle
    <3>2. Fits(r)
      BY DEF Fits, People!Idle, OpsOf, People!Edits, Exports, Merges
    <3> QED
      BY <3>1, <3>2
  <2>2. People!Known(g)'
    BY <1>2 DEF People!StartEdit, People!Starts, People!data, People!Known
  <2>3. Skips(r)' /\ InTurn(r)'
    BY <2>2 DEF Skips, InTurn, Imports, Saves, Sweeps, ExportsWhole, Missing, Truths, People!Idle, People!Edits, Merges
  <2> QED
    BY <1>2, <2>1, <2>3, StartsInv DEF People!StartEdit, Good
<1>3. ASSUME NEW n \in GroupNames, People!StartByName(j, n) PROVE PeopleIInv'
  <2> DEFINE r == [People!Idle EXCEPT !.op = "group_by_name", !.at = "search", !.value = n]
  <2>1. HasFields(r) /\ Fits(r)
    <3>1. HasFields(r)
      BY DEF HasFields, People!Idle
    <3>2. Fits(r)
      BY DEF Fits, People!Idle, OpsOf, Exports, Merges
    <3> QED
      BY <3>1, <3>2
  <2>2. Skips(r)' /\ InTurn(r)'
    BY DEF Skips, InTurn, Imports, Saves, Sweeps, ExportsWhole, Missing, Truths, People!Idle, Merges
  <2> QED
    BY <1>3, <2>1, <2>2, StartsInv DEF People!StartByName, Good
<1>4. ASSUME NEW op \in People!GroupJobs, NEW g \in Groups, NEW n \in GroupNames, People!StartOnGroup(j, op, g, n) PROVE PeopleIInv'
  <2> DEFINE r == [People!Idle EXCEPT !.op = op, !.at = "load_group", !.group = g, !.value = n, !.rows = MaxRows]
  <2>1. HasFields(r) /\ Fits(r)
    <3>1. HasFields(r)
      BY DEF HasFields, People!Idle
    <3>2. Fits(r)
      BY DEF Fits, People!Idle, OpsOf, People!GroupJobs, Exports, Merges
    <3> QED
      BY <3>1, <3>2
  <2>2. Skips(r)' /\ InTurn(r)'
    BY DEF Skips, InTurn, Imports, Saves, Sweeps, ExportsWhole, Missing, Truths, People!Idle, People!GroupJobs, Merges
  <2> QED
    BY <1>4, <2>1, <2>2, StartsInv DEF People!StartOnGroup, Good
<1>5. ASSUME NEW g \in Groups, People!ImportContacts(j, g) PROVE PeopleIInv'
  <2> DEFINE r == [People!Idle EXCEPT !.op = "import_new", !.at = "row", !.group = g, !.rows = MaxRows]
  <2>1. HasFields(r) /\ Fits(r)
    <3>1. HasFields(r)
      BY DEF HasFields, People!Idle
    <3>2. Fits(r)
      BY DEF Fits, People!Idle, OpsOf, Exports, Merges
    <3> QED
      BY <3>1, <3>2
  <2>2. People!Known(g)'
    BY <1>5 DEF People!ImportContacts, People!Starts, People!data, People!Known
  <2>3. Skips(r)' /\ InTurn(r)'
    BY <2>2 DEF Skips, InTurn, Imports, Saves, Sweeps, ExportsWhole, Missing, Truths, People!Idle, Merges
  <2> QED
    BY <1>5, <2>1, <2>3, StartsInv DEF People!ImportContacts, Good
<1>6. ASSUME NEW op \in Merges, NEW g \in Groups, People!Known(g), People!StartMerge(j, op, g) PROVE PeopleIInv'
  <2> DEFINE r == [People!Idle EXCEPT !.op = op, !.at = "row", !.group = g, !.rows = MaxRows]
  <2>1. HasFields(r) /\ Fits(r)
    <3>1. HasFields(r)
      BY DEF HasFields, People!Idle
    <3>2. Fits(r)
      BY DEF Fits, People!Idle, OpsOf, Exports, Merges
    <3> QED
      BY <3>1, <3>2
  <2>2. People!Known(g)'
    BY <1>6 DEF People!StartMerge, People!Starts, People!data, People!Known
  <2>3. Skips(r)' /\ InTurn(r)'
    BY <2>2 DEF Skips, InTurn, Imports, Saves, Sweeps, ExportsWhole, Missing, Truths, People!Idle, Merges
  <2> QED
    BY <1>6, <2>1, <2>3, StartsInv DEF People!StartMerge, Good
<1>7. ASSUME NEW some \in SUBSET Keys, People!StartExport(j, some) PROVE PeopleIInv'
  <2> DEFINE r == [People!Idle EXCEPT !.op = "export_contacts", !.at = "cut", !.todo = some \X {"form"}]
  <2>1. HasFields(r) /\ Fits(r)
    <3>1. HasFields(r)
      BY DEF HasFields, People!Idle
    <3>2. Fits(r)
      BY DEF Fits, People!Idle, OpsOf, Exports, Merges
    <3> QED
      BY <3>1, <3>2
  <2>2. Skips(r)' /\ InTurn(r)'
    BY DEF Skips, InTurn, Imports, Saves, Sweeps, ExportsWhole, Missing, Truths, People!Idle, Merges
  <2> QED
    BY <1>7, <2>1, <2>2, StartsInv DEF People!StartExport, Good
<1>8. ASSUME People!StartExportAll(j) PROVE PeopleIInv'
  <2> DEFINE r == [People!Idle EXCEPT !.op = "export_all_contacts", !.at = "all_keys"]
  <2>1. HasFields(r) /\ Fits(r)
    <3>1. HasFields(r)
      BY DEF HasFields, People!Idle
    <3>2. Fits(r)
      BY DEF Fits, People!Idle, OpsOf, Exports, Merges
    <3> QED
      BY <3>1, <3>2
  <2>2. Skips(r)' /\ InTurn(r)'
    BY DEF Skips, InTurn, Imports, Saves, Sweeps, ExportsWhole, Missing, Truths, People!Idle, Merges
  <2> QED
    BY <1>8, <2>1, <2>2, StartsInv DEF People!StartExportAll, Good
<1>9. ASSUME NEW gs \in SUBSET Groups, People!StartGroupExport(j, gs) PROVE PeopleIInv'
  <2> DEFINE r == [People!Idle EXCEPT !.op = "export_groups", !.at = "get_groups", !.stood = gs]
  <2>1. HasFields(r) /\ Fits(r)
    <3>1. HasFields(r)
      BY DEF HasFields, People!Idle
    <3>2. Fits(r)
      BY DEF Fits, People!Idle, OpsOf, Exports, Merges
    <3> QED
      BY <3>1, <3>2
  <2>2. Skips(r)' /\ InTurn(r)'
    BY DEF Skips, InTurn, Imports, Saves, Sweeps, ExportsWhole, Missing, Truths, People!Idle, Merges
  <2> QED
    BY <1>9, <2>1, <2>2, StartsInv DEF People!StartGroupExport, Good
<1>10. ASSUME NEW s \in Senders, NEW l \in Labels, NEW v \in Values, NEW g \in Groups, People!Known(g),
              People!NewContact(j, s, l, v, g)
       PROVE  PeopleIInv'
  <2>1. PICK k \in Keys \ used :
          /\ contacts' = [contacts EXCEPT ![k] =
               [People!ContactAt(People!Field(s.delivery), s.addr, people_started) EXCEPT !.groups = {g}, !.extra = People!OneField(l, v)]]
          /\ used' = used \union {k}
    BY <1>10 DEF People!NewContact
  <2>2. contacts'[k] = [People!ContactAt(People!Field(s.delivery), s.addr, people_started) EXCEPT !.groups = {g}, !.extra = People!OneField(l, v)]
    BY <2>1 DEF PeopleIInv, DataOK
  <2>3. people_started \in Nat /\ s.addr \in Given /\ People!Field(s.delivery) \in {"msisdn", "gtalk_id"}
    BY Records DEF PeopleIInv, DataOK
  <2>4. contacts'[k] \in ContactRec /\ contacts'[k].groups = {g}
    <3>1. PICK c \in ContactRec : c = People!ContactAt(People!Field(s.delivery), s.addr, people_started)
      BY <2>3, Records
    <3>2. PICK x \in FieldsOf : x = People!OneField(l, v)
      BY Records
    <3>3. contacts'[k] = [c EXCEPT !.groups = {g}, !.extra = x]
      BY <2>2, <3>1, <3>2
    <3> QED
      BY <3>3 DEF ContactRec
  <2>5. Alone(j) /\ job[j] = People!Idle /\ people_started' \in Nat
    BY <1>10, Begins DEF People!NewContact
  <2>6. job' = [job EXCEPT ![j] = job'[j]] /\ job'[j] = People!Idle
    BY <1>10, <2>5 DEF People!NewContact, PeopleIInv, JobsGood
  <2>7. Good(job[j])'
    BY <2>6, IdleIsGood
  <2>8. (~together => k \notin undone) /\ \A h \in contacts'[k].groups : People!Known(h)
    BY <1>10, <2>1, <2>4 DEF PeopleIInv, Books
  <2>9. UNCHANGED <<groups, opt_outs, together, undone>> /\ contacts' = [contacts EXCEPT ![k] = contacts'[k]]
    BY <1>10, <2>1, <2>2 DEF People!NewContact
  <2> QED
    BY <2>1, <2>4, <2>5, <2>6, <2>7, <2>8, <2>9, WriteInv
<1>11. ASSUME NEW n \in GroupNames, NEW smart \in BOOLEAN, People!NewGroup(j, n, smart) PROVE PeopleIInv'
  <2>1. PICK g \in Groups \ used : /\ groups' = [groups EXCEPT ![g] = [name |-> n, smart |-> smart]]
                                   /\ used' = used \union {g}
    BY <1>11 DEF People!NewGroup
  <2>2. Alone(j) /\ job[j] = People!Idle /\ people_started' \in Nat
    BY <1>11, Begins DEF People!NewGroup
  <2>3. job' = [job EXCEPT ![j] = job'[j]] /\ job'[j] = People!Idle
    BY <1>11, <2>2 DEF People!NewGroup, PeopleIInv, JobsGood
  <2>4. Good(job[j])'
    BY <2>3, IdleIsGood
  <2>5. UNCHANGED <<contacts, opt_outs, together, undone>>
    BY <1>11 DEF People!NewGroup
  <2> QED
    BY <2>1, <2>2, <2>3, <2>4, <2>5, NewGroupInv
<1>12. ASSUME NEW n \in GroupNames, People!ManageContactGroup(j, n) PROVE PeopleIInv'
  <2>1. ASSUME NEW g \in Groups, People!StartOnGroup(j, "delete_group", g, n) PROVE PeopleIInv'
    BY <1>4, <2>1 DEF People!GroupJobs
  <2> QED
    BY <1>11, <1>12, <2>1 DEF People!ManageContactGroup
<1> QED
  BY <1>1, <1>2, <1>3, <1>4, <1>5, <1>6, <1>7, <1>8, <1>9, <1>10, <1>11, <1>12 DEF People!StartOne, Merges

\* Opt-outs are recorded at once; who cancels one looks first.
LEMMA StartOptOutJobInv ==
  ASSUME People!ContactsConstants, PeopleIInv, NEW j \in Jobs, People!StartOptOutJob(j)
  PROVE  PeopleIInv'
<1>1. ASSUME NEW s \in Senders, People!ConsumeOptOut(j, s) \/ People!HandleOptOut(j, s) PROVE PeopleIInv'
  <2>1. People!MayStart(j, "opt_out") /\ opt_outs \subseteq opt_outs' /\ UNCHANGED <<contacts, groups, used, job, together, undone>>
    BY <1>1 DEF People!ConsumeOptOut, People!HandleOptOut, People!OptOut
  <2>2. Alone(j) /\ job[j] = People!Idle /\ people_started' \in Nat
    BY <2>1, Begins
  <2>3. job' = [job EXCEPT ![j] = job'[j]] /\ job'[j] = People!Idle
    BY <2>1, <2>2 DEF PeopleIInv, JobsGood
  <2>4. Good(job[j])'
    BY <2>3, IdleIsGood
  <2>5. DataOK' /\ Books'
    BY <2>1, <2>2 DEF PeopleIInv, DataOK, Books, People!ImportAllOrNothing, People!NoDanglingGroups, People!Known
  <2> QED
    BY <2>1, <2>2, <2>3, <2>4, <2>5, StepInv
<1>2. ASSUME NEW e, People!StartCancel(j, e[1], e[2]) PROVE PeopleIInv'
  <2> DEFINE r == [People!Idle EXCEPT !.op = "cancel", !.at = "look", !.value = <<e[1], e[2]>>]
  <2>1. HasFields(r)
    BY DEF HasFields, People!Idle
  <2>2. Fits(r)
    BY DEF Fits, People!Idle, OpsOf, Exports, Merges
  <2>3. Skips(r)' /\ InTurn(r)'
    BY DEF Skips, InTurn, Imports, Saves, Sweeps, ExportsWhole, Missing, Truths, People!Idle, Merges
  <2> QED
    BY <1>2, <2>1, <2>2, <2>3, StartsInv DEF People!StartCancel, Good
<1>3. ASSUME NEW d \in {"sms", "gtalk"}, NEW g \in Groups, People!StartBunches(j, d, g) PROVE PeopleIInv'
  <2>1. PICK o : o = opt_outs
    OBVIOUS
  <2> DEFINE r == [People!Idle EXCEPT !.op = "bunches", !.at = "gather", !.group = g, !.value = d, !.stood = o]
  <2>2. HasFields(r)
    BY DEF HasFields, People!Idle
  <2>3. Fits(r)
    BY DEF Fits, People!Idle, OpsOf, Exports, Merges
  <2>4. People!Starts(j, r) /\ opt_outs' = opt_outs
    BY <1>3, <2>1 DEF People!StartBunches, People!Starts, People!data
  <2>5. Skips(r)' /\ InTurn(r)'
    BY <2>1, <2>4 DEF Skips, InTurn, Imports, Saves, Sweeps, ExportsWhole, Missing, Truths, People!Idle, Merges
  <2> QED
    BY <2>2, <2>3, <2>4, <2>5, StartsInv DEF Good
<1> QED
  BY <1>1, <1>2, <1>3 DEF People!StartOptOutJob

-----------------------------------------------------------------------------
\* A step of a job that changes nothing but the job.
LEMMA OnlyMoves ==
  ASSUME PeopleIInv, NEW j \in Jobs, Alone(j), UNCHANGED <<People!data, together, people_started, undone>>,
         job' = [job EXCEPT ![j] = job'[j]],
         (HasFields(job[j]) /\ Fits(job[j]) /\ Skips(job[j]))', ~together => InTurn(job[j])'
  PROVE  PeopleIInv'
<1>1. people_started' \in Nat /\ Good(job[j])'
  BY DEF PeopleIInv, DataOK, Good
<1> QED
  BY <1>1, MoveInv

LEMMA OnlyEnds ==
  ASSUME PeopleIInv, NEW j \in Jobs, Alone(j), People!Ends(j), UNCHANGED <<People!data, together, people_started, undone>>
  PROVE  PeopleIInv'
BY EndInv DEF PeopleIInv, DataOK

\* What a step does to its job.
LEMMA Becoming ==
  ASSUME PeopleIInv, NEW j \in Jobs
  PROVE  /\ \A r : People!Becomes(j, r) => job'[j] = r /\ job' = [job EXCEPT ![j] = job'[j]]
         /\ \A step : People!Moves(j, step) => job'[j] = [job[j] EXCEPT !.at = step] /\ job' = [job EXCEPT ![j] = job'[j]]
         /\ People!Ends(j) => job'[j] = People!Idle /\ job' = [job EXCEPT ![j] = job'[j]]
BY DEF People!Becomes, People!Moves, People!Ends, PeopleIInv, JobsGood

LEMMA Sent ==
  ASSUME PeopleIInv
  PROVE  /\ \A k \in Keys : contacts[k] # Nothing => contacts[k] \in ContactRec
         /\ \A g \in Groups : People!Known(g) => groups[g] \in GroupRec
BY DEF PeopleIInv, DataOK, People!Known

\* A contact that is gone is in no group, and of a failed import at most.
LEMMA DeletesKeep ==
  ASSUME PeopleIInv, NEW k, contacts' = [contacts EXCEPT ![k] = Nothing],
         UNCHANGED <<groups, used, together, undone>>, people_started' = people_started
  PROVE  DataOK' /\ Books'
<1>1. DataOK'
  BY DEF PeopleIInv, DataOK
<1>2. \A i \in Keys : contacts'[i] # Nothing => contacts'[i] = contacts[i]
  BY DEF PeopleIInv, DataOK
<1>3. People!ImportAllOrNothing'
  BY <1>2 DEF PeopleIInv, Books, People!ImportAllOrNothing
<1>4. People!NoDanglingGroups'
  BY <1>2 DEF PeopleIInv, Books, People!NoDanglingGroups, People!Known
<1> QED
  BY <1>1, <1>3, <1>4 DEF PeopleIInv, Books, People!Known

\* What is written into a contact keeps it one, in the same groups.
LEMMA AnswersAre ==
  ASSUME NEW r, NEW c \in ContactRec, r.label \in Labels, r.value \in Values
  PROVE  People!Answered(r, c) \in ContactRec /\ People!Answered(r, c).groups = c.groups
<1>1. [l \in Labels |-> IF l = r.label THEN r.value ELSE Nothing] \in FieldsOf
  BY DEF FieldsOf
<1>2. [c.subscription EXCEPT ![r.label] = r.value] \in FieldsOf
  BY DEF ContactRec, FieldsOf
<1> QED
  BY <1>1, <1>2 DEF People!Answered, People!Subscribed, People!Surveyed, ContactRec

LEMMA LookUpInv ==
  ASSUME People!ContactsConstants, PeopleIInv, NEW j \in Jobs, People!LookUpSteps(j)
  PROVE  PeopleIInv'
<1>w. Good(job[j]) /\ HasFields(job[j]) /\ Fits(job[j]) /\ (~together => InTurn(job[j]))
  BY AtWork
<1>1. ASSUME People!QueryIndex(j) PROVE PeopleIInv'
  <2>1. job[j].at = "query" /\ UNCHANGED <<People!data, together, people_started, undone>>
    BY <1>1 DEF People!QueryIndex
  <2>2. Alone(j) /\ job[j].op \in People!LookUps
    BY <2>1, <1>w, AtWork DEF Fits, OpsOf
  <2>3. CASE People!Ends(j)
    BY <2>1, <2>2, <2>3, OnlyEnds
  <2>4. CASE /\ People!Supported(job[j].sender.delivery)
             /\ People!Becomes(j, [job[j] EXCEPT !.todo = People!Indexed(job[j].sender), !.at = "load_found"])
    <3>1. job'[j] = [job[j] EXCEPT !.todo = People!Indexed(job[j].sender), !.at = "load_found"]
      BY <2>4, Becoming
    <3>2. HasFields(job[j])'
      BY <3>1, <1>w DEF HasFields
    <3>3. People!Indexed(job[j].sender) \subseteq Keys
      BY DEF People!Indexed
    <3>4. Fits(job[j])' /\ Skips(job[j])'
      BY <3>1, <3>3, <2>1, <2>2, <2>4, <1>w DEF Fits, HasFields, OpsOf, Skips, People!LookUps, Exports, Merges
    <3>5. People!Indexed(job[j].sender)' = People!Indexed(job[j].sender)
      BY <3>1, <2>1, <1>w DEF People!Indexed, People!data, HasFields
    <3>6. InTurn(job[j])'
      BY <3>1, <3>5, <2>2, <1>w DEF InTurn, Imports, Saves, Sweeps, ExportsWhole, Missing, Truths, HasFields, People!LookUps, Merges
    <3> QED
      BY <3>2, <3>4, <3>6, <2>1, <2>2, <2>4, Becoming, OnlyMoves
  <2> QED
    BY <1>1, <2>3, <2>4 DEF People!QueryIndex
<1>2. ASSUME People!LoadFound(j) PROVE PeopleIInv'
  <2>1. job[j].at = "load_found" /\ UNCHANGED <<People!data, together, people_started, undone>>
    BY <1>2 DEF People!LoadFound
  <2>2. Alone(j) /\ job[j].op \in People!LookUps /\ job[j].todo \subseteq Keys /\ job[j].label \in Labels /\ job[j].value \in Values
    BY <2>1, <1>w, AtWork DEF Fits, OpsOf
  <2>3. CASE People!Ends(j)
    BY <2>1, <2>2, <2>3, OnlyEnds
  <2>4. ASSUME NEW k \in Keys, contacts[k] # Nothing, job[j].op \in {"subscribe", "end_survey"},
               People!Becomes(j, People!Holding(job[j], k, People!Answered(job[j], contacts[k]), "save"))
        PROVE  PeopleIInv'
    <3>1. job'[j] = [job[j] EXCEPT !.key = k, !.copy = People!Answered(job[j], contacts[k]), !.at = "save"]
      BY <2>4, Becoming DEF People!Holding
    <3>2. HasFields(job[j])'
      BY <3>1, <1>w DEF HasFields
    <3>3. People!Answered(job[j], contacts[k]) \in ContactRec /\ People!Answered(job[j], contacts[k]).groups = contacts[k].groups
      BY <2>2, <2>4, AnswersAre, Sent
    <3>4. Fits(job[j])' /\ Skips(job[j])'
      BY <3>1, <3>3, <2>1, <2>2, <2>4, <1>w DEF Fits, HasFields, OpsOf, Skips, People!LookUps, Exports, Merges, Saving
    <3>5. ~together => k \notin undone /\ \A g \in contacts[k].groups : People!Known(g)
      BY <2>4 DEF PeopleIInv, Books, People!ImportAllOrNothing, People!NoDanglingGroups
    <3>6. Saves(job[j])' \/ together
      BY <3>1, <3>3, <3>5, <2>1, <2>2, <2>4, <1>w DEF Saves, HasFields, People!data, People!Known, Merges
    <3>7. ~together => InTurn(job[j])'
      BY <3>1, <3>6, <2>4, <1>w DEF InTurn, Imports, Sweeps, ExportsWhole, Missing, Truths, HasFields, Merges
    <3> QED
      BY <3>2, <3>4, <3>7, <2>1, <2>2, <2>4, Becoming, OnlyMoves
  <2> QED
    BY <1>2, <2>2, <2>3, <2>4 DEF People!LoadFound, People!Newest
<1>3. ASSUME People!LoadNone(j) PROVE PeopleIInv'
  <2>1. /\ job[j].at = "load_found" /\ UNCHANGED <<contacts, groups, opt_outs, together, people_started, undone>>
        /\ \A k \in job[j].todo : contacts[k] = Nothing
    BY <1>3 DEF People!LoadNone
  <2>2. /\ Alone(j) /\ job[j].op \in People!LookUps /\ job[j].todo \subseteq Keys /\ job[j].label \in Labels
        /\ job[j].value \in Values /\ job[j].sender \in Senders /\ People!Supported(job[j].sender.delivery)
    BY <2>1, <1>w, AtWork DEF Fits, OpsOf
  <2>3. CASE People!Ends(j) /\ UNCHANGED used
    BY <2>1, <2>2, <2>3, OnlyEnds DEF People!data
  <2>4. CASE job[j].op = "get_or_create" /\ People!Moves(j, "new_for_addr") /\ UNCHANGED used
    <3>1. job'[j] = [job[j] EXCEPT !.at = "new_for_addr"]
      BY <2>4, Becoming
    <3>2. HasFields(job[j])'
      BY <3>1, <1>w DEF HasFields
    <3>4. Fits(job[j])' /\ Skips(job[j])'
      BY <3>1, <2>1, <2>2, <2>4, <1>w DEF Fits, HasFields, OpsOf, Skips, Exports, Merges
    <3>5. ~together => People!Indexed(job[j].sender) = {}
      BY <2>1, <1>w DEF InTurn, Missing, People!Indexed
    <3>6. People!Indexed(job[j].sender)' = People!Indexed(job[j].sender)
      BY <3>1, <2>1, <1>w DEF People!Indexed, HasFields
    <3>7. ~together => InTurn(job[j])'
      BY <3>1, <3>5, <3>6, <2>4, <1>w DEF InTurn, Imports, Saves, Sweeps, ExportsWhole, Missing, Truths, HasFields, Merges
    <3> QED
      BY <3>2, <3>4, <3>7, <2>1, <2>2, <2>4, Becoming, OnlyMoves DEF People!data
  <2>5. ASSUME NEW k \in Keys \ used, job[j].op \in {"subscribe", "end_survey"}, used' = used \union {k},
               People!Becomes(j, People!Holding(job[j], k, People!Answered(job[j], People!ContactAt(People!Field(job[j].sender.delivery),
                     People!NormalizeAddr(job[j].sender.delivery, job[j].sender.addr), people_started)), "save"))
        PROVE  PeopleIInv'
    <3> DEFINE fresh == People!ContactAt(People!Field(job[j].sender.delivery),
                        People!NormalizeAddr(job[j].sender.delivery, job[j].sender.addr), people_started)
    <3>1. job'[j] = [job[j] EXCEPT !.key = k, !.copy = People!Answered(job[j], fresh), !.at = "save"]
      BY <2>5, Becoming DEF People!Holding
    <3>2. HasFields(job[j])'
      BY <3>1, <1>w DEF HasFields
    <3>3. fresh \in ContactRec /\ fresh.groups = {}
      BY <2>2, Records DEF PeopleIInv, DataOK
    <3> HIDE DEF fresh
    <3>4. People!Answered(job[j], fresh) \in ContactRec /\ People!Answered(job[j], fresh).groups = {}
      BY <2>2, <3>3, AnswersAre
    <3>5. Fits(job[j])' /\ Skips(job[j])'
      BY <3>1, <3>4, <2>1, <2>2, <2>5, <1>w DEF Fits, HasFields, OpsOf, Skips, People!LookUps, Exports, Merges, Saving
    <3>6. ~together => k \notin undone
      BY <2>5 DEF PeopleIInv, Books
    <3>7. ~together => InTurn(job[j])'
      BY <3>1, <3>4, <3>6, <2>1, <2>5, <1>w DEF InTurn, Imports, Saves, Sweeps, ExportsWhole, Missing, Truths, HasFields, Merges
    <3>8. DataOK' /\ Books'
      BY <2>1, <2>5 DEF PeopleIInv, DataOK, Books, People!ImportAllOrNothing, People!NoDanglingGroups, People!Known
    <3>9. Good(job[j])' /\ job' = [job EXCEPT ![j] = job'[j]]
      BY <3>2, <3>5, <3>7, <2>1, <2>5, Becoming DEF Good
    <3> QED
      BY <3>8, <3>9, <2>1, <2>2, StepInv
  <2> QED
    BY <1>3, <2>3, <2>4, <2>5 DEF People!LoadNone
<1>4. ASSUME People!NewContactForAddr(j) PROVE PeopleIInv'
  <2>1. /\ job[j].at = "new_for_addr" /\ People!Ends(j) /\ UNCHANGED <<groups, opt_outs, together, people_started, undone>>
    BY <1>4 DEF People!NewContactForAddr
  <2>2. Alone(j) /\ job[j].sender \in Senders
    BY <2>1, <1>w, AtWork DEF Fits, OpsOf
  <2>3. PICK k \in Keys \ used : contacts' = [contacts EXCEPT ![k] = People!ContactForAddr(job[j].sender)] /\ used' = used \union {k}
    BY <1>4 DEF People!NewContactForAddr
  <2>4. People!ContactForAddr(job[j].sender) \in ContactRec /\ People!ContactForAddr(job[j].sender).groups = {}
    BY <2>2, Records DEF People!ContactForAddr, PeopleIInv, DataOK
  <2>5. contacts'[k] = People!ContactForAddr(job[j].sender) /\ contacts' = [contacts EXCEPT ![k] = contacts'[k]]
    BY <2>3 DEF PeopleIInv, DataOK
  <2>6. Good(job[j])' /\ job' = [job EXCEPT ![j] = job'[j]]
    BY <2>1, Becoming, IdleIsGood
  <2>7. (~together => k \notin undone) /\ people_started' \in Nat
    BY <2>1, <2>3 DEF PeopleIInv, Books, DataOK
  <2> QED
    BY <2>1, <2>2, <2>3, <2>4, <2>5, <2>6, <2>7, WriteInv
<1> QED
  BY <1>1, <1>2, <1>3, <1>4 DEF People!LookUpSteps

\* What commands and forms make of a contact is one, in its groups and that of the job at most.
LEMMA EditsAre ==
  ASSUME NEW r, NEW c \in ContactRec, r.label \in Labels, r.value \in Values, r.group \in Groups, people_started \in Nat
  PROVE  People!Edited(r, c) \in ContactRec /\ People!Edited(r, c).groups \subseteq c.groups \union {r.group}
<1>1. People!OneField(r.label, r.value) \in FieldsOf /\ People!NoFields \in FieldsOf
  BY Records
<1>2. [c.extra EXCEPT ![r.label] = r.value] \in FieldsOf /\ [c.subscription EXCEPT ![r.label] = r.value] \in FieldsOf
  BY DEF ContactRec, FieldsOf
<1>3. c.groups \union {r.group} \in SUBSET Groups /\ c.groups \ {r.group} \in SUBSET Groups /\ {r.group} \in SUBSET Groups
  BY DEF ContactRec
<1>4. People!Updated(r, c) \in ContactRec /\ People!Updated(r, c).groups \subseteq c.groups \union {r.group}
  BY <1>1, <1>3 DEF People!Updated, ContactRec
<1>5. People!WithExtra(r, c) \in ContactRec /\ People!WithExtra(r, c).groups \subseteq c.groups \union {r.group}
  BY <1>2 DEF People!WithExtra, ContactRec
<1>6. People!WithSubscription(r, c) \in ContactRec /\ People!WithSubscription(r, c).groups \subseteq c.groups \union {r.group}
  BY <1>2 DEF People!WithSubscription, ContactRec
<1>7. People!Replaced(r, c) \in ContactRec /\ People!Replaced(r, c).groups \subseteq c.groups \union {r.group}
  BY <1>1, <1>3 DEF People!Replaced, ContactRec
<1>8. People!InGroupsOfForm(r, c) \in ContactRec /\ People!InGroupsOfForm(r, c).groups \subseteq c.groups \union {r.group}
  BY <1>3 DEF People!InGroupsOfForm, ContactRec
<1>9. People!OutOfGroup(r, c) \in ContactRec /\ People!OutOfGroup(r, c).groups \subseteq c.groups \union {r.group}
  BY <1>3 DEF People!OutOfGroup, ContactRec
<1> QED
  BY <1>4, <1>5, <1>6, <1>7, <1>8, <1>9 DEF People!Edited

LEMMA ContactInv ==
  ASSUME People!ContactsConstants, PeopleIInv, NEW j \in Jobs, People!ContactSteps(j)
  PROVE  PeopleIInv'
<1>w. Good(job[j]) /\ HasFields(job[j]) /\ Fits(job[j]) /\ (~together => InTurn(job[j]))
  BY AtWork
<1>1. ASSUME People!LoadContact(j) PROVE PeopleIInv'
  <2>1. job[j].at = "load" /\ UNCHANGED <<People!data, together, people_started, undone>>
    BY <1>1 DEF People!LoadContact
  <2>2. /\ Alone(j) /\ job[j].op \in People!Edits /\ job[j].key \in Keys /\ job[j].label \in Labels /\ job[j].value \in Values
        /\ job[j].group \in Groups /\ people_started \in Nat
    BY <2>1, <1>w, AtWork DEF Fits, OpsOf, PeopleIInv, DataOK
  <2>3. CASE People!Ends(j)
    BY <2>1, <2>2, <2>3, OnlyEnds
  <2>4. CASE /\ contacts[job[j].key] # Nothing /\ job[j].op # "get_by_key"
             /\ People!Becomes(j, [job[j] EXCEPT !.copy = People!Edited(job[j], contacts[job[j].key]),
                                          !.at = IF job[j].op = "delete" THEN "delete" ELSE "save"])
    <3>1. job'[j] = [job[j] EXCEPT !.copy = People!Edited(job[j], contacts[job[j].key]),
                                   !.at = IF job[j].op = "delete" THEN "delete" ELSE "save"]
      BY <2>4, Becoming
    <3>2. HasFields(job[j])'
      BY <3>1, <1>w DEF HasFields
    <3>3. /\ People!Edited(job[j], contacts[job[j].key]) \in ContactRec
          /\ People!Edited(job[j], contacts[job[j].key]).groups \subseteq contacts[job[j].key].groups \union {job[j].group}
      BY <2>2, <2>4, EditsAre, Sent
    <3>4. Fits(job[j])' /\ Skips(job[j])'
      BY <3>1, <3>3, <2>1, <2>2, <2>4, <1>w DEF Fits, HasFields, OpsOf, Skips, People!Edits, Exports, Merges, Saving
    <3>5. ~together => job[j].key \notin undone /\ \A g \in contacts[job[j].key].groups \union {job[j].group} : People!Known(g)
      BY <2>1, <2>2, <2>4, <1>w DEF PeopleIInv, Books, People!ImportAllOrNothing, People!NoDanglingGroups, InTurn, Saves
    <3>6. Saves(job[j])' \/ together
      <4>1. \A g : People!Known(g) => People!Known(g)'
        BY <2>1 DEF People!Known, People!data
      <4> QED
        BY <4>1, <3>1, <3>3, <3>5, <2>1, <2>2, <2>4, <1>w DEF Saves, HasFields, Merges, People!Edits
    <3>7. ~together => InTurn(job[j])'
      BY <3>1, <3>6, <2>2, <1>w DEF InTurn, Imports, Sweeps, ExportsWhole, Missing, Truths, HasFields, Merges, People!Edits
    <3> QED
      BY <3>2, <3>4, <3>7, <2>1, <2>2, <2>4, Becoming, OnlyMoves
  <2> QED
    BY <1>1, <2>3, <2>4 DEF People!LoadContact
<1>2. ASSUME People!SaveContact(j) PROVE PeopleIInv'
  <2>1. /\ job[j].at = "save" /\ UNCHANGED <<groups, opt_outs, used, together, people_started, undone>>
        /\ contacts' = [contacts EXCEPT ![job[j].key] = job[j].copy]
    BY <1>2 DEF People!SaveContact
  <2>2. Alone(j) /\ job[j].op \in Saving /\ job[j].key \in Keys /\ job[j].copy \in ContactRec
    BY <2>1, <1>w, AtWork DEF Fits, OpsOf
  <2>3. PICK k \in Keys : k = job[j].key
    BY <2>2
  <2>4. contacts'[k] = job[j].copy /\ \A i \in Keys : i # k => contacts'[i] = contacts[i]
    BY <2>1, <2>3 DEF PeopleIInv, DataOK
  <2>5. contacts' = [contacts EXCEPT ![k] = contacts'[k]]
    BY <2>1, <2>3, <2>4
  <2>6. ~together => k \notin undone /\ \A g \in contacts'[k].groups : People!Known(g)
    BY <2>1, <2>3, <2>4, <1>w DEF InTurn, Saves
  <2>7. Good(job[j])' /\ job' = [job EXCEPT ![j] = job'[j]]
    <3>1. CASE People!Ends(j)
      BY <3>1, Becoming, IdleIsGood
    <3>2. CASE People!Moves(j, People!AfterSave(job[j].op)) /\ People!AfterSave(job[j].op) # "idle"
      <4>1. job'[j] = [job[j] EXCEPT !.at = People!AfterSave(job[j].op)] /\ job' = [job EXCEPT ![j] = job'[j]]
        BY <3>2, Becoming
      <4>2. \/ job[j].op = "delete_group" /\ People!AfterSave(job[j].op) = "sweep"
            \/ job[j].op \in Merges /\ People!AfterSave(job[j].op) = "row"
        BY <3>2 DEF People!AfterSave, Merges
      <4>3. HasFields(job[j])'
        BY <4>1, <1>w DEF HasFields
      <4>4. Fits(job[j])' /\ Skips(job[j])'
        BY <4>1, <4>2, <2>1, <2>2, <1>w DEF Fits, HasFields, OpsOf, Skips, Exports, Merges
      <4>5. ~together => Sweeps(job[j])'
        BY <4>1, <4>2, <2>1, <2>3, <2>4, <1>w DEF InTurn, Sweeps, HasFields
      <4>6. ~together => Saves(job[j])'
        BY <4>1, <4>2, <2>1, <1>w DEF InTurn, Saves, HasFields, People!Known, Merges
      <4>7. ~together => InTurn(job[j])'
        BY <4>1, <4>2, <4>5, <4>6, <1>w DEF InTurn, Imports, ExportsWhole, Missing, Truths, HasFields, Merges
      <4> QED
        BY <4>1, <4>3, <4>4, <4>7, <2>1 DEF Good
    <3> QED
      BY <1>2, <3>1, <3>2 DEF People!SaveContact
  <2>8. people_started' \in Nat /\ used \subseteq used'
    BY <2>1 DEF PeopleIInv, DataOK
  <2> QED
    BY <2>1, <2>2, <2>4, <2>5, <2>6, <2>7, <2>8, WriteInv
<1>3. ASSUME People!DeleteContact(j) PROVE PeopleIInv'
  <2>1. /\ job[j].at = "delete" /\ UNCHANGED <<groups, opt_outs, used, together, people_started, undone>>
        /\ contacts' = [contacts EXCEPT ![job[j].key] = Nothing]
    BY <1>3 DEF People!DeleteContact
  <2>2. Alone(j) /\ job[j].op \in {"delete", "delete_group_contacts"}
    BY <2>1, <1>w, AtWork DEF Fits, OpsOf
  <2>3. DataOK' /\ Books'
    BY <2>1, DeletesKeep
  <2>4. Good(job[j])' /\ job' = [job EXCEPT ![j] = job'[j]]
    <3>1. CASE People!Ends(j)
      BY <3>1, Becoming, IdleIsGood
    <3>2. CASE People!Moves(j, "purge") /\ job[j].op # "delete"
      <4>1. job'[j] = [job[j] EXCEPT !.at = "purge"] /\ job' = [job EXCEPT ![j] = job'[j]]
        BY <3>2, Becoming
      <4>2. HasFields(job[j])'
        BY <4>1, <1>w DEF HasFields
      <4>3. Fits(job[j])' /\ Skips(job[j])'
        BY <4>1, <3>2, <2>1, <2>2, <1>w DEF Fits, HasFields, OpsOf, Skips, Exports, Merges
      <4>4. InTurn(job[j])'
        BY <4>1, <3>2, <2>2, <1>w DEF InTurn, Imports, Saves, Sweeps, ExportsWhole, Missing, Truths, HasFields, Merges
      <4> QED
        BY <4>1, <4>2, <4>3, <4>4 DEF Good
    <3> QED
      BY <1>3, <3>1, <3>2 DEF People!DeleteContact
  <2> QED
    BY <2>1, <2>2, <2>3, <2>4, StepInv
<1> QED
  BY <1>1, <1>2, <1>3 DEF People!ContactSteps

LEMMA GroupInv ==
  ASSUME People!ContactsConstants, PeopleIInv, NEW j \in Jobs, People!GroupSteps(j)
  PROVE  PeopleIInv'
<1>w. Good(job[j]) /\ HasFields(job[j]) /\ Fits(job[j]) /\ (~together => InTurn(job[j]))
  BY AtWork
<1>1. ASSUME People!SearchByName(j) PROVE PeopleIInv'
  <2>1. job[j].at = "search" /\ UNCHANGED <<People!data, together, people_started, undone>>
    BY <1>1 DEF People!SearchByName
  <2>2. Alone(j) /\ job[j].op = "group_by_name" /\ job[j].value \in GroupNames
    BY <2>1, <1>w, AtWork DEF Fits, OpsOf
  <2>3. CASE People!Ends(j)
    BY <2>1, <2>2, <2>3, OnlyEnds
  <2>4. CASE People!Named(job[j].value) = {} /\ People!Moves(j, "new_group")
    <3>1. job'[j] = [job[j] EXCEPT !.at = "new_group"]
      BY <2>4, Becoming
    <3>2. HasFields(job[j])'
      BY <3>1, <1>w DEF HasFields
    <3>3. Fits(job[j])' /\ Skips(job[j])'
      BY <3>1, <2>1, <2>2, <1>w DEF Fits, HasFields, OpsOf, Skips, Exports, Merges
    <3>4. People!Named(job[j].value)' = {}
      BY <3>1, <2>1, <2>4, <1>w DEF People!Named, People!Known, People!data, HasFields
    <3>5. InTurn(job[j])'
      BY <3>1, <3>4, <2>2, <1>w DEF InTurn, Imports, Saves, Sweeps, ExportsWhole, Missing, Truths, HasFields, Merges
    <3> QED
      BY <3>2, <3>3, <3>5, <2>1, <2>2, <2>4, Becoming, OnlyMoves
  <2> QED
    BY <1>1, <2>3, <2>4 DEF People!SearchByName
<1>2. ASSUME People!NewGroupByName(j) PROVE PeopleIInv'
  <2>1. job[j].at = "new_group" /\ People!Ends(j) /\ UNCHANGED <<contacts, opt_outs, together, people_started, undone>>
    BY <1>2 DEF People!NewGroupByName
  <2>2. Alone(j) /\ job[j].value \in GroupNames
    BY <2>1, <1>w, AtWork DEF Fits, OpsOf
  <2>3. PICK n \in GroupNames : n = job[j].value
    BY <2>2
  <2>4. PICK g \in Groups : groups' = [groups EXCEPT ![g] = [name |-> n, smart |-> FALSE]] /\ used \subseteq used'
    BY <1>2, <2>3 DEF People!NewGroupByName
  <2>5. Good(job[j])' /\ job' = [job EXCEPT ![j] = job'[j]] /\ people_started' \in Nat
    BY <2>1, Becoming, IdleIsGood DEF PeopleIInv, DataOK
  <2> QED
    BY <2>1, <2>2, <2>4, <2>5, NewGroupInv
<1>3. ASSUME People!LoadGroup(j) PROVE PeopleIInv'
  <2>1. job[j].at = "load_group" /\ UNCHANGED <<People!data, together, people_started, undone>>
    BY <1>3 DEF People!LoadGroup
  <2>2. Alone(j) /\ job[j].op \in People!GroupJobs /\ job[j].group \in Groups /\ job[j].value \in GroupNames
    BY <2>1, <1>w, AtWork DEF Fits, OpsOf
  <2>3. CASE People!Ends(j)
    BY <2>1, <2>2, <2>3, OnlyEnds
  <2>4. CASE job[j].op = "import_new" /\ People!Moves(j, "clean_up")
    <3>1. job'[j] = [job[j] EXCEPT !.at = "clean_up"]
      BY <2>4, Becoming
    <3>2. HasFields(job[j])'
      BY <3>1, <1>w DEF HasFields
    <3>3. Fits(job[j])' /\ Skips(job[j])'
      BY <3>1, <2>1, <2>4, <1>w DEF Fits, HasFields, OpsOf, Skips, Exports, Merges
    <3>4. ~together => InTurn(job[j])'
      BY <3>1, <2>1, <2>4, <1>w DEF InTurn, Imports, Saves, Sweeps, ExportsWhole, Missing, Truths, HasFields, Merges, People!data
    <3> QED
      BY <3>2, <3>3, <3>4, <2>1, <2>2, <2>4, Becoming, OnlyMoves
  <2>5. ASSUME NEW step, People!Known(job[j].group), People!Becomes(j, [job[j] EXCEPT !.copy = groups[job[j].group], !.at = step]),
               \/ job[j].op = "edit_group" /\ step = "save_group"
               \/ job[j].op = "delete_group" /\ step = "members"
               \/ job[j].op = "delete_group_contacts" /\ step = "pages"
               \/ job[j].op = "import_new" /\ step = "row"
        PROVE  PeopleIInv'
    <3>1. job'[j] = [job[j] EXCEPT !.copy = groups[job[j].group], !.at = step]
      BY <2>5, Becoming
    <3>2. HasFields(job[j])'
      BY <3>1, <1>w DEF HasFields
    <3>3. Fits(job[j])' /\ Skips(job[j])'
      BY <3>1, <2>1, <2>2, <2>5, <1>w DEF Fits, HasFields, OpsOf, Skips, Exports, Merges
    <3>4. People!Known(job[j].group)'
      BY <3>1, <2>1, <2>5, <1>w DEF People!Known, People!data, HasFields
    <3>5. ~together => InTurn(job[j])'
      BY <3>1, <3>4, <2>1, <2>5, <1>w DEF InTurn, Imports, Saves, Sweeps, ExportsWhole, Missing, Truths, HasFields, Merges, People!data
    <3> QED
      BY <3>2, <3>3, <3>5, <2>1, <2>2, <2>5, Becoming, OnlyMoves
  <2> QED
    BY <1>3, <2>2, <2>3, <2>4, <2>5 DEF People!LoadGroup, People!GroupJobs
<1>4. ASSUME People!SaveGroup(j) PROVE PeopleIInv'
  <2>1. job[j].at = "save_group" /\ People!Ends(j) /\ UNCHANGED <<contacts, opt_outs, used, together, people_started, undone>>
    BY <1>4 DEF People!SaveGroup
  <2>2. Alone(j) /\ job[j].group \in Groups /\ job[j].value \in GroupNames
    BY <2>1, <1>w, AtWork DEF Fits, OpsOf
  <2>3. PICK n \in GroupNames, g \in Groups : n = job[j].value /\ g = job[j].group
    BY <2>2
  <2>4. PICK smart \in BOOLEAN : groups' = [groups EXCEPT ![g] = [name |-> n, smart |-> smart]]
    BY <1>4, <2>3 DEF People!SaveGroup
  <2>5. Good(job[j])' /\ job' = [job EXCEPT ![j] = job'[j]] /\ people_started' \in Nat
    BY <2>1, Becoming, IdleIsGood DEF PeopleIInv, DataOK
  <2> QED
    BY <2>1, <2>2, <2>4, <2>5, NewGroupInv
<1>5. ASSUME People!ListMembers(j) PROVE PeopleIInv'
  <2>1. job[j].at = "members" /\ UNCHANGED <<People!data, together, people_started, undone>>
    BY <1>5 DEF People!ListMembers
  <2>2. Alone(j) /\ job[j].op = "delete_group" /\ job[j].group \in Groups
    BY <2>1, <1>w, AtWork DEF Fits, OpsOf
  <2>3. job'[j] = [job[j] EXCEPT !.todo = People!StaticMembers(job[j].group), !.at = "sweep"]
    BY <1>5, Becoming DEF People!ListMembers
  <2>4. HasFields(job[j])'
    BY <2>3, <1>w DEF HasFields
  <2>5. Fits(job[j])' /\ Skips(job[j])'
    BY <2>3, <2>1, <2>2, <1>w DEF Fits, HasFields, OpsOf, Skips, Exports, Merges, People!StaticMembers
  <2>6. Sweeps(job[j])'
    BY <2>3, <2>1, <1>w DEF Sweeps, People!StaticMembers, HasFields, People!data
  <2>7. InTurn(job[j])'
    BY <2>3, <2>6, <2>2, <1>w DEF InTurn, Imports, Saves, ExportsWhole, Missing, Truths, HasFields, Merges
  <2> QED
    BY <1>5, <2>1, <2>2, <2>4, <2>5, <2>7, Becoming, OnlyMoves DEF People!ListMembers
<1>6. ASSUME People!SweepMember(j) PROVE PeopleIInv'
  <2>1. job[j].at = "sweep" /\ UNCHANGED <<People!data, together, people_started, undone>>
    BY <1>6 DEF People!SweepMember
  <2>2. Alone(j) /\ job[j].op = "delete_group" /\ job[j].group \in Groups /\ job[j].todo \subseteq Keys
    BY <2>1, <1>w, AtWork DEF Fits, OpsOf
  <2>3. CASE People!Ends(j)
    BY <2>1, <2>2, <2>3, OnlyEnds
  <2>4. ASSUME NEW k \in job[j].todo, contacts[k] # Nothing,
               People!Becomes(j, [job[j] EXCEPT !.key = k, !.todo = @ \ {k}, !.at = "save",
                                         !.copy = [contacts[k] EXCEPT !.groups = @ \ {job[j].group}]])
        PROVE  PeopleIInv'
    <3> DEFINE c == [contacts[k] EXCEPT !.groups = @ \ {job[j].group}]
    <3>1. job'[j] = [job[j] EXCEPT !.key = k, !.todo = @ \ {k}, !.at = "save", !.copy = c]
      BY <2>4, Becoming
    <3>2. HasFields(job[j])'
      BY <3>1, <1>w DEF HasFields
    <3>3. k \in Keys /\ c \in ContactRec /\ c.groups = contacts[k].groups \ {job[j].group}
      BY <2>2, <2>4, Sent DEF ContactRec
    <3> HIDE DEF c
    <3>4. Fits(job[j])' /\ Skips(job[j])'
      BY <3>1, <3>3, <2>1, <2>2, <1>w DEF Fits, HasFields, OpsOf, Skips, Exports, Merges, Saving
    <3>5. ~together => Sweeps(job[j])'
      BY <3>1, <3>3, <2>1, <2>2, <1>w DEF InTurn, Sweeps, HasFields, People!data
    <3>6. ~together => k \notin undone /\ \A g \in contacts[k].groups : People!Known(g)
      BY <3>3, <2>4 DEF PeopleIInv, Books, People!ImportAllOrNothing, People!NoDanglingGroups
    <3>7. ~together => Saves(job[j])'
      BY <3>1, <3>3, <3>6, <2>1, <2>2, <1>w DEF Saves, HasFields, People!data, People!Known, Merges
    <3>8. ~together => InTurn(job[j])'
      BY <3>1, <3>5, <3>7, <2>2, <1>w DEF InTurn, Imports, ExportsWhole, Missing, Truths, HasFields, Merges
    <3> QED
      BY <3>2, <3>4, <3>8, <2>1, <2>2, <2>4, Becoming, OnlyMoves
  <2> QED
    BY <1>6, <2>3, <2>4 DEF People!SweepMember
<1>7. ASSUME People!DropGroup(j) PROVE PeopleIInv'
  <2>1. /\ job[j].at = "sweep" /\ job[j].todo = {} /\ People!Ends(j) /\ groups' = [groups EXCEPT ![job[j].group] = Nothing]
        /\ UNCHANGED <<contacts, opt_outs, used, together, people_started, undone>>
    BY <1>7 DEF People!DropGroup, People!AllSwept
  <2>2. Alone(j) /\ job[j].op = "delete_group"
    BY <2>1, <1>w, AtWork DEF Fits, OpsOf
  <2>3. DataOK'
    BY <2>1 DEF PeopleIInv, DataOK
  <2>4. \A g \in Groups : g # job[j].group => groups'[g] = groups[g]
    BY <2>1 DEF PeopleIInv, DataOK
  <2>5. People!NoDanglingGroups'
    <3> SUFFICES ASSUME ~together, NEW k \in Keys, contacts[k] # Nothing, NEW g \in contacts[k].groups PROVE People!Known(g)'
      BY <2>1 DEF People!NoDanglingGroups
    <3>1. g \in Groups /\ People!Known(g)
      BY Sent DEF ContactRec, PeopleIInv, Books, People!NoDanglingGroups
    <3>2. g # job[j].group
      BY <2>1, <2>2, <1>w DEF InTurn, Sweeps
    <3> QED
      BY <3>1, <3>2, <2>4 DEF People!Known
  <2>6. Good(job[j])' /\ job' = [job EXCEPT ![j] = job'[j]]
    BY <2>1, Becoming, IdleIsGood
  <2>7. Books'
    BY <2>1, <2>5 DEF PeopleIInv, Books, People!ImportAllOrNothing
  <2> QED
    BY <2>1, <2>2, <2>3, <2>6, <2>7, StepInv
<1>8. ASSUME People!ListPages(j) PROVE PeopleIInv'
  <2>1. job[j].at = "pages" /\ UNCHANGED <<People!data, together, people_started, undone>>
    BY <1>8 DEF People!ListPages
  <2>2. Alone(j) /\ job[j].op = "delete_group_contacts"
    BY <2>1, <1>w, AtWork DEF Fits, OpsOf
  <2>3. job'[j] = [job[j] EXCEPT !.todo = People!MemberPages(job[j].group), !.at = "purge"]
    BY <1>8, Becoming DEF People!ListPages
  <2>4. \A m \in People!MemberPages(job[j].group) : m[1] \in Keys
    BY DEF People!MemberPages, People!StaticMembers, People!DynamicMembers
  <2>5. HasFields(job[j])'
    BY <2>3, <1>w DEF HasFields
  <2>6. Fits(job[j])' /\ Skips(job[j])'
    BY <2>3, <2>4, <2>1, <2>2, <1>w DEF Fits, HasFields, OpsOf, Skips, Exports, Merges
  <2>7. InTurn(job[j])'
    BY <2>3, <2>2, <1>w DEF InTurn, Imports, Saves, Sweeps, ExportsWhole, Missing, Truths, HasFields, Merges
  <2> QED
    BY <1>8, <2>1, <2>2, <2>5, <2>6, <2>7, Becoming, OnlyMoves DEF People!ListPages
<1>9. ASSUME People!PurgeContact(j) PROVE PeopleIInv'
  <2>1. job[j].at = "purge" /\ UNCHANGED <<People!data, together, people_started, undone>>
    BY <1>9 DEF People!PurgeContact
  <2>2. Alone(j) /\ job[j].op = "delete_group_contacts" /\ \A m \in job[j].todo : m[1] \in Keys
    BY <2>1, <1>w, AtWork DEF Fits, OpsOf
  <2>3. CASE People!Ends(j)
    BY <2>1, <2>2, <2>3, OnlyEnds
  <2>4. ASSUME People!Becomes(j, [job[j] EXCEPT !.at = "raised"]) PROVE PeopleIInv'
    <3>1. job'[j] = [job[j] EXCEPT !.at = "raised"]
      BY <2>4, Becoming
    <3>2. HasFields(job[j])'
      BY <3>1, <1>w DEF HasFields
    <3>3. Fits(job[j])' /\ Skips(job[j])'
      BY <3>1, <2>1, <2>2, <1>w DEF Fits, HasFields, OpsOf, Skips, Exports, Merges
    <3>4. InTurn(job[j])'
      BY <3>1, <2>2, <1>w DEF InTurn, Imports, Saves, Sweeps, ExportsWhole, Missing, Truths, HasFields, Merges
    <3> QED
      BY <3>2, <3>3, <3>4, <2>1, <2>2, <2>4, Becoming, OnlyMoves
  <2>5. ASSUME NEW m \in job[j].todo, People!Becomes(j, [job[j] EXCEPT !.key = m[1], !.todo = @ \ {m}, !.at = "delete"])
        PROVE  PeopleIInv'
    <3>1. job'[j] = [job[j] EXCEPT !.key = m[1], !.todo = @ \ {m}, !.at = "delete"]
      BY <2>5, Becoming
    <3>2. HasFields(job[j])'
      BY <3>1, <1>w DEF HasFields
    <3>3. Fits(job[j])' /\ Skips(job[j])'
      BY <3>1, <2>1, <2>2, <1>w DEF Fits, HasFields, OpsOf, Skips, Exports, Merges
    <3>4. InTurn(job[j])'
      BY <3>1, <2>2, <1>w DEF InTurn, Imports, Saves, Sweeps, ExportsWhole, Missing, Truths, HasFields, Merges
    <3> QED
      BY <3>2, <3>3, <3>4, <2>1, <2>2, <2>5, Becoming, OnlyMoves
  <2> QED
    BY <1>9, <2>3, <2>4, <2>5 DEF People!PurgeContact
<1>10. ASSUME People!RaisePurge(j) PROVE PeopleIInv'
  BY <1>10, AtWork, OnlyEnds DEF People!RaisePurge
<1> QED
  BY <1>1, <1>2, <1>3, <1>4, <1>5, <1>6, <1>7, <1>8, <1>9, <1>10 DEF People!GroupSteps

\* Where existing data is the truth, what a contact has stays.
LEMMA MergesKeep ==
  ASSUME NEW c \in ContactRec, NEW x \in FieldsOf, NEW op
  PROVE  /\ [c EXCEPT !.extra = People!Merged(op, @, x)] \in ContactRec
         /\ op = "existing_is_truth" => Keeps(c, [c EXCEPT !.extra = People!Merged(op, @, x)])
<1>1. c.extra \in FieldsOf
  BY DEF ContactRec
<1>2. People!Merged(op, c.extra, x) \in FieldsOf
  BY <1>1 DEF People!Merged, FieldsOf
<1>3. op = "existing_is_truth" => \A l \in Labels : c.extra[l] # Nothing => People!Merged(op, c.extra, x)[l] = c.extra[l]
  BY DEF People!Merged
<1> QED
  BY <1>2, <1>3 DEF ContactRec, Keeps

LEMMA ImportInv ==
  ASSUME People!ContactsConstants, PeopleIInv, NEW j \in Jobs, People!ImportSteps(j)
  PROVE  PeopleIInv'
<1>w. Good(job[j]) /\ HasFields(job[j]) /\ Fits(job[j]) /\ (~together => InTurn(job[j]))
  BY AtWork
<1>1. ASSUME NEW s \in Senders, NEW v \in Values, People!ImportRow(j, s, v) PROVE PeopleIInv'
  <2>1. job[j].op = "import_new" /\ job[j].at = "row" /\ UNCHANGED <<groups, opt_outs, together, people_started, undone>>
    BY <1>1 DEF People!ImportRow
  <2>2. Alone(j) /\ job[j].group \in Groups /\ job[j].made \subseteq Keys /\ job[j].todo \subseteq Keys
    BY <2>1, <1>w, AtWork DEF Fits
  <2>3. PICK l \in Labels, k \in Keys \ used :
          /\ contacts' = [contacts EXCEPT ![k] =
               [People!ContactAt("msisdn", s.addr, people_started) EXCEPT !.groups = {job[j].group}, !.extra = People!OneField(l, v)]]
          /\ used' = used \union {k}
          /\ People!Becomes(j, [job[j] EXCEPT !.made = @ \union {k}, !.rows = @ - 1])
    BY <1>1 DEF People!ImportRow
  <2>4. contacts'[k] \in ContactRec /\ contacts'[k].groups = {job[j].group}
    <3>1. PICK c \in ContactRec : c = People!ContactAt("msisdn", s.addr, people_started)
      BY Records DEF PeopleIInv, DataOK
    <3>2. PICK x \in FieldsOf : x = People!OneField(l, v)
      BY Records
    <3>3. contacts'[k] = [c EXCEPT !.groups = {job[j].group}, !.extra = x]
      BY <2>3, <3>1, <3>2 DEF PeopleIInv, DataOK
    <3> QED
      BY <3>3, <2>2 DEF ContactRec
  <2>5. /\ contacts' = [contacts EXCEPT ![k] = contacts'[k]]
        /\ \A i \in Keys : i # k => contacts'[i] = contacts[i]
    BY <2>3 DEF PeopleIInv, DataOK
  <2>6. job'[j] = [job[j] EXCEPT !.made = @ \union {k}, !.rows = @ - 1]
    BY <2>3, Becoming
  <2>7. HasFields(job[j])'
    BY <2>6, <1>w DEF HasFields
  <2>8. Fits(job[j])' /\ Skips(job[j])'
    BY <2>6, <2>1, <2>2, <1>w DEF Fits, HasFields, OpsOf, Skips, Exports, Merges
  <2>9. ~together => (k \notin undone /\ People!Known(job[j].group))
    BY <2>1, <1>w DEF PeopleIInv, Books, InTurn, Saves
  <2>10. ~together => Imports(job[j])'
    BY <2>1, <2>2, <2>3, <2>5, <2>6, <1>w DEF InTurn, Imports, HasFields
  <2>11. ~together => InTurn(job[j])'
    BY <2>1, <2>6, <2>10, <1>w DEF InTurn, Saves, Sweeps, ExportsWhole, Missing, Truths, HasFields, Merges, People!Known
  <2>12. Good(job[j])' /\ job' = [job EXCEPT ![j] = job'[j]] /\ people_started' \in Nat
    BY <2>1, <2>3, <2>7, <2>8, <2>11, Becoming DEF Good, PeopleIInv, DataOK
  <2> QED
    BY <2>1, <2>2, <2>3, <2>4, <2>5, <2>9, <2>12, WriteInv
<1>2. ASSUME People!ImportRaises(j) PROVE PeopleIInv'
  <2>1. job[j].op = "import_new" /\ job[j].at = "row" /\ UNCHANGED <<People!data, together, people_started, undone>>
    BY <1>2 DEF People!ImportRaises
  <2>2. Alone(j) /\ job'[j] = [job[j] EXCEPT !.at = "clean_up"]
    BY <1>2, <2>1, AtWork, Becoming DEF People!ImportRaises
  <2>3. HasFields(job[j])'
    BY <2>2, <1>w DEF HasFields
  <2>4. Fits(job[j])' /\ Skips(job[j])'
    BY <2>1, <2>2, <1>w DEF Fits, HasFields, OpsOf, Skips, Exports, Merges
  <2>5. ~together => InTurn(job[j])'
    BY <2>1, <2>2, <1>w DEF InTurn, Imports, Saves, Sweeps, ExportsWhole, Missing, Truths, HasFields, Merges, People!data
  <2> QED
    BY <1>2, <2>1, <2>2, <2>3, <2>4, <2>5, Becoming, OnlyMoves DEF People!ImportRaises
<1>3. ASSUME People!ImportDone(j) PROVE PeopleIInv'
  BY <1>3, AtWork, OnlyEnds DEF People!ImportDone
<1>4. ASSUME People!CleanUp(j) PROVE PeopleIInv'
  <2>1. job[j].at = "clean_up" /\ UNCHANGED <<groups, opt_outs, used, together, people_started, undone>>
    BY <1>4 DEF People!CleanUp
  <2>2. Alone(j) /\ job[j].op = "import_new" /\ job[j].made \subseteq Keys /\ job[j].todo \subseteq Keys
    BY <2>1, <1>w, AtWork DEF Fits, OpsOf
  <2>3. PICK k \in job[j].made : /\ contacts' = [contacts EXCEPT ![k] = Nothing]
                                 /\ People!Becomes(j, [job[j] EXCEPT !.made = @ \ {k}, !.todo = @ \union {k}])
    BY <1>4 DEF People!CleanUp, People!ToCleanUp
  <2>4. job'[j] = [job[j] EXCEPT !.made = @ \ {k}, !.todo = @ \union {k}] /\ job' = [job EXCEPT ![j] = job'[j]]
    BY <2>3, Becoming
  <2>5. HasFields(job[j])'
    BY <2>4, <1>w DEF HasFields
  <2>6. Fits(job[j])' /\ Skips(job[j])'
    BY <2>1, <2>2, <2>4, <1>w DEF Fits, HasFields, OpsOf, Skips, Exports, Merges
  <2>7. \A i \in Keys : contacts'[i] = IF i = k THEN Nothing ELSE contacts[i]
    BY <2>3 DEF PeopleIInv, DataOK
  <2>8. ~together => Imports(job[j])'
    BY <2>1, <2>2, <2>4, <2>7, <1>w DEF InTurn, Imports, HasFields
  <2>9. ~together => InTurn(job[j])'
    BY <2>1, <2>2, <2>4, <2>8, <1>w DEF InTurn, Saves, Sweeps, ExportsWhole, Missing, Truths, HasFields, Merges
  <2>10. DataOK' /\ Books'
    BY <2>1, <2>3, DeletesKeep
  <2>11. Good(job[j])'
    BY <2>1, <2>5, <2>6, <2>9 DEF Good
  <2> QED
    BY <2>1, <2>2, <2>4, <2>10, <2>11, StepInv
<1>5. ASSUME People!ReportFailure(j) PROVE PeopleIInv'
  <2>1. /\ job[j].at = "clean_up" /\ job[j].made = {} /\ undone' = undone \union job[j].todo /\ People!Ends(j)
        /\ UNCHANGED <<People!data, together, people_started>>
    BY <1>5 DEF People!ReportFailure, People!ToCleanUp
  <2>2. Alone(j) /\ job[j].op = "import_new" /\ job[j].todo \subseteq Keys
    BY <2>1, <1>w, AtWork DEF Fits, OpsOf
  <2>3. ~together => job[j].todo \subseteq used /\ \A k \in job[j].todo : contacts[k] = Nothing
    BY <2>2, <1>w DEF InTurn, Imports
  <2>4. DataOK' /\ People!NoDanglingGroups'
    BY <2>1 DEF PeopleIInv, DataOK, Books, People!NoDanglingGroups, People!Known, People!data
  <2>5. undone' \subseteq Keys /\ (~together' => undone' \subseteq used') /\ People!ImportAllOrNothing'
    BY <2>1, <2>2, <2>3 DEF PeopleIInv, Books, People!ImportAllOrNothing, People!data
  <2>6. Good(job[j])' /\ job' = [job EXCEPT ![j] = job'[j]]
    BY <2>1, Becoming, IdleIsGood
  <2> QED
    BY <2>1, <2>2, <2>4, <2>5, <2>6, StepInv DEF Books, People!data
<1>6. ASSUME NEW k \in Keys, NEW l \in Labels, NEW v \in Values, People!MergeRow(j, k, l, v) PROVE PeopleIInv'
  <2>1. job[j].op \in Merges /\ job[j].at = "row" /\ UNCHANGED <<People!data, together, people_started, undone>>
    BY <1>6 DEF People!MergeRow, Merges
  <2>2. Alone(j) /\ job[j].group \in Groups
    BY <2>1, <1>w, AtWork DEF Fits
  <2>3. ~together => People!Known(job[j].group)
    BY <2>1, <1>w DEF InTurn, Saves
  <2>4. CASE People!Becomes(j, [job[j] EXCEPT !.rows = @ - 1])
    <3>1. job'[j] = [job[j] EXCEPT !.rows = @ - 1]
      BY <2>4, Becoming
    <3>2. HasFields(job[j])'
      BY <3>1, <1>w DEF HasFields
    <3>3. Fits(job[j])' /\ Skips(job[j])'
      BY <3>1, <2>1, <2>2, <1>w DEF Fits, HasFields, OpsOf, Skips, Exports, Merges
    <3>4. ~together => InTurn(job[j])'
      BY <3>1, <2>1, <2>3, <1>w DEF InTurn, Imports, Saves, Sweeps, ExportsWhole, Missing, Truths, HasFields, Merges, People!Known, People!data
    <3> QED
      BY <3>2, <3>3, <3>4, <2>1, <2>2, <2>4, Becoming, OnlyMoves
  <2>5. CASE contacts[k] # Nothing
    <3> DEFINE c == [contacts[k] EXCEPT !.extra = People!Merged(job[j].op, @, People!OneField(l, v))]
    <3>1. job'[j] = [job[j] EXCEPT !.rows = @ - 1, !.key = k, !.copy = c, !.at = "reload"]
      BY <1>6, <2>5, Becoming, <1>w DEF People!MergeRow, People!Holding, HasFields
    <3>2. HasFields(job[j])'
      BY <3>1, <1>w DEF HasFields
    <3>3. c \in ContactRec /\ (job[j].op = "existing_is_truth" => Keeps(contacts[k], c))
      BY <2>5, Sent, Records, MergesKeep
    <3> HIDE DEF c
    <3>4. Fits(job[j])' /\ Skips(job[j])'
      BY <3>1, <3>3, <2>1, <2>2, <1>w DEF Fits, HasFields, OpsOf, Skips, Exports, Merges
    <3>5. ~together => Saves(job[j])'
      BY <3>1, <2>1, <2>3, <1>w DEF Saves, HasFields, Merges, People!Known, People!data
    <3>6. Truths(job[j])'
      BY <3>1, <3>3, <2>1, <1>w DEF Truths, HasFields, People!data
    <3>7. ~together => InTurn(job[j])'
      BY <3>1, <3>5, <3>6, <2>1, <1>w DEF InTurn, Imports, Sweeps, ExportsWhole, Missing, HasFields, Merges
    <3>8. job' = [job EXCEPT ![j] = job'[j]]
      BY <1>6, <2>5, Becoming DEF People!MergeRow
    <3> QED
      BY <3>2, <3>4, <3>7, <3>8, <2>1, <2>2, OnlyMoves
  <2> QED
    BY <1>6, <2>4, <2>5 DEF People!MergeRow
<1>7. ASSUME People!ReloadRow(j) PROVE PeopleIInv'
  <2>1. job[j].at = "reload" /\ UNCHANGED <<People!data, together, people_started, undone>>
    BY <1>7 DEF People!ReloadRow
  <2>2. Alone(j) /\ job[j].op \in Merges /\ job[j].group \in Groups /\ job[j].key \in Keys /\ job[j].copy \in ContactRec
    BY <2>1, <1>w, AtWork DEF Fits, OpsOf
  <2>3. ~together => People!Known(job[j].group)
    BY <2>2, <1>w DEF InTurn, Saves
  <2>4. CASE People!Moves(j, "row")
    <3>1. job'[j] = [job[j] EXCEPT !.at = "row"]
      BY <2>4, Becoming
    <3>2. HasFields(job[j])'
      BY <3>1, <1>w DEF HasFields
    <3>3. Fits(job[j])' /\ Skips(job[j])'
      BY <3>1, <2>1, <2>2, <1>w DEF Fits, HasFields, OpsOf, Skips, Exports, Merges
    <3>4. ~together => InTurn(job[j])'
      BY <3>1, <2>2, <2>1, <2>3, <1>w DEF InTurn, Imports, Saves, Sweeps, ExportsWhole, Missing, Truths, HasFields, Merges, People!Known, People!data
    <3> QED
      BY <3>2, <3>3, <3>4, <2>1, <2>2, <2>4, Becoming, OnlyMoves
  <2>5. CASE contacts[job[j].key] # Nothing
    <3>1. PICK before \in ContactRec : before = contacts[job[j].key]
      BY <2>2, <2>5, Sent
    <3> DEFINE c == [before EXCEPT !.extra = job[j].copy.extra, !.subscription = job[j].copy.subscription,
                                !.groups = @ \union {job[j].group}]
    <3>2. job'[j] = [job[j] EXCEPT !.at = "save", !.copy = c]
      BY <1>7, <2>5, <3>1, Becoming DEF People!ReloadRow
    <3>3. HasFields(job[j])'
      BY <3>2, <1>w DEF HasFields
    <3>4. /\ c \in ContactRec /\ c.groups = before.groups \union {job[j].group}
          /\ c.extra = job[j].copy.extra /\ c.subscription = job[j].copy.subscription
      BY <2>2 DEF ContactRec
    <3> HIDE DEF c
    <3>5. Fits(job[j])' /\ Skips(job[j])'
      BY <3>2, <3>4, <2>1, <2>2, <1>w DEF Fits, HasFields, OpsOf, Skips, Exports, Merges, Saving
    <3>6. ~together => job[j].key \notin undone /\ \A g \in before.groups : People!Known(g)
      BY <3>1, <2>2, <2>5 DEF PeopleIInv, Books, People!ImportAllOrNothing, People!NoDanglingGroups
    <3>7. ~together => Saves(job[j])'
      <4>1. \A g : People!Known(g) => People!Known(g)'
        BY <2>1 DEF People!Known, People!data
      <4> QED
        BY <4>1, <3>2, <3>4, <3>6, <2>1, <2>2, <2>3, <1>w DEF Saves, HasFields, Merges
    <3>8. ~together => Truths(job[j])'
      BY <3>1, <3>2, <3>4, <2>1, <2>2, <2>5, <1>w DEF InTurn, Truths, Keeps, HasFields, People!data
    <3>9. ~together => InTurn(job[j])'
      BY <3>2, <3>7, <3>8, <2>2, <1>w DEF InTurn, Imports, Sweeps, ExportsWhole, Missing, HasFields, Merges
    <3>10. job' = [job EXCEPT ![j] = job'[j]]
      BY <1>7, <2>5, Becoming DEF People!ReloadRow
    <3> QED
      BY <3>3, <3>5, <3>9, <3>10, <2>1, <2>2, OnlyMoves
  <2> QED
    BY <1>7, <2>4, <2>5 DEF People!ReloadRow
<1>8. ASSUME People!MergeEnds(j) PROVE PeopleIInv'
  BY <1>8, AtWork, OnlyEnds DEF People!MergeEnds
<1> QED
  BY <1>1, <1>2, <1>3, <1>4, <1>5, <1>6, <1>7, <1>8 DEF People!ImportSteps

LEMMA LibrarySets ==
  /\ \A S : People!Cardinality(S) = Cardinality(S)
  /\ \A S : People!IsFiniteSet(S) <=> IsFiniteSet(S)
<1>1. \A S : People!Cardinality(S) = Cardinality(S)
  BY DEF People!Cardinality, Cardinality
<1>2. \A S : People!IsFiniteSet(S) <=> IsFiniteSet(S)
  BY Zenon DEF People!IsFiniteSet, IsFiniteSet
<1> QED
  BY <1>1, <1>2

\* What is put beside each key counts for nothing, whatever is stored.
LEMMA TaggedCounts ==
  ASSUME People!ContactsConstants
  PROVE  /\ \A S \in SUBSET Keys : Cardinality(S \X {"index"}) = Cardinality(S)
         /\ \A S \in SUBSET Keys : {m[1] : m \in S \X {"index"}} = S
<1>1. ASSUME NEW S \in SUBSET Keys PROVE Cardinality(S \X {"index"}) = Cardinality(S)
  <2>1. IsFiniteSet(S) /\ Cardinality(S) \in Nat
    BY LibrarySets, FS_Subset, FS_CardinalityType DEF People!ContactsConstants
  <2>2. IsFiniteSet({"index"}) /\ Cardinality({"index"}) = 1
    BY FS_Singleton
  <2> QED
    BY <2>1, <2>2, FS_Product
<1>2. ASSUME NEW S \in SUBSET Keys PROVE {m[1] : m \in S \X {"index"}} = S
  <2>1. \A k \in S : <<k, "index">> \in S \X {"index"} /\ <<k, "index">>[1] = k
    OBVIOUS
  <2>2. \A m \in S \X {"index"} : m[1] \in S
    OBVIOUS
  <2> QED
    BY <2>1, <2>2
<1> QED
  BY <1>1, <1>2

LEMMA Unchanged ==
  ASSUME UNCHANGED People!data
  PROVE  Stored' = Stored /\ \A gs : MembersOf(gs)' = MembersOf(gs)
BY DEF People!data, Stored, MembersOf

\* The pages of groups have their members.
LEMMA PagesHaveMembers ==
  ASSUME NEW gs
  PROVE  {m[1] : m \in UNION {{<<m[1], <<m[2], g>>>> : m \in People!MemberPages(g)} : g \in gs}} = MembersOf(gs)
<1> DEFINE Rows(g) == {<<m[1], <<m[2], g>>>> : m \in People!MemberPages(g)}
<1> DEFINE All == UNION {Rows(g) : g \in gs}
<1>1. ASSUME NEW n \in All PROVE n[1] \in MembersOf(gs)
  <2>1. PICK g, m : /\ g \in gs /\ m \in People!MemberPages(g)
                  /\ n = <<m[1], <<m[2], g>>>>
    OBVIOUS
  <2>2. m[1] \in People!StaticMembers(g) \/ m[1] \in People!DynamicMembers(g)
    BY <2>1 DEF People!MemberPages
  <2> QED
    BY <2>1, <2>2 DEF People!StaticMembers, People!DynamicMembers, MembersOf, Stored
<1>2. ASSUME NEW k \in MembersOf(gs) PROVE \E n \in All : n[1] = k
  <2>1. PICK g \in gs : k \in People!StaticMembers(g) \/ k \in People!DynamicMembers(g)
    BY DEF People!StaticMembers, People!DynamicMembers, MembersOf, Stored
  <2>2. PICK p : <<k, p>> \in People!MemberPages(g)
    BY <2>1 DEF People!MemberPages
  <2>3. <<k, <<p, g>>>> \in Rows(g)
    BY <2>2
  <2>4. <<k, <<p, g>>>> \in All
    BY <2>3
  <2> QED
    BY <2>4
<1> QED
  BY <1>1, <1>2

LEMMA ExportInv ==
  ASSUME People!ContactsConstants, PeopleIInv, NEW j \in Jobs, People!ExportSteps(j)
  PROVE  PeopleIInv'
<1>w. Good(job[j]) /\ HasFields(job[j]) /\ Fits(job[j]) /\ (~together => InTurn(job[j]))
  BY AtWork
<1>1. ASSUME People!ListAllKeys(j) PROVE PeopleIInv'
  <2>1. job[j].at = "all_keys" /\ UNCHANGED <<People!data, together, people_started, undone>>
    BY <1>1 DEF People!ListAllKeys
  <2>2. Alone(j) /\ job[j].op = "export_all_contacts"
    BY <2>1, <1>w, AtWork DEF Fits, OpsOf
  <2>3. job'[j] = [job[j] EXCEPT !.at = "cut", !.todo = Stored \X {"index"}] /\ job' = [job EXCEPT ![j] = job'[j]]
    BY <1>1, Becoming DEF People!ListAllKeys, Stored
  <2>4. HasFields(job[j])'
    BY <2>3, <1>w DEF HasFields
  <2>5. \A m \in Stored \X {"index"} : m[1] \in Keys
    BY DEF Stored
  <2>6. Fits(job[j])' /\ Skips(job[j])'
    BY <2>3, <2>5, <2>1, <2>2, <1>w DEF Fits, HasFields, OpsOf, Skips, Exports, Merges
  <2>7. ExportsWhole(job[j])'
    BY <2>3, <2>1, <2>2, <1>w, Unchanged DEF ExportsWhole, HasFields
  <2>8. InTurn(job[j])'
    BY <2>3, <2>2, <2>7, <1>w DEF InTurn, Imports, Saves, Sweeps, Missing, Truths, HasFields, Merges
  <2> QED
    BY <2>1, <2>2, <2>3, <2>4, <2>6, <2>8, OnlyMoves
<1>2. ASSUME People!Cut(j) PROVE PeopleIInv'
  <2>1. job[j].at = "cut" /\ UNCHANGED <<People!data, together, people_started, undone>>
    BY <1>2 DEF People!Cut
  <2>2. /\ Alone(j) /\ job[j].op \in {"export_contacts", "export_all_contacts"}
        /\ \A m \in job[j].todo : m[1] \in Keys
    BY <2>1, <1>w, AtWork DEF Fits, OpsOf, Exports
  <2>3. PICK some : /\ some \subseteq job[j].todo
                    /\ IF Cardinality(job[j].todo) > ExportLimit THEN Cardinality(some) = ExportLimit ELSE some = job[j].todo
                    /\ People!Becomes(j, [job[j] EXCEPT !.at = "load_rows", !.todo = some, !.rows = Cardinality(job[j].todo)])
    BY <1>2, LibrarySets DEF People!Cut
  <2>4. /\ job'[j] = [job[j] EXCEPT !.at = "load_rows", !.todo = some, !.rows = Cardinality(job[j].todo)]
        /\ job' = [job EXCEPT ![j] = job'[j]]
    BY <2>3, Becoming
  <2>5. HasFields(job[j])'
    BY <2>4, <1>w DEF HasFields
  <2>6. Fits(job[j])' /\ Skips(job[j])'
    BY <2>4, <2>3, <2>1, <2>2, <1>w DEF Fits, HasFields, OpsOf, Skips, Exports, Merges
  <2>7. ~together => ExportsWhole(job[j])'
    <3> SUFFICES ASSUME ~together PROVE ExportsWhole(job[j])'
      OBVIOUS
    <3>1. job[j].op = "export_all_contacts" => job[j].todo = Stored \X {"index"}
      BY <2>1, <1>w DEF InTurn, ExportsWhole
    <3>2. Cardinality(Stored \X {"index"}) = Cardinality(Stored)
      BY TaggedCounts DEF Stored
    <3>3. job[j].op = "export_all_contacts" =>
            /\ some \subseteq Stored \X {"index"} /\ Cardinality(job[j].todo) = Cardinality(Stored)
            /\ Cardinality(some) = AtMost(Cardinality(Stored))
      BY <3>1, <3>2, <2>3 DEF AtMost
    <3> QED
      BY <3>3, <2>4, <2>1, <2>2, <1>w, Unchanged DEF ExportsWhole, HasFields, AtMost
  <2>8. ~together => InTurn(job[j])'
    BY <2>4, <2>2, <2>7, <1>w DEF InTurn, Imports, Saves, Sweeps, Missing, Truths, HasFields, Merges
  <2> QED
    BY <2>1, <2>2, <2>4, <2>5, <2>6, <2>8, OnlyMoves
<1>3. ASSUME People!GetGroups(j) PROVE PeopleIInv'
  <2>1. job[j].at = "get_groups" /\ UNCHANGED <<People!data, together, people_started, undone>>
    BY <1>3 DEF People!GetGroups
  <2>2. Alone(j) /\ job[j].op = "export_groups"
    BY <2>1, <1>w, AtWork DEF Fits, OpsOf
  <2>3. CASE People!Ends(j)
    BY <2>1, <2>2, <2>3, OnlyEnds
  <2>4. CASE People!Moves(j, "list_rows")
    <3>1. job'[j] = [job[j] EXCEPT !.at = "list_rows"]
      BY <2>4, Becoming
    <3>2. HasFields(job[j])'
      BY <3>1, <1>w DEF HasFields
    <3>3. Fits(job[j])' /\ Skips(job[j])'
      BY <3>1, <2>1, <2>2, <1>w DEF Fits, HasFields, OpsOf, Skips, Exports, Merges
    <3>4. InTurn(job[j])'
      BY <3>1, <2>2, <1>w DEF InTurn, Imports, Saves, Sweeps, ExportsWhole, Missing, Truths, HasFields, Merges
    <3> QED
      BY <3>2, <3>3, <3>4, <2>1, <2>2, <2>4, Becoming, OnlyMoves
  <2> QED
    BY <1>3, <2>3, <2>4 DEF People!GetGroups
<1>4. ASSUME People!ListRows(j) PROVE PeopleIInv'
  <2>1. job[j].at = "list_rows" /\ UNCHANGED <<People!data, together, people_started, undone>>
    BY <1>4 DEF People!ListRows
  <2>2. Alone(j) /\ job[j].op = "export_groups"
    BY <2>1, <1>w, AtWork DEF Fits, OpsOf
  <2>3. PICK rows : rows = UNION {{<<m[1], <<m[2], g>>>> : m \in People!MemberPages(g)} : g \in job[j].stood}
    OBVIOUS
  <2>4. job'[j] = [job[j] EXCEPT !.at = "load_rows", !.todo = rows] /\ job' = [job EXCEPT ![j] = job'[j]]
    BY <1>4, <2>3, Becoming DEF People!ListRows
  <2>5. HasFields(job[j])'
    BY <2>4, <1>w DEF HasFields
  <2>6. {m[1] : m \in rows} = MembersOf(job[j].stood)
    BY <2>3, PagesHaveMembers
  <2>7. \A m \in rows : m[1] \in Keys
    <3>1. MembersOf(job[j].stood) \subseteq Keys
      BY DEF MembersOf, Stored
    <3> QED
      BY <2>6, <3>1
  <2>8. Fits(job[j])' /\ Skips(job[j])'
    BY <2>4, <2>7, <2>1, <2>2, <1>w DEF Fits, HasFields, OpsOf, Skips, Exports, Merges
  <2>9. ExportsWhole(job[j])'
    BY <2>4, <2>6, <2>1, <2>2, <1>w, Unchanged DEF ExportsWhole, HasFields
  <2>10. InTurn(job[j])'
    BY <2>4, <2>2, <2>9, <1>w DEF InTurn, Imports, Saves, Sweeps, Missing, Truths, HasFields, Merges
  <2> QED
    BY <2>1, <2>2, <2>4, <2>5, <2>8, <2>10, OnlyMoves
<1>5. ASSUME People!LoadRows(j) PROVE PeopleIInv'
  <2>1. job[j].at = "load_rows" /\ UNCHANGED <<People!data, together, people_started, undone>>
    BY <1>5 DEF People!LoadRows
  <2>2. /\ Alone(j) /\ job[j].op \in Exports
        /\ \A m \in job[j].todo : m[1] \in Keys
    BY <2>1, <1>w, AtWork DEF Fits, OpsOf
  <2>3. PICK rows : rows = People!ContactsByKey(job[j].todo)
    OBVIOUS
  <2>4. job'[j] = [job[j] EXCEPT !.at = "mail", !.todo = {}, !.made = rows] /\ job' = [job EXCEPT ![j] = job'[j]]
    BY <1>5, <2>3, Becoming DEF People!LoadRows
  <2>5. HasFields(job[j])'
    BY <2>4, <1>w DEF HasFields
  <2>6. Fits(job[j])' /\ Skips(job[j])'
    BY <2>4, <2>1, <2>2, <1>w DEF Fits, HasFields, OpsOf, Skips, Exports, Merges
  <2>7. ~together => ExportsWhole(job[j])'
    <3> SUFFICES ASSUME ~together PROVE ExportsWhole(job[j])'
      OBVIOUS
    <3>1. rows \subseteq job[j].todo /\ {m[1] : m \in rows} \subseteq Stored
      BY <2>2, <2>3 DEF People!ContactsByKey, Stored
    <3>2. job[j].op = "export_all_contacts" =>
            rows = job[j].todo /\ job[j].rows = Cardinality(Stored) /\ Cardinality(rows) = AtMost(job[j].rows)
      <4>1. job[j].op = "export_all_contacts" =>
              /\ job[j].todo \subseteq Stored \X {"index"} /\ job[j].rows = Cardinality(Stored)
              /\ Cardinality(job[j].todo) = AtMost(job[j].rows)
        BY <2>1, <1>w DEF InTurn, ExportsWhole
      <4>2. job[j].op = "export_all_contacts" => \A m \in job[j].todo : contacts[m[1]] # Nothing
        BY <4>1 DEF Stored
      <4>3. job[j].op = "export_all_contacts" => rows = job[j].todo
        BY <4>2, <2>3 DEF People!ContactsByKey
      <4> QED
        BY <4>1, <4>3
    <3>3. job[j].op = "export_groups" => {m[1] : m \in rows} = MembersOf(job[j].stood)
      <4> SUFFICES ASSUME job[j].op = "export_groups" PROVE {m[1] : m \in rows} = MembersOf(job[j].stood)
        OBVIOUS
      <4>1. {m[1] : m \in job[j].todo} = MembersOf(job[j].stood)
        BY <2>1, <1>w DEF InTurn, ExportsWhole
      <4>2. \A m \in job[j].todo : m[1] \in MembersOf(job[j].stood)
        BY <4>1
      <4>3. \A m \in job[j].todo : contacts[m[1]] # Nothing
        BY <4>2 DEF MembersOf, Stored
      <4>4. rows = job[j].todo
        BY <4>3, <2>3 DEF People!ContactsByKey
      <4> QED
        BY <4>1, <4>4
    <3> QED
      BY <3>1, <3>2, <3>3, <2>4, <2>1, <1>w, Unchanged DEF ExportsWhole, HasFields, AtMost
  <2>8. ~together => InTurn(job[j])'
    BY <2>4, <2>2, <2>7, <1>w DEF InTurn, Imports, Saves, Sweeps, Missing, Truths, HasFields, Merges, Exports
  <2> QED
    BY <2>1, <2>2, <2>4, <2>5, <2>6, <2>8, OnlyMoves
<1>6. ASSUME People!MailExport(j) PROVE PeopleIInv'
  BY <1>6, AtWork, OnlyEnds DEF People!MailExport
<1> QED
  BY <1>1, <1>2, <1>3, <1>4, <1>5, <1>6 DEF People!ExportSteps

LEMMA OptOutInv ==
  ASSUME People!ContactsConstants, PeopleIInv, NEW j \in Jobs, People!OptOutSteps(j)
  PROVE  PeopleIInv'
<1>w. Good(job[j]) /\ HasFields(job[j]) /\ Fits(job[j]) /\ Skips(job[j]) /\ (~together => InTurn(job[j]))
  BY AtWork
<1>1. ASSUME People!LookForOptOut(j) PROVE PeopleIInv'
  <2>1. job[j].at = "look" /\ UNCHANGED <<People!data, together, people_started, undone>>
    BY <1>1 DEF People!LookForOptOut
  <2>2. Alone(j) /\ job[j].op = "cancel"
    BY <2>1, <1>w, AtWork DEF Fits, OpsOf
  <2>3. CASE People!Ends(j)
    BY <2>1, <2>2, <2>3, OnlyEnds
  <2>4. CASE People!Moves(j, "opt_in")
    <3>1. job'[j] = [job[j] EXCEPT !.at = "opt_in"]
      BY <2>4, Becoming
    <3>2. HasFields(job[j])'
      BY <3>1, <1>w DEF HasFields
    <3>3. Fits(job[j])' /\ Skips(job[j])'
      BY <3>1, <2>1, <2>2, <1>w DEF Fits, HasFields, OpsOf, Skips, Exports, Merges
    <3>4. InTurn(job[j])'
      BY <3>1, <2>2, <1>w DEF InTurn, Imports, Saves, Sweeps, ExportsWhole, Missing, Truths, HasFields, Merges
    <3> QED
      BY <3>2, <3>3, <3>4, <2>1, <2>2, <2>4, Becoming, OnlyMoves
  <2> QED
    BY <1>1, <2>3, <2>4 DEF People!LookForOptOut
<1>2. ASSUME People!OptIn(j) PROVE PeopleIInv'
  <2>1. PICK e : /\ opt_outs' = opt_outs \ {e}
                 /\ job' = [i \in Jobs |-> IF i = j THEN People!Idle ELSE [job[i] EXCEPT !.stood = @ \ {e}]]
    BY <1>2 DEF People!OptIn
  <2>2. job[j].at = "opt_in" /\ UNCHANGED <<contacts, groups, used, together, people_started, undone>>
    BY <1>2 DEF People!OptIn
  <2>3. Alone(j)
    BY <2>2, AtWork
  <2>4. DataOK' /\ Books'
    BY <2>2 DEF PeopleIInv, DataOK, Books, People!ImportAllOrNothing, People!NoDanglingGroups, People!Known
  <2>5. Good(job[j])'
    BY <2>1, IdleIsGood
  <2>6. [People!Idle EXCEPT !.stood = @ \ {e}] = People!Idle
    BY DEF People!Idle
  <2>7. ASSUME NEW i \in Jobs, i # j PROVE Good(job[i])'
    <3>1. job'[i] = [job[i] EXCEPT !.stood = @ \ {e}]
      BY <2>1, <2>7
    <3>2. CASE job[i] = People!Idle
      BY <3>1, <3>2, <2>6, IdleIsGood
    <3>3. CASE job[i] # People!Idle
      <4>1. together /\ HasFields(job[i]) /\ Fits(job[i]) /\ Skips(job[i])
        BY <2>3, <2>7, <3>3, AtWork DEF Alone
      <4>2. HasFields(job[i])'
        BY <3>1, <4>1 DEF HasFields
      <4>3. Fits(job[i])'
        BY <3>1, <3>3, <4>1 DEF Fits, HasFields
      <4>4. Skips(job[i])'
        BY <3>1, <4>1, <2>1 DEF Skips, HasFields
      <4> QED
        BY <4>1, <4>2, <4>3, <4>4, <2>2 DEF Good
    <3> QED
      BY <3>2, <3>3
  <2>8. ASSUME NEW i \in Jobs, job'[i] # People!Idle PROVE Alone(i)'
    BY <2>1, <2>2, <2>3, <2>6, <2>8 DEF Alone
  <2>9. job' = [i \in Jobs |-> job'[i]]
    BY <2>1
  <2> QED
    BY <2>4, <2>5, <2>7, <2>8, <2>9 DEF PeopleIInv, JobsGood
<1>3. ASSUME People!GatherKeys(j) PROVE PeopleIInv'
  <2>1. job[j].at = "gather" /\ UNCHANGED <<People!data, together, people_started, undone>>
    BY <1>3 DEF People!GatherKeys
  <2>2. Alone(j) /\ job[j].op = "bunches"
    BY <2>1, <1>w, AtWork DEF Fits, OpsOf
  <2>3. CASE People!Ends(j)
    BY <2>1, <2>2, <2>3, OnlyEnds
  <2>4. ASSUME NEW found, People!Becomes(j, [job[j] EXCEPT !.todo = found, !.at = "bunch"]) PROVE PeopleIInv'
    <3>1. job'[j] = [job[j] EXCEPT !.todo = found, !.at = "bunch"]
      BY <2>4, Becoming
    <3>2. HasFields(job[j])'
      BY <3>1, <1>w DEF HasFields
    <3>3. Fits(job[j])' /\ Skips(job[j])'
      BY <3>1, <2>1, <2>2, <1>w DEF Fits, HasFields, OpsOf, Skips, Exports, Merges, People!data
    <3>4. InTurn(job[j])'
      BY <3>1, <2>2, <1>w DEF InTurn, Imports, Saves, Sweeps, ExportsWhole, Missing, Truths, HasFields, Merges
    <3> QED
      BY <3>2, <3>3, <3>4, <2>1, <2>2, <2>4, Becoming, OnlyMoves
  <2>5. PICK found : found = {m[1] : m \in People!MemberPages(job[j].group)}
    OBVIOUS
  <2> QED
    BY <1>3, <2>3, <2>4, <2>5 DEF People!GatherKeys
<1>4. ASSUME People!LoadBunch(j) PROVE PeopleIInv'
  <2>1. job[j].at = "bunch" /\ UNCHANGED <<People!data, together, people_started, undone>>
    BY <1>4 DEF People!LoadBunch
  <2>2. Alone(j) /\ job[j].op = "bunches"
    BY <2>1, <1>w, AtWork DEF Fits, OpsOf
  <2>3. PICK addresses : addresses =
          {People!AddrOf(contacts[k], job[j].value) : k \in {i \in job[j].todo : contacts[i] # Nothing}} \ {Nothing}
    OBVIOUS
  <2>4. job'[j] = [job[j] EXCEPT !.at = "filter", !.todo = addresses] /\ job' = [job EXCEPT ![j] = job'[j]]
    <3>1. People!Becomes(j, [job[j] EXCEPT !.at = "filter", !.todo = addresses])
      BY <1>4, <2>3 DEF People!LoadBunch
    <3> QED
      BY <3>1, Becoming
  <2>5. HasFields(job[j])'
    BY <2>4, <1>w DEF HasFields
  <2>6. Fits(job[j])' /\ Skips(job[j])'
    BY <2>4, <2>1, <2>2, <1>w DEF Fits, HasFields, OpsOf, Skips, Exports, Merges, People!data
  <2>7. InTurn(job[j])'
    BY <2>4, <2>2, <1>w DEF InTurn, Imports, Saves, Sweeps, ExportsWhole, Missing, Truths, HasFields, Merges
  <2> QED
    BY <2>1, <2>2, <2>4, <2>5, <2>6, <2>7, OnlyMoves
<1>5. ASSUME People!FilterOptedOut(j) PROVE PeopleIInv'
  <2>1. job[j].at = "filter" /\ UNCHANGED <<People!data, together, people_started, undone>>
    BY <1>5 DEF People!FilterOptedOut
  <2>2. Alone(j) /\ job[j].op = "bunches"
    BY <2>1, <1>w, AtWork DEF Fits, OpsOf
  <2>3. PICK a : People!Becomes(j, [job[j] EXCEPT !.todo = @ \ {a},
          !.made = IF <<People!AddrType(job[j].value), a>> \in opt_outs THEN @ ELSE @ \union {a}])
    BY <1>5 DEF People!FilterOptedOut
  <2>4. /\ job'[j] = [job[j] EXCEPT !.todo = @ \ {a},
             !.made = IF <<People!AddrType(job[j].value), a>> \in opt_outs THEN @ ELSE @ \union {a}]
        /\ job' = [job EXCEPT ![j] = job'[j]]
    BY <2>3, Becoming
  <2>5. HasFields(job[j])'
    BY <2>4, <1>w DEF HasFields
  <2>6. Fits(job[j])'
    BY <2>4, <2>1, <2>2, <1>w DEF Fits, HasFields, OpsOf, Exports, Merges
  <2>7. Skips(job[j])'
    BY <2>4, <2>1, <2>2, <1>w DEF Skips, HasFields, People!data
  <2>8. InTurn(job[j])'
    BY <2>4, <2>1, <2>2, <1>w DEF InTurn, Imports, Saves, Sweeps, ExportsWhole, Missing, Truths, HasFields, Merges
  <2> QED
    BY <2>1, <2>2, <2>4, <2>5, <2>6, <2>7, <2>8, OnlyMoves
<1>6. ASSUME People!BunchesEnd(j) PROVE PeopleIInv'
  BY <1>6, AtWork, OnlyEnds DEF People!BunchesEnd
<1> QED
  BY <1>1, <1>2, <1>3, <1>4, <1>5, <1>6 DEF People!OptOutSteps

LEMMA DieInv ==
  ASSUME PeopleIInv, NEW j \in Jobs, People!Die(j)
  PROVE  PeopleIInv'
<1>1. Alone(j)
  BY DEF People!Die, PeopleIInv, JobsGood
<1>2. UNCHANGED <<People!data, together, undone>> /\ people_started' \in Nat
  BY DEF People!Die, PeopleIInv, DataOK
<1> QED
  BY <1>1, <1>2, EndInv DEF People!Die

LEMMA InitInv ==
  ASSUME People!ContactsConstants, People!Init
  PROVE  PeopleIInv
<1>1. DataOK
  BY DEF People!Init, DataOK
<1>2. Books
  BY DEF People!Init, Books, People!ImportAllOrNothing, People!NoDanglingGroups
<1>3. \A j \in Jobs : job[j] = People!Idle
  BY DEF People!Init
<1>4. JobsGood
  BY <1>3, IdleGood DEF People!Init, JobsGood
<1> QED
  BY <1>1, <1>2, <1>4 DEF PeopleIInv

Steps(j) ==
  \/ People!StartOne(j) \/ People!StartOptOutJob(j) \/ People!LookUpSteps(j) \/ People!ContactSteps(j) \/ People!GroupSteps(j)
  \/ People!ImportSteps(j) \/ People!ExportSteps(j) \/ People!OptOutSteps(j) \/ People!Die(j)

LEMMA NextInv ==
  ASSUME People!ContactsConstants, PeopleIInv, [People!Next]_(People!vars)
  PROVE  PeopleIInv'
<1>1. ASSUME NEW j \in Jobs, Steps(j) PROVE PeopleIInv'
  BY <1>1, StartOneInv, StartOptOutJobInv, LookUpInv, ContactInv, GroupInv, ImportInv, ExportInv, OptOutInv, DieInv
     DEF Steps
<1>2. CASE UNCHANGED People!vars
  <2>1. DataOK' /\ Books'
    BY <1>2 DEF People!vars, PeopleIInv, DataOK, Books, People!ImportAllOrNothing, People!NoDanglingGroups, People!Known
  <2>2. ASSUME NEW j \in Jobs PROVE Good(job[j])' /\ (job[j] # People!Idle => Alone(j))'
    <3>1. job'[j] = job[j] /\ job' = job
      BY <1>2 DEF People!vars
    <3>2. Good(job[j]) /\ (job[j] # People!Idle => Alone(j))
      BY DEF PeopleIInv, JobsGood
    <3>3. (job[j] # People!Idle => Alone(j))'
      BY <3>1, <3>2, <1>2 DEF People!vars, Alone
    <3>4. (HasFields(job[j]) /\ Fits(job[j]) /\ Skips(job[j]))'
      BY <3>1, <3>2, <1>2 DEF People!vars, Good, HasFields, Fits, Skips
    <3>5. UNCHANGED <<contacts, groups, used, undone, together>>
      BY <1>2 DEF People!vars
    <3>6. InTurn(job[j])' <=> InTurn(job[j])
      BY <3>1, <3>5 DEF InTurn, Imports, Saves, Sweeps, ExportsWhole, Missing, Truths, People!Known, MembersOf, Stored,
                        People!Indexed, People!Named
    <3> QED
      BY <3>2, <3>3, <3>4, <3>5, <3>6 DEF Good
  <2>3. job' = [j \in Jobs |-> job'[j]]
    BY <1>2 DEF People!vars, PeopleIInv, JobsGood
  <2> QED
    BY <2>1, <2>2, <2>3 DEF PeopleIInv, JobsGood
<1> QED
  BY <1>1, <1>2 DEF People!Next, Steps

THEOREM Inductive == People!ContactsConstants => (People!Spec => []PeopleIInv)
<1> SUFFICES ASSUME People!ContactsConstants PROVE People!Spec => []PeopleIInv
  OBVIOUS
<1>1. People!Init => PeopleIInv
  BY InitInv
<1>2. PeopleIInv /\ [People!Next]_(People!vars) => PeopleIInv'
  BY NextInv
<1> QED
  BY <1>1, <1>2, PTL DEF People!Spec

\* OptedOutAreSkipped: whatever else runs, nobody is given the address of one who had opted out
\* before the conversation asked, and has not opted in since.
THEOREM NobodyOptedOutIsSentTo == People!ContactsConstants => (People!Spec => []People!OptedOutAreSkipped)
<1>1. PeopleIInv => People!OptedOutAreSkipped
  BY DEF PeopleIInv, JobsGood, Good, Skips, People!AddrType, People!OptedOutAreSkipped
<1> QED
  BY <1>1, Inductive, PTL

\* NothingHalfDone: jobs in turn, an import that reports failure leaves none of its contacts,
\* wherever jobs died before.
THEOREM FailedImportsLeaveNothing == People!ContactsConstants => (People!Spec => []People!ImportAllOrNothing)
<1>1. PeopleIInv => People!ImportAllOrNothing
  BY DEF PeopleIInv, Books
<1> QED
  BY <1>1, Inductive, PTL

\* NothingHalfDone: jobs in turn, no contact is in a group that is gone: delete_group takes the
\* members out before it deletes the group, and may die between any two of its saves.
THEOREM NoGroupDangles == People!ContactsConstants => (People!Spec => []People!NoDanglingGroups)
<1>1. PeopleIInv => People!NoDanglingGroups
  BY DEF PeopleIInv, Books
<1> QED
  BY <1>1, Inductive, PTL

\* NothingHalfDone: jobs in turn, the mail of an export has all that there is, up to the limit, and
\* says how much there is.
THEOREM ExportsHaveEverything == People!ContactsConstants => (People!Spec => []People!ExportsAreWhole)
<1>1. PeopleIInv => People!ExportsAreWhole
  <2> SUFFICES ASSUME PeopleIInv, ~together, NEW j \in Jobs, job[j].at = "mail"
      PROVE  /\ {m[1] : m \in job[j].made} \subseteq Stored
             /\ job[j].op = "export_all_contacts" =>
                  /\ job[j].rows = Cardinality(Stored)
                  /\ Cardinality(job[j].made) = AtMost(job[j].rows)
             /\ job[j].op = "export_groups" => {m[1] : m \in job[j].made} = MembersOf(job[j].stood)
    BY LibrarySets DEF People!ExportsAreWhole, Stored, MembersOf, AtMost
  <2> QED
    BY DEF PeopleIInv, JobsGood, Good, InTurn, ExportsWhole
<1> QED
  BY <1>1, Inductive, PTL
-----------------------------------------------------------------------------
\* In turn, a job at work is the one that goes on.
LEMMA OneGoesOn ==
  ASSUME PeopleIInv, ~together, NEW j \in Jobs, NEW i \in Jobs, job[i] # People!Idle, Steps(j)
  PROVE  i = j /\ ~People!StartOne(j) /\ ~People!StartOptOutJob(j)
<1>1. ASSUME NEW op, People!MayStart(j, op) PROVE FALSE
  BY <1>1 DEF People!MayStart
<1>2. ~People!StartOne(j) /\ ~People!StartOptOutJob(j)
  BY <1>1 DEF People!StartOne, People!StartOptOutJob, People!StartLookUp, People!StartEdit, People!NewContact, People!NewGroup, People!StartByName, People!StartOnGroup,
     People!ManageContactGroup, People!ImportContacts, People!StartMerge, People!StartExport, People!StartExportAll, People!StartGroupExport,
     People!ConsumeOptOut, People!HandleOptOut, People!StartCancel, People!StartBunches, People!Starts
<1>3. Alone(i)
  BY DEF PeopleIInv, JobsGood
<1>4. job[j] # People!Idle
  <2>1. People!Idle.at = "idle"
    BY DEF People!Idle
  <2>2. job[j] = People!Idle => ~People!LookUpSteps(j) /\ ~People!ContactSteps(j)
    BY <2>1 DEF People!LookUpSteps, People!ContactSteps, People!QueryIndex, People!LoadFound, People!LoadNone, People!NewContactForAddr, People!LoadContact,
       People!SaveContact, People!DeleteContact
  <2>3. job[j] = People!Idle => ~People!GroupSteps(j)
    BY <2>1 DEF People!GroupSteps, People!SearchByName, People!NewGroupByName, People!LoadGroup, People!SaveGroup, People!ListMembers, People!SweepMember, People!DropGroup,
       People!AllSwept, People!ListPages, People!PurgeContact, People!RaisePurge
  <2>4. job[j] = People!Idle => ~People!ImportSteps(j)
    BY <2>1 DEF People!ImportSteps, People!ImportRow, People!ImportRaises, People!ImportDone, People!CleanUp, People!ReportFailure, People!MergeRow, People!ReloadRow, People!MergeEnds
  <2>5. job[j] = People!Idle => ~People!ExportSteps(j) /\ ~People!OptOutSteps(j)
    BY <2>1 DEF People!ExportSteps, People!ListAllKeys, People!Cut, People!GetGroups, People!ListRows, People!LoadRows, People!MailExport, People!OptOutSteps, People!LookForOptOut,
       People!OptIn, People!GatherKeys, People!LoadBunch, People!FilterOptedOut, People!BunchesEnd
  <2> QED
    BY <1>2, <2>2, <2>3, <2>4, <2>5 DEF Steps, People!Die
<1> QED
  BY <1>2, <1>3, <1>4 DEF Alone

\* Which steps give a key, and which save or delete a contact.
LEMMA WhoWrites ==
  ASSUME PeopleIInv, NEW j \in Jobs, Steps(j), ~People!StartOne(j), ~People!StartOptOutJob(j)
  PROVE  /\ used' # used => \/ People!LoadNone(j) \/ People!NewContactForAddr(j)
                            \/ job[j].op = "group_by_name" /\ People!NewGroupByName(j)
                            \/ job[j].op = "import_new"
         /\ contacts' # contacts => People!SaveContact(j) \/ job[j].op \notin {"existing_is_truth"}
<1>w. Fits(job[j])
  BY AtWork
<1>1. CASE People!LookUpSteps(j)
  BY <1>1, <1>w DEF People!LookUpSteps, People!QueryIndex, People!LoadFound, People!LoadNone, People!NewContactForAddr, Fits, OpsOf, People!data
<1>2. CASE People!ContactSteps(j)
  BY <1>2, <1>w DEF People!ContactSteps, People!LoadContact, People!SaveContact, People!DeleteContact, Fits, OpsOf, People!data
<1>3. CASE People!GroupSteps(j)
  BY <1>3, <1>w DEF People!GroupSteps, People!SearchByName, People!NewGroupByName, People!LoadGroup, People!SaveGroup, People!ListMembers, People!SweepMember,
     People!DropGroup, People!ListPages, People!PurgeContact, People!RaisePurge, Fits, OpsOf, People!data
<1>4. CASE People!ImportSteps(j)
  BY <1>4, <1>w DEF People!ImportSteps, People!ImportRow, People!ImportRaises, People!ImportDone, People!CleanUp, People!ReportFailure, People!MergeRow, People!ReloadRow,
     People!MergeEnds, Fits, OpsOf, People!data
<1>5. CASE People!ExportSteps(j)
  BY <1>5 DEF People!ExportSteps, People!ListAllKeys, People!Cut, People!GetGroups, People!ListRows, People!LoadRows, People!MailExport, People!data
<1>6. CASE People!OptOutSteps(j)
  BY <1>6 DEF People!OptOutSteps, People!LookForOptOut, People!OptIn, People!GatherKeys, People!LoadBunch, People!FilterOptedOut, People!BunchesEnd, People!data
<1>7. CASE People!Die(j)
  BY <1>7 DEF People!Die, People!data
<1> QED
  BY <1>1, <1>2, <1>3, <1>4, <1>5, <1>6, <1>7 DEF Steps

\* Whom a look-up does not find under the normal address has no contact under any, if none is
\* saved with its resource.
LEMMA UnderAnyAddress ==
  ASSUME People!ContactsConstants, PeopleIInv, \A s \in Senders : ~s.addr.resource, NEW s \in Senders, People!Indexed(s) = {},
         NEW k \in Keys, contacts[k] # Nothing
  PROVE  People!AddrOf(contacts[k], s.delivery) \notin [user : {s.addr.user}, resource : BOOLEAN]
<1> SUFFICES ASSUME People!AddrOf(contacts[k], s.delivery) \in [user : {s.addr.user}, resource : BOOLEAN]
             PROVE  FALSE
  OBVIOUS
<1>1. PICK a : a = People!AddrOf(contacts[k], s.delivery)
  OBVIOUS
<1>2. contacts[k] \in ContactRec
  BY DEF PeopleIInv, DataOK
<1>3. a \in Given \union {Nothing, Unknown}
  BY <1>1, <1>2 DEF People!AddrOf, ContactRec
<1>4. a \in People!Addresses
  BY <1>1 DEF People!Addresses
<1>5. a \in Given
  BY <1>3, <1>4 DEF People!ContactsConstants
<1>6. a.resource = FALSE
  <2>1. \A t \in Senders : t.addr \in People!Addresses /\ t.addr.resource = FALSE
    BY DEF People!ContactsConstants, People!Addresses
  <2>2. ASSUME NEW t \in Senders PROVE People!NormalizeAddr(t.delivery, t.addr).resource = FALSE
    BY <2>1 DEF People!NormalizeAddr, People!Addresses
  <2> QED
    BY <2>1, <2>2, <1>5 DEF Given
<1>7. a = People!NormalizeAddr(s.delivery, s.addr)
  <2>1. a.user = s.addr.user /\ a.resource = FALSE /\ DOMAIN a = {"user", "resource"}
    BY <1>1, <1>6
  <2>2. s.addr \in People!Addresses /\ s.addr.resource = FALSE
    BY DEF People!ContactsConstants, People!Addresses
  <2>3. a = s.addr
    BY <2>1, <2>2, <1>1 DEF People!Addresses
  <2> QED
    BY <2>2, <2>3 DEF People!NormalizeAddr, People!Addresses
<1>8. k \in People!Indexed(s)
  BY <1>1, <1>7 DEF People!Indexed
<1> QED
  BY <1>8

\* LookUpsAndImportsKeepContacts: jobs in turn, a look-up makes only what is missing, and an import
\* of existing truths loses none of them; if no address came with its resource: get_or_create looks
\* one up without it and saves it with it.
THEOREM OnlyTheMissingIsMade ==
  People!ContactsConstants /\ (\A s \in Senders : ~s.addr.resource) =>
    (People!Spec => [][People!MakesOnlyTheMissing /\ People!ExistingIsTruth]_(People!vars))
<1> SUFFICES ASSUME People!ContactsConstants, \A s \in Senders : ~s.addr.resource
             PROVE  People!Spec => [][People!MakesOnlyTheMissing /\ People!ExistingIsTruth]_(People!vars)
  OBVIOUS
<1>1. ASSUME PeopleIInv, NEW i \in Jobs, Steps(i), ~together PROVE People!MakesOnlyTheMissing
  <2> SUFFICES ASSUME NEW j \in Jobs, used' # used
               PROVE  /\ job[j].op \in People!LookUps =>
                           ~\E k \in Keys :
                              /\ contacts[k] # Nothing
                              /\ People!AddrOf(contacts[k], job[j].sender.delivery) \in
                                   [user : {job[j].sender.addr.user}, resource : BOOLEAN]
                      /\ job[j].op = "group_by_name" => ~\E g \in Groups : People!Known(g) /\ groups[g].name = job[j].value
    BY DEF People!MakesOnlyTheMissing
  <2>1. CASE job[j] = People!Idle
    BY <2>1 DEF People!Idle, People!LookUps
  <2>2. CASE job[j] # People!Idle
    <3>1. i = j /\ ~People!StartOne(j) /\ ~People!StartOptOutJob(j)
      BY <1>1, <2>2, OneGoesOn
    <3>2. \/ People!LoadNone(j) \/ People!NewContactForAddr(j)
          \/ job[j].op = "group_by_name" /\ People!NewGroupByName(j)
          \/ job[j].op = "import_new"
      BY <1>1, <3>1, WhoWrites
    <3>3. Fits(job[j]) /\ Missing(job[j])
      BY <1>1, AtWork DEF InTurn
    <3>4. CASE People!LoadNone(j) \/ People!NewContactForAddr(j)
      <4>1. job[j].at \in {"load_found", "new_for_addr"} /\ (People!LoadNone(j) => \A k \in job[j].todo : contacts[k] = Nothing)
        BY <3>4 DEF People!LoadNone, People!NewContactForAddr
      <4>2. job[j].sender \in Senders /\ job[j].op \in People!LookUps
        BY <4>1, <3>3 DEF Fits, OpsOf, People!LookUps
      <4>3. People!Indexed(job[j].sender) = {}
        <5>1. CASE job[j].at = "new_for_addr"
          BY <5>1, <3>3 DEF Missing
        <5>2. CASE job[j].at = "load_found"
          <6>1. People!LoadNone(j)
            BY <5>2, <3>4 DEF People!NewContactForAddr
          <6>2. job[j].todo = People!Indexed(job[j].sender)
            BY <5>2, <3>3 DEF Missing
          <6> QED
            BY <6>1, <6>2, <4>1 DEF People!Indexed
        <5> QED
          BY <4>1, <5>1, <5>2
      <4>4. \A k \in Keys : contacts[k] # Nothing =>
              People!AddrOf(contacts[k], job[j].sender.delivery) \notin [user : {job[j].sender.addr.user}, resource : BOOLEAN]
        <5>1. PICK s : s = job[j].sender
          OBVIOUS
        <5>2. s \in Senders /\ People!Indexed(s) = {}
          BY <5>1, <4>2, <4>3
        <5>3. \A k \in Keys : contacts[k] # Nothing =>
                People!AddrOf(contacts[k], s.delivery) \notin [user : {s.addr.user}, resource : BOOLEAN]
          BY <5>2, <1>1, UnderAnyAddress
        <5> QED
          BY <5>1, <5>3
      <4> QED
        BY <4>2, <4>4 DEF People!LookUps
    <3>5. CASE People!NewGroupByName(j) /\ job[j].op = "group_by_name"
      <4>1. job[j].at = "new_group"
        BY <3>5 DEF People!NewGroupByName
      <4>2. People!Named(job[j].value) = {}
        BY <4>1, <3>3 DEF Missing
      <4> QED
        BY <3>5, <4>2 DEF People!Named, People!LookUps
    <3> QED
      BY <3>2, <3>4, <3>5 DEF People!LookUps
  <2> QED
    BY <2>1, <2>2
<1>2. ASSUME PeopleIInv, NEW i \in Jobs, Steps(i), ~together PROVE People!ExistingIsTruth
  <2> SUFFICES ASSUME NEW j \in Jobs, job[j].op = "existing_is_truth", NEW k \in Keys, contacts[k] # Nothing
               PROVE  /\ contacts[k].groups \subseteq contacts'[k].groups
                      /\ contacts'[k].subscription = contacts[k].subscription
                      /\ \A l \in Labels : contacts[k].extra[l] # Nothing => contacts'[k].extra[l] = contacts[k].extra[l]
    BY DEF People!ExistingIsTruth
  <2>1. job[j] # People!Idle
    BY DEF People!Idle
  <2>2. i = j /\ (contacts' # contacts => People!SaveContact(j))
    <3>1. i = j /\ ~People!StartOne(j) /\ ~People!StartOptOutJob(j)
      BY <1>2, <2>1, OneGoesOn
    <3> QED
      BY <3>1, <1>2, WhoWrites
  <2>3. CASE People!SaveContact(j)
    <3>1. job[j].at = "save" /\ contacts' = [contacts EXCEPT ![job[j].key] = job[j].copy]
      BY <2>3 DEF People!SaveContact
    <3>2. Fits(job[j]) /\ Truths(job[j])
      BY <1>2, AtWork DEF InTurn
    <3>3. job[j].key \in Keys
      BY <3>1, <3>2 DEF Fits
    <3>4. CASE k # job[j].key
      BY <3>1, <3>4, <1>2 DEF PeopleIInv, DataOK
    <3>5. CASE k = job[j].key
      <4>1. contacts'[k] = job[j].copy
        BY <3>1, <3>3, <3>5, <1>2 DEF PeopleIInv, DataOK
      <4>2. Keeps(contacts[k], job[j].copy) /\ contacts[k].groups \subseteq job[j].copy.groups
        BY <3>1, <3>2, <3>5 DEF Truths
      <4> QED
        BY <4>1, <4>2 DEF Keeps
    <3> QED
      BY <3>4, <3>5
  <2>4. CASE contacts' = contacts
    BY <2>4
  <2> QED
    BY <2>2, <2>3, <2>4
<1>3. PeopleIInv /\ [People!Next]_(People!vars) => [People!MakesOnlyTheMissing /\ People!ExistingIsTruth]_(People!vars)
  <2>1. ASSUME PeopleIInv, NEW i \in Jobs, Steps(i) PROVE People!MakesOnlyTheMissing /\ People!ExistingIsTruth
    <3>1. CASE together
      BY <3>1 DEF People!MakesOnlyTheMissing, People!ExistingIsTruth
    <3>2. CASE ~together
      BY <3>2, <2>1, <1>1, <1>2
    <3> QED
      BY <3>1, <3>2
  <2> QED
    BY <2>1 DEF People!Next, Steps
<1> QED
  BY <1>3, Inductive, PTL DEF People!Spec
=============================================================================
