------------------------- MODULE RecentConversations -------------------------
(***************************************************************************)
(* Which conversations had messages: workers note them in a set in Redis,  *)
(* and a celery task takes the set and publishes the metrics of the        *)
(* conversations in it.  A worker notes a conversation again only when it  *)
(* has forgotten that it did.                                              *)
(***************************************************************************)
EXTENDS Naturals, FiniteSets

CONSTANTS
  Convs, Workers, Tasks,
  MaxTasks,            \* bound on the tasks started
  MaxFaults            \* bound on tasks and workers that die

RecentConversationsConstants == {MaxTasks, MaxFaults} \subseteq Nat

VARIABLES
  local_recent_convs,  \* per worker
  recent, old,         \* recent_conversations, old_recent_conversations in Redis
  task,                \* where the tasks are, and the conversations they have to publish
  started, faults,
  owed,                \* history: noted and not published since
  excused              \* history: did a task die, or two take the set at once

vars == <<local_recent_convs, recent, old, task, started, faults, owed, excused>>

Fails == faults < MaxFaults /\ faults' = faults + 1
Details(ts) == UNION {task[t].details : t \in ts}

\* record_conv_seen, for a message of the conversation: all that the worker knows is added.
RecordConvSeen(w, c) ==
  LET known == local_recent_convs[w] \union {c} IN
  /\ c \notin local_recent_convs[w]
  /\ local_recent_convs' = [local_recent_convs EXCEPT ![w] = known]
  /\ recent' = recent \union known /\ owed' = owed \union known
  /\ UNCHANGED <<old, task, started, faults, excused>>

\* By the LoopingCall, or because the worker was restarted
ResetLocalRecentConvs(w) ==
  /\ local_recent_convs[w] # {}
  /\ local_recent_convs' = [local_recent_convs EXCEPT ![w] = {}]
  /\ UNCHANGED <<recent, old, task, started, faults, owed, excused>>

-----------------------------------------------------------------------------
(* get_and_reset_recent_conversations: rename, smembers, delete.  There is *)
(* nothing to rename when nothing was noted.                               *)
Rename(t) ==
  /\ task[t].at = "idle" /\ started < MaxTasks /\ started' = started + 1
  /\ IF recent = {} THEN UNCHANGED <<recent, old, task, excused>>
     ELSE /\ old' = recent /\ recent' = {}
          /\ task' = [task EXCEPT ![t].at = "renamed"]
          /\ excused' = (excused \/ \E u \in Tasks : task[u].at \in {"renamed", "members"})
  /\ UNCHANGED <<local_recent_convs, faults, owed>>

Members(t) ==
  /\ task[t].at = "renamed"
  /\ task' = [task EXCEPT ![t] = [at |-> "members", details |-> old]]
  /\ UNCHANGED <<local_recent_convs, recent, old, started, faults, owed, excused>>

OldGone == old' = {} /\ UNCHANGED recent

Delete(t) ==
  /\ task[t].at = "members" /\ OldGone
  /\ task' = [task EXCEPT ![t].at = "publish"]
  /\ UNCHANGED <<local_recent_convs, started, faults, owed, excused>>

PublishConversationMetrics(t, c) ==
  LET others == recent \union old \union Details(Tasks \ {t}) IN
  /\ task[t].at = "publish" /\ c \in task[t].details
  /\ task' = [task EXCEPT ![t].details = @ \ {c}]
  /\ owed' = IF c \in others THEN owed ELSE owed \ {c}
  /\ UNCHANGED <<local_recent_convs, recent, old, started, faults, excused>>

Close(t) ==
  /\ task[t].at = "publish" /\ task[t].details = {}
  /\ task' = [task EXCEPT ![t].at = "idle"]
  /\ UNCHANGED <<local_recent_convs, recent, old, started, faults, owed, excused>>

\* A conversation whose metrics raise ends the task as its death does.
TaskDies(t) ==
  /\ task[t].at # "idle" /\ Fails
  /\ task' = [task EXCEPT ![t] = [at |-> "idle", details |-> {}]]
  /\ excused' = TRUE
  /\ UNCHANGED <<local_recent_convs, recent, old, started, owed>>

-----------------------------------------------------------------------------
Init ==
  /\ local_recent_convs = [w \in Workers |-> {}] /\ recent = {} /\ old = {} /\ owed = {}
  /\ task = [t \in Tasks |-> [at |-> "idle", details |-> {}]]
  /\ started = 0 /\ faults = 0 /\ excused = FALSE

Next ==
  \/ \E w \in Workers : ResetLocalRecentConvs(w) \/ \E c \in Convs : RecordConvSeen(w, c)
  \/ \E t \in Tasks : \/ Rename(t) \/ Members(t) \/ Delete(t) \/ Close(t) \/ TaskDies(t)
                      \/ \E c \in Convs : PublishConversationMetrics(t, c)

Spec == Init /\ [][Next]_vars
-----------------------------------------------------------------------------
(* A conversation that was noted stays in one of the sets, or with a task, *)
(* until its metrics are published, however notes, forgetting and tasks    *)
(* follow one another, unless a task died or two took the set at once.     *)
NotedIsPublished == ~excused => owed \subseteq recent \union old \union Details(Tasks)
=============================================================================
