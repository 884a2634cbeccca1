----------------------------- MODULE Scheduler -----------------------------
(***************************************************************************)
(* go/scheduler: a task that was scheduled, the rows that say it is        *)
(* pending, the periodic poll that sends due rows to celery, the celery    *)
(* task that performs them, and the requests that cancel, reactivate and   *)
(* reschedule the task.  Each statement is a transaction, and saving an    *)
(* object writes all its columns as they were loaded.                      *)
(***************************************************************************)
EXTENDS Naturals

CONSTANTS
  Procs,           \* processes: celery workers and web requests
  Pending,         \* primary keys of PendingTask
  MaxNow,          \* bound on the time, and on the dates
  MaxJobs,         \* bound on the messages and requests of a behaviour
  MaxDeaths,       \* bound on the processes that die
  Nothing

Dates == 0..MaxNow
TaskState == [status : {"pending", "cancelled", "completed"}, started : BOOLEAN, scheduled_for : Dates]
JobState ==
  [what : {"perform", "cancel", "reactivate", "modify"},
   at : {"load", "task", "start", "action", "delete", "complete", "create", "save", "row", "write"},
   pending : Pending \union {Nothing}, task : TaskState \union {Nothing}]

SchedulerConstants ==
  /\ {MaxNow, MaxJobs, MaxDeaths} \subseteq Nat
  /\ Nothing \notin Dates \union TaskState \union JobState

VARIABLES
  now,
  task,            \* status, has it been started, when is it scheduled for
  pending,         \* per PendingTask, when it is scheduled for
  messages,        \* perform_task messages in the celery queue: how many per row
  job,             \* what the processes do
  begun, deaths,
  performed,       \* history: how often the action was performed
  withdrawn,       \* history: was it performed when it was cancelled
  excused          \* history: did requests or workers get in each other's way

vars == <<now, task, pending, messages, job, begun, deaths, performed, withdrawn, excused>>

Exists(i) == pending[i] # Nothing
Rows == {i \in Pending : Exists(i)}

\* TaskManager.create
NewTask(date) == [status |-> "pending", started |-> FALSE, scheduled_for |-> date]

Goes(p, at) == job' = [job EXCEPT ![p].at = at]
Ends(p) == job' = [job EXCEPT ![p] = Nothing]

Begin(p, what, i) ==
  /\ job[p] = Nothing /\ begun < MaxJobs /\ begun' = begun + 1
  /\ job' = [job EXCEPT ![p] = [what |-> what, at |-> "load", pending |-> i, task |-> Nothing]]
  /\ UNCHANGED <<now, task, deaths, performed, withdrawn>>

\* self.get_object(), pending.task
Loads(p, at) == job' = [job EXCEPT ![p] = [@ EXCEPT !.task = task, !.at = at]]

Saves(t) == task' = t

-----------------------------------------------------------------------------
\* poll_tasks: a message for each row that is due.
PollTasks ==
  /\ begun < MaxJobs /\ begun' = begun + 1
  /\ messages' = [i \in Pending |-> messages[i] + (IF Exists(i) /\ pending[i] <= now THEN 1 ELSE 0)]
  /\ messages' # messages
  /\ UNCHANGED <<now, task, pending, job, deaths, performed, withdrawn>>

\* perform_task: the row is gone, or the task was started already, or it is started now.
PerformTask(p, i) ==
  /\ messages[i] > 0 /\ messages' = [messages EXCEPT ![i] = @ - 1]
  /\ Begin(p, "perform", i) /\ UNCHANGED pending

GetPending(p) ==
  /\ job[p] # Nothing /\ job[p].what = "perform" /\ job[p].at = "load"
  /\ IF Exists(job[p].pending) THEN Goes(p, "task") ELSE Ends(p)
  /\ UNCHANGED <<now, task, pending, messages, begun, deaths, performed, withdrawn>>

AlreadyStarted(t) == t.started

GetTask(p) ==
  /\ job[p] # Nothing /\ job[p].at = "task"
  /\ IF AlreadyStarted(task) THEN Ends(p) ELSE Loads(p, "start")
  /\ UNCHANGED <<now, task, pending, messages, begun, deaths, performed, withdrawn>>

StartTask(p) ==
  /\ job[p] # Nothing /\ job[p].at = "start"
  /\ Saves([job[p].task EXCEPT !.started = TRUE])
  /\ Goes(p, "action")
  /\ UNCHANGED <<now, pending, messages, begun, deaths, performed, withdrawn>>

\* perform_conversation_action, which may raise
PerformAction(p) ==
  /\ job[p] # Nothing /\ job[p].at = "action"
  /\ \/ /\ performed' = performed + 1
        /\ withdrawn' = (withdrawn \/ job[p].task.status = "cancelled")
        /\ Goes(p, "delete")
     \/ Ends(p) /\ UNCHANGED <<performed, withdrawn>>
  /\ UNCHANGED <<now, task, pending, messages, begun, deaths, excused>>

DeletePending(p) ==
  /\ job[p] # Nothing /\ job[p].what = "perform" /\ job[p].at = "delete"
  /\ pending' = [pending EXCEPT ![job[p].pending] = Nothing]
  /\ Goes(p, "complete")
  /\ UNCHANGED <<now, task, messages, begun, deaths, performed, withdrawn>>

CompleteTask(p) ==
  /\ job[p] # Nothing /\ job[p].at = "complete"
  /\ Saves([[job[p].task EXCEPT !.started = TRUE] EXCEPT !.status = "completed"])
  /\ Ends(p)
  /\ UNCHANGED <<now, pending, messages, begun, deaths, performed, withdrawn>>

-----------------------------------------------------------------------------
(* The requests: each loads the task, and is denied unless its status is   *)
(* the one it is for.  (Fault for the mutation runs: a task can be         *)
(* reactivated whatever its status.)                                       *)
AnyStatus(what) == {"pending", "cancelled", "completed"}
Expected(what) == IF what = "reactivate" THEN {"cancelled"} ELSE {"pending"}

Request(p, what) == Begin(p, what, Nothing) /\ UNCHANGED <<pending, messages>>

GetObject(p) ==
  LET what == job[p].what IN
  /\ job[p] # Nothing /\ what # "perform" /\ job[p].at = "load"
  /\ IF task.status \notin Expected(what) THEN Ends(p)
     ELSE Loads(p, IF what = "reactivate" THEN "create" ELSE "save")
  /\ UNCHANGED <<now, task, pending, messages, begun, deaths, performed, withdrawn>>

\* SchedulerCreatePendingTask
CreatePending(p) ==
  /\ job[p] # Nothing /\ job[p].at = "create"
  /\ \E i \in Pending \ Rows : pending' = [pending EXCEPT ![i] = job[p].task.scheduled_for]
  /\ Goes(p, "save")
  /\ UNCHANGED <<now, task, messages, begun, deaths, performed, withdrawn>>

SaveTask(p) ==
  LET what == job[p].what IN
  /\ job[p] # Nothing /\ job[p].at = "save"
  /\ CASE what = "cancel"     -> Saves([job[p].task EXCEPT !.status = "cancelled"]) /\ Goes(p, "row")
       [] what = "reactivate" -> Saves([job[p].task EXCEPT !.status = "pending"]) /\ Ends(p)
       [] what = "modify"     -> \E d \in Dates :
                                   LET t == [job[p].task EXCEPT !.scheduled_for = d] IN
                                   Saves(t) /\ job' = [job EXCEPT ![p].task = t, ![p].at = "row"]
  /\ UNCHANGED <<now, pending, messages, begun, deaths, performed, withdrawn>>

\* PendingTask.objects.get(task=task) raises unless there is one row.
GetRow(p) ==
  /\ job[p] # Nothing /\ job[p].at = "row"
  /\ IF \E i \in Pending : Rows = {i}
     THEN \E i \in Rows : job' = [job EXCEPT ![p] = [@ EXCEPT !.at = "write", !.pending = i]]
     ELSE Ends(p)
  /\ UNCHANGED <<now, task, pending, messages, begun, deaths, performed, withdrawn>>

\* SchedulerDelete deletes it; SchedulerModifyDate saves it, which puts it back if it is gone.
WriteRow(p) ==
  /\ job[p] # Nothing /\ job[p].at = "write"
  /\ pending' = [pending EXCEPT ![job[p].pending] =
                   IF job[p].what = "cancel" THEN Nothing ELSE job[p].task.scheduled_for]
  /\ Ends(p)
  /\ UNCHANGED <<now, task, messages, begun, deaths, performed, withdrawn>>

-----------------------------------------------------------------------------
\* A request that dies leaves the task and its rows at odds.
Die(p) ==
  /\ job[p] # Nothing /\ deaths < MaxDeaths /\ deaths' = deaths + 1
  /\ Ends(p)
  /\ UNCHANGED <<now, task, pending, messages, begun, performed, withdrawn>>

Tick ==
  /\ now < MaxNow /\ now' = now + 1
  /\ UNCHANGED <<task, pending, messages, job, begun, deaths, performed, withdrawn>>

Init ==
  /\ now = 0
  /\ \E d \in Dates, i \in Pending :
       /\ task = NewTask(d)
       /\ pending = [j \in Pending |-> IF j = i THEN d ELSE Nothing]
  /\ messages = [i \in Pending |-> 0]
  /\ job = [p \in Procs |-> Nothing] /\ begun = 0 /\ deaths = 0
  /\ performed = 0 /\ withdrawn = FALSE /\ excused = FALSE

Steps(p) ==
  \/ \E i \in Pending : PerformTask(p, i)
  \/ GetPending(p) \/ GetTask(p) \/ StartTask(p) \/ PerformAction(p)
  \/ DeletePending(p) \/ CompleteTask(p)
  \/ \E what \in {"cancel", "reactivate", "modify"} : Request(p, what)
  \/ GetObject(p) \/ CreatePending(p) \/ SaveTask(p) \/ GetRow(p) \/ WriteRow(p)
  \/ Die(p)

\* What is between reading the row or the task and marking the task started,
\* and what holds the task as it was when another looks at it.
Starting(p) == job[p] # Nothing /\ job[p].what = "perform" /\ job[p].at \in {"task", "start"}
Holds(p) == job[p] # Nothing /\ job[p].what # "perform" /\ job[p].at # "load"
Overlap == \E p, q \in Procs : p # q /\ (Starting(p) \/ Holds(p)) /\ (Starting(q) \/ Holds(q))

DiesHalfWay == deaths' # deaths /\ \E p \in Procs : Holds(p) /\ job'[p] = Nothing

Next ==
  /\ (\E p \in Procs : Steps(p)) \/ PollTasks \/ Tick
  /\ excused' = (excused \/ Overlap' \/ DiesHalfWay)

Spec == Init /\ [][Next]_vars
-----------------------------------------------------------------------------
(* However often it is polled, cancelled, reactivated and rescheduled, and *)
(* whatever workers die, a task is performed at most once and not when it  *)
(* is cancelled: unless a request or another worker loaded it just before  *)
(* it was started and saves it afterwards, or a request died half way.     *)
PerformedOnce == ~excused => performed <= 1 /\ ~withdrawn
=============================================================================
