--------------------------- MODULE SequentialSend ---------------------------
(***************************************************************************)
(* A conversation that sends the messages of a list one after the other,   *)
(* one on every date of its schedule, to each contact of its groups: the   *)
(* worker polls the conversations it watches and keeps in the contact the  *)
(* index of its next message.  The worker keeps no copies of conversations *)
(* (conversation_cache_ttl is zero).                                       *)
(*                                                                         *)
(* A command is acknowledged when it is handled, and delivered again if    *)
(* the worker dies before.  LoopingCall waits for a poll to end.           *)
(***************************************************************************)
EXTENDS Naturals, Sequences, FiniteSets

CONSTANTS
  Contacts,
  NumMessages,         \* length of the list
  Dates,               \* of the schedule
  MaxNow,              \* bound on the time
  MaxCommands,         \* bound on the times the conversation is started or stopped
  MaxFaults,           \* bound on deaths of the worker, errors and edits
  Nothing

SequentialSendConstants ==
  /\ NumMessages \in Nat /\ Dates \subseteq Nat /\ {MaxNow, MaxCommands, MaxFaults} \subseteq Nat
  /\ Nothing \notin Contacts \union Nat

VARIABLES
  now, last_poll_time,
  status,              \* of the conversation
  scheduled,           \* is it in scheduled_conversations
  commands, asked,     \* the control queue, and how many commands were sent
  command,             \* what the worker does with the first of them
  at, interval,        \* where poll_conversations is, and what get_interval gave
  bunch,               \* contacts to go, with the index they were loaded with
  saving,              \* the contact that was sent to and is not saved
  index,               \* scheduled_message_index of the stored contacts
  edit,                \* a contact's form in the web interface: the index it was loaded with
  received,            \* history: messages sent, per contact
  faults,
  excused              \* history: did a save go over another, or was one lost

queue == <<status, scheduled, commands, asked, command>>
poll == <<at, interval, bunch, saving>>
vars == <<now, last_poll_time, queue, poll, index, edit, received, faults, excused>>

Fails == faults < MaxFaults /\ faults' = faults + 1

-----------------------------------------------------------------------------
(* The web interface starts and stops the conversation; see Conversations. *)
Ask(what, as) ==
  /\ asked < MaxCommands /\ asked' = asked + 1
  /\ status' = as /\ commands' = Append(commands, what)
  /\ excused' = (excused \/ command = "save")
  /\ UNCHANGED <<now, last_poll_time, scheduled, command, poll, index, edit, received, faults>>

\* process_command_start, _stop: the base class changes the status, or refuses to.
LoadForCommand ==
  /\ commands # <<>> /\ command = "none"
  /\ command' = IF status = (IF Head(commands) = "start" THEN "starting" ELSE "stopping")
                THEN "save" ELSE "schedule"
  /\ UNCHANGED <<now, last_poll_time, status, scheduled, commands, asked, poll, index, edit, received,
                 faults, excused>>

SaveStatus ==
  /\ command = "save" /\ command' = "schedule"
  /\ status' = IF Head(commands) = "start" THEN "running" ELSE "stopped"
  /\ UNCHANGED <<now, last_poll_time, scheduled, commands, asked, poll, index, edit, received,
                 faults, excused>>

(* The conversation is watched, or no longer, even if that was refused.    *)
Watched(what) == what = "start"

Schedule ==
  /\ command = "schedule" /\ command' = "none"
  /\ scheduled' = Watched(Head(commands)) /\ commands' = Tail(commands)
  /\ UNCHANGED <<now, last_poll_time, status, asked, poll, index, edit, received, faults, excused>>

-----------------------------------------------------------------------------
Tick ==
  /\ now < MaxNow /\ now' = now + 1
  /\ UNCHANGED <<last_poll_time, queue, poll, index, edit, received, faults, excused>>

\* get_interval: the time is set before anything is done.
PollConversations ==
  /\ at = "idle" /\ last_poll_time < now
  /\ interval' = <<last_poll_time, now>> /\ last_poll_time' = now
  /\ at' = "conversations"
  /\ UNCHANGED <<now, queue, bunch, saving, index, edit, received, faults, excused>>

IsScheduled == \E d \in Dates : interval[1] < d /\ d <= interval[2]

\* process_conversation_schedule: the config of a conversation that is not running raises.
ProcessConversationSchedule ==
  /\ at = "conversations"
  /\ IF scheduled /\ status = "running" /\ IsScheduled
     THEN at' = "contacts" /\ bunch' = index
     ELSE at' = "idle" /\ UNCHANGED bunch
  /\ UNCHANGED <<now, last_poll_time, queue, interval, saving, index, edit, received, faults, excused>>

\* send_scheduled_messages: the next contact has had them all, or has no address, or is sent to.
Skip(c) ==
  /\ at = "contacts" /\ saving = Nothing /\ bunch[c] # Nothing
  /\ bunch' = [bunch EXCEPT ![c] = Nothing]
  /\ UNCHANGED <<now, last_poll_time, queue, at, interval, saving, index, edit, received, faults, excused>>

SendMessage(c) ==
  /\ at = "contacts" /\ saving = Nothing /\ bunch[c] # Nothing
  /\ bunch[c] < NumMessages
  /\ received' = [received EXCEPT ![c] = Append(@, bunch[c])]
  /\ saving' = c
  /\ UNCHANGED <<now, last_poll_time, queue, at, interval, bunch, index, edit, faults, excused>>

SaveIndex ==
  /\ saving # Nothing
  /\ index' = [index EXCEPT ![saving] = bunch[saving] + 1]
  /\ bunch' = [bunch EXCEPT ![saving] = Nothing] /\ saving' = Nothing
  /\ UNCHANGED <<now, last_poll_time, queue, at, interval, edit, received, faults, excused>>

NoBunch == [c \in Contacts |-> Nothing]

AllSent ==
  /\ at = "contacts" /\ bunch = NoBunch /\ at' = "idle"
  /\ UNCHANGED <<now, last_poll_time, queue, interval, bunch, saving, index, edit, received, faults, excused>>

\* catch_and_log_errors: the rest of the conversation is given up.
SendRaises ==
  /\ at = "contacts" /\ Fails
  /\ at' = "idle" /\ bunch' = NoBunch /\ saving' = Nothing
  /\ excused' = (excused \/ saving # Nothing)
  /\ UNCHANGED <<now, last_poll_time, queue, interval, index, edit, received>>

\* setup_application of the next worker stores the time.
WorkerDies ==
  /\ Fails
  /\ last_poll_time' = now /\ command' = "none"
  /\ at' = "idle" /\ bunch' = NoBunch /\ saving' = Nothing
  /\ excused' = (excused \/ saving # Nothing)
  /\ UNCHANGED <<now, status, scheduled, commands, asked, interval, index, edit, received>>

-----------------------------------------------------------------------------
\* Others load a contact and save all of it, as person() of the web interface does.
LoadContact(c) ==
  /\ edit = Nothing /\ Fails /\ edit' = <<c, index[c]>>
  /\ UNCHANGED <<now, last_poll_time, queue, poll, index, received, excused>>

SaveContact ==
  /\ edit # Nothing /\ edit' = Nothing
  /\ index' = [index EXCEPT ![edit[1]] = edit[2]]
  /\ excused' = (excused \/ index[edit[1]] # edit[2])
  /\ UNCHANGED <<now, last_poll_time, queue, poll, received, faults>>

-----------------------------------------------------------------------------
Init ==
  /\ now = 0 /\ last_poll_time = 0
  /\ status = "stopped" /\ scheduled = FALSE /\ commands = <<>> /\ asked = 0 /\ command = "none"
  /\ at = "idle" /\ interval = <<0, 0>> /\ bunch = NoBunch /\ saving = Nothing
  /\ index = [c \in Contacts |-> 0] /\ edit = Nothing
  /\ received = [c \in Contacts |-> <<>>] /\ faults = 0 /\ excused = FALSE

Next ==
  \/ Ask("start", "starting") \/ Ask("stop", "stopping")
  \/ LoadForCommand \/ SaveStatus \/ Schedule
  \/ Tick \/ PollConversations \/ ProcessConversationSchedule
  \/ \E c \in Contacts : Skip(c) \/ SendMessage(c) \/ LoadContact(c)
  \/ SaveIndex \/ AllSent \/ SendRaises \/ WorkerDies \/ SaveContact

Spec == Init /\ [][Next]_vars
-----------------------------------------------------------------------------
(* A contact is sent at most one message per date of the schedule, however *)
(* late the polls are; the messages come in their order, none is left out, *)
(* and none comes again unless the worker died, or raised, between sending *)
(* it and saving the contact, or a form saved the contact it had loaded    *)
(* before.  When all commands are handled the conversation is watched if   *)
(* and only if it runs, however often commands were delivered, unless one  *)
(* was handled while the next was given.                                   *)
InSequence ==
  /\ \A c \in Contacts :
       /\ Len(received[c]) <= Cardinality({d \in Dates : d <= now})
       /\ ~excused => \A i \in DOMAIN received[c] : received[c][i] = i - 1
  /\ commands = <<>> /\ ~excused => (scheduled <=> status = "running")
=============================================================================
