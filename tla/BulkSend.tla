------------------------------ MODULE BulkSend ------------------------------
(***************************************************************************)
(* process_command_bulk_send of BulkMessageApplication: a message to every *)
(* contact of a conversation, through a window that limits how many are in *)
(* flight.  The command is delivered again if the worker dies before it    *)
(* acknowledges it, and resumes where its progress in Redis says.          *)
(*                                                                         *)
(* The window manager is vumi's: a queue of entries, those in flight, and  *)
(* the ids of the messages they were sent as.  Contact keys are numbers,   *)
(* in the order of their keys.                                             *)
(***************************************************************************)
EXTENDS Naturals, Sequences, FiniteSets

CONSTANTS
  NumContacts,     \* how many contacts the groups have
  Addresses,
  AddressOf,       \* the address of each contact
  WindowSize,      \* max_ack_window
  MaxDeaths,       \* bound on the deaths of the worker
  MaxOptChanges,   \* bound on the changes of opt-outs
  None

Keys == 1..NumContacts

Entries == [id : Nat, contact : Keys, addr : Addresses \union {None}]
SendingState == [entry : Entries, was_sent : BOOLEAN]

BulkSendConstants ==
  /\ {NumContacts, WindowSize, MaxDeaths, MaxOptChanges} \subseteq Nat
  /\ AddressOf \in [Keys -> Addresses] /\ None \notin Addresses \union SendingState

VARIABLES
  dedupe,          \* argument of the command
  command,         \* is it in the queue, not acknowledged
  at, key,         \* where process_command_bulk_send is, and at which contact
  to_addr, seen, interrupted,
  progress,        \* send progress in Redis; 0: none
  added,           \* how many entries were added
  window,          \* entries that wait
  flight,          \* entries in flight
  sending,         \* the entry of on_window_key_ready and how far it got
  sent_ids,        \* entries with an external id
  opted_out,
  changes,
  sent, reached,   \* history: messages sent, per contact and per address
  resent, repeated, \* history: per contact and address, deaths between its entry and its progress
  dropped,         \* history: contacts with an entry that was not sent
  touched,         \* history: addresses that were opted out during the command
  died

handler == <<dedupe, command, at, key, to_addr, seen, interrupted, progress>>
windowing == <<added, flight, sending, sent_ids>>
history == <<sent, reached, dropped>>
again == <<resent, repeated>>
vars == <<handler, window, windowing, opted_out, changes, touched, history, again, died>>

-----------------------------------------------------------------------------
\* contact_keys, sorted, and the progress of an interrupted command
Receive ==
  /\ command /\ at = "idle"
  /\ interrupted' = progress /\ seen' = {} /\ key' = 1 /\ to_addr' = None
  /\ at' = IF NumContacts = 0 THEN "clear" ELSE "contact"
  /\ UNCHANGED <<dedupe, command, progress, window, windowing, opted_out, changes, touched,
                 history, again, died>>

NextContact == IF key = NumContacts THEN at' = "clear" /\ UNCHANGED key
               ELSE at' = "contact" /\ key' = key + 1

\* get_opted_in_contact_address: None for an address that is opted out
OptedIn(a) == IF a \in opted_out THEN None ELSE a

(* The contact, its address if it is opted in; what was seen; what the     *)
(* interrupted command did.  (Fault for the mutation runs: a contact that  *)
(* is skipped has not been seen.)                                          *)
SeenIfSent(a) == IF key > interrupted THEN seen \union {a} ELSE seen
WithSeen(a) == seen \union {a}

DoneBefore(k) == k <= interrupted

LookUpContact ==
  LET a == OptedIn(AddressOf[key]) IN
  /\ at = "contact"
  /\ to_addr' = a
  /\ seen' = IF dedupe THEN WithSeen(a) ELSE seen
  /\ IF (dedupe /\ a \in seen) \/ DoneBefore(key) THEN NextContact ELSE at' = "add" /\ UNCHANGED key
  /\ UNCHANGED <<dedupe, command, interrupted, progress, window, windowing, opted_out, changes,
                 touched, history, again, died>>

\* send_message_via_window
AddToWindow ==
  /\ at = "add" /\ at' = "progress"
  /\ window' = Append(window, [id |-> added, contact |-> key, addr |-> to_addr])
  /\ added' = added + 1
  /\ UNCHANGED <<dedupe, command, key, to_addr, seen, interrupted, progress, flight, sending, sent_ids,
                 opted_out, changes, touched, history, again, died>>

SetSendProgress ==
  /\ at = "progress" /\ progress' = key /\ NextContact
  /\ UNCHANGED <<dedupe, command, to_addr, seen, interrupted, window, windowing, opted_out,
                 changes, touched, history, again, died>>

\* The command is acknowledged after that: if the worker dies first, it sends all again.
ClearSendProgress ==
  /\ at = "clear" /\ progress' = 0 /\ at' = "acknowledge"
  /\ UNCHANGED <<dedupe, command, key, to_addr, seen, interrupted, window, windowing, opted_out,
                 changes, touched, history, again, died>>

Acknowledge ==
  /\ at = "acknowledge" /\ command' = FALSE /\ at' = "done"
  /\ UNCHANGED <<dedupe, key, to_addr, seen, interrupted, progress, window, windowing, opted_out,
                 changes, touched, history, again, died>>

-----------------------------------------------------------------------------
(* The window: its monitor hands out the next entry while there is room.   *)
NextKey ==
  /\ sending = None /\ window # <<>> /\ Cardinality(flight) < WindowSize
  /\ window' = Tail(window)
  /\ flight' = flight \union {Head(window)}
  /\ sending' = [entry |-> Head(window), was_sent |-> FALSE]
  /\ UNCHANGED <<handler, added, sent_ids, opted_out, changes, touched, history, again, died>>

\* on_window_key_ready: an error of send_to is logged.
SendTo ==
  LET c == sending.entry.contact
      a == sending.entry.addr IN
  /\ sending # None /\ ~sending.was_sent
  /\ \/ /\ sending' = [sending EXCEPT !.was_sent = TRUE]
        /\ sent' = IF a = None THEN sent ELSE [sent EXCEPT ![c] = @ + 1]
        /\ reached' = IF a = None THEN reached ELSE [reached EXCEPT ![a] = @ + 1]
        /\ UNCHANGED dropped
     \/ sending' = None /\ dropped' = dropped \union {c} /\ UNCHANGED <<sent, reached>>
  /\ UNCHANGED <<handler, added, window, flight, sent_ids, opted_out, changes, touched, again, died>>

SetExternalId ==
  /\ sending # None /\ sending.was_sent
  /\ sending' = None /\ sent_ids' = sent_ids \union {sending.entry}
  /\ UNCHANGED <<handler, added, window, flight, opted_out, changes, touched, history, again, died>>

\* handle_event: an ack or nack that comes before the id is set finds no key.
HandleEvent(e) ==
  /\ e \in flight \intersect sent_ids
  /\ flight' = flight \ {e} /\ sent_ids' = sent_ids \ {e}
  /\ UNCHANGED <<handler, added, window, sending, opted_out, changes, touched, history, again, died>>

\* max_ack_wait: an entry is not in flight for ever.
FlightExpires(e) ==
  /\ e \in flight /\ IF sending = None THEN TRUE ELSE sending.entry # e
  /\ flight' = flight \ {e} /\ sent_ids' = sent_ids \ {e}
  /\ UNCHANGED <<handler, added, window, sending, opted_out, changes, touched, history, again, died>>

-----------------------------------------------------------------------------
OptOutOrIn(a) ==
  /\ changes < MaxOptChanges /\ changes' = changes + 1
  /\ opted_out' = (opted_out \ {a}) \union ({a} \ opted_out)
  /\ touched' = touched \union {a}
  /\ UNCHANGED <<handler, window, windowing, history, again, died>>

\* The command is in the queue again if it was not acknowledged.
WorkerDies ==
  /\ died < MaxDeaths /\ died' = died + 1
  /\ at' = IF command THEN "idle" ELSE at
  /\ resent' = CASE at = "progress"    -> [resent EXCEPT ![key] = @ + 1]
                 [] at = "acknowledge" -> [k \in Keys |-> resent[k] + 1]
                 [] OTHER              -> resent
  /\ repeated' = CASE at = "progress"    -> [repeated EXCEPT ![AddressOf[key]] = @ + 1]
                   [] at = "acknowledge" -> [a \in Addresses |-> repeated[a] + 1]
                   [] OTHER              -> repeated
  /\ dropped' = IF sending # None /\ ~sending.was_sent THEN dropped \union {sending.entry.contact}
                ELSE dropped
  /\ sending' = None
  /\ UNCHANGED <<dedupe, command, key, to_addr, seen, interrupted, progress, added, window, flight, sent_ids,
                 opted_out, changes, touched, sent, reached>>

Init ==
  /\ dedupe \in BOOLEAN /\ command = TRUE
  /\ at = "idle" /\ key = 1 /\ to_addr = None /\ seen = {} /\ interrupted = 0 /\ progress = 0
  /\ added = 0 /\ window = <<>> /\ flight = {} /\ sending = None /\ sent_ids = {}
  /\ opted_out \in {{}} \union {{a} : a \in Addresses} /\ touched = opted_out /\ changes = 0
  /\ sent = [k \in Keys |-> 0] /\ resent = [k \in Keys |-> 0]
  /\ reached = [a \in Addresses |-> 0] /\ repeated = [a \in Addresses |-> 0] /\ dropped = {} /\ died = 0

Next ==
  \/ Receive \/ LookUpContact \/ AddToWindow \/ SetSendProgress \/ ClearSendProgress \/ Acknowledge
  \/ NextKey \/ SendTo \/ SetExternalId
  \/ \E e \in flight : HandleEvent(e) \/ FlightExpires(e)
  \/ \E a \in Addresses : OptOutOrIn(a)
  \/ WorkerDies

Spec == Init /\ [][Next]_vars
-----------------------------------------------------------------------------
Having(a) == {k \in Keys : AddressOf[k] = a}

(* A contact gets the message once, and one time more for each death of    *)
(* the worker between the adding of its entry and the recording of its     *)
(* progress, or of the end of the command; with dedupe this is true of an  *)
(* address, however many contacts have it and wherever the command was     *)
(* interrupted.  When all is done, nobody was missed but those whose entry *)
(* a death or an error of the sending lost.  (Opted out meanwhile or not,  *)
(* contacts are counted; addresses are not.)                               *)
EachContactOnce ==
  /\ \A k \in Keys : sent[k] <= 1 + resent[k]
  /\ dedupe => \A a \in Addresses \ touched : reached[a] <= 1 + repeated[a]
  /\ at = "done" /\ window = <<>> /\ sending = None =>
       \A k \in Keys : AddressOf[k] \notin touched =>
         \E j \in (IF dedupe THEN Having(AddressOf[k]) ELSE {k}) : sent[j] > 0 \/ j \in dropped
=============================================================================
