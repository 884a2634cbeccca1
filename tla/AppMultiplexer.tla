--------------------------- MODULE AppMultiplexer ---------------------------
(***************************************************************************)
(* The router that shows a user a menu of applications and passes the      *)
(* user's messages on to the one that was chosen, until the application    *)
(* closes the session.  What it knows of a user is in a session in Redis   *)
(* that expires; the menu is in the configuration of the router, which may *)
(* change at any time.  One user is modelled, who waits for an answer.     *)
(*                                                                         *)
(* From vumi: saving a session sets the given fields and leaves the others *)
(* as they are; a message is acknowledged when it is handled, and is       *)
(* delivered again if the worker dies before.                              *)
(***************************************************************************)
EXTENDS Naturals, Sequences, FiniteSets, SequencesExt

CONSTANTS
  Menus,               \* values of entries: sequences of endpoints
  MaxMessages,         \* bound on the messages of the user
  MaxChanges,          \* bound on the changes of the configuration
  MaxFaults,           \* bound on deaths, errors and expired sessions
  Nothing

MenuEndpoints == UNION {Range(menu) : menu \in Menus}
SessionState ==
  [state : {"start", "select", "selected", "bad_input"}, endpoints : Menus \union {Nothing},
   active : MenuEndpoints \union {Nothing}]

AppMultiplexerConstants ==
  /\ \A menu \in Menus : Len(menu) > 0 /\ IsInjective(menu)
  /\ Nothing \notin Menus \union MenuEndpoints \union SessionState \union BOOLEAN
  /\ {MaxMessages, MaxChanges, MaxFaults} \subseteq Nat

VARIABLES
  entries,             \* of the router's configuration
  session,             \* the user's, in Redis
  msg,                 \* the user's message that is handled, with what was loaded for it
  at,                  \* where handle_inbound is
  response,            \* the StateResponse that was saved and is not published
  reply,               \* an application's message that is handled: did it find a session
  shown,               \* history: the menu the user sees
  chosen,              \* history: the endpoint the user chose from it
  last,                \* history: the last message passed on to an application
  changes, messages, faults,
  excused              \* history: was a message handled twice, or an answer with it

inbound == <<msg, at, response>>
user == <<shown, chosen, last>>
bounds == <<changes, messages, faults>>
vars == <<entries, session, inbound, reply, user, bounds, excused>>

Fails == faults < MaxFaults /\ faults' = faults + 1

-----------------------------------------------------------------------------
\* A StateResponse: the next state and what to update, send on and answer
Respond(state, endpoints, active, to, menu) ==
  [next_state |-> state, endpoints |-> endpoints, active |-> active, to |-> to, menu |-> menu]

StateStart(m) == Respond("select", m.config, Nothing, Nothing, m.config)
Ended == Respond("none", Nothing, Nothing, Nothing, Nothing)
BadInput(s) == Respond("bad_input", s.endpoints, s.active, Nothing, Nothing)

(* get_endpoint_for_choice: from the menu the session keeps.  (Fault for   *)
(* the mutation runs: from the menu of now.)                               *)
OfNow(m) == m.config
Offered(m) == m.session.endpoints

StateSelect(m) ==
  IF m.choice \notin DOMAIN Offered(m) THEN BadInput(m.session)
  ELSE LET endpoint == Offered(m)[m.choice] IN
    IF endpoint \notin Range(m.config) THEN Ended
    ELSE Respond("selected", m.session.endpoints, endpoint, endpoint, Nothing)

StateSelected(m) ==
  IF m.session.active \notin Range(m.config) THEN Ended
  ELSE Respond("selected", m.session.endpoints, m.session.active, m.session.active, Nothing)

StateBadInput(m) == IF m.choice = 1 THEN StateStart(m) ELSE BadInput(m.session)

Handled(m) ==
  CASE m.state = "start" -> StateStart(m)
    [] m.state = "select" -> StateSelect(m)
    [] m.state = "selected" -> StateSelected(m)
    [] m.state = "bad_input" -> StateBadInput(m)

-----------------------------------------------------------------------------
\* A message of the user, who has an answer to the last one: its event and its choice, or neither.
Send(event, choice) ==
  /\ at = "idle" /\ messages < MaxMessages /\ messages' = messages + 1
  /\ msg' = [event |-> event, choice |-> choice] /\ at' = "queued"
  /\ UNCHANGED <<entries, session, response, reply, user, changes, faults, excused>>

\* handle_inbound: the configuration and the session are loaded.
LoadSession ==
  LET m == [event |-> msg.event, choice |-> msg.choice, config |-> entries, session |-> session,
            state |-> IF session = Nothing \/ msg.event = "new" THEN "start" ELSE session.state] IN
  /\ at = "queued" /\ msg' = m
  /\ at' = IF session = Nothing \/ msg.event = "new" THEN "create"
           ELSE IF msg.event = "close" THEN "close" ELSE "handle"
  /\ excused' = (excused \/ reply # Nothing)
  /\ UNCHANGED <<entries, session, response, reply, user, bounds>>

CreateSession ==
  /\ at = "create" /\ at' = "handle"
  /\ session' = [state |-> "start", endpoints |-> Nothing, active |-> Nothing]
  /\ UNCHANGED <<entries, msg, response, reply, user, bounds, excused>>

\* handle_session_close: the application is told, and the session cleared.
SessionClose ==
  /\ at = "close" /\ at' = "clear"
  /\ last' = IF msg.session.state = "selected" /\ msg.session.active \in Range(msg.config)
             THEN [to |-> msg.session.active, chosen |-> chosen] ELSE last
  /\ UNCHANGED <<entries, session, msg, response, reply, shown, chosen, bounds, excused>>

ClearSession ==
  /\ at = "clear" /\ at' = "idle" /\ msg' = Nothing
  /\ session' = Nothing /\ chosen' = Nothing /\ shown' = <<>>
  /\ UNCHANGED <<entries, response, reply, last, bounds, excused>>

\* The handler of the state, and the session saved or cleared
HandleState ==
  LET r == Handled(msg) IN
  /\ at = "handle" /\ at' = "publish" /\ response' = r
  /\ session' = IF r.next_state = "none" THEN Nothing
                ELSE [state |-> r.next_state, endpoints |-> r.endpoints, active |-> r.active]
  /\ UNCHANGED <<entries, msg, reply, user, bounds, excused>>

Chosen ==
  IF msg.state = "select" /\ msg.choice \in DOMAIN shown THEN shown[msg.choice] ELSE chosen

Publish ==
  /\ at = "publish" /\ at' = "idle" /\ msg' = Nothing /\ response' = Nothing
  /\ shown' = IF response.menu # Nothing THEN response.menu ELSE shown
  /\ chosen' = IF response.menu # Nothing \/ response.next_state = "none" THEN Nothing
               ELSE IF response.to # Nothing THEN Chosen ELSE chosen
  /\ last' = IF response.to # Nothing THEN [to |-> response.to, chosen |-> Chosen] ELSE last
  /\ UNCHANGED <<entries, session, reply, bounds, excused>>

\* What raises ends the session with an error reply.
HandlerRaises ==
  /\ at \in {"handle", "publish"} /\ Fails
  /\ session' = Nothing /\ chosen' = Nothing /\ shown' = <<>>
  /\ at' = "idle" /\ msg' = Nothing /\ response' = Nothing
  /\ UNCHANGED <<entries, reply, last, changes, messages, excused>>

-----------------------------------------------------------------------------
\* handle_outbound: an answer of the application that was chosen, which may close the session
LoadForReply ==
  /\ reply = Nothing /\ chosen # Nothing
  /\ reply' = (session # Nothing)
  /\ excused' = (excused \/ at \notin {"idle", "queued"})
  /\ UNCHANGED <<entries, session, inbound, user, bounds>>

ForwardReply(close) ==
  /\ reply # Nothing /\ reply' = Nothing
  /\ IF close THEN /\ session' = IF reply THEN Nothing ELSE session
                   /\ chosen' = Nothing /\ shown' = <<>>
     ELSE UNCHANGED <<session, chosen, shown>>
  /\ UNCHANGED <<entries, inbound, last, bounds, excused>>

ChangeConfig(menu) ==
  /\ changes < MaxChanges /\ changes' = changes + 1 /\ entries' = menu
  /\ UNCHANGED <<session, inbound, reply, user, messages, faults, excused>>

\* The session was not saved for session_expiry seconds: the user starts again.
Expire ==
  /\ session # Nothing /\ at = "idle" /\ reply = Nothing /\ Fails
  /\ session' = Nothing /\ chosen' = Nothing /\ shown' = <<>>
  /\ UNCHANGED <<entries, inbound, reply, last, changes, messages, excused>>

WorkerDies ==
  /\ at \notin {"idle", "queued"} /\ Fails
  /\ msg' = [event |-> msg.event, choice |-> msg.choice] /\ at' = "queued" /\ response' = Nothing
  /\ excused' = (excused \/ at \in {"clear", "publish"})
  /\ UNCHANGED <<entries, session, reply, user, changes, messages>>

-----------------------------------------------------------------------------
Init ==
  /\ entries \in Menus /\ session = Nothing
  /\ msg = Nothing /\ at = "idle" /\ response = Nothing /\ reply = Nothing
  /\ shown = <<>> /\ chosen = Nothing /\ last = Nothing
  /\ changes = 0 /\ messages = 0 /\ faults = 0 /\ excused = FALSE

Next ==
  \/ \E event \in {"new", "resume", "close"}, choice \in 0..2 : Send(event, choice)
  \/ LoadSession \/ CreateSession \/ SessionClose \/ ClearSession
  \/ HandleState \/ Publish \/ HandlerRaises
  \/ LoadForReply \/ \E close \in BOOLEAN : ForwardReply(close)
  \/ \E menu \in Menus : ChangeConfig(menu)
  \/ Expire \/ WorkerDies

Spec == Init /\ [][Next]_vars
-----------------------------------------------------------------------------
(* A message goes to the application the user chose from the menu that was *)
(* shown, whatever the configuration has become since, and to none after   *)
(* the session was closed, by the user, the application or an error,       *)
(* unless a message was handled in part when the worker died, or while an  *)
(* answer of the application was handled.                                  *)
MenuMeansWhatItShowed == last # Nothing /\ ~excused => last.to = last.chosen
=============================================================================
