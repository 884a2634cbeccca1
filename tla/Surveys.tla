------------------------------- MODULE Surveys -------------------------------
(***************************************************************************)
(* Surveys and what follows them: the end of a survey writes the answers   *)
(* on the contact and publishes an event, and the event dispatcher runs    *)
(* the handlers the account has configured: one opts the contact out by    *)
(* what the contact says, one sends a message, one pays.  Surveys of one   *)
(* contact overlap, so do events, and a worker or a dispatcher that dies   *)
(* is given its messages again.  Contacts come into being with their first *)
(* message, and people may delete them.  A poll has one question here, and *)
(* each survey a participant of its own.                                   *)
(***************************************************************************)
EXTENDS Naturals, Sequences, SequencesExt

CONSTANTS
  Contacts, Procs, Tasks,
  Configs,             \* the sequences of handlers an account may have; it has none at the start
  StaticConfig,        \* account_handler_configs: those of an account that has none
  IncludeLabels,       \* include_labels of the polls
  MaxSurveys,          \* bound on the surveys
  MaxChanges,          \* bound on changes of the configuration and deletions of contacts
  MaxFaults,           \* bound on workers that die and handlers that raise
  Nothing

Handlers == {"opt_out", "menu", "send", "payment"}
Labels == {"opted_out", "language"}
Answers == {"1", "2"}
SurveysConstants ==
  /\ {MaxSurveys, MaxChanges, MaxFaults} \subseteq Nat /\ Nothing \notin Answers
  /\ Configs \union {StaticConfig} \subseteq Seq(Handlers) /\ IncludeLabels \subseteq Labels

VARIABLES
  extra,               \* the answers on the contacts, Nothing for those that do not exist
  opt_outs,            \* the contacts opted out
  survey,              \* the surveys that run: of whom, what they ask, the participant's labels,
                       \* and what was read of the contact last
  events,              \* published and not delivered
  event_handler_config, account_config, \* of the account, and the dispatcher's copy of it
  handling,            \* the events being handled
  paid, sent,          \* the surveys paid for, and answered with a message
  started, changes, faults,
  finished,            \* history: the surveys that published an event
  dropped,             \* history: those whose account had no handler that pays
  excused              \* history: contacts whose answers raced, or did not come by USSD, or
                       \* that were deleted

vars == <<extra, opt_outs, survey, events, event_handler_config, account_config, handling, paid,
          sent, started, changes, faults, finished, dropped, excused>>
surveyVars == <<extra, survey, started, finished>>
eventVars == <<events, handling, paid, sent, opt_outs, account_config, dropped>>

Blank == [l \in Labels |-> Nothing]
NoSurvey == [at |-> "idle", id |-> 0, contact |-> Nothing, asks |-> Nothing, ussd |-> FALSE,
             labels |-> Blank, extra |-> Blank]
NoEvent == [at |-> "idle", id |-> 0, contact |-> Nothing, ussd |-> FALSE, left |-> <<>>,
            opted_out |-> Nothing]

\* get_contact_for_message: a contact that is missing is created.
Contact(c) == IF extra[c] = Nothing THEN Blank ELSE extra[c]
Creates(c) == extra' = [extra EXCEPT ![c] = Contact(c)]
Starts(p, c, label, ussd, at) ==
  /\ survey[p].at = "idle" /\ started < MaxSurveys /\ started' = started + 1
  /\ survey' = [survey EXCEPT ![p] = [NoSurvey EXCEPT !.at = at, !.id = started + 1, !.contact = c,
                                       !.asks = label, !.ussd = ussd, !.extra = Contact(c)]]

\* consume_user_message, for the first message of a contact
FirstMessage(p, c, label, ussd) ==
  /\ Starts(p, c, label, ussd, "begins") /\ Creates(c)
  /\ UNCHANGED <<event_handler_config, changes, faults, finished, excused, eventVars>>

\* process_command_send_survey: a bunch of contacts is loaded, those that are opted out are left
\* out, and a message of each of the others is made up in turn, some time later.
SendSurvey(p, c, label, ussd) ==
  /\ extra[c] # Nothing
  /\ Starts(p, c, label, ussd, "chosen")
  /\ UNCHANGED <<extra, event_handler_config, changes, faults, finished, excused, eventVars>>

FilterOptedOut(p) ==
  /\ survey[p].at = "chosen"
  /\ survey' = [survey EXCEPT ![p] =
       IF survey[p].contact \in opt_outs THEN NoSurvey ELSE [survey[p] EXCEPT !.at = "begins"]]
  /\ UNCHANGED <<extra, started, event_handler_config, changes, faults, finished, excused, eventVars>>

\* consume_user_message, for an answer
AnswerArrives(p) ==
  LET c == survey[p].contact IN
  /\ survey[p].at = "asked" /\ Creates(c)
  /\ survey' = [survey EXCEPT ![p].at = "answered", ![p].extra = Contact(c)]
  /\ UNCHANGED <<started, event_handler_config, changes, faults, finished, excused, eventVars>>

\* _handle_survey_message: labels that the contact has and the participant has not are copied, ...
Labelled(s) ==
  [l \in Labels |-> IF l \in IncludeLabels /\ s.labels[l] = Nothing THEN s.extra[l] ELSE s.labels[l]]

\* ... and the poll asks its question, or takes the answer to it.  Without a poll the survey
\* is not available, and that is its end.
HandleSurveyMessage(p) ==
  LET s == survey[p] IN
  /\ \/ s.at \in {"begins", "answered"} /\ survey' = [survey EXCEPT ![p] = NoSurvey]
     \/ /\ s.at = "begins"
        /\ survey' = [survey EXCEPT ![p].at = "asked", ![p].labels = Labelled(s), ![p].extra = Blank]
     \/ /\ s.at = "answered"
        /\ \E answer \in Answers :
             survey' = [survey EXCEPT ![p].at = "ends", ![p].extra = Blank,
                                      ![p].labels = [Labelled(s) EXCEPT ![s.asks] = answer]]
  /\ UNCHANGED <<extra, started, event_handler_config, changes, faults, finished, excused, eventVars>>

\* end_session loads the contact and clears the answers of this poll, ...
EndSession(p) ==
  LET s == survey[p]  c == s.contact IN
  /\ s.at = "ends" /\ Creates(c)
  /\ survey' = [survey EXCEPT ![p].at = "loaded", ![p].extra = [Contact(c) EXCEPT ![s.asks] = Nothing]]
  /\ UNCHANGED <<started, event_handler_config, changes, faults, finished, excused, eventVars>>

Updated(s) == [l \in Labels |-> IF s.labels[l] # Nothing THEN s.labels[l] ELSE s.extra[l]]
Publish(s) == Append(events, [id |-> s.id, contact |-> s.contact, ussd |-> s.ussd])

(* ... and saves it with the labels of the participant, those copied from  *)
(* it too; so a contact that was deleted is there again.                   *)
SaveContact(p) ==
  LET s == survey[p]  c == s.contact  lost == Updated(s).opted_out # Contact(c).opted_out IN
  /\ s.at = "loaded"
  /\ extra' = [extra EXCEPT ![c] = Updated(s)]
  /\ excused' = IF IF s.asks = "opted_out" THEN ~s.ussd ELSE lost THEN excused \union {c} ELSE excused
  /\ survey' = [survey EXCEPT ![p].at = "saved"]
  /\ UNCHANGED <<started, event_handler_config, changes, faults, finished, eventVars>>

\* trigger_event, after the participant was saved
TriggerEvent(p) ==
  LET s == survey[p] IN
  /\ s.at = "saved"
  /\ events' = Publish(s) /\ finished' = finished \union {s.id}
  /\ survey' = [survey EXCEPT ![p] = NoSurvey]
  /\ UNCHANGED <<extra, started, event_handler_config, changes, faults, handling, paid, sent,
                 opt_outs, account_config, dropped, excused>>

\* The broker delivers the answer that was being dealt with again; one that the participant
\* has already is not dealt with a second time.
SurveyWorkerDies(p) ==
  LET s == survey[p] IN
  /\ s.at \in {"answered", "ends", "loaded", "saved"} /\ faults < MaxFaults /\ faults' = faults + 1
  /\ survey' = [survey EXCEPT ![p] =
       CASE s.at = "answered" -> [s EXCEPT !.at = "asked", !.extra = Blank]
         [] s.at = "saved"    -> NoSurvey
         [] OTHER             -> [s EXCEPT !.at = "ends", !.extra = Blank]]
  /\ excused' = IF s.at = "saved" THEN excused \union {s.contact} ELSE excused
  /\ UNCHANGED <<extra, started, event_handler_config, changes, finished, eventVars>>

-----------------------------------------------------------------------------
SetEventHandlerConfig(config) ==
  /\ config # event_handler_config /\ changes < MaxChanges /\ changes' = changes + 1
  /\ event_handler_config' = config
  /\ UNCHANGED <<surveyVars, eventVars, faults, excused>>

DeleteContact(c) ==
  /\ extra[c] # Nothing /\ changes < MaxChanges /\ changes' = changes + 1
  /\ extra' = [extra EXCEPT ![c] = Nothing] /\ excused' = excused \union {c}
  /\ UNCHANGED <<survey, started, finished, event_handler_config, faults, eventVars>>

\* get_account_config: what was loaded and cached last is used for ever.
Config == IF event_handler_config = <<>> THEN StaticConfig ELSE event_handler_config
Pays(left) == \E i \in 1..Len(left) : left[i] = "payment"
OptsOut(left) == \E i \in 1..Len(left) : left[i] = "opt_out"
Begins(h, config) ==
  /\ dropped' = IF Pays(config) THEN dropped ELSE dropped \union {h.id}
  /\ excused' = IF /\ OptsOut(config)
                   /\ Cardinality({u \in Tasks : handling'[u].contact = h.contact}) = 1
                THEN excused ELSE excused \union {h.contact}

\* consume_api_event: events of one contact may be handled at once.
ConsumeApiEvent(t) ==
  /\ handling[t].at = "idle" /\ events # <<>> /\ events' = Tail(events)
  /\ LET e == Head(events)
         h == [NoEvent EXCEPT !.id = e.id, !.contact = e.contact, !.ussd = e.ussd] IN
     \/ /\ account_config = Nothing
        /\ handling' = [handling EXCEPT ![t] = [h EXCEPT !.at = "config"]]
        /\ UNCHANGED <<dropped, excused>>
     \/ /\ account_config # Nothing
        /\ handling' = [handling EXCEPT ![t] = [h EXCEPT !.at = "next", !.left = account_config]]
        /\ Begins(h, account_config)
  /\ UNCHANGED <<surveyVars, event_handler_config, account_config, changes, faults, paid, sent, opt_outs>>

\* get_user_account answers with what it read, which is then cached, whatever was before.
LoadAccount(t) ==
  /\ handling[t].at = "config"
  /\ handling' = [handling EXCEPT ![t].at = "loaded", ![t].left = Config]
  /\ UNCHANGED <<surveyVars, events, event_handler_config, account_config, changes, faults, paid,
                 sent, opt_outs, dropped, excused>>

CacheConfig(t) ==
  /\ handling[t].at = "loaded"
  /\ account_config' = handling[t].left
  /\ handling' = [handling EXCEPT ![t].at = "next"]
  /\ Begins(handling[t], handling[t].left)
  /\ UNCHANGED <<surveyVars, events, event_handler_config, changes, faults, paid, sent, opt_outs>>

OnTo(h, left) == [h EXCEPT !.at = "next", !.left = left, !.opted_out = Nothing]
NextHandler(h) == OnTo(h, Tail(h.left))
SkipHandler(h) == NextHandler(h)

IsAt(t, handler) ==
  handling[t].at = "next" /\ handling[t].left # <<>> /\ Head(handling[t].left) = handler

\* USSDOptOutHandler: only for USSD, and by what the contact says when it is loaded, if it exists
FindContact(t) ==
  LET h == handling[t] IN
  /\ IsAt(t, "opt_out")
  /\ handling' = [handling EXCEPT ![t] =
       IF h.ussd /\ extra[h.contact] # Nothing THEN [h EXCEPT !.at = "found", !.opted_out = extra[h.contact].opted_out] ELSE SkipHandler(h)]
  /\ UNCHANGED <<surveyVars, events, event_handler_config, account_config, changes, faults, paid,
                 sent, opt_outs, dropped, excused>>

\* (Fault for the mutation runs: nobody is opted in again.)
OnlyOut(h) == IF h.opted_out = "2" THEN opt_outs \union {h.contact} ELSE opt_outs
OptOuts(h) == IF h.opted_out = "2" THEN opt_outs \union {h.contact}
              ELSE IF h.opted_out = "1" THEN opt_outs \ {h.contact} ELSE opt_outs

WriteOptOut(t) ==
  LET h == handling[t] IN
  /\ h.at = "found" /\ opt_outs' = OptOuts(h)
  /\ handling' = [handling EXCEPT ![t] = NextHandler(h)]
  /\ UNCHANGED <<surveyVars, events, event_handler_config, account_config, changes, faults, paid,
                 sent, dropped, excused>>

\* USSDMenuCompletionHandler: a send_message command, unless there is no contact
MenuCompletion(t) ==
  LET h == handling[t] IN
  /\ IsAt(t, "menu")
  /\ sent' = IF extra[h.contact] = Nothing THEN sent ELSE sent \union {h.id}
  /\ handling' = [handling EXCEPT ![t] = NextHandler(h)]
  /\ UNCHANGED <<surveyVars, events, event_handler_config, account_config, changes, faults, paid,
                 opt_outs, dropped, excused>>

\* SendMessageCommandHandler: to whoever the event is about, without a look at the contact
SendMessageCommand(t) ==
  LET h == handling[t] IN
  /\ IsAt(t, "send") /\ sent' = sent \union {h.id}
  /\ handling' = [handling EXCEPT ![t] = NextHandler(h)]
  /\ UNCHANGED <<surveyVars, events, event_handler_config, account_config, changes, faults, paid,
                 opt_outs, dropped, excused>>

\* YoPaymentHandler: the answer of the gateway is not looked at.
YoPayment(t) ==
  LET h == handling[t] IN
  /\ IsAt(t, "payment") /\ paid' = paid \union {h.id}
  /\ handling' = [handling EXCEPT ![t] = NextHandler(h)]
  /\ UNCHANGED <<surveyVars, events, event_handler_config, account_config, changes, faults, sent,
                 opt_outs, dropped, excused>>

Acknowledge(t) ==
  /\ handling[t].at = "next" /\ handling[t].left = <<>>
  /\ handling' = [handling EXCEPT ![t] = NoEvent]
  /\ UNCHANGED <<surveyVars, events, event_handler_config, account_config, changes, faults, paid,
                 sent, opt_outs, dropped, excused>>

\* A handler that raises keeps the rest from being run and its event from being acknowledged.
HandlerRaises(t) ==
  LET h == handling[t] IN
  /\ h.at \in {"next", "found"} /\ h.left # <<>> /\ faults < MaxFaults /\ faults' = faults + 1
  /\ handling' = [handling EXCEPT ![t] = [OnTo(h, <<>>) EXCEPT !.at = "raised"]]
  /\ excused' = excused \union {h.contact}
  /\ UNCHANGED <<surveyVars, events, event_handler_config, account_config, changes, paid, sent,
                 opt_outs, dropped>>

\* What was not acknowledged is delivered again, to a dispatcher that knows no configuration.
DispatcherDies ==
  LET busy == {t \in Tasks : handling[t].at # "idle"}
      again == {[id |-> handling[t].id, contact |-> handling[t].contact, ussd |-> handling[t].ussd] :
                  t \in busy} IN
  /\ busy # {} /\ faults < MaxFaults /\ faults' = faults + 1
  /\ events' = SetToSeq(again) \o events
  /\ handling' = [t \in Tasks |-> NoEvent] /\ account_config' = Nothing
  /\ UNCHANGED <<surveyVars, event_handler_config, changes, paid, sent, opt_outs, dropped, excused>>

-----------------------------------------------------------------------------
Init ==
  /\ extra = [c \in Contacts |-> Nothing] /\ opt_outs = {}
  /\ survey = [p \in Procs |-> NoSurvey] /\ handling = [t \in Tasks |-> NoEvent]
  /\ events = <<>> /\ event_handler_config = <<>> /\ account_config = Nothing
  /\ paid = {} /\ sent = {} /\ started = 0 /\ changes = 0 /\ faults = 0
  /\ finished = {} /\ dropped = {} /\ excused = {}

Next ==
  \/ \E p \in Procs :
       \/ \E c \in Contacts, label \in Labels, ussd \in BOOLEAN :
            FirstMessage(p, c, label, ussd) \/ SendSurvey(p, c, label, ussd)
       \/ FilterOptedOut(p) \/ AnswerArrives(p) \/ HandleSurveyMessage(p)
       \/ EndSession(p) \/ SaveContact(p) \/ TriggerEvent(p) \/ SurveyWorkerDies(p)
  \/ \E config \in Configs : SetEventHandlerConfig(config)
  \/ \E c \in Contacts : DeleteContact(c)
  \/ \E t \in Tasks :
       \/ ConsumeApiEvent(t) \/ LoadAccount(t) \/ CacheConfig(t) \/ FindContact(t) \/ WriteOptOut(t)
       \/ MenuCompletion(t) \/ SendMessageCommand(t) \/ YoPayment(t) \/ Acknowledge(t) \/ HandlerRaises(t)
  \/ DispatcherDies

Spec == Init /\ [][Next]_vars
-----------------------------------------------------------------------------
(* A contact whose answers are all dealt with is opted out exactly when    *)
(* its last answer says so, whatever was delivered again: unless surveys   *)
(* or events of the contact overlapped, an answer did not come by USSD, a  *)
(* handler was not configured or raised, a worker died between the contact *)
(* and the event, or the contact was deleted.                              *)
OptOutsFollowTheAnswers ==
  \A c \in Contacts \ excused :
    (/\ \A p \in Procs : survey[p].contact = c => survey[p].at # "saved"
     /\ \A i \in 1..Len(events) : events[i].contact # c
     /\ \A t \in Tasks : handling[t].contact # c)
    => (c \in opt_outs <=> Contact(c).opted_out = "2")

(* Every survey that ended is paid for, or still waits for it: it was      *)
(* published, or has the payment before it in the handlers of its event,   *)
(* or one of them raised and a dispatcher that is restarted gets it again. *)
FinishedSurveysPay ==
  \A id \in finished \ dropped :
    \/ id \in paid \/ \E i \in 1..Len(events) : events[i].id = id
    \/ \E t \in Tasks : /\ handling[t].id = id
                        /\ handling[t].at \in {"config", "loaded", "raised"} \/ Pays(handling[t].left)
=============================================================================
