-------------------------- MODULE RoutingDispatcher --------------------------
(***************************************************************************)
(* The account routing dispatcher (go/vumitools/routing.py) and what its   *)
(* messages meet on the way: transports, routers, conversations, the       *)
(* opt-out worker and the billing dispatcher.                              *)
(*                                                                         *)
(* An exchange is an inbound message, an outbound one (a reply to it, or   *)
(* sent by a conversation) and the event the transport reports of the      *)
(* outbound one.  A message is a record of the metadata the dispatcher     *)
(* reads and writes; at is the kind of connector it was published to, or   *)
(* how it ended.  There is one account.                                    *)
(***************************************************************************)
EXTENDS RoutingTable, Naturals, Sequences, SequencesExt

CONSTANTS
  Exchanges,
  TableChoices,          \* routing tables the user may save
  ReplyTags,             \* tags of pools with reply_to_unroutable_inbound
  Nothing,
  MaxHops,               \* bound on the hops of a message, for tables with loops
  MaxChanges             \* bound on changes of the account

\* A channel has one endpoint, "default" (api_types.py, format_channel).
ChannelsByDefault(t) ==
  \A entry \in t : \A place \in {entry.src, entry.dst} :
    place.conn.ctype = "TRANSPORT_TAG" => place.ep = "default"

ASSUME RoutingAssumption ==
  /\ TableChoices \subseteq Tables
  /\ \A t \in TableChoices : ChannelsByDefault(t)
  /\ Nothing # OptOut
  /\ ReplyTags \subseteq Tags
  /\ MaxHops \in Nat /\ MaxChanges \in Nat

VARIABLES
  msg,         \* per message, its record
  origin,      \* history: per exchange, the connector its outbound message is from
  charged,     \* history: per message, a transaction was made for it
  table,       \* the account's routing table, as stored
  cache,       \* the dispatcher's cached copy of it, or Nothing
  owned,       \* tags whose tag_info names the account
  changes,     \* changes made to the account
  billing_inbound_connector, billing_outbound_connector   \* configured or not

vars == <<msg, origin, charged, table, cache, owned, changes,
          billing_inbound_connector, billing_outbound_connector>>
config == <<billing_inbound_connector, billing_outbound_connector>>
history == <<origin, charged>>
account == <<table, owned, changes>>

Messages == Exchanges \X {"inbound", "outbound", "event"}
In(x)  == <<x, "inbound">>
Out(x) == <<x, "outbound">>
Ev(x)  == <<x, "event">>

-----------------------------------------------------------------------------
\* from is the kind of connector it reached the dispatcher by.
Blank ==
  [at |-> "unsent", from |-> Nothing, ep |-> "default", account |-> FALSE,
   tag |-> Nothing, router |-> Nothing, conv |-> Nothing, optout |-> FALSE,
   paid |-> FALSE, hops |-> <<>>, outbound_hops |-> Nothing, unroutable |-> FALSE]

\* reply() copies the helper metadata of what it answers, not its routing metadata.
ReplyTo(r) == [Blank EXCEPT !.account = r.account, !.tag = r.tag, !.router = r.router,
                            !.conv = r.conv, !.optout = r.optout, !.paid = r.paid]

Becomes(m, r) == msg' = [msg EXCEPT ![m] = r]
Ends(m, how) == Becomes(m, [msg[m] EXCEPT !.at = how])
ToDispatcher(r, kind, ep) == [r EXCEPT !.at = "dispatcher", !.from = kind, !.ep = ep]

\* acquire_source: the connector a message comes from.
SourceKinds(direction) ==
  IF direction = "INBOUND" THEN {"TRANSPORT_TAG", "ROUTER", "BILLING"}
  ELSE {"CONVERSATION", "ROUTER", "OPT_OUT", "BILLING"}

Source(r, direction) ==
  [CONVERSATION |-> Conversation(r.conv), ROUTER |-> Router(r.router, Flip(direction)),
   TRANSPORT_TAG |-> TransportTag(r.tag), OPT_OUT |-> OptOut,
   BILLING |-> Billing(Flip(direction))][r.from]

PushSource(r, conn) ==
  [r EXCEPT !.hops = Append(@, [src |-> Place(conn, r.ep), dst |-> Nothing])]
PushDestination(r, place) ==
  [r EXCEPT !.hops = Append(Front(@), [Last(@) EXCEPT !.dst = place])]

Sourced(r, direction) == PushSource([r EXCEPT !.account = TRUE], Source(r, direction))

\* set_destination and publish, without the hop; UnroutableMessageError when the
\* connector is of the wrong kind for the direction.
\* (Fault for the mutation runs: billing is no destination.)
KindsBeforeBilling(direction) == {"CONVERSATION", "OPT_OUT", "ROUTER", "TRANSPORT_TAG"}
DestinationKinds(direction) ==
  IF direction = "INBOUND" THEN {"CONVERSATION", "ROUTER", "OPT_OUT", "BILLING"}
  ELSE {"ROUTER", "TRANSPORT_TAG", "BILLING"}

Publish(r, place, direction) ==
  LET conn == place.conn IN
  IF conn.ctype \notin DestinationKinds(direction) THEN [r EXCEPT !.at = "unroutable"]
  ELSE [r EXCEPT !.at = conn.ctype, !.ep = place.ep, !.from = Nothing,
          !.conv = IF conn.ctype = "CONVERSATION" THEN conn.key ELSE @,
          !.router = IF conn.ctype = "ROUTER" THEN conn.key ELSE @,
          !.tag = IF conn.ctype = "TRANSPORT_TAG" THEN conn.key ELSE @]

Forward(r, place, direction) == Publish(PushDestination(r, place), place, direction)

-----------------------------------------------------------------------------
(* Messages that the dispatcher is about to handle.  get_config reads the  *)
(* account through the cache; ModelObjectCache has the races of the fetch. *)
Arrived(m, kinds) ==
  /\ msg[m].at = "dispatcher" /\ msg[m].from \in kinds
  /\ Len(msg[m].hops) < MaxHops

RoutingTableInUse == IF cache = Nothing THEN table ELSE cache
ReadsAccount == cache' = RoutingTableInUse

\* get_config: the account on the message, or the one that owns its tag.
HasAccount(m) == msg[m].account \/ msg[m].tag \in owned

\* process_inbound, where messages are routed from: after billing, from the tag.
RoutedFrom(r) == IF r.from = "BILLING" THEN TransportTag(r.tag) ELSE Source(r, "INBOUND")
InboundTargets(r) == LookupTarget(RoutingTableInUse, Place(RoutedFrom(r), r.ep))
GoesToBilling(r) == billing_inbound_connector /\ r.from = "TRANSPORT_TAG"

InboundStep(x, place) ==
  /\ Becomes(In(x), Forward(Sourced(msg[In(x)], "INBOUND"), place, "INBOUND"))
  /\ ReadsAccount
  /\ UNCHANGED <<history, account, config>>

InboundToBilling(x) ==
  /\ Arrived(In(x), SourceKinds("INBOUND")) /\ HasAccount(In(x))
  /\ GoesToBilling(msg[In(x)])
  /\ InboundStep(x, Place(Billing("INBOUND"), "default"))

\* is_optout_message.  (Fault for the mutation runs: only asked when not billing.)
AskedUnlessBilled(r) == r.optout /\ r.from # "BILLING"
IsOptOut(r) == r.optout

InboundToOptOut(x) ==
  /\ Arrived(In(x), SourceKinds("INBOUND")) /\ HasAccount(In(x))
  /\ ~GoesToBilling(msg[In(x)]) /\ IsOptOut(msg[In(x)])
  /\ InboundStep(x, Place(OptOut, "default"))

InboundRouted(x) ==
  /\ Arrived(In(x), SourceKinds("INBOUND")) /\ HasAccount(In(x))
  /\ ~GoesToBilling(msg[In(x)]) /\ ~IsOptOut(msg[In(x)])
  /\ \E place \in InboundTargets(msg[In(x)]) : InboundStep(x, place)

\* UnownedTagError or NoTargetError: errback_inbound answers for the account, back
\* the way the message came and without a hop, if the tag's pool asks for it.
Unowned(x)  == ~HasAccount(In(x))
NoTarget(x) == /\ HasAccount(In(x)) /\ ~GoesToBilling(msg[In(x)])
               /\ ~IsOptOut(msg[In(x)]) /\ InboundTargets(msg[In(x)]) = {}

UnroutableReply(x) ==
  LET r == msg[In(x)]
      reply == [ReplyTo([r EXCEPT !.account = HasAccount(In(x))]) EXCEPT !.unroutable = TRUE]
  IN Publish(reply, Place(Source(r, "INBOUND"), r.ep), "OUTBOUND")

InboundUnroutable(x) ==
  /\ Arrived(In(x), SourceKinds("INBOUND"))
  /\ Unowned(x) \/ NoTarget(x)
  /\ IF msg[In(x)].tag \in ReplyTags
     THEN msg' = [msg EXCEPT ![In(x)].at = "answered", ![Out(x)] = UnroutableReply(x)]
     ELSE Ends(In(x), "no_target")
  /\ IF Unowned(x) THEN UNCHANGED cache ELSE ReadsAccount
  /\ UNCHANGED <<history, account, config>>

-----------------------------------------------------------------------------
\* process_outbound: a message of a conversation or a router has not been paid for
\* yet, whatever it was a reply to; only when billing is on is that reset.  (Fault
\* for the mutation runs: never.)
KeepPaid(r) == r
ResetPaid(r) ==
  IF billing_outbound_connector /\ r.from \in {"CONVERSATION", "ROUTER"}
  THEN [r EXCEPT !.paid = FALSE] ELSE r

OutboundTargets(r) ==
  LookupTarget(RoutingTableInUse, Place(Source(r, "OUTBOUND"), r.ep))

OutboundStep(x, r, place) ==
  /\ Becomes(Out(x), Forward(Sourced(r, "OUTBOUND"), place, "OUTBOUND"))
  /\ ReadsAccount
  /\ UNCHANGED <<history, account, config>>

BillOutbound(x, r, tag) ==
  OutboundStep(x, [r EXCEPT !.tag = tag], Place(Billing("OUTBOUND"), "default"))

ToTag(place) == place.conn.ctype = "TRANSPORT_TAG"

\* A target that is a channel is reached by way of billing.  (Fault for the
\* mutation runs: only from a conversation.)
OnlyConversations(r, place) == billing_outbound_connector /\ ToTag(place) /\ r.from = "CONVERSATION"
BilledFirst(r, place) == billing_outbound_connector /\ ToTag(place)

OutboundToBilling(x) ==
  /\ Arrived(Out(x), {"CONVERSATION", "ROUTER"}) /\ HasAccount(Out(x))
  /\ LET r == ResetPaid(msg[Out(x)]) IN
     \E place \in OutboundTargets(r) :
       BilledFirst(r, place) /\ BillOutbound(x, r, place.conn.key)

OutboundRouted(x) ==
  /\ Arrived(Out(x), {"CONVERSATION", "ROUTER"}) /\ HasAccount(Out(x))
  /\ LET r == ResetPaid(msg[Out(x)]) IN
     \E place \in OutboundTargets(r) :
       ~BilledFirst(r, place) /\ OutboundStep(x, r, place)

\* NoTargetError: nobody answers an outbound message.
OutboundUnroutable(x) ==
  /\ Arrived(Out(x), {"CONVERSATION", "ROUTER"}) /\ HasAccount(Out(x))
  /\ OutboundTargets(msg[Out(x)]) = {}
  /\ Ends(Out(x), "no_target")
  /\ ReadsAccount
  /\ UNCHANGED <<history, account, config>>

\* A reply of the opt-out worker leaves by the tag of the message it answers
\* (tag_for_reply), whatever the routing table says.
OptOutReply(x) ==
  /\ Arrived(Out(x), {"OPT_OUT"}) /\ HasAccount(Out(x))
  /\ LET r == msg[Out(x)]
         tag == msg[In(x)].tag
     IN IF billing_outbound_connector THEN BillOutbound(x, r, tag)
        ELSE OutboundStep(x, r, Place(TransportTag(tag), "default"))

\* After billing a message leaves by its tag.  (Fault for the mutation runs: back
\* to billing.)
BackToBilling(r) == Place(Billing("OUTBOUND"), "default")
AfterBilling(r) == Place(TransportTag(r.tag), "default")

OutboundFromBilling(x) ==
  /\ Arrived(Out(x), {"BILLING"}) /\ HasAccount(Out(x))
  /\ OutboundStep(x, msg[Out(x)], AfterBilling(msg[Out(x)]))

-----------------------------------------------------------------------------
(* Events ignore the routing table: they follow the hops of the outbound   *)
(* message, as it was stored when it was published to the transport, the   *)
(* other way.                                                              *)
SetEventMetadata(e, outbound) ==
  IF e.outbound_hops # Nothing /\ e.account /\ e.tag # Nothing THEN e
  ELSE [e EXCEPT !.outbound_hops = outbound.hops, !.unroutable = outbound.unroutable,
                 !.tag = outbound.tag,
                 !.account = @ \/ ~outbound.unroutable \/ outbound.hops # <<>>]

EventArrived(x) == msg[Ev(x)].at = "dispatcher" /\ msg[Ev(x)].from \in SourceKinds("INBOUND")

Mirror(hop) == [src |-> hop.dst, dst |-> hop.src]

\* unroutable_event_done
UnroutableEventDone(e) ==
  /\ e.unroutable
  /\ IF e.hops = <<>> \/ e.outbound_hops = <<>> THEN e.hops = e.outbound_hops
     ELSE Last(e.hops) = Mirror(Head(e.outbound_hops))

\* next_hop and next_router_endpoint: the outbound hop that mirrors the event's
\* last, and the one before that in the direction of the sender.  (Fault for the
\* mutation runs: the mirrored hop again.)
SameHop(e) == e.outbound_hops[Len(e.outbound_hops) - Len(e.hops) + 1]
NextRouterHop(e) == e.outbound_hops[Len(e.outbound_hops) - Len(e.hops)]

NextHops(e) ==
  IF Len(e.hops) > Len(e.outbound_hops) THEN {}
  ELSE LET hop == e.outbound_hops[Len(e.outbound_hops) - Len(e.hops) + 1]
       IN {place \in {hop.src} : hop.dst = Last(e.hops).src}

EventReceived(x) == SetEventMetadata(msg[Ev(x)], msg[Out(x)])
EventSourced(x) == PushSource(EventReceived(x), Source(EventReceived(x), "INBOUND"))

EventDone(x) ==
  /\ EventArrived(x)
  /\ UnroutableEventDone(EventReceived(x))
  /\ Ends(Ev(x), "done")
  /\ UNCHANGED <<history, account, cache, config>>

EventRouted(x) ==
  /\ EventArrived(x)
  /\ ~UnroutableEventDone(EventReceived(x))
  /\ LET e == EventSourced(x) IN
     Becomes(Ev(x), IF NextHops(e) = {} THEN [e EXCEPT !.at = "unroutable"]
                    ELSE Forward(e, CHOOSE place \in NextHops(e) : TRUE, "INBOUND"))
  /\ UNCHANGED <<history, account, cache, config>>

-----------------------------------------------------------------------------
(* The transports. *)
\* process_message: a keyword makes it an opt-out, unless the account or the tag pool
\* disables opt-outs; and it is looked at once, whatever passes it on later.
IsKeywordOptOut(keyword, disabled) == keyword /\ ~disabled
TransportReceives(x, tag, optout) ==
  /\ msg[In(x)].at = "unsent" /\ msg[Out(x)].at = "unsent"
  /\ Becomes(In(x), ToDispatcher([Blank EXCEPT !.tag = tag, !.optout = optout],
                                 "TRANSPORT_TAG", "default"))
  /\ UNCHANGED <<history, account, cache, config>>

TransportReports(x) ==
  /\ msg[Out(x)].at = "TRANSPORT_TAG" /\ msg[Ev(x)].at = "unsent"
  /\ Becomes(Ev(x), ToDispatcher(Blank, "TRANSPORT_TAG", "default"))
  /\ UNCHANGED <<history, account, cache, config>>

(* The billing dispatcher (BillingSystem has its own steps): a message goes *)
(* on, paid for or not, an outbound one may be dropped; an event goes on.   *)
BillingPasses(m, transaction) ==
  /\ msg[m].at = "BILLING"
  /\ transaction => m[2] # "event"
  /\ Becomes(m, ToDispatcher([msg[m] EXCEPT !.paid = @ \/ transaction], "BILLING", msg[m].ep))
  /\ charged' = [charged EXCEPT ![m] = @ \/ transaction]
  /\ UNCHANGED <<origin, account, cache, config>>

BillingDrops(x) ==
  /\ msg[Out(x)].at = "BILLING"
  /\ Ends(Out(x), "dropped")
  /\ UNCHANGED <<history, account, cache, config>>

(* The workers of conversations and the opt-out worker. *)
Sends(x, r, kind, conn, ep) ==
  /\ msg[Out(x)].at = "unsent"
  /\ Becomes(Out(x), ToDispatcher(r, kind, ep))
  /\ origin' = [origin EXCEPT ![x] = conn]
  /\ UNCHANGED <<charged, account, cache, config>>

ConversationReplies(x) ==
  /\ msg[In(x)].at = "CONVERSATION"
  /\ Sends(x, ReplyTo(msg[In(x)]), "CONVERSATION", Conversation(msg[In(x)].conv), "default")

ConversationSends(x, c, ep) ==
  /\ msg[In(x)].at = "unsent"
  /\ Sends(x, [Blank EXCEPT !.conv = c, !.account = TRUE], "CONVERSATION", Conversation(c), ep)

OptOutReplies(x) ==
  /\ msg[In(x)].at = "OPT_OUT"
  /\ Sends(x, ReplyTo(msg[In(x)]), "OPT_OUT", OptOut, "default")

(* The workers of routers: handle_inbound forwards to an endpoint of its    *)
(* choice or, in an application multiplexer, answers itself; handle_outbound *)
(* forwards by the default endpoint; handle_event by the one the outbound   *)
(* message arrived on, unless this router sent it.                         *)
RouterForwards(x, ep) ==
  /\ msg[In(x)].at = "ROUTER"
  /\ Becomes(In(x), ToDispatcher(msg[In(x)], "ROUTER", ep))
  /\ UNCHANGED <<history, account, cache, config>>

RouterReplies(x) ==
  /\ msg[In(x)].at = "ROUTER"
  /\ LET r == msg[In(x)] IN
     msg' = [msg EXCEPT ![In(x)].at = "answered",
                        ![Out(x)] = ToDispatcher(ReplyTo(r), "ROUTER", "default")]
  /\ origin' = [origin EXCEPT ![x] = Router(msg[In(x)].router, "INBOUND")]
  /\ UNCHANGED <<charged, account, cache, config>>

RouterReturns(x) ==
  /\ msg[Out(x)].at = "ROUTER"
  /\ Becomes(Out(x), ToDispatcher(msg[Out(x)], "ROUTER", "default"))
  /\ UNCHANGED <<history, account, cache, config>>

NoHopLeft(e) == Len(e.hops) > Len(e.outbound_hops) - 1

RouterHandlesEvent(x) ==
  /\ msg[Ev(x)].at = "ROUTER"
  /\ LET e == msg[Ev(x)] IN
     IF NoHopLeft(e) THEN Ends(Ev(x), "done")
     ELSE Becomes(Ev(x), ToDispatcher(e, "ROUTER", NextRouterHop(e).dst.ep))
  /\ UNCHANGED <<history, account, cache, config>>

(* The account: its user saves another table, its tags come and go, and the *)
(* dispatcher's copy expires.                                              *)
Changes(t, tags) ==
  /\ changes < MaxChanges /\ changes' = changes + 1
  /\ table' = t /\ owned' = tags
  /\ UNCHANGED <<msg, history, cache, config>>

UpdateTable(t) == t # table /\ Changes(t, owned)
AcquireTag(tag) == tag \notin owned /\ Changes(table, owned \union {tag})
ReleaseTag(tag) == tag \in owned
                   /\ Changes(RemoveConnector(table, TransportTag(tag)), owned \ {tag})

EvictAccount ==
  /\ cache # Nothing /\ cache' = Nothing
  /\ UNCHANGED <<msg, history, account, config>>

-----------------------------------------------------------------------------
Init ==
  /\ msg = [m \in Messages |-> Blank]
  /\ origin = [x \in Exchanges |-> Nothing]
  /\ charged = [m \in Messages |-> FALSE]
  /\ table \in TableChoices /\ owned = Tags
  /\ cache = Nothing /\ changes = 0
  \* Both or neither: the events of what went out by the one come back by the other.
  /\ billing_inbound_connector \in BOOLEAN
  /\ billing_outbound_connector = billing_inbound_connector

\* What a worker does with a message it has been given.
DispatchInbound(x) ==
  InboundToBilling(x) \/ InboundToOptOut(x) \/ InboundRouted(x) \/ InboundUnroutable(x)
DispatchOutbound(x) ==
  OutboundToBilling(x) \/ OutboundRouted(x) \/ OutboundUnroutable(x)
  \/ OptOutReply(x) \/ OutboundFromBilling(x)
DispatchEvent(x) == EventDone(x) \/ EventRouted(x) 
PassBilling(m) == \E transaction \in BOOLEAN : BillingPasses(m, transaction)
Route(x) == \/ \E ep \in Endpoints : RouterForwards(x, ep)
            \/ RouterReplies(x)

HandleInbound(x)  == DispatchInbound(x) \/ PassBilling(In(x)) \/ Route(x)
HandleOutbound(x) == DispatchOutbound(x) \/ PassBilling(Out(x)) \/ BillingDrops(x)
                     \/ RouterReturns(x)
HandleEvent(x)    == DispatchEvent(x) \/ PassBilling(Ev(x)) \/ RouterHandlesEvent(x)

Originate(x) ==
  \/ \E tag \in Tags, keyword, disabled \in BOOLEAN :
       TransportReceives(x, tag, IsKeywordOptOut(keyword, disabled))
  \/ TransportReports(x)
  \/ ConversationReplies(x)
  \/ \E c \in Conversations, ep \in Endpoints : ConversationSends(x, c, ep)
  \/ OptOutReplies(x)

AccountChanges ==
  \/ \E t \in TableChoices : UpdateTable(t)
  \/ \E tag \in Tags : AcquireTag(tag) \/ ReleaseTag(tag)
  \/ EvictAccount

Next ==
  \/ \E x \in Exchanges : HandleInbound(x) \/ HandleOutbound(x) \/ HandleEvent(x) \/ Originate(x)
  \/ AccountChanges

\* A worker handles every message of its queue; nothing makes a user, a transport or
\* a cache timer act.
Fairness ==
  \A x \in Exchanges : WF_vars(HandleInbound(x)) /\ WF_vars(HandleOutbound(x))
                       /\ WF_vars(HandleEvent(x))

Spec == Init /\ [][Next]_vars /\ Fairness

-----------------------------------------------------------------------------
Endings == {"answered", "no_target", "unroutable", "dropped", "done"}
Workers == {"CONVERSATION", "ROUTER", "TRANSPORT_TAG", "OPT_OUT", "BILLING"}
AnyPlace == [conn : Connectors \union {OptOut, Billing("INBOUND"), Billing("OUTBOUND")},
             ep : Endpoints]
Hops(hops) == hops \in Seq([src : AnyPlace, dst : AnyPlace])

(* The variables have the types the code gives them; between two handlers  *)
(* every hop of a message has both its ends.                               *)
TypeOK ==
  /\ \A m \in Messages :
       /\ msg[m].at \in Workers \union Endings \union {"unsent", "dispatcher"}
       /\ msg[m].from \in Workers \union {Nothing}
       /\ msg[m].ep \in Endpoints
       /\ msg[m].tag \in Tags \union {Nothing}
       /\ msg[m].router \in Routers \union {Nothing}
       /\ msg[m].conv \in Conversations \union {Nothing}
       /\ {msg[m].account, msg[m].optout, msg[m].paid, msg[m].unroutable} \subseteq BOOLEAN
       /\ Hops(msg[m].hops) \/ msg[m].at = "unroutable"
       /\ msg[m].outbound_hops = Nothing \/ Hops(msg[m].outbound_hops)
  /\ charged \in [Messages -> BOOLEAN]
  /\ table \in Tables /\ cache \in Tables \union {Nothing}
  /\ owned \subseteq Tags /\ changes \in 0..MaxChanges
  /\ {billing_inbound_connector, billing_outbound_connector} \subseteq BOOLEAN

(* The conversation, the opt-out worker, or the router that answered; one  *)
(* for an answer of the dispatcher itself is not handed to anybody.        *)
HandedToItsSender(x) ==
  LET e == msg[Ev(x)] IN
  /\ e.at = "CONVERSATION" => origin[x] = Conversation(e.conv)
  /\ e.at = "OPT_OUT" => origin[x] = OptOut
  /\ e.at = "done" => \/ msg[Out(x)].unroutable
                      \/ origin[x] = Router(e.router, "INBOUND")

(* process_event, "Events must trace back the path through the routers and *)
(* conversations that was taken by the associated outbound message": at    *)
(* every moment the hops of an event mirror the last hops of its message,  *)
(* and it is never unroutable, whatever tables and cached copies the       *)
(* account went through between the two.  And it is handed to the worker   *)
(* that sent the message and to no other.                                  *)
EventsRetrace ==
  \A x \in Exchanges :
    LET e == msg[Ev(x)].hops
        o == msg[Out(x)].hops
    IN /\ msg[Ev(x)].at # "unroutable"
       /\ Len(e) <= Len(o)
       /\ \A i \in 1..Len(e) : e[i] = Mirror(o[Len(o) - i + 1])
       /\ HandedToItsSender(x)

(* No inbound or outbound message is refused for its connectors or its     *)
(* hops: on a table whose entries validate_entry let through, a message is *)
(* only ever lost for want of an entry, and has both ends of every hop.    *)
OnlyMissingEntriesLose == TypeOK /\ \A m \in Messages : msg[m].at # "unroutable"

BillingHops(hops, direction) ==
  Cardinality({i \in 1..Len(hops) : hops[i].src.conn = Billing(direction)})

(* With billing configured, every message a worker gets or a transport is  *)
(* given has passed the billing dispatcher exactly once, whatever routers  *)
(* it passed before and after; only the dispatcher's own answers to        *)
(* unroutable messages may have passed it less.                            *)
BilledOnTheWay ==
  \A x \in Exchanges :
    /\ billing_inbound_connector /\ msg[In(x)].at \in {"CONVERSATION", "ROUTER", "OPT_OUT"}
         => BillingHops(msg[In(x)].hops, "OUTBOUND") = 1
    /\ billing_outbound_connector /\ msg[Out(x)].at = "TRANSPORT_TAG"
         => \/ BillingHops(msg[Out(x)].hops, "INBOUND") = 1
            \/ msg[Out(x)].unroutable /\ BillingHops(msg[Out(x)].hops, "INBOUND") = 0

(* An opt-out never reaches a conversation or a router, and the answer to  *)
(* it leaves by the tag it came in on, even if the tag was released or the *)
(* table changed in between.                                               *)
OptOutsStayOut ==
  \A x \in Exchanges :
    /\ msg[In(x)].optout => msg[In(x)].at \notin {"CONVERSATION", "ROUTER"}
    /\ origin[x] = OptOut /\ msg[Out(x)].at = "TRANSPORT_TAG"
         => msg[Out(x)].tag = msg[In(x)].tag

(* A message of a conversation or a router that a transport is given as    *)
(* paid was charged for itself: it does not pass for paid because the      *)
(* message it answers was.                                                 *)
SendersPayForThemselves ==
  \A x \in Exchanges :
    msg[Out(x)].at = "TRANSPORT_TAG" /\ origin[x] \notin {Nothing, OptOut} /\ msg[Out(x)].paid
      => charged[Out(x)] \/ ~billing_outbound_connector

(* An event that a transport reports is delivered in the end, though the   *)
(* table keeps changing.                                                   *)
EventsArrive ==
  \A x \in Exchanges :
    msg[Ev(x)].at = "dispatcher" ~> msg[Ev(x)].at \in {"CONVERSATION", "OPT_OUT", "done"}

(* As long as no table sends messages round in a circle, an outbound       *)
(* message is given to a transport, dropped by billing or found without a  *)
(* target in the end.                                                      *)
OutboundLeaves ==
  \A x \in Exchanges :
    msg[Out(x)].at = "dispatcher" ~> msg[Out(x)].at \in {"TRANSPORT_TAG", "dropped", "no_target"}
=============================================================================
