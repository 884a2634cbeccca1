----------------------- MODULE RoutingDispatcherProofs -----------------------
(***************************************************************************)
(* Proofs about the routing dispatcher, for any number of exchanges, any   *)
(* tables and any changes of them: where a message goes, what it passed on *)
(* the way, and that its event finds the way back.                         *)
(*                                                                         *)
(* Exchanges do not meet, so the inductive invariant speaks of one at a    *)
(* time, of the records of its three messages.                             *)
(***************************************************************************)
EXTENDS RoutingDispatcher, FiniteSetTheorems, TLAPS

Hop == [src : AnyPlace, dst : AnyPlace]

Message ==
  [at : Workers \union Endings \union {"unsent", "dispatcher"}, from : Workers \union {Nothing},
   ep : Endpoints, account : BOOLEAN, tag : Tags \union {Nothing},
   router : Routers \union {Nothing}, conv : Conversations \union {Nothing},
   optout : BOOLEAN, paid : BOOLEAN, hops : Seq(Hop), outbound_hops : Seq(Hop) \union {Nothing},
   unroutable : BOOLEAN]

\* Where a message is that is not done yet: on its way to the dispatcher, or at a worker.
Waits(r, kind) == r.at = "dispatcher" /\ r.from = kind
AtRouter(r) == r.at = "ROUTER" \/ Waits(r, "ROUTER")
AtBilling(r) == r.at = "BILLING" \/ Waits(r, "BILLING")

-----------------------------------------------------------------------------
\* An inbound message has passed billing when a worker has it, and an opt-out is no
\* message for conversations or routers.
InboundInv(i, billed) ==
  /\ i.at \in {"unsent", "dispatcher", "BILLING", "ROUTER", "CONVERSATION", "OPT_OUT",
               "answered", "no_target"}
  /\ i.at = "unsent" => i = Blank
  /\ i.at # "unsent" => i.tag \in Tags
  /\ i.at = "dispatcher" => i.from \in SourceKinds("INBOUND")
  /\ AtRouter(i) => i.router \in Routers /\ ~i.optout
  /\ i.at = "CONVERSATION" => i.conv \in Conversations /\ ~i.optout
  /\ AtBilling(i) => i.ep = "default"
  /\ billed /\ (AtRouter(i) \/ i.at \in {"CONVERSATION", "OPT_OUT"})
       => BillingHops(i.hops, "OUTBOUND") = 1
  /\ billed /\ (AtBilling(i) \/ Waits(i, "TRANSPORT_TAG")) => BillingHops(i.hops, "OUTBOUND") = 0

\* What is one connector of a worker to its next hop: a router passes on from its
\* other side, billing does too.
Chain(hops) ==
  \A j \in 1..(Len(hops) - 1) :
    \/ \E r \in Routers : /\ hops[j].dst.conn = Router(r, "OUTBOUND")
                          /\ hops[j + 1].src.conn = Router(r, "INBOUND")
    \/ /\ hops[j].dst = Place(Billing("OUTBOUND"), "default")
       /\ hops[j + 1].src = Place(Billing("INBOUND"), "default")

Senders == {Conversation(c) : c \in Conversations} \union {Router(r, "INBOUND") : r \in Routers}
           \union {OptOut}

\* The hops of an outbound message begin where it was sent ...
StartsAt(o, org) ==
  IF o.unroutable THEN \/ \E r \in Routers : o.hops[1].src.conn = Router(r, "INBOUND")
                       \/ o.hops[1].src = Place(Billing("INBOUND"), "default")
  ELSE o.hops[1].src.conn = org

\* ... and end where it is.  Only the dispatcher's own answers get somewhere without a hop.
EndsAt(o, place) == IF o.hops = <<>> THEN o.unroutable ELSE Last(o.hops).dst = place

OutboundWay(i, o, org) ==
  /\ o.at \in {"unsent", "dispatcher", "BILLING", "ROUTER", "TRANSPORT_TAG", "no_target", "dropped"}
  /\ o.at = "unsent" => o = Blank /\ org = Nothing
  /\ o.at # "unsent" => i.at \in {"unsent", "CONVERSATION", "OPT_OUT", "answered"}
  /\ o.at # "unsent" => IF o.unroutable THEN org = Nothing ELSE org \in Senders
  /\ o.at = "dispatcher" => o.from \in SourceKinds("OUTBOUND")
  /\ Chain(o.hops)
  /\ o.hops # <<>> => StartsAt(o, org)
  /\ Waits(o, "CONVERSATION") =>
       o.hops = <<>> /\ ~o.unroutable /\ o.conv \in Conversations /\ org = Conversation(o.conv)
  /\ Waits(o, "OPT_OUT") => o.hops = <<>> /\ ~o.unroutable /\ org = OptOut
  /\ AtRouter(o) =>
       /\ o.router \in Routers
       /\ IF o.hops = <<>> THEN o.unroutable \/ org = Router(o.router, "INBOUND")
          ELSE Last(o.hops).dst.conn = Router(o.router, "OUTBOUND")
  /\ AtBilling(o) =>
       o.ep = "default" /\ o.tag \in Tags /\ EndsAt(o, Place(Billing("OUTBOUND"), "default"))
  /\ o.at = "TRANSPORT_TAG" =>
       o.tag \in Tags /\ EndsAt(o, Place(TransportTag(o.tag), "default"))

\* The answer to an opt-out goes the way it came.
OptOutWay(i, o, org) ==
  org = OptOut =>
    /\ i.at = "OPT_OUT" /\ o.tag = i.tag
    /\ Waits(o, "OPT_OUT") \/ AtBilling(o) \/ o.at \in {"TRANSPORT_TAG", "dropped"}

OutboundBilled(o, org, paid_for, billed) ==
  /\ billed /\ (AtRouter(o) \/ AtBilling(o) \/ o.at = "dispatcher")
       => BillingHops(o.hops, "INBOUND") = 0
  /\ billed /\ o.at = "TRANSPORT_TAG"
       => BillingHops(o.hops, "INBOUND") = IF o.hops = <<>> THEN 0 ELSE 1
  /\ billed /\ org \notin {Nothing, OptOut} /\ (AtBilling(o) \/ o.at = "TRANSPORT_TAG") /\ o.paid
       => paid_for

\* An event that was routed knows the way of its message.
Informed(o, e) ==
  e.outbound_hops = o.hops /\ e.unroutable = o.unroutable /\ e.tag = o.tag /\ e.hops # <<>>

\* The hop of the message that is to be undone next.
ToUndo(o, e) == o.hops[Len(o.hops) - Len(e.hops)]

EventWay(o, e, org) ==
  /\ e.at \in {"unsent", "dispatcher", "BILLING", "ROUTER", "CONVERSATION", "OPT_OUT", "done"}
  /\ e.at = "unsent" => e = Blank
  /\ e.at # "unsent" => o.at = "TRANSPORT_TAG"
  /\ e.at = "dispatcher" => e.from \in SourceKinds("INBOUND")
  /\ Len(e.hops) <= Len(o.hops)
  /\ \A i \in 1..Len(e.hops) : e.hops[i] = Mirror(o.hops[Len(o.hops) - i + 1])
  /\ Waits(e, "TRANSPORT_TAG") => e.hops = <<>> /\ e.ep = "default" /\ e.outbound_hops = Nothing
  /\ AtRouter(e) =>
       Informed(o, e) /\ e.router \in Routers /\ Last(e.hops).dst.conn = Router(e.router, "INBOUND")
  /\ Waits(e, "ROUTER") => Len(e.hops) < Len(o.hops) /\ e.ep = ToUndo(o, e).dst.ep
  /\ AtBilling(e) =>
       Informed(o, e) /\ e.ep = "default" /\ Last(e.hops).dst = Place(Billing("INBOUND"), "default")
  /\ e.at = "CONVERSATION" => Informed(o, e) /\ Last(e.hops).dst.conn = Conversation(e.conv)
  /\ e.at = "OPT_OUT" => Informed(o, e) /\ Last(e.hops).dst.conn = OptOut
  /\ e.at = "done" => o.unroutable \/ org = Router(e.router, "INBOUND")

\* What holds of one exchange.
ExchangeInv(i, o, e, org, paid_for, billed) ==
  /\ InboundInv(i, billed) /\ OutboundWay(i, o, org) /\ OptOutWay(i, o, org)
  /\ OutboundBilled(o, org, paid_for, billed) /\ EventWay(o, e, org)

AccountInv ==
  /\ table \in Tables /\ ChannelsByDefault(table)
  /\ cache \in Tables \union {Nothing} /\ (cache # Nothing => ChannelsByDefault(cache))
  /\ owned \subseteq Tags /\ changes \in 0..MaxChanges
  /\ billing_inbound_connector \in BOOLEAN
  /\ billing_outbound_connector = billing_inbound_connector

TypeInv ==
  /\ msg \in [Messages -> Message]
  /\ charged \in [Messages -> BOOLEAN]
  /\ DOMAIN origin = Exchanges /\ origin = [x \in Exchanges |-> origin[x]]

ThisInv(x) == ExchangeInv(msg[In(x)], msg[Out(x)], msg[Ev(x)], origin[x], charged[Out(x)],
                          billing_outbound_connector)

IInv == TypeInv /\ AccountInv /\ \A x \in Exchanges : ThisInv(x)
-----------------------------------------------------------------------------
LEMMA LastOfAppend ==
  ASSUME NEW S, NEW s \in Seq(S), NEW h
  PROVE  /\ Last(Append(s, h)) = h /\ Front(Append(s, h)) = s
         /\ Len(Append(s, h)) = Len(s) + 1 /\ Append(s, h) # <<>>
         /\ \A j \in 1..Len(s) : Append(s, h)[j] = s[j]
<1>1. /\ Len(Append(s, h)) = Len(s) + 1 /\ Append(s, h)[Len(s) + 1] = h /\ Len(s) \in Nat
      /\ \A j \in 1..Len(s) : Append(s, h)[j] = s[j]
  OBVIOUS
<1>2. s \in Seq(S \union {h}) /\ Append(s, h) \in Seq(S \union {h})
  OBVIOUS
<1>3. Front(Append(s, h)) = s
  BY <1>1, <1>2 DEF Front
<1> QED
  BY <1>1, <1>2, <1>3 DEF Last

\* The hop that is begun at the source is ended at the destination.
LEMMA OneHop ==
  ASSUME NEW r \in Message, NEW place, NEW direction
  PROVE  PushDestination(Sourced(r, direction), place) =
           [r EXCEPT !.account = TRUE,
              !.hops = Append(r.hops, [src |-> Place(Source(r, direction), r.ep), dst |-> place])]
<1> DEFINE a == [r EXCEPT !.account = TRUE]
           h == [src |-> Place(Source(r, direction), r.ep), dst |-> Nothing]
           b == [r EXCEPT !.account = TRUE, !.hops = Append(r.hops, h)]
<1>1. Source(a, direction) = Source(r, direction) /\ a.ep = r.ep /\ a.hops = r.hops
  BY DEF Source, Message
<1>2. Sourced(r, direction) = b
  BY <1>1 DEF Sourced, PushSource, Message
<1>3. b.hops = Append(r.hops, h)
  BY DEF Message
<1>4. Last(b.hops) = h /\ Front(b.hops) = r.hops
  BY <1>3, LastOfAppend DEF Message
<1> HIDE DEF h
<1>5. PushDestination(b, place) = [b EXCEPT !.hops = Append(r.hops, [h EXCEPT !.dst = place])]
  BY <1>4 DEF PushDestination
<1>6. [h EXCEPT !.dst = place] = [src |-> Place(Source(r, direction), r.ep), dst |-> place]
  BY DEF h
<1> QED
  BY <1>2, <1>5, <1>6 DEF Message

LEMMA BillingHopsGrow ==
  ASSUME NEW s \in Seq(Hop), NEW h \in Hop, NEW direction
  PROVE  /\ BillingHops(s, direction) \in Nat
         /\ BillingHops(Append(s, h), direction) =
              BillingHops(s, direction) + IF h.src.conn = Billing(direction) THEN 1 ELSE 0
<1> DEFINE Of(t) == {i \in 1..Len(t) : t[i].src.conn = Billing(direction)}
           n == Len(s) + 1
<1>1. n \in Nat /\ n \notin Of(s) /\ Len(s) \in Nat
  OBVIOUS
<1>2. IsFiniteSet(Of(s))
  <2>1. IsFiniteSet(1..Len(s))
    BY <1>1, FS_Interval
  <2> QED
    BY <2>1, FS_Subset
<1>3. Of(Append(s, h)) = IF h.src.conn = Billing(direction) THEN Of(s) \union {n} ELSE Of(s)
  <2>1. /\ Len(Append(s, h)) = n /\ Append(s, h)[n] = h
        /\ \A j \in 1..Len(s) : Append(s, h)[j] = s[j]
    OBVIOUS
  <2>2. 1..n = (1..Len(s)) \union {n}
    BY <1>1
  <2> QED
    BY <2>1, <2>2
<1>4. Cardinality(Of(s)) \in Nat /\ Cardinality(Of(s) \union {n}) = Cardinality(Of(s)) + 1
  BY <1>1, <1>2, FS_AddElement, FS_CardinalityType
<1>5. /\ BillingHops(s, direction) = Cardinality(Of(s))
      /\ BillingHops(Append(s, h), direction) = Cardinality(Of(Append(s, h)))
  BY DEF BillingHops
<1> HIDE DEF Of
<1> QED
  BY <1>3, <1>4, <1>5

LEMMA NoHops == BillingHops(<<>>, "INBOUND") = 0 /\ BillingHops(<<>>, "OUTBOUND") = 0
<1>1. \A direction : {i \in 1..Len(<<>>) : <<>>[i].src.conn = Billing(direction)} = {}
  OBVIOUS
<1> QED
  BY <1>1, FS_EmptySet DEF BillingHops

LEMMA SourceFact ==
  ASSUME NEW r, NEW direction
  PROVE  /\ r.from = "CONVERSATION" => Source(r, direction) = Conversation(r.conv)
         /\ r.from = "ROUTER" => Source(r, direction) = Router(r.router, Flip(direction))
         /\ r.from = "TRANSPORT_TAG" => Source(r, direction) = TransportTag(r.tag)
         /\ r.from = "OPT_OUT" => Source(r, direction) = OptOut
         /\ r.from = "BILLING" => Source(r, direction) = Billing(Flip(direction))
BY DEF Source

\* The record of a message that was handed to a worker or a transport.
Published(p, r, place) ==
  /\ p.at = place.conn.ctype /\ p.ep = place.ep /\ p.from = Nothing
  /\ p.conv = IF p.at = "CONVERSATION" THEN place.conn.key ELSE r.conv
  /\ p.router = IF p.at = "ROUTER" THEN place.conn.key ELSE r.router
  /\ p.tag = IF p.at = "TRANSPORT_TAG" THEN place.conn.key ELSE r.tag
  /\ p.account = r.account /\ p.optout = r.optout /\ p.paid = r.paid
  /\ p.hops = r.hops /\ p.outbound_hops = r.outbound_hops /\ p.unroutable = r.unroutable

\* The connectors a message is published to.
Receivers ==
  Connectors \union {OptOut, Billing("INBOUND"), Billing("OUTBOUND")}

LEMMA ReceiverFact ==
  ASSUME NEW conn \in Receivers
  PROVE  /\ conn.ctype \in Workers
         /\ conn.ctype = "CONVERSATION" => conn.key \in Conversations /\ conn = Conversation(conn.key)
         /\ conn.ctype = "ROUTER" => /\ conn.key \in Routers /\ conn.direction \in {"INBOUND", "OUTBOUND"}
                                     /\ conn = Router(conn.key, conn.direction)
         /\ conn.ctype = "TRANSPORT_TAG" => conn.key \in Tags /\ conn = TransportTag(conn.key)
BY DEF Receivers, Connectors, RouterConnectors, Conversation, Router, TransportTag, OptOut, Billing,
       Connector, Workers

LEMMA PublishFact ==
  ASSUME NEW r \in Message, NEW conn \in Receivers, NEW ep \in Endpoints, NEW direction,
         conn.ctype \in DestinationKinds(direction)
  PROVE  /\ Publish(r, Place(conn, ep), direction) \in Message
         /\ Published(Publish(r, Place(conn, ep), direction), r, Place(conn, ep))
<1> DEFINE p == Publish(r, Place(conn, ep), direction)
<1>1. p = [r EXCEPT !.at = conn.ctype, !.ep = ep, !.from = Nothing,
             !.conv = IF conn.ctype = "CONVERSATION" THEN conn.key ELSE r.conv,
             !.router = IF conn.ctype = "ROUTER" THEN conn.key ELSE r.router,
             !.tag = IF conn.ctype = "TRANSPORT_TAG" THEN conn.key ELSE r.tag]
  BY DEF Publish, Place, Message
<1>2. /\ (IF conn.ctype = "CONVERSATION" THEN conn.key ELSE r.conv) \in Conversations \union {Nothing}
      /\ (IF conn.ctype = "ROUTER" THEN conn.key ELSE r.router) \in Routers \union {Nothing}
      /\ (IF conn.ctype = "TRANSPORT_TAG" THEN conn.key ELSE r.tag) \in Tags \union {Nothing}
      /\ conn.ctype \in Workers
  BY ReceiverFact DEF Message
<1>3. p \in Message
  BY <1>1, <1>2 DEF Message
<1>4. Published(p, r, Place(conn, ep))
  BY <1>1 DEF Published, Place, Message
<1> QED
  BY <1>3, <1>4

\* A hop is added, and the message handed over.
TheHop(r, direction, place) == [src |-> Place(Source(r, direction), r.ep), dst |-> place]
Hopped(r, h) == [r EXCEPT !.account = TRUE, !.hops = Append(r.hops, h)]

LEMMA HoppedFact ==
  ASSUME NEW r \in Message, NEW direction, Source(r, direction) \in Receivers,
         NEW conn \in Receivers, NEW ep \in Endpoints
  PROVE  /\ TheHop(r, direction, Place(conn, ep)) \in Hop
         /\ Hopped(r, TheHop(r, direction, Place(conn, ep))) \in Message
         /\ Forward(Sourced(r, direction), Place(conn, ep), direction)
              = Publish(Hopped(r, TheHop(r, direction, Place(conn, ep))), Place(conn, ep), direction)
<1> DEFINE h == TheHop(r, direction, Place(conn, ep))
<1>1. h \in Hop
  <2>1. \A c \in Receivers, k \in Endpoints : Place(c, k) \in AnyPlace
    BY DEF Receivers, AnyPlace, Place
  <2>2. r.ep \in Endpoints
    BY DEF Message
  <2> QED
    BY <2>1, <2>2 DEF Hop, TheHop
<1>2. [r EXCEPT !.account = TRUE, !.hops = Append(r.hops, h)] \in Message
  <2>1. Append(r.hops, h) \in Seq(Hop)
    BY <1>1 DEF Message
  <2> HIDE DEF h
  <2> QED
    BY <2>1 DEF Message
<1> QED
  BY <1>1, <1>2, OneHop DEF Forward, Hopped, TheHop

\* All that the proofs below know of a message that was passed on.
Passed(f, r, h) ==
  /\ f \in Message /\ h \in Hop
  /\ f.at = h.dst.conn.ctype /\ f.ep = h.dst.ep /\ f.from = Nothing /\ f.hops = Append(r.hops, h)
  /\ f.conv = IF f.at = "CONVERSATION" THEN h.dst.conn.key ELSE r.conv
  /\ f.router = IF f.at = "ROUTER" THEN h.dst.conn.key ELSE r.router
  /\ f.tag = IF f.at = "TRANSPORT_TAG" THEN h.dst.conn.key ELSE r.tag
  /\ f.optout = r.optout /\ f.paid = r.paid
  /\ f.outbound_hops = r.outbound_hops /\ f.unroutable = r.unroutable

LEMMA ForwardFact ==
  ASSUME NEW r \in Message, NEW direction, Source(r, direction) \in Receivers,
         NEW conn \in Receivers, NEW ep \in Endpoints, conn.ctype \in DestinationKinds(direction)
  PROVE  Passed(Forward(Sourced(r, direction), Place(conn, ep), direction), r,
                TheHop(r, direction, Place(conn, ep)))
<1> DEFINE place == Place(conn, ep)
           h == TheHop(r, direction, place)
           q == Hopped(r, h)
           f == Forward(Sourced(r, direction), place, direction)
<1>1. h \in Hop /\ q \in Message /\ f = Publish(q, place, direction)
  BY HoppedFact
<1>2. /\ h.dst = place /\ place.conn = conn /\ place.ep = ep
  BY DEF TheHop, Place
<1> HIDE DEF h, f
<1>3. f \in Message /\ Published(f, q, place)
  BY <1>1, PublishFact
<1>4. /\ q.hops = Append(r.hops, h) /\ q.conv = r.conv /\ q.router = r.router /\ q.tag = r.tag
      /\ q.optout = r.optout /\ q.paid = r.paid /\ q.outbound_hops = r.outbound_hops
      /\ q.unroutable = r.unroutable
  BY <1>1 DEF Message, Hopped
<1> HIDE DEF place, q
<1>5. Passed(f, r, h)
  BY <1>1, <1>2, <1>3, <1>4 DEF Passed, Published
<1> QED
  BY <1>5 DEF f, h, place

-----------------------------------------------------------------------------
\* A field of a record changes, and the others stay.
LEMMA BlankFact ==
  /\ Blank \in Message
  /\ Blank.at = "unsent" /\ Blank.from = Nothing /\ Blank.ep = "default" /\ Blank.account = FALSE
  /\ Blank.tag = Nothing /\ Blank.router = Nothing /\ Blank.conv = Nothing /\ Blank.optout = FALSE
  /\ Blank.paid = FALSE /\ Blank.hops = <<>> /\ Blank.outbound_hops = Nothing /\ Blank.unroutable = FALSE
BY RoutingTableAssumption DEF Blank, Message

\* A message that a worker hands back to the dispatcher.
Handed(o, r, kind, ep) ==
  /\ o \in Message /\ o.at = "dispatcher" /\ o.from = kind /\ o.ep = ep
  /\ o.hops = r.hops /\ o.unroutable = r.unroutable /\ o.tag = r.tag /\ o.router = r.router
  /\ o.conv = r.conv /\ o.optout = r.optout /\ o.paid = r.paid /\ o.outbound_hops = r.outbound_hops

LEMMA DispatcherFact ==
  ASSUME NEW r \in Message, NEW kind \in Workers, NEW ep \in Endpoints
  PROVE  Handed(ToDispatcher(r, kind, ep), r, kind, ep)
BY DEF Handed, ToDispatcher, Message

LEMMA TaggedFact ==
  ASSUME NEW r \in Message, NEW tag \in Tags
  PROVE  /\ [r EXCEPT !.tag = tag] \in Message
         /\ [r EXCEPT !.tag = tag].at = r.at /\ [r EXCEPT !.tag = tag].from = r.from
         /\ [r EXCEPT !.tag = tag].ep = r.ep /\ [r EXCEPT !.tag = tag].router = r.router
         /\ [r EXCEPT !.tag = tag].conv = r.conv /\ [r EXCEPT !.tag = tag].hops = r.hops
         /\ [r EXCEPT !.tag = tag].unroutable = r.unroutable /\ [r EXCEPT !.tag = tag].tag = tag
         /\ [r EXCEPT !.tag = tag].paid = r.paid
BY DEF Message

LEMMA MarkedFact ==
  ASSUME NEW r \in Message, NEW paid \in BOOLEAN
  PROVE  /\ [r EXCEPT !.paid = paid] \in Message
         /\ [r EXCEPT !.paid = paid].hops = r.hops /\ [r EXCEPT !.paid = paid].tag = r.tag
         /\ [r EXCEPT !.paid = paid].router = r.router
         /\ [r EXCEPT !.paid = paid].outbound_hops = r.outbound_hops
         /\ [r EXCEPT !.paid = paid].unroutable = r.unroutable
         /\ [r EXCEPT !.paid = paid].paid = paid
BY DEF Message

EndedAs(r, how) == [r EXCEPT !.at = how]

LEMMA EndedFact ==
  ASSUME NEW r \in Message, NEW how \in Endings
  PROVE  /\ EndedAs(r, how) \in Message
         /\ EndedAs(r, how).at = how /\ EndedAs(r, how).hops = r.hops
         /\ EndedAs(r, how).tag = r.tag /\ EndedAs(r, how).router = r.router
         /\ EndedAs(r, how).unroutable = r.unroutable
BY DEF Message, EndedAs

LEMMA UnroutableFact ==
  ASSUME NEW r \in Message
  PROVE  /\ [r EXCEPT !.unroutable = TRUE] \in Message
         /\ [r EXCEPT !.unroutable = TRUE].hops = r.hops /\ [r EXCEPT !.unroutable = TRUE].tag = r.tag
         /\ [r EXCEPT !.unroutable = TRUE].router = r.router
         /\ [r EXCEPT !.unroutable = TRUE].conv = r.conv
         /\ [r EXCEPT !.unroutable = TRUE].unroutable = TRUE
BY DEF Message

LEMMA AccountFact ==
  ASSUME NEW r \in Message, NEW known \in BOOLEAN
  PROVE  /\ [r EXCEPT !.account = known] \in Message
         /\ [r EXCEPT !.account = known].tag = r.tag /\ [r EXCEPT !.account = known].router = r.router
         /\ [r EXCEPT !.account = known].conv = r.conv
BY DEF Message

InformedOf(e, hops, unroutable, tag, known) ==
  [e EXCEPT !.outbound_hops = hops, !.unroutable = unroutable, !.tag = tag, !.account = known]

KnowsWay(p, e, hops, unroutable, tag, known) ==
  /\ p \in Message /\ p.outbound_hops = hops /\ p.unroutable = unroutable /\ p.tag = tag
  /\ p.hops = e.hops /\ p.from = e.from /\ p.ep = e.ep /\ p.router = e.router
  /\ p.account = known

LEMMA InformedFact ==
  ASSUME NEW e \in Message, NEW hops \in Seq(Hop), NEW unroutable \in BOOLEAN,
         NEW tag \in Tags \union {Nothing}, NEW known \in BOOLEAN
  PROVE  KnowsWay(InformedOf(e, hops, unroutable, tag, known), e, hops, unroutable, tag, known)
<1> DEFINE p == InformedOf(e, hops, unroutable, tag, known)
<1>1. p \in Message
  BY DEF Message, InformedOf
<1>2. p.outbound_hops = hops /\ p.tag = tag /\ p.hops = e.hops /\ p.from = e.from /\ p.ep = e.ep
      /\ p.router = e.router
  BY DEF Message, InformedOf
<1>3. p.unroutable = unroutable
  BY DEF Message, InformedOf
<1>4. p.account = known
  BY DEF Message, InformedOf
<1> HIDE DEF p
<1> QED
  BY <1>1, <1>2, <1>3, <1>4 DEF p, KnowsWay

CopiedAddress(b, known, tag, router) == [b EXCEPT !.account = known, !.tag = tag, !.router = router]
CopiedMarks(c, conv, optout, paid) == [c EXCEPT !.conv = conv, !.optout = optout, !.paid = paid]

Addressed(c, b, tag, router) ==
  /\ c \in Message /\ c.tag = tag /\ c.router = router /\ c.hops = b.hops
  /\ c.unroutable = b.unroutable

LEMMA CopiedAddressFact ==
  ASSUME NEW b \in Message, NEW known \in BOOLEAN, NEW tag \in Tags \union {Nothing},
         NEW router \in Routers \union {Nothing}
  PROVE  Addressed(CopiedAddress(b, known, tag, router), b, tag, router)
<1> DEFINE c == CopiedAddress(b, known, tag, router)
<1>1. c \in Message
  BY DEF Message, CopiedAddress
<1>2. c.tag = tag /\ c.router = router /\ c.hops = b.hops
  BY DEF Message, CopiedAddress
<1>3. c.unroutable = b.unroutable
  BY DEF Message, CopiedAddress
<1> HIDE DEF c
<1>4. Addressed(c, b, tag, router)
  BY <1>1, <1>2, <1>3 DEF Addressed
<1> QED
  BY <1>4 DEF c

Marked(p, c, conv) ==
  /\ p \in Message /\ p.tag = c.tag /\ p.router = c.router /\ p.conv = conv /\ p.hops = c.hops
  /\ p.unroutable = c.unroutable

LEMMA CopiedMarksFact ==
  ASSUME NEW c \in Message, NEW conv \in Conversations \union {Nothing},
         NEW optout \in BOOLEAN, NEW paid \in BOOLEAN
  PROVE  Marked(CopiedMarks(c, conv, optout, paid), c, conv)
<1> DEFINE p == CopiedMarks(c, conv, optout, paid)
<1>1. p \in Message
  BY DEF Message, CopiedMarks
<1>2. p.tag = c.tag /\ p.router = c.router /\ p.conv = conv /\ p.hops = c.hops
  BY DEF Message, CopiedMarks
<1>3. p.unroutable = c.unroutable
  BY DEF Message, CopiedMarks
<1> HIDE DEF p
<1>4. Marked(p, c, conv)
  BY <1>1, <1>2, <1>3 DEF Marked
<1> QED
  BY <1>4 DEF p

-----------------------------------------------------------------------------
\* Where the table sends what comes from a place, and from which side.
LEMMA TargetFact ==
  ASSUME AccountInv, NEW conn, NEW ep, NEW target \in LookupTarget(RoutingTableInUse, Place(conn, ep))
  PROVE  /\ target.conn \in Connectors /\ target.conn \in Receivers /\ target.ep \in Endpoints
         /\ target = Place(target.conn, target.ep)
         /\ target.conn.direction # conn.direction
         /\ target.conn.ctype = "TRANSPORT_TAG" => target.ep = "default"
<1>1. RoutingTableInUse \in Tables /\ ChannelsByDefault(RoutingTableInUse)
  BY DEF AccountInv, RoutingTableInUse
<1>2. PICK entry \in RoutingTableInUse : entry.src = Place(conn, ep) /\ target = entry.dst
  BY DEF LookupTarget
<1>3. entry \in [src : Places, dst : Places] /\ entry.src.conn.direction # entry.dst.conn.direction
  BY <1>1, <1>2 DEF Tables, Entries, Validated
<1>4. entry.src.conn = conn
  BY <1>2 DEF Place
<1> QED
  BY <1>1, <1>2, <1>3, <1>4 DEF Places, Place, Receivers, ChannelsByDefault

LEMMA TowardsConversations ==
  ASSUME NEW conn \in Connectors, conn.direction # "OUTBOUND"
  PROVE  conn.ctype \in {"CONVERSATION", "ROUTER"} /\ (conn.ctype = "ROUTER" => conn.direction = "INBOUND")
BY DEF Connectors, RouterConnectors, Router, Conversation, TransportTag, Connector

LEMMA TowardsTransports ==
  ASSUME NEW conn \in Connectors, conn.direction # "INBOUND"
  PROVE  conn.ctype \in {"TRANSPORT_TAG", "ROUTER"} /\ (conn.ctype = "ROUTER" => conn.direction = "OUTBOUND")
BY DEF Connectors, RouterConnectors, Router, Conversation, TransportTag, Connector

-----------------------------------------------------------------------------
\* Inbound messages.  Their sources are on the side of the channels.
LEMMA InboundSource ==
  ASSUME NEW i \in Message, NEW billed, InboundInv(i, billed), i.at = "dispatcher"
  PROVE  /\ Source(i, "INBOUND") \in Receivers /\ Source(i, "INBOUND").direction = "OUTBOUND"
         /\ Source(i, "INBOUND") = Billing("OUTBOUND") <=> i.from = "BILLING"
         /\ Source(i, "INBOUND").ctype \in {"TRANSPORT_TAG", "ROUTER", "BILLING"}
<1>1. CASE i.from = "TRANSPORT_TAG"
  <2>1. Source(i, "INBOUND") = TransportTag(i.tag) /\ i.tag \in Tags
    BY <1>1, SourceFact DEF InboundInv
  <2> QED
    BY <1>1, <2>1 DEF Receivers, Connectors, TransportTag, Billing, Connector
<1>2. CASE i.from = "ROUTER"
  <2>1. Source(i, "INBOUND") = Router(i.router, "OUTBOUND") /\ i.router \in Routers
    BY <1>2, SourceFact DEF InboundInv, AtRouter, Waits, Flip
  <2> QED
    BY <1>2, <2>1 DEF Receivers, Connectors, RouterConnectors, Router, Billing, Connector
<1>3. CASE i.from = "BILLING"
  <2>1. Source(i, "INBOUND") = Billing("OUTBOUND")
    BY <1>3, SourceFact DEF Flip
  <2> QED
    BY <1>3, <2>1 DEF Receivers, Billing, Connector
<1> QED
  BY <1>1, <1>2, <1>3 DEF InboundInv, SourceKinds

\* Where an inbound message may be passed on to: to billing first, and only then to a
\* worker, an opt-out to one worker alone.
GoodTarget(i, billed, conn, ep) ==
  /\ conn \in Receivers /\ ep \in Endpoints
  /\ \/ conn = Billing("INBOUND") /\ ep = "default" /\ i.from = "TRANSPORT_TAG"
     \/ /\ billed => i.from # "TRANSPORT_TAG"
        /\ conn = OptOut \/ (conn.ctype \in {"CONVERSATION", "ROUTER"} /\ ~i.optout)

LEMMA InboundForward ==
  ASSUME NEW i \in Message, NEW billed \in BOOLEAN, InboundInv(i, billed), i.at = "dispatcher",
         NEW conn, NEW ep, GoodTarget(i, billed, conn, ep)
  PROVE  LET f == Forward(Sourced(i, "INBOUND"), Place(conn, ep), "INBOUND") IN
         f \in Message /\ InboundInv(f, billed)
<1> DEFINE f == Forward(Sourced(i, "INBOUND"), Place(conn, ep), "INBOUND")
           h == TheHop(i, "INBOUND", Place(conn, ep))
<1>1. /\ Source(i, "INBOUND") \in Receivers
      /\ Source(i, "INBOUND") = Billing("OUTBOUND") <=> i.from = "BILLING"
  BY InboundSource
<1>2. /\ conn.ctype \in {"CONVERSATION", "ROUTER", "OPT_OUT", "BILLING"}
      /\ conn.ctype = "BILLING" <=> conn = Billing("INBOUND")
      /\ conn.ctype = "OPT_OUT" <=> conn = OptOut
  BY DEF GoodTarget, OptOut, Billing, Connector
<1>3. Passed(f, i, h)
  BY <1>1, <1>2, ForwardFact DEF GoodTarget, DestinationKinds
<1>4. h.src.conn = Source(i, "INBOUND") /\ h.dst.conn = conn /\ h.dst.ep = ep
  BY DEF TheHop, Place
<1> HIDE DEF f, h
<1>5. /\ f.at = conn.ctype /\ f.ep = ep /\ f.from = Nothing /\ f.tag = i.tag /\ f.optout = i.optout
      /\ f.at = "CONVERSATION" => f.conv = conn.key
      /\ f.at = "ROUTER" => f.router = conn.key
      /\ f \in Message
  BY <1>2, <1>3, <1>4 DEF Passed
<1>6. /\ BillingHops(i.hops, "OUTBOUND") \in Nat
      /\ BillingHops(f.hops, "OUTBOUND") =
           BillingHops(i.hops, "OUTBOUND") + IF i.from = "BILLING" THEN 1 ELSE 0
  BY <1>1, <1>3, <1>4, BillingHopsGrow DEF Passed, Message
<1>7. i.tag \in Tags /\ i.from \in {"TRANSPORT_TAG", "ROUTER", "BILLING"}
  BY DEF InboundInv, SourceKinds
<1>8. billed => BillingHops(i.hops, "OUTBOUND") = IF i.from = "ROUTER" THEN 1 ELSE 0
  BY <1>7 DEF InboundInv, Waits, AtRouter, AtBilling
<1>9. billed /\ f.at \in {"CONVERSATION", "ROUTER", "OPT_OUT"} => BillingHops(f.hops, "OUTBOUND") = 1
  BY <1>2, <1>5, <1>6, <1>7, <1>8 DEF GoodTarget, OptOut, Billing, Connector
<1>10. billed /\ f.at = "BILLING" => BillingHops(f.hops, "OUTBOUND") = 0
  BY <1>2, <1>5, <1>6, <1>7, <1>8 DEF GoodTarget, OptOut, Billing, Connector
<1>11. /\ f.at = "CONVERSATION" => f.conv \in Conversations /\ ~f.optout
       /\ f.at = "ROUTER" => f.router \in Routers /\ ~f.optout
       /\ f.at = "BILLING" => f.ep = "default"
  BY <1>2, <1>5, ReceiverFact DEF GoodTarget, OptOut, Billing, Connector
<1>12. InboundInv(f, billed)
  BY <1>2, <1>5, <1>7, <1>9, <1>10, <1>11 DEF InboundInv, AtRouter, AtBilling, Waits
<1> QED
  BY <1>5, <1>12 DEF f

\* As long as its message is unsent nothing else of an exchange depends on the inbound
\* message, and what has left for a transport does not change.
LEMMA InboundMoves ==
  ASSUME NEW i, NEW i2, NEW o, NEW e, NEW org, NEW paid_for, NEW billed,
         ExchangeInv(i, o, e, org, paid_for, billed), o.at = "unsent", InboundInv(i2, billed)
  PROVE  ExchangeInv(i2, o, e, org, paid_for, billed)
<1>1. o = Blank /\ org = Nothing /\ Nothing # OptOut
  BY RoutingAssumption DEF ExchangeInv, OutboundWay
<1>2. OutboundWay(i2, o, org)
  BY <1>1 DEF ExchangeInv, OutboundWay
<1> QED
  BY <1>1, <1>2 DEF ExchangeInv, OptOutWay

LEMMA OutboundMoves ==
  ASSUME NEW i, NEW o, NEW o2 \in Message, NEW e, NEW org, NEW org2, NEW paid_for, NEW paid_for2, NEW billed,
         ExchangeInv(i, o, e, org, paid_for, billed), o.at # "TRANSPORT_TAG",
         OutboundWay(i, o2, org2), OptOutWay(i, o2, org2), OutboundBilled(o2, org2, paid_for2, billed)
  PROVE  ExchangeInv(i, o2, e, org2, paid_for2, billed)
<1>1. e = Blank /\ e.at = "unsent" /\ e.hops = <<>>
  BY DEF ExchangeInv, EventWay, Blank
<1>2. EventWay(o2, e, org2)
  <2>1. Len(e.hops) = 0 /\ Len(o2.hops) \in Nat
    BY <1>1 DEF Message
  <2> QED
    BY <1>1, <2>1 DEF EventWay, Waits, AtRouter, AtBilling
<1> QED
  BY <1>2 DEF ExchangeInv

-----------------------------------------------------------------------------
\* Outbound messages.  Their sources are on the side of the conversations.
LEMMA OutboundSource ==
  ASSUME NEW i, NEW o \in Message, NEW org, OutboundWay(i, o, org), o.at = "dispatcher"
  PROVE  /\ Source(o, "OUTBOUND") \in Receivers /\ Source(o, "OUTBOUND").direction = "INBOUND"
         /\ Source(o, "OUTBOUND") = Billing("INBOUND") <=> o.from = "BILLING"
         /\ o.hops = <<>> =>
              IF o.unroutable THEN \/ \E r \in Routers : Source(o, "OUTBOUND") = Router(r, "INBOUND")
                                   \/ Source(o, "OUTBOUND") = Billing("INBOUND") /\ o.ep = "default"
              ELSE Source(o, "OUTBOUND") = org
         /\ o.from \in {"CONVERSATION", "ROUTER", "OPT_OUT", "BILLING"}
<1>1. CASE o.from = "CONVERSATION"
  <2>1. Source(o, "OUTBOUND") = Conversation(o.conv) /\ o.conv \in Conversations /\ ~o.unroutable
        /\ org = Conversation(o.conv)
    BY <1>1, SourceFact DEF OutboundWay, Waits
  <2> QED
    BY <1>1, <2>1 DEF Receivers, Connectors, Conversation, Billing, Connector
<1>2. CASE o.from = "ROUTER"
  <2>1. /\ Source(o, "OUTBOUND") = Router(o.router, "INBOUND") /\ o.router \in Routers
        /\ o.hops = <<>> => o.unroutable \/ org = Router(o.router, "INBOUND")
    BY <1>2, SourceFact DEF OutboundWay, AtRouter, Waits, Flip
  <2> QED
    BY <1>2, <2>1 DEF Receivers, Connectors, RouterConnectors, Router, Billing, Connector
<1>3. CASE o.from = "OPT_OUT"
  <2>1. Source(o, "OUTBOUND") = OptOut /\ org = OptOut /\ ~o.unroutable
    BY <1>3, SourceFact DEF OutboundWay, Waits
  <2> QED
    BY <1>3, <2>1 DEF Receivers, OptOut, Billing, Connector
<1>4. CASE o.from = "BILLING"
  <2>1. /\ Source(o, "OUTBOUND") = Billing("INBOUND") /\ (o.hops = <<>> => o.unroutable)
        /\ o.ep = "default"
    BY <1>4, SourceFact DEF OutboundWay, AtBilling, Waits, EndsAt, Flip
  <2> QED
    BY <1>4, <2>1 DEF Receivers, Billing, Connector
<1> QED
  BY <1>1, <1>2, <1>3, <1>4 DEF OutboundWay, SourceKinds

\* Where an outbound message may be passed on to: with billing to a transport from
\* there alone, and only a message that was routed is routed on.
GoodWayOut(o, billed, conn, ep) ==
  /\ conn \in Receivers /\ ep \in Endpoints
  /\ conn.ctype \in {"ROUTER", "TRANSPORT_TAG", "BILLING"}
  /\ conn.ctype = "ROUTER" => conn.direction = "OUTBOUND" /\ o.from \in {"CONVERSATION", "ROUTER"}
  /\ conn.ctype = "BILLING" => conn = Billing("OUTBOUND") /\ ep = "default" /\ o.tag \in Tags
  /\ conn.ctype = "TRANSPORT_TAG" => ep = "default"
  /\ conn.ctype = "TRANSPORT_TAG" /\ o.from \in {"OPT_OUT", "BILLING"} => conn.key = o.tag
  /\ billed => (conn.ctype = "TRANSPORT_TAG" <=> o.from = "BILLING")
  /\ billed /\ o.from \in {"CONVERSATION", "ROUTER"} => ~o.paid

LEMMA ChainGrows ==
  ASSUME NEW s \in Seq(Hop), NEW h \in Hop, Chain(s),
         s # <<>> =>
           \/ \E r \in Routers : /\ Last(s).dst.conn = Router(r, "OUTBOUND")
                                 /\ h.src.conn = Router(r, "INBOUND")
           \/ /\ Last(s).dst = Place(Billing("OUTBOUND"), "default")
              /\ h.src = Place(Billing("INBOUND"), "default")
  PROVE  Chain(Append(s, h))
<1> DEFINE t == Append(s, h)
           Linked2(a, b) ==
             \/ \E r \in Routers : /\ a.dst.conn = Router(r, "OUTBOUND")
                                   /\ b.src.conn = Router(r, "INBOUND")
             \/ /\ a.dst = Place(Billing("OUTBOUND"), "default")
                /\ b.src = Place(Billing("INBOUND"), "default")
<1>1. Len(t) = Len(s) + 1 /\ Len(s) \in Nat /\ t[Len(s) + 1] = h
      /\ \A j \in 1..Len(s) : t[j] = s[j]
  OBVIOUS
<1>2. SUFFICES ASSUME NEW j \in 1..(Len(t) - 1) PROVE Linked2(t[j], t[j + 1])
  BY DEF Chain
<1>3. CASE j < Len(s)
  <2>1. t[j] = s[j] /\ t[j + 1] = s[j + 1] /\ j \in 1..(Len(s) - 1)
    BY <1>1, <1>3
  <2>2. Linked2(s[j], s[j + 1])
    BY <2>1 DEF Chain
  <2> HIDE DEF t, Linked2
  <2> QED
    BY <2>1, <2>2
<1>4. CASE j = Len(s)
  <2>1. t[j] = Last(s) /\ t[j + 1] = h /\ s # <<>>
    BY <1>1, <1>4 DEF Last
  <2>2. Linked2(Last(s), h)
    BY <2>1
  <2> HIDE DEF t, Linked2
  <2> QED
    BY <2>1, <2>2
<1> QED
  BY <1>1, <1>3, <1>4

LEMMA OutboundForward ==
  ASSUME NEW i, NEW o \in Message, NEW org, NEW paid_for, NEW billed \in BOOLEAN,
         OutboundWay(i, o, org), OptOutWay(i, o, org), OutboundBilled(o, org, paid_for, billed),
         o.at = "dispatcher", NEW conn, NEW ep, GoodWayOut(o, billed, conn, ep)
  PROVE  LET f == Forward(Sourced(o, "OUTBOUND"), Place(conn, ep), "OUTBOUND") IN
         /\ f \in Message /\ OutboundWay(i, f, org) /\ OptOutWay(i, f, org)
         /\ OutboundBilled(f, org, paid_for, billed)
<1> DEFINE f == Forward(Sourced(o, "OUTBOUND"), Place(conn, ep), "OUTBOUND")
           h == TheHop(o, "OUTBOUND", Place(conn, ep))
           src == Source(o, "OUTBOUND")
<1>1. /\ src \in Receivers
      /\ src = Billing("INBOUND") <=> o.from = "BILLING"
      /\ o.hops = <<>> =>
           IF o.unroutable THEN \/ \E r \in Routers : src = Router(r, "INBOUND")
                                \/ src = Billing("INBOUND") /\ o.ep = "default"
           ELSE src = org
      /\ o.from \in {"CONVERSATION", "ROUTER", "OPT_OUT", "BILLING"}
  BY OutboundSource
<1>2. /\ conn.ctype = "BILLING" => conn = Billing("OUTBOUND") /\ ep = "default" /\ o.tag \in Tags
      /\ conn.ctype = "ROUTER" => conn.key \in Routers /\ conn = Router(conn.key, "OUTBOUND")
      /\ conn.ctype = "TRANSPORT_TAG" => conn.key \in Tags /\ conn = TransportTag(conn.key) /\ ep = "default"
      /\ conn.ctype \in {"ROUTER", "TRANSPORT_TAG", "BILLING"}
  BY ReceiverFact DEF GoodWayOut
<1>3. Passed(f, o, h)
  BY <1>1, ForwardFact DEF GoodWayOut, DestinationKinds
<1>4. h.src = Place(src, o.ep) /\ h.dst = Place(conn, ep) /\ h.src.conn = src
      /\ h.dst.conn = conn /\ h.dst.ep = ep
  BY DEF TheHop, Place
<1> HIDE DEF f, h, src
<1>5. /\ f.at = conn.ctype /\ f.ep = ep /\ f.from = Nothing /\ f.unroutable = o.unroutable
      /\ f.paid = o.paid /\ f \in Message /\ h \in Hop
      /\ f.at = "ROUTER" => f.router = conn.key
      /\ f.tag = IF f.at = "TRANSPORT_TAG" THEN conn.key ELSE o.tag
      /\ f.hops = Append(o.hops, h)
  BY <1>3, <1>4 DEF Passed
<1>6. /\ Last(f.hops) = h /\ f.hops # <<>> /\ o.hops \in Seq(Hop)
      /\ o.hops # <<>> => f.hops[1] = o.hops[1]
      /\ o.hops = <<>> => f.hops[1] = h
  <2>1. o.hops \in Seq(Hop)
    BY DEF Message
  <2>2. Last(f.hops) = h /\ f.hops # <<>>
    BY <1>5, <2>1, LastOfAppend
  <2> QED
    BY <1>5, <2>1, <2>2
<1>7. Chain(f.hops)
  <2>1. Chain(o.hops)
    BY DEF OutboundWay
  <2>2. o.hops # <<>> /\ o.from = "ROUTER" =>
          \E r \in Routers : Last(o.hops).dst.conn = Router(r, "OUTBOUND") /\ h.src.conn = Router(r, "INBOUND")
    <3>1. o.from = "ROUTER" => src = Router(o.router, "INBOUND")
      BY SourceFact DEF src, Flip
    <3> QED
      BY <3>1, <1>4 DEF OutboundWay, AtRouter, Waits
  <2>3. o.hops # <<>> /\ o.from = "BILLING" =>
          Last(o.hops).dst = Place(Billing("OUTBOUND"), "default") /\ h.src = Place(Billing("INBOUND"), "default")
    BY <1>1, <1>4 DEF OutboundWay, AtBilling, Waits, EndsAt
  <2>4. o.from \in {"CONVERSATION", "OPT_OUT"} => o.hops = <<>>
    BY DEF OutboundWay, Waits
  <2> QED
    BY <1>1, <1>5, <1>6, <2>1, <2>2, <2>3, <2>4, ChainGrows
<1>8. StartsAt(f, org)
  <2>1. CASE o.hops = <<>>
    BY <1>1, <1>4, <1>5, <1>6, <2>1 DEF StartsAt
  <2>2. CASE o.hops # <<>>
    <3>1. StartsAt(o, org)
      BY <2>2 DEF OutboundWay
    <3> QED
      BY <1>5, <1>6, <2>2, <3>1 DEF StartsAt
  <2> QED
    BY <2>1, <2>2
<1>9. /\ f.at = "ROUTER" => Last(f.hops).dst.conn = Router(f.router, "OUTBOUND") /\ f.router \in Routers
      /\ f.at = "BILLING" => f.tag \in Tags /\ Last(f.hops).dst = Place(Billing("OUTBOUND"), "default")
      /\ f.at = "TRANSPORT_TAG" => f.tag \in Tags /\ Last(f.hops).dst = Place(TransportTag(f.tag), "default")
  BY <1>2, <1>4, <1>5, <1>6
<1>10. OutboundWay(i, f, org)
  <2>1. /\ i.at \in {"unsent", "CONVERSATION", "OPT_OUT", "answered"}
        /\ IF f.unroutable THEN org = Nothing ELSE org \in Senders
    BY <1>5 DEF OutboundWay
  <2> QED
    BY <1>2, <1>5, <1>6, <1>7, <1>8, <1>9, <2>1 DEF OutboundWay, AtRouter, AtBilling, Waits, EndsAt
<1>11. OptOutWay(i, f, org)
  <2>1. SUFFICES ASSUME org = OptOut PROVE OptOutWay(i, f, org)
    BY DEF OptOutWay
  <2>2. i.at = "OPT_OUT" /\ o.tag = i.tag /\ o.from \in {"OPT_OUT", "BILLING"}
    BY <2>1 DEF OptOutWay, Waits, AtBilling
  <2> QED
    BY <2>2, <1>2, <1>5 DEF OptOutWay, GoodWayOut, AtBilling
<1>12. BillingHops(f.hops, "INBOUND") = BillingHops(o.hops, "INBOUND") + (IF o.from = "BILLING" THEN 1 ELSE 0)
       /\ BillingHops(o.hops, "INBOUND") \in Nat
  BY <1>1, <1>4, <1>5, <1>6, BillingHopsGrow
<1>13. OutboundBilled(f, org, paid_for, billed)
  <2>1. billed => BillingHops(o.hops, "INBOUND") = 0
    BY DEF OutboundBilled
  <2>2. billed => BillingHops(f.hops, "INBOUND") = IF f.at = "TRANSPORT_TAG" THEN 1 ELSE 0
    BY <2>1, <1>5, <1>12 DEF GoodWayOut
  <2>3. billed /\ org \notin {Nothing, OptOut} /\ f.paid => paid_for
    <3>1. CASE o.from = "BILLING"
      BY <1>5, <3>1 DEF OutboundBilled, AtBilling, Waits
    <3>2. CASE o.from \in {"CONVERSATION", "ROUTER"}
      BY <1>5, <3>2 DEF GoodWayOut
    <3>3. CASE o.from = "OPT_OUT"
      BY <3>3 DEF OutboundWay, Waits
    <3> QED
      BY <1>1, <3>1, <3>2, <3>3
  <2> QED
    BY <1>2, <1>5, <1>6, <2>2, <2>3 DEF OutboundBilled, AtRouter, AtBilling, Waits
<1> QED
  BY <1>5, <1>10, <1>11, <1>13 DEF f

-----------------------------------------------------------------------------
\* A step changes the records of one exchange.
Touches(x, i, o, e) ==
  /\ msg' = [msg EXCEPT ![In(x)] = i, ![Out(x)] = o, ![Ev(x)] = e]
  /\ origin' = [origin EXCEPT ![x] = origin'[x]]
  /\ charged' \in [Messages -> BOOLEAN]
  /\ \A y \in Exchanges : y # x => charged'[Out(y)] = charged[Out(y)]
  /\ billing_outbound_connector' = billing_outbound_connector

LEMMA MessageNames ==
  ASSUME NEW x \in Exchanges, NEW y \in Exchanges
  PROVE  /\ In(x) \in Messages /\ Out(x) \in Messages /\ Ev(x) \in Messages
         /\ In(x) # Out(y) /\ In(x) # Ev(y) /\ Out(x) # Ev(y)
         /\ In(x) = In(y) <=> x = y
         /\ Out(x) = Out(y) <=> x = y
         /\ Ev(x) = Ev(y) <=> x = y
BY DEF In, Out, Ev, Messages

LEMMA Touched ==
  ASSUME IInv, AccountInv', NEW x \in Exchanges, NEW i \in Message, NEW o \in Message, NEW e \in Message,
         Touches(x, i, o, e),
         ExchangeInv(i, o, e, origin'[x], charged'[Out(x)], billing_outbound_connector)
  PROVE  IInv'
<1>1. msg \in [Messages -> Message] /\ DOMAIN origin = Exchanges
  BY DEF IInv, TypeInv
<1>2. /\ msg'[In(x)] = i /\ msg'[Out(x)] = o /\ msg'[Ev(x)] = e
      /\ msg' \in [Messages -> Message]
      /\ \A m \in Messages : m \notin {In(x), Out(x), Ev(x)} => msg'[m] = msg[m]
  BY <1>1, MessageNames DEF Touches
<1>3. /\ DOMAIN origin' = Exchanges /\ origin' = [y \in Exchanges |-> origin'[y]]
      /\ \A y \in Exchanges : y # x => origin'[y] = origin[y]
  BY <1>1 DEF Touches
<1>4. TypeInv'
  BY <1>2, <1>3 DEF TypeInv, Touches
<1>5. ASSUME NEW y \in Exchanges PROVE ThisInv(y)'
  <2>1. CASE y = x
    BY <1>2, <2>1 DEF ThisInv, Touches
  <2>2. CASE y # x
    <3>1. msg'[In(y)] = msg[In(y)] /\ msg'[Out(y)] = msg[Out(y)] /\ msg'[Ev(y)] = msg[Ev(y)]
      BY <1>2, <2>2, MessageNames
    <3>2. ThisInv(y)
      BY DEF IInv
    <3> QED
      BY <1>3, <2>2, <3>1, <3>2 DEF ThisInv, Touches
  <2> QED
    BY <2>1, <2>2
<1> QED
  BY <1>4, <1>5 DEF IInv

LEMMA Records ==
  ASSUME IInv, NEW x \in Exchanges
  PROVE  /\ msg[In(x)] \in Message /\ msg[Out(x)] \in Message /\ msg[Ev(x)] \in Message
         /\ ExchangeInv(msg[In(x)], msg[Out(x)], msg[Ev(x)], origin[x], charged[Out(x)],
                        billing_outbound_connector)
         /\ InboundInv(msg[In(x)], billing_outbound_connector)
         /\ msg[In(x)].at \notin {"unsent", "CONVERSATION", "OPT_OUT", "answered"}
              => msg[Out(x)].at = "unsent"
         /\ billing_outbound_connector \in BOOLEAN
         /\ billing_inbound_connector = billing_outbound_connector
         /\ AccountInv
BY MessageNames DEF IInv, TypeInv, ThisInv, AccountInv, ExchangeInv, OutboundWay

LEMMA ReadsFact ==
  ASSUME AccountInv, UNCHANGED <<account, config>>, ReadsAccount \/ UNCHANGED cache
  PROVE  AccountInv'
BY DEF AccountInv, ReadsAccount, RoutingTableInUse, account, config

LEMMA OneOfThree ==
  ASSUME TypeInv, NEW x \in Exchanges, NEW r
  PROVE  /\ Becomes(In(x), r) => msg' = [msg EXCEPT ![In(x)] = r, ![Out(x)] = msg[Out(x)], ![Ev(x)] = msg[Ev(x)]]
         /\ Becomes(Out(x), r) => msg' = [msg EXCEPT ![In(x)] = msg[In(x)], ![Out(x)] = r, ![Ev(x)] = msg[Ev(x)]]
         /\ Becomes(Ev(x), r) => msg' = [msg EXCEPT ![In(x)] = msg[In(x)], ![Out(x)] = msg[Out(x)], ![Ev(x)] = r]
<1> DEFINE a == In(x) 
           b == Out(x)
           c == Ev(x)
<1>1. /\ msg \in [Messages -> Message] /\ a \in Messages /\ b \in Messages /\ c \in Messages
      /\ a # b /\ a # c /\ b # c
  BY MessageNames DEF TypeInv
<1> HIDE DEF a, b, c
<1>2. [msg EXCEPT ![a] = r] = [msg EXCEPT ![a] = r, ![b] = msg[b], ![c] = msg[c]]
  BY <1>1
<1>3. [msg EXCEPT ![b] = r] = [msg EXCEPT ![a] = msg[a], ![b] = r, ![c] = msg[c]]
  BY <1>1
<1>4. [msg EXCEPT ![c] = r] = [msg EXCEPT ![a] = msg[a], ![b] = msg[b], ![c] = r]
  BY <1>1
<1> QED
  BY <1>2, <1>3, <1>4 DEF Becomes, a, b, c

LEMMA InboundBecomes ==
  ASSUME IInv, AccountInv', NEW x \in Exchanges, NEW r \in Message, Becomes(In(x), r),
         UNCHANGED <<origin, billing_outbound_connector>>,
         charged' \in [Messages -> BOOLEAN],
         \A y \in Exchanges : charged'[Out(y)] = charged[Out(y)],
         ExchangeInv(r, msg[Out(x)], msg[Ev(x)], origin[x], charged[Out(x)], billing_outbound_connector)
  PROVE  IInv'
<1>1. msg' = [msg EXCEPT ![In(x)] = r, ![Out(x)] = msg[Out(x)], ![Ev(x)] = msg[Ev(x)]]
  BY OneOfThree DEF IInv
<1>2. origin' = [origin EXCEPT ![x] = origin'[x]]
  BY DEF IInv, TypeInv
<1>3. Touches(x, r, msg[Out(x)], msg[Ev(x)])
  BY <1>1, <1>2 DEF Touches
<1> QED
  BY <1>3, Touched, Records

LEMMA OutboundBecomes ==
  ASSUME IInv, AccountInv', NEW x \in Exchanges, NEW r \in Message, Becomes(Out(x), r),
         origin' = [origin EXCEPT ![x] = origin'[x]], UNCHANGED billing_outbound_connector,
         charged' \in [Messages -> BOOLEAN],
         \A y \in Exchanges : y # x => charged'[Out(y)] = charged[Out(y)],
         ExchangeInv(msg[In(x)], r, msg[Ev(x)], origin'[x], charged'[Out(x)], billing_outbound_connector)
  PROVE  IInv'
<1>1. msg' = [msg EXCEPT ![In(x)] = msg[In(x)], ![Out(x)] = r, ![Ev(x)] = msg[Ev(x)]]
  BY OneOfThree DEF IInv
<1>2. Touches(x, msg[In(x)], r, msg[Ev(x)])
  BY <1>1 DEF Touches
<1> QED
  BY <1>2, Touched, Records

LEMMA EventBecomes ==
  ASSUME IInv, AccountInv', NEW x \in Exchanges, NEW r \in Message, Becomes(Ev(x), r),
         UNCHANGED <<origin, billing_outbound_connector>>,
         charged' \in [Messages -> BOOLEAN],
         \A y \in Exchanges : charged'[Out(y)] = charged[Out(y)],
         EventWay(msg[Out(x)], r, origin[x])
  PROVE  IInv'
<1>1. msg' = [msg EXCEPT ![In(x)] = msg[In(x)], ![Out(x)] = msg[Out(x)], ![Ev(x)] = r]
  BY OneOfThree DEF IInv
<1>2. origin' = [origin EXCEPT ![x] = origin'[x]]
  BY DEF IInv, TypeInv
<1>3. Touches(x, msg[In(x)], msg[Out(x)], r)
  BY <1>1, <1>2 DEF Touches
<1>4. ExchangeInv(msg[In(x)], msg[Out(x)], r, origin'[x], charged'[Out(x)], billing_outbound_connector)
  BY Records DEF ExchangeInv
<1> QED
  BY <1>3, <1>4, Touched, Records

-----------------------------------------------------------------------------
\* The steps of an inbound message.
LEMMA InboundStepKeeps ==
  ASSUME IInv, NEW x \in Exchanges, msg[In(x)].at = "dispatcher", NEW conn, NEW ep,
         GoodTarget(msg[In(x)], billing_outbound_connector, conn, ep), InboundStep(x, Place(conn, ep))
  PROVE  IInv'
<1> DEFINE f == Forward(Sourced(msg[In(x)], "INBOUND"), Place(conn, ep), "INBOUND")
<1>1. f \in Message /\ InboundInv(f, billing_outbound_connector)
  BY Records, InboundForward
<1>2. ExchangeInv(f, msg[Out(x)], msg[Ev(x)], origin[x], charged[Out(x)], billing_outbound_connector)
  BY <1>1, Records, InboundMoves
<1>3. /\ Becomes(In(x), f) /\ UNCHANGED <<origin, billing_outbound_connector, charged>>
      /\ ReadsAccount /\ UNCHANGED <<account, config>>
  BY DEF InboundStep, history, config
<1>4. AccountInv'
  BY <1>3, Records, ReadsFact
<1>5. charged \in [Messages -> BOOLEAN]
  BY DEF IInv, TypeInv
<1> HIDE DEF f
<1> QED
  BY <1>1, <1>2, <1>3, <1>4, <1>5, InboundBecomes

\* A message goes to billing only from a transport, and on only if it did not come from one.
LEMMA InboundRouting ==
  ASSUME IInv, NEW x \in Exchanges,
         InboundToBilling(x) \/ InboundToOptOut(x) \/ InboundRouted(x)
  PROVE  IInv'
<1> DEFINE i == msg[In(x)]
           billed == billing_outbound_connector
<1>1. /\ i.at = "dispatcher" /\ "default" \in Endpoints /\ i \in Message
      /\ InboundInv(i, billed) /\ AccountInv /\ billing_inbound_connector = billed
  BY Records, RoutingTableAssumption DEF InboundToBilling, InboundToOptOut, InboundRouted, Arrived
<1>2. CASE InboundToBilling(x)
  <2>1. GoodTarget(i, billed, Billing("INBOUND"), "default")
    BY <1>1, <1>2 DEF InboundToBilling, GoesToBilling, GoodTarget, Receivers
  <2> QED
    BY <1>1, <1>2, <2>1, InboundStepKeeps DEF InboundToBilling
<1>3. CASE InboundToOptOut(x)
  <2>1. GoodTarget(i, billed, OptOut, "default")
    BY <1>1, <1>3 DEF InboundToOptOut, GoesToBilling, GoodTarget, Receivers
  <2> QED
    BY <1>1, <1>3, <2>1, InboundStepKeeps DEF InboundToOptOut
<1>4. CASE InboundRouted(x)
  <2>1. PICK place \in InboundTargets(i) : InboundStep(x, place)
    BY <1>4 DEF InboundRouted
  <2>2. RoutedFrom(i).direction = "OUTBOUND"
    BY <1>1, InboundSource DEF RoutedFrom, TransportTag, Connector
  <2>3. /\ place.conn \in Connectors /\ place.conn \in Receivers /\ place.ep \in Endpoints
        /\ place = Place(place.conn, place.ep) /\ place.conn.direction # "OUTBOUND"
    BY <1>1, <2>1, <2>2, TargetFact DEF InboundTargets
  <2>4. place.conn.ctype \in {"CONVERSATION", "ROUTER"}
    BY <2>3, TowardsConversations
  <2>5. GoodTarget(i, billed, place.conn, place.ep)
    BY <1>1, <1>4, <2>3, <2>4 DEF InboundRouted, GoesToBilling, GoodTarget, IsOptOut
  <2> QED
    BY <1>1, <2>1, <2>3, <2>5, InboundStepKeeps
<1> QED
  BY <1>2, <1>3, <1>4

\* What an inbound message becomes, while its outbound message is unsent.
LEMMA InboundKeeps ==
  ASSUME IInv, NEW x \in Exchanges, NEW r \in Message, Becomes(In(x), r), msg[Out(x)].at = "unsent",
         InboundInv(r, billing_outbound_connector),
         UNCHANGED <<origin, account, config>>, ReadsAccount \/ UNCHANGED cache,
         charged' \in [Messages -> BOOLEAN],
         \A y \in Exchanges : charged'[Out(y)] = charged[Out(y)]
  PROVE  IInv'
<1>1. ExchangeInv(r, msg[Out(x)], msg[Ev(x)], origin[x], charged[Out(x)], billing_outbound_connector)
  BY Records, InboundMoves
<1>2. AccountInv'
  BY Records, ReadsFact
<1> QED
  BY <1>1, <1>2, InboundBecomes DEF config

LEMMA InboundMove ==
  ASSUME IInv, NEW x \in Exchanges,
         \/ \E transaction \in BOOLEAN : BillingPasses(In(x), transaction)
         \/ \E ep \in Endpoints : RouterForwards(x, ep)
         \/ \E tag \in Tags, optout \in BOOLEAN : TransportReceives(x, tag, optout)
  PROVE  IInv'
<1> DEFINE i == msg[In(x)]
           billed == billing_outbound_connector
<1>1. i \in Message /\ InboundInv(i, billed) /\ charged \in [Messages -> BOOLEAN]
      /\ (i.at \in {"BILLING", "ROUTER"} => msg[Out(x)].at = "unsent")
  BY Records DEF IInv, TypeInv
<1>2. ASSUME NEW transaction \in BOOLEAN, BillingPasses(In(x), transaction) PROVE IInv'
  <2> DEFINE p == [i EXCEPT !.paid = i.paid \/ transaction]
             r == ToDispatcher(p, "BILLING", i.ep)
  <2>1. /\ p \in Message /\ p.tag = i.tag /\ p.hops = i.hops
        /\ i.ep \in Endpoints /\ "BILLING" \in Workers
    <3>1. i \in Message /\ i.ep \in Endpoints /\ (i.paid \/ transaction) \in BOOLEAN
      BY <1>1 DEF Message
    <3> HIDE DEF i
    <3> QED
      BY <3>1, MarkedFact DEF Workers
  <2> HIDE DEF p
  <2>2. /\ r \in Message /\ r.at = "dispatcher" /\ r.from = "BILLING" /\ r.ep = i.ep /\ r.tag = i.tag
        /\ r.hops = i.hops
    <3>1. Handed(r, p, "BILLING", i.ep)
      BY <2>1, DispatcherFact
    <3> HIDE DEF r
    <3> QED
      BY <2>1, <3>1 DEF Handed
  <2>3. i.at = "BILLING" /\ Becomes(In(x), r) /\ UNCHANGED <<origin, account, cache, config>>
        /\ charged' = [charged EXCEPT ![In(x)] = charged[In(x)] \/ transaction]
    BY <1>2 DEF BillingPasses, p
  <2> HIDE DEF r
  <2>4. InboundInv(r, billed)
    BY <1>1, <2>2, <2>3 DEF InboundInv, AtBilling, AtRouter, Waits, SourceKinds
  <2>5. charged' \in [Messages -> BOOLEAN] /\ \A y \in Exchanges : charged'[Out(y)] = charged[Out(y)]
    BY <1>1, <2>3, MessageNames
  <2> QED
    BY <1>1, <2>2, <2>3, <2>4, <2>5, InboundKeeps
<1>3. ASSUME NEW ep \in Endpoints, RouterForwards(x, ep) PROVE IInv'
  <2> DEFINE r == ToDispatcher(i, "ROUTER", ep)
  <2>1. Handed(r, i, "ROUTER", ep)
    BY <1>1, DispatcherFact DEF Workers
  <2> HIDE DEF r
  <2>2. /\ r \in Message /\ r.at = "dispatcher" /\ r.from = "ROUTER" /\ r.ep = ep /\ r.tag = i.tag
        /\ r.hops = i.hops /\ r.router = i.router /\ r.optout = i.optout
    BY <2>1 DEF Handed
  <2>3. i.at = "ROUTER" /\ Becomes(In(x), r) /\ UNCHANGED <<origin, charged, account, cache, config>>
    BY <1>3 DEF RouterForwards, history, r
  <2> HIDE DEF r
  <2>4. InboundInv(r, billed)
    BY <1>1, <2>2, <2>3 DEF InboundInv, AtBilling, AtRouter, Waits, SourceKinds
  <2> QED
    BY <1>1, <2>2, <2>3, <2>4, InboundKeeps
<1>4. ASSUME NEW tag \in Tags, NEW optout \in BOOLEAN, TransportReceives(x, tag, optout) PROVE IInv'
  <2> DEFINE q == [Blank EXCEPT !.tag = tag, !.optout = optout]
             r == ToDispatcher(q, "TRANSPORT_TAG", "default")
  <2>1. q \in Message /\ q.tag = tag /\ q.hops = <<>>
    BY BlankFact DEF Message
  <2> HIDE DEF q
  <2>2. /\ r \in Message /\ r.at = "dispatcher" /\ r.from = "TRANSPORT_TAG" /\ r.tag = tag /\ r.hops = <<>>
    <3>1. Handed(r, q, "TRANSPORT_TAG", "default")
      BY <2>1, DispatcherFact, RoutingTableAssumption DEF Workers
    <3> HIDE DEF r
    <3> QED
      BY <2>1, <3>1 DEF Handed
  <2>3. msg[Out(x)].at = "unsent" /\ Becomes(In(x), r) /\ UNCHANGED <<origin, charged, account, cache, config>>
    BY <1>4 DEF TransportReceives, history, q
  <2> HIDE DEF r
  <2>4. InboundInv(r, billed)
    BY <2>2, NoHops DEF InboundInv, AtBilling, AtRouter, Waits, SourceKinds
  <2> QED
    BY <1>1, <2>2, <2>3, <2>4, InboundKeeps
<1> QED
  BY <1>2, <1>3, <1>4

-----------------------------------------------------------------------------
\* A reply begins with no hops, and keeps what is known of the message it answers.
Answers(p, r, unroutable) ==
  /\ p \in Message /\ p.hops = <<>> /\ p.unroutable = unroutable /\ p.tag = r.tag
  /\ p.router = r.router /\ p.conv = r.conv

LEMMA ReplyFact ==
  ASSUME NEW r \in Message
  PROVE  Answers(ReplyTo(r), r, FALSE)
<1> DEFINE b == Blank
           c == CopiedAddress(b, r.account, r.tag, r.router)
           p == CopiedMarks(c, r.conv, r.optout, r.paid)
<1>1. b \in Message /\ b.hops = <<>> /\ b.unroutable = FALSE
  BY BlankFact
<1>2. ReplyTo(r) = p
  BY DEF ReplyTo, CopiedAddress, CopiedMarks
<1>3. /\ r.account \in BOOLEAN /\ r.tag \in Tags \union {Nothing} /\ r.router \in Routers \union {Nothing}
      /\ r.conv \in Conversations \union {Nothing} /\ r.optout \in BOOLEAN /\ r.paid \in BOOLEAN
  BY DEF Message
<1> HIDE DEF b
<1>4. Addressed(c, b, r.tag, r.router)
  BY <1>1, <1>3, CopiedAddressFact
<1> HIDE DEF c
<1>5. c \in Message
  BY <1>4 DEF Addressed
<1>6. Marked(p, c, r.conv)
  BY <1>3, <1>5, CopiedMarksFact
<1> HIDE DEF p
<1> QED
  BY <1>1, <1>2, <1>4, <1>6 DEF Answers, Addressed, Marked

LEMMA UnroutableReplyFact ==
  ASSUME NEW r \in Message, NEW known \in BOOLEAN
  PROVE  Answers([ReplyTo([r EXCEPT !.account = known]) EXCEPT !.unroutable = TRUE], r, TRUE)
<1> DEFINE s == [r EXCEPT !.account = known]
           q == ReplyTo(s)
<1>1. s \in Message /\ s.tag = r.tag /\ s.router = r.router /\ s.conv = r.conv
  BY AccountFact
<1> HIDE DEF s
<1>2. Answers(q, s, FALSE)
  BY <1>1, ReplyFact
<1> HIDE DEF q
<1>3. q \in Message /\ q.hops = <<>> /\ q.tag = s.tag /\ q.router = s.router /\ q.conv = s.conv
  BY <1>2 DEF Answers
<1> DEFINE u == [q EXCEPT !.unroutable = TRUE]
<1>4. u \in Message /\ u.unroutable = TRUE /\ u.hops = q.hops /\ u.tag = q.tag /\ u.router = q.router
      /\ u.conv = q.conv
  BY <1>3, UnroutableFact
<1> HIDE DEF u
<1>5. Answers(u, r, TRUE)
  BY <1>1, <1>3, <1>4 DEF Answers
<1> QED
  BY <1>5 DEF u, q, s

\* The dispatcher's answer, to a message that came from a channel, a router or billing.
LEMMA AnswerFact ==
  ASSUME IInv, NEW x \in Exchanges, msg[In(x)].at = "dispatcher"
  PROVE  LET o == UnroutableReply(x)
             i == EndedAs(msg[In(x)], "answered") IN
         /\ o \in Message /\ OutboundWay(i, o, Nothing) /\ OptOutWay(i, o, Nothing)
         /\ \A paid_for : OutboundBilled(o, Nothing, paid_for, billing_outbound_connector)
<1> DEFINE r == msg[In(x)]
           o == UnroutableReply(x)
           i == EndedAs(msg[In(x)], "answered")
           src == Source(r, "INBOUND")
           p == [ReplyTo([r EXCEPT !.account = HasAccount(In(x))]) EXCEPT !.unroutable = TRUE]
<1>1. r \in Message /\ InboundInv(r, billing_outbound_connector) /\ Nothing # OptOut
  BY Records, RoutingAssumption
<1>2. /\ src \in Receivers /\ src.ctype \in {"TRANSPORT_TAG", "ROUTER", "BILLING"}
  BY <1>1, InboundSource
<1>3. HasAccount(In(x)) \in BOOLEAN
  BY <1>1 DEF HasAccount, Message
<1>4. Answers(p, r, TRUE)
  BY <1>1, <1>3, UnroutableReplyFact
<1> HIDE DEF p
<1>5. p \in Message /\ p.hops = <<>> /\ p.unroutable = TRUE /\ p.tag = r.tag /\ p.router = r.router
  BY <1>4 DEF Answers
<1>6. o = Publish(p, Place(src, r.ep), "OUTBOUND") /\ r.ep \in Endpoints
  BY <1>1 DEF UnroutableReply, Message, p
<1> HIDE DEF p, src
<1>7. o \in Message /\ Published(o, p, Place(src, r.ep))
  BY <1>2, <1>5, <1>6, PublishFact DEF DestinationKinds
<1>8. Place(src, r.ep).conn = src /\ Place(src, r.ep).ep = r.ep
  BY DEF Place
<1> HIDE DEF o
<1>9. /\ o.at = src.ctype /\ o.ep = r.ep /\ o.from = Nothing /\ o.hops = <<>> /\ o.unroutable
      /\ o.router = IF o.at = "ROUTER" THEN src.key ELSE r.router
      /\ o.tag = IF o.at = "TRANSPORT_TAG" THEN src.key ELSE r.tag
  BY <1>5, <1>7, <1>8 DEF Published
<1>10. /\ src.ctype = "ROUTER" => src.key \in Routers
       /\ src.ctype = "TRANSPORT_TAG" => src.key \in Tags
       /\ src.ctype = "BILLING" => r.from = "BILLING"
  <2>1. src.ctype = "BILLING" => r.from = "BILLING"
    <3>1. r.from = "TRANSPORT_TAG" => src.ctype = "TRANSPORT_TAG"
      BY SourceFact DEF src, TransportTag, Connector
    <3>2. r.from = "ROUTER" => src.ctype = "ROUTER"
      BY SourceFact DEF src, Router, Connector
    <3> QED
      BY <1>1, <3>1, <3>2 DEF InboundInv, SourceKinds
  <2> QED
    BY <1>2, <2>1, ReceiverFact
<1>11. r.tag \in Tags /\ (r.from = "BILLING" => r.ep = "default")
  BY <1>1 DEF InboundInv, AtBilling, Waits
<1>12. i.at = "answered"
  BY <1>1, EndedFact DEF Endings
<1> HIDE DEF i
<1>13. Chain(o.hops)
  <2>1. 1..(Len(<<>>) - 1) = {}
    OBVIOUS
  <2> QED
    BY <1>9, <2>1 DEF Chain
<1>14. OutboundWay(i, o, Nothing)
  BY <1>2, <1>9, <1>10, <1>11, <1>12, <1>13 DEF OutboundWay, AtRouter, AtBilling, Waits, EndsAt
<1>15. OptOutWay(i, o, Nothing)
  BY <1>1 DEF OptOutWay
<1>16. ASSUME NEW paid_for PROVE OutboundBilled(o, Nothing, paid_for, billing_outbound_connector)
  BY <1>9, NoHops DEF OutboundBilled
<1> QED
  BY <1>7, <1>14, <1>15, <1>16 DEF i, o

LEMMA InboundUnroutableKeeps ==
  ASSUME IInv, NEW x \in Exchanges, InboundUnroutable(x)
  PROVE  IInv'
<1> DEFINE i == msg[In(x)]
           billed == billing_outbound_connector
           Ended(how) == EndedAs(i, how)
<1>1. /\ i \in Message /\ i.at = "dispatcher" /\ InboundInv(i, billed) /\ msg[Out(x)].at = "unsent"
      /\ msg[Out(x)] \in Message /\ msg[Ev(x)] \in Message
      /\ ExchangeInv(i, msg[Out(x)], msg[Ev(x)], origin[x], charged[Out(x)], billed)
  BY Records DEF InboundUnroutable, Arrived
<1>2. /\ UNCHANGED <<origin, charged, account, config>> /\ (ReadsAccount \/ UNCHANGED cache)
      /\ charged \in [Messages -> BOOLEAN]
  BY DEF InboundUnroutable, history, IInv, TypeInv
<1>3. ASSUME NEW how \in {"answered", "no_target"}
      PROVE  Ended(how) \in Message /\ InboundInv(Ended(how), billed)
  <2>1. /\ Ended(how) \in Message /\ Ended(how).at = how /\ Ended(how).tag = i.tag
    BY <1>1, EndedFact DEF Endings
  <2> HIDE DEF Ended
  <2> QED
    BY <1>1, <2>1 DEF InboundInv, AtRouter, AtBilling, Waits
<1>4. CASE i.tag \in ReplyTags
  <2>1. msg' = [msg EXCEPT ![In(x)] = Ended("answered"), ![Out(x)] = UnroutableReply(x)]
    <3>1. msg' = [msg EXCEPT ![In(x)].at = "answered", ![Out(x)] = UnroutableReply(x)]
      BY <1>4 DEF InboundUnroutable
    <3> QED
      BY <3>1 DEF Ended, EndedAs
  <2>2. msg' = [msg EXCEPT ![In(x)] = Ended("answered"), ![Out(x)] = UnroutableReply(x), ![Ev(x)] = msg[Ev(x)]]
    <3>1. [msg EXCEPT ![In(x)] = Ended("answered"), ![Out(x)] = UnroutableReply(x)]
           = [msg EXCEPT ![In(x)] = Ended("answered"), ![Out(x)] = UnroutableReply(x), ![Ev(x)] = msg[Ev(x)]]
      <4>1. msg \in [Messages -> Message] /\ Ev(x) \in Messages /\ Ev(x) # In(x) /\ Ev(x) # Out(x)
        BY MessageNames DEF IInv, TypeInv
      <4> HIDE DEF Ended, i
      <4> QED
        BY <4>1
    <3> QED
      BY <2>1, <3>1
  <2>3. /\ UnroutableReply(x) \in Message /\ OutboundWay(Ended("answered"), UnroutableReply(x), Nothing)
        /\ OptOutWay(Ended("answered"), UnroutableReply(x), Nothing)
        /\ OutboundBilled(UnroutableReply(x), Nothing, charged[Out(x)], billed)
    BY <1>1, AnswerFact
  <2>4. origin[x] = Nothing
    BY <1>1 DEF ExchangeInv, OutboundWay
  <2>5. Ended("answered") \in Message /\ InboundInv(Ended("answered"), billed)
    BY <1>3
  <2> HIDE DEF Ended, i
  <2>6. ExchangeInv(Ended("answered"), msg[Out(x)], msg[Ev(x)], origin[x], charged[Out(x)], billed)
    BY <1>1, <2>5, InboundMoves
  <2>7. ExchangeInv(Ended("answered"), UnroutableReply(x), msg[Ev(x)], origin[x], charged[Out(x)], billed)
    BY <1>1, <2>3, <2>4, <2>6, OutboundMoves
  <2>8. Touches(x, Ended("answered"), UnroutableReply(x), msg[Ev(x)])
    BY <1>2, <2>2 DEF Touches, IInv, TypeInv, config
  <2>9. AccountInv'
    BY <1>2, Records, ReadsFact
  <2> QED
    BY <1>1, <1>2, <2>3, <2>5, <2>7, <2>8, <2>9, Touched
<1>5. CASE i.tag \notin ReplyTags
  <2>1. Becomes(In(x), Ended("no_target"))
    BY <1>5 DEF InboundUnroutable, Ends, EndedAs
  <2>2. Ended("no_target") \in Message /\ InboundInv(Ended("no_target"), billed)
    BY <1>3
  <2> HIDE DEF Ended
  <2> QED
    BY <1>1, <1>2, <2>1, <2>2, InboundKeeps
<1> QED
  BY <1>4, <1>5

-----------------------------------------------------------------------------
\* What a worker sends, a reply or a message of its own.
LEMMA FirstSent ==
  ASSUME NEW i, NEW o \in Message, NEW kind, NEW org, NEW paid_for, NEW billed,
         o.at = "dispatcher", o.from = kind, o.hops = <<>>, o.unroutable = FALSE,
         i.at \in {"unsent", "CONVERSATION", "OPT_OUT", "answered"},
         \/ kind = "CONVERSATION" /\ o.conv \in Conversations /\ org = Conversation(o.conv)
         \/ kind = "ROUTER" /\ o.router \in Routers /\ org = Router(o.router, "INBOUND")
         \/ kind = "OPT_OUT" /\ org = OptOut /\ i.at = "OPT_OUT" /\ o.tag = i.tag
  PROVE  OutboundWay(i, o, org) /\ OptOutWay(i, o, org) /\ OutboundBilled(o, org, paid_for, billed)
<1>1. org \in Senders
  BY DEF Senders
<1>2. Chain(o.hops)
  <2>1. 1..(Len(<<>>) - 1) = {}
    OBVIOUS
  <2> QED
    BY <2>1 DEF Chain
<1>3. OutboundWay(i, o, org)
  BY <1>1, <1>2 DEF OutboundWay, AtRouter, AtBilling, Waits, SourceKinds
<1>4. org = OptOut <=> kind = "OPT_OUT"
  BY DEF OptOut, Conversation, Router, Connector
<1>5. OptOutWay(i, o, org)
  BY <1>4 DEF OptOutWay, Waits
<1>6. OutboundBilled(o, org, paid_for, billed)
  BY NoHops DEF OutboundBilled, AtBilling, Waits
<1> QED
  BY <1>3, <1>5, <1>6

LEMMA SendsKeeps ==
  ASSUME IInv, NEW x \in Exchanges, NEW r \in Message, NEW kind, NEW conn, NEW ep \in Endpoints,
         Sends(x, r, kind, conn, ep), r.hops = <<>>, r.unroutable = FALSE,
         msg[In(x)].at \in {"unsent", "CONVERSATION", "OPT_OUT", "answered"},
         \/ kind = "CONVERSATION" /\ r.conv \in Conversations /\ conn = Conversation(r.conv)
         \/ kind = "OPT_OUT" /\ conn = OptOut /\ msg[In(x)].at = "OPT_OUT" /\ r.tag = msg[In(x)].tag
  PROVE  IInv'
<1> DEFINE o == ToDispatcher(r, kind, ep)
<1>1. /\ Becomes(Out(x), o) /\ origin' = [origin EXCEPT ![x] = conn] /\ msg[Out(x)].at = "unsent"
      /\ UNCHANGED <<charged, account, cache, config>>
      /\ DOMAIN origin = Exchanges /\ charged \in [Messages -> BOOLEAN]
  BY DEF Sends, IInv, TypeInv
<1>2. /\ o \in Message /\ o.at = "dispatcher" /\ o.from = kind /\ o.hops = <<>> /\ o.unroutable = FALSE
      /\ o.conv = r.conv /\ o.tag = r.tag
  <2>1. kind \in Workers
    BY DEF Workers
  <2>2. Handed(o, r, kind, ep)
    BY <2>1, DispatcherFact
  <2> HIDE DEF o
  <2> QED
    BY <2>2 DEF Handed
<1> HIDE DEF o
<1>3. /\ OutboundWay(msg[In(x)], o, conn) /\ OptOutWay(msg[In(x)], o, conn)
      /\ OutboundBilled(o, conn, charged[Out(x)], billing_outbound_connector)
  BY <1>2, FirstSent
<1>4. ExchangeInv(msg[In(x)], o, msg[Ev(x)], conn, charged[Out(x)], billing_outbound_connector)
  BY <1>1, <1>2, <1>3, Records, OutboundMoves
<1>5. AccountInv' /\ origin'[x] = conn /\ origin' = [origin EXCEPT ![x] = origin'[x]]
  BY <1>1, Records, ReadsFact
<1> QED
  BY <1>1, <1>2, <1>4, <1>5, OutboundBecomes DEF config

LEMMA WorkersSend ==
  ASSUME IInv, NEW x \in Exchanges,
         \/ ConversationReplies(x) \/ OptOutReplies(x)
         \/ \E c \in Conversations, ep \in Endpoints : ConversationSends(x, c, ep)
  PROVE  IInv'
<1> DEFINE i == msg[In(x)]
<1>1. i \in Message /\ InboundInv(i, billing_outbound_connector) /\ "default" \in Endpoints
  BY Records, RoutingTableAssumption
<1>2. Answers(ReplyTo(i), i, FALSE)
  BY <1>1, ReplyFact
<1>3. CASE ConversationReplies(x)
  <2>1. /\ i.at = "CONVERSATION" /\ i.conv \in Conversations
        /\ Sends(x, ReplyTo(i), "CONVERSATION", Conversation(i.conv), "default")
    BY <1>1, <1>3 DEF ConversationReplies, InboundInv
  <2> QED
    BY <1>1, <1>2, <2>1, SendsKeeps DEF Answers
<1>4. CASE OptOutReplies(x)
  <2>1. i.at = "OPT_OUT" /\ Sends(x, ReplyTo(i), "OPT_OUT", OptOut, "default")
    BY <1>4 DEF OptOutReplies
  <2> QED
    BY <1>1, <1>2, <2>1, SendsKeeps DEF Answers
<1>5. ASSUME NEW c \in Conversations, NEW ep \in Endpoints, ConversationSends(x, c, ep) PROVE IInv'
  <2> DEFINE r == [Blank EXCEPT !.conv = c, !.account = TRUE]
  <2>1. r \in Message /\ r.hops = <<>> /\ r.unroutable = FALSE /\ r.conv = c
    BY BlankFact DEF Message
  <2>2. i.at = "unsent" /\ Sends(x, r, "CONVERSATION", Conversation(c), ep)
    BY <1>5 DEF ConversationSends
  <2> HIDE DEF r
  <2> QED
    BY <2>1, <2>2, SendsKeeps
<1> QED
  BY <1>3, <1>4, <1>5

LEMMA RouterRepliesKeeps ==
  ASSUME IInv, NEW x \in Exchanges, RouterReplies(x)
  PROVE  IInv'
<1> DEFINE r == msg[In(x)]
           i == EndedAs(r, "answered")
           o == ToDispatcher(ReplyTo(r), "ROUTER", "default")
           conn == Router(r.router, "INBOUND")
           billed == billing_outbound_connector
<1>1. /\ r \in Message /\ InboundInv(r, billed) /\ msg[Out(x)].at = "unsent" /\ r.at = "ROUTER"
      /\ msg[Out(x)] \in Message /\ msg[Ev(x)] \in Message
      /\ ExchangeInv(r, msg[Out(x)], msg[Ev(x)], origin[x], charged[Out(x)], billed)
      /\ r.router \in Routers
  BY Records DEF RouterReplies, InboundInv, AtRouter
<1>2. /\ msg' = [msg EXCEPT ![In(x)].at = "answered", ![Out(x)] = o]
      /\ origin' = [origin EXCEPT ![x] = conn] /\ UNCHANGED <<charged, account, cache, config>>
      /\ charged \in [Messages -> BOOLEAN] /\ DOMAIN origin = Exchanges
  BY DEF RouterReplies, IInv, TypeInv
<1>3. i \in Message /\ i.at = "answered" /\ i.tag = r.tag
  BY <1>1, EndedFact DEF Endings
<1>4. msg' = [msg EXCEPT ![In(x)] = i, ![Out(x)] = o, ![Ev(x)] = msg[Ev(x)]]
  <2>1. msg \in [Messages -> Message] /\ Ev(x) \in Messages /\ Ev(x) # In(x) /\ Ev(x) # Out(x)
    BY MessageNames DEF IInv, TypeInv
  <2>2. msg' = [msg EXCEPT ![In(x)] = i, ![Out(x)] = o]
    BY <1>2 DEF EndedAs
  <2> HIDE DEF i, o
  <2> QED
    BY <2>1, <2>2
<1> HIDE DEF i
<1>5. InboundInv(i, billed)
  BY <1>1, <1>3 DEF InboundInv, AtRouter, AtBilling, Waits
<1>6. Answers(ReplyTo(r), r, FALSE)
  BY <1>1, ReplyFact
<1>7. o \in Message /\ o.at = "dispatcher" /\ o.from = "ROUTER" /\ o.hops = <<>>
      /\ o.unroutable = FALSE /\ o.router = r.router
  <2>1. "ROUTER" \in Workers /\ "default" \in Endpoints /\ ReplyTo(r) \in Message
    BY <1>6, RoutingTableAssumption DEF Answers, Workers
  <2>2. Handed(o, ReplyTo(r), "ROUTER", "default")
    BY <2>1, DispatcherFact
  <2> HIDE DEF o
  <2> QED
    BY <1>6, <2>2 DEF Answers, Handed
<1> HIDE DEF o
<1>8. OutboundWay(i, o, conn) /\ OptOutWay(i, o, conn) /\ OutboundBilled(o, conn, charged[Out(x)], billed)
  BY <1>1, <1>3, <1>7, FirstSent
<1>9. ExchangeInv(i, msg[Out(x)], msg[Ev(x)], origin[x], charged[Out(x)], billed)
  BY <1>1, <1>5, InboundMoves
<1>10. ExchangeInv(i, o, msg[Ev(x)], conn, charged[Out(x)], billed)
  BY <1>1, <1>7, <1>8, <1>9, OutboundMoves
<1>11. Touches(x, i, o, msg[Ev(x)]) /\ origin'[x] = conn
  BY <1>2, <1>4 DEF Touches, config
<1>12. AccountInv'
  BY <1>2, Records, ReadsFact
<1> QED
  BY <1>1, <1>2, <1>3, <1>7, <1>10, <1>11, <1>12, Touched

-----------------------------------------------------------------------------
\* The steps of an outbound message.
LEMMA OutboundKeeps ==
  ASSUME IInv, NEW x \in Exchanges, NEW r \in Message, Becomes(Out(x), r),
         msg[Out(x)].at # "TRANSPORT_TAG",
         OutboundWay(msg[In(x)], r, origin[x]), OptOutWay(msg[In(x)], r, origin[x]),
         OutboundBilled(r, origin[x], charged'[Out(x)], billing_outbound_connector),
         UNCHANGED <<origin, account, config>>, ReadsAccount \/ UNCHANGED cache,
         charged' \in [Messages -> BOOLEAN],
         \A y \in Exchanges : y # x => charged'[Out(y)] = charged[Out(y)]
  PROVE  IInv'
<1>1. ExchangeInv(msg[In(x)], r, msg[Ev(x)], origin[x], charged'[Out(x)], billing_outbound_connector)
  BY Records, OutboundMoves
<1>2. AccountInv'
  BY Records, ReadsFact
<1>3. origin' = [origin EXCEPT ![x] = origin'[x]]
  BY DEF IInv, TypeInv
<1> QED
  BY <1>1, <1>2, <1>3, OutboundBecomes DEF config

\* What the invariant says of an outbound message.
LEMMA OutboundFact ==
  ASSUME IInv, NEW x \in Exchanges
  PROVE  /\ msg[Out(x)] \in Message /\ OutboundWay(msg[In(x)], msg[Out(x)], origin[x])
         /\ OptOutWay(msg[In(x)], msg[Out(x)], origin[x])
         /\ OutboundBilled(msg[Out(x)], origin[x], charged[Out(x)], billing_outbound_connector)
         /\ charged \in [Messages -> BOOLEAN]
BY Records DEF ExchangeInv, IInv, TypeInv

LEMMA OutboundStepKeeps ==
  ASSUME IInv, NEW x \in Exchanges, msg[Out(x)].at = "dispatcher",
         NEW r \in Message, r.at = "dispatcher",
         OutboundWay(msg[In(x)], r, origin[x]), OptOutWay(msg[In(x)], r, origin[x]),
         OutboundBilled(r, origin[x], charged[Out(x)], billing_outbound_connector),
         NEW conn, NEW ep, GoodWayOut(r, billing_outbound_connector, conn, ep),
         OutboundStep(x, r, Place(conn, ep))
  PROVE  IInv'
<1> DEFINE f == Forward(Sourced(r, "OUTBOUND"), Place(conn, ep), "OUTBOUND")
<1>1. /\ f \in Message /\ OutboundWay(msg[In(x)], f, origin[x]) /\ OptOutWay(msg[In(x)], f, origin[x])
      /\ OutboundBilled(f, origin[x], charged[Out(x)], billing_outbound_connector)
  BY Records, OutboundForward
<1>2. /\ Becomes(Out(x), f) /\ UNCHANGED <<origin, charged, account, config>> /\ ReadsAccount
      /\ charged \in [Messages -> BOOLEAN]
  BY OutboundFact DEF OutboundStep, history
<1> HIDE DEF f
<1> QED
  BY <1>1, <1>2, OutboundKeeps

\* The mark of payment and the tag do not matter before billing.
LEMMA Remarked ==
  ASSUME NEW i, NEW o \in Message, NEW org, NEW paid_for, NEW billed, NEW r \in Message,
         OutboundWay(i, o, org), OptOutWay(i, o, org), OutboundBilled(o, org, paid_for, billed),
         o.at = "dispatcher", o.from # "BILLING",
         r.at = o.at, r.from = o.from, r.ep = o.ep, r.router = o.router, r.conv = o.conv,
         r.hops = o.hops, r.unroutable = o.unroutable, o.from = "OPT_OUT" => r.tag = i.tag
  PROVE  OutboundWay(i, r, org) /\ OptOutWay(i, r, org) /\ OutboundBilled(r, org, paid_for, billed)
<1>1. OutboundWay(i, r, org)
  <2>1. o.hops # <<>> => StartsAt(r, org)
    BY DEF OutboundWay, StartsAt
  <2> QED
    BY <2>1 DEF OutboundWay, AtRouter, AtBilling, Waits
<1>2. OptOutWay(i, r, org)
  BY DEF OptOutWay, AtBilling, Waits
<1>3. OutboundBilled(r, org, paid_for, billed)
  BY DEF OutboundBilled, AtRouter, AtBilling, Waits
<1> QED
  BY <1>1, <1>2, <1>3

LEMMA ResetFact ==
  ASSUME NEW o \in Message, billing_outbound_connector \in BOOLEAN
  PROVE  LET r == ResetPaid(o) IN
         /\ r \in Message /\ r.at = o.at /\ r.from = o.from /\ r.ep = o.ep /\ r.router = o.router
         /\ r.conv = o.conv /\ r.hops = o.hops /\ r.unroutable = o.unroutable /\ r.tag = o.tag
         /\ billing_outbound_connector /\ o.from \in {"CONVERSATION", "ROUTER"} => r.paid = FALSE
<1> DEFINE p == [o EXCEPT !.paid = FALSE]
<1>1. /\ p \in Message /\ p.at = o.at /\ p.from = o.from /\ p.ep = o.ep /\ p.router = o.router
      /\ p.conv = o.conv /\ p.hops = o.hops /\ p.unroutable = o.unroutable /\ p.tag = o.tag
      /\ p.paid = FALSE
  BY DEF Message
<1>2. ResetPaid(o) = IF billing_outbound_connector /\ o.from \in {"CONVERSATION", "ROUTER"} THEN p ELSE o
  BY DEF ResetPaid
<1> HIDE DEF p
<1> QED
  BY <1>1, <1>2

\* A message of a conversation or a router goes where the table says, to a channel by way
\* of billing.
LEMMA OutboundRouting ==
  ASSUME IInv, NEW x \in Exchanges, OutboundToBilling(x) \/ OutboundRouted(x)
  PROVE  IInv'
<1> DEFINE i == msg[In(x)]
           o == msg[Out(x)]
           r == ResetPaid(o)
           billed == billing_outbound_connector
<1>1. /\ o.at = "dispatcher" /\ o.from \in {"CONVERSATION", "ROUTER"} /\ o \in Message
      /\ OutboundWay(i, o, origin[x]) /\ OptOutWay(i, o, origin[x])
      /\ OutboundBilled(o, origin[x], charged[Out(x)], billed)
      /\ AccountInv /\ billed \in BOOLEAN /\ "default" \in Endpoints
  BY Records, OutboundFact, RoutingTableAssumption DEF OutboundToBilling, OutboundRouted, Arrived
<1>2. /\ r \in Message /\ r.at = o.at /\ r.from = o.from /\ r.ep = o.ep /\ r.router = o.router
      /\ r.conv = o.conv /\ r.hops = o.hops /\ r.unroutable = o.unroutable
      /\ billed => r.paid = FALSE
  BY <1>1, ResetFact
<1>3. \A place \in OutboundTargets(r) :
        /\ place.conn \in Receivers /\ place.ep \in Endpoints /\ place = Place(place.conn, place.ep)
        /\ place.conn.ctype \in {"TRANSPORT_TAG", "ROUTER"}
        /\ place.conn.ctype = "ROUTER" => place.conn.direction = "OUTBOUND"
        /\ place.conn.ctype = "TRANSPORT_TAG" => place.ep = "default" /\ place.conn.key \in Tags
  <2> TAKE place \in OutboundTargets(r)
  <2>1. OutboundWay(i, r, origin[x]) /\ r.at = "dispatcher"
    BY <1>1, <1>2, Remarked
  <2>2. Source(r, "OUTBOUND").direction = "INBOUND"
    BY <1>2, <2>1, OutboundSource
  <2> HIDE DEF r
  <2>3. /\ place.conn \in Connectors /\ place.conn \in Receivers /\ place.ep \in Endpoints
        /\ place = Place(place.conn, place.ep) /\ place.conn.direction # "INBOUND"
        /\ place.conn.ctype = "TRANSPORT_TAG" => place.ep = "default"
    BY <1>1, <2>2, TargetFact DEF OutboundTargets
  <2> QED
    BY <2>3, TowardsTransports, ReceiverFact
<1>4. CASE OutboundToBilling(x)
  <2>1. PICK place \in OutboundTargets(r) : BilledFirst(r, place) /\ BillOutbound(x, r, place.conn.key)
    BY <1>4 DEF OutboundToBilling
  <2> DEFINE q == [r EXCEPT !.tag = place.conn.key]
  <2> HIDE DEF r
  <2>2. place.conn.key \in Tags
    BY <1>3, <2>1 DEF BilledFirst, ToTag
  <2>3. /\ q \in Message /\ q.at = "dispatcher" /\ q.from = o.from /\ q.ep = o.ep /\ q.router = o.router
        /\ q.conv = o.conv /\ q.hops = o.hops /\ q.unroutable = o.unroutable /\ q.tag \in Tags
        /\ billed => q.paid = FALSE
    BY <1>1, <1>2, <2>2, TaggedFact
  <2>4. OutboundStep(x, q, Place(Billing("OUTBOUND"), "default")) /\ billed
    BY <2>1 DEF BillOutbound, BilledFirst
  <2> HIDE DEF q, o
  <2>5. /\ OutboundWay(i, q, origin[x]) /\ OptOutWay(i, q, origin[x])
        /\ OutboundBilled(q, origin[x], charged[Out(x)], billed)
    BY <1>1, <2>3, Remarked
  <2>6. GoodWayOut(q, billed, Billing("OUTBOUND"), "default")
    <3>1. /\ Billing("OUTBOUND").ctype = "BILLING" /\ Billing("OUTBOUND") \in Receivers
      BY DEF Billing, Connector, Receivers
    <3> QED
      BY <1>1, <2>3, <3>1 DEF GoodWayOut
  <2> QED
    BY <1>1, <2>3, <2>4, <2>5, <2>6, OutboundStepKeeps DEF o
<1>5. CASE OutboundRouted(x)
  <2>1. PICK place \in OutboundTargets(r) : ~BilledFirst(r, place) /\ OutboundStep(x, r, place)
    BY <1>5 DEF OutboundRouted
  <2> HIDE DEF r, o
  <2>2. /\ OutboundWay(i, r, origin[x]) /\ OptOutWay(i, r, origin[x])
        /\ OutboundBilled(r, origin[x], charged[Out(x)], billed)
    BY <1>1, <1>2, Remarked
  <2>3. GoodWayOut(r, billed, place.conn, place.ep)
    BY <1>1, <1>2, <1>3, <2>1 DEF GoodWayOut, BilledFirst, ToTag
  <2> QED
    BY <1>1, <1>2, <1>3, <2>1, <2>2, <2>3, OutboundStepKeeps DEF o
<1> QED
  BY <1>4, <1>5

\* The opt-out worker's answer leaves by the tag of what it answers, and billed messages
\* by the tag they were billed for.
LEMMA OutboundByTag ==
  ASSUME IInv, NEW x \in Exchanges, OptOutReply(x) \/ OutboundFromBilling(x)
  PROVE  IInv'
<1> DEFINE i == msg[In(x)]
           o == msg[Out(x)]
           billed == billing_outbound_connector
<1>1. /\ o.at = "dispatcher" /\ o \in Message
      /\ OutboundWay(i, o, origin[x]) /\ OptOutWay(i, o, origin[x])
      /\ OutboundBilled(o, origin[x], charged[Out(x)], billed)
      /\ billed \in BOOLEAN /\ "default" \in Endpoints /\ InboundInv(i, billed)
  BY Records, OutboundFact, RoutingTableAssumption DEF OptOutReply, OutboundFromBilling, Arrived
<1>2. \A tag \in Tags : /\ TransportTag(tag) \in Receivers /\ TransportTag(tag).ctype = "TRANSPORT_TAG"
                        /\ TransportTag(tag).key = tag
  BY DEF TransportTag, Connector, Receivers, Connectors
<1>3. Billing("OUTBOUND").ctype = "BILLING" /\ Billing("OUTBOUND") \in Receivers
  BY DEF Billing, Connector, Receivers
<1>4. CASE OptOutReply(x)
  <2>1. o.from = "OPT_OUT"
    BY <1>4 DEF OptOutReply, Arrived
  <2>2. /\ i.at = "OPT_OUT" /\ o.tag = i.tag /\ i.tag \in Tags
    <3>1. origin[x] = OptOut
      BY <1>1, <2>1 DEF OutboundWay, Waits
    <3> QED
      BY <1>1, <3>1 DEF OptOutWay, InboundInv
  <2>3. CASE billed
    <3> DEFINE q == [o EXCEPT !.tag = i.tag]
    <3>1. OutboundStep(x, q, Place(Billing("OUTBOUND"), "default"))
      BY <1>4, <2>3 DEF OptOutReply, BillOutbound
    <3>2. q = o
      BY <1>1, <2>2 DEF Message
    <3>3. GoodWayOut(o, billed, Billing("OUTBOUND"), "default")
      BY <1>1, <1>3, <2>1, <2>2 DEF GoodWayOut
    <3> HIDE DEF q
    <3> QED
      BY <1>1, <3>1, <3>2, <3>3, OutboundStepKeeps
  <2>4. CASE ~billed
    <3>1. OutboundStep(x, o, Place(TransportTag(i.tag), "default"))
      BY <1>4, <2>4 DEF OptOutReply
    <3>2. GoodWayOut(o, billed, TransportTag(i.tag), "default")
      BY <1>1, <1>2, <2>1, <2>2, <2>4 DEF GoodWayOut
    <3> QED
      BY <1>1, <3>1, <3>2, OutboundStepKeeps
  <2> QED
    BY <2>3, <2>4
<1>5. CASE OutboundFromBilling(x)
  <2>1. o.from = "BILLING" /\ OutboundStep(x, o, Place(TransportTag(o.tag), "default"))
    BY <1>5 DEF OutboundFromBilling, Arrived, AfterBilling
  <2>2. o.tag \in Tags
    BY <1>1, <2>1 DEF OutboundWay, AtBilling, Waits
  <2>3. GoodWayOut(o, billed, TransportTag(o.tag), "default")
    BY <1>1, <1>2, <2>1, <2>2 DEF GoodWayOut
  <2> QED
    BY <1>1, <2>1, <2>3, OutboundStepKeeps
<1> QED
  BY <1>4, <1>5

LEMMA OutboundEnds ==
  ASSUME IInv, NEW x \in Exchanges, OutboundUnroutable(x) \/ BillingDrops(x)
  PROVE  IInv'
<1> DEFINE o == msg[Out(x)]
<1>1. PICK how \in {"no_target", "dropped"} :
        /\ Becomes(Out(x), EndedAs(o, how)) /\ UNCHANGED <<origin, charged, account, config>>
        /\ ReadsAccount \/ UNCHANGED cache
        /\ how = "no_target" => o.at = "dispatcher" /\ o.from \in {"CONVERSATION", "ROUTER"}
        /\ how = "dropped" => o.at = "BILLING"
  BY DEF OutboundUnroutable, BillingDrops, Arrived, Ends, history, EndedAs
<1> DEFINE r == EndedAs(o, how)
<1>2. /\ o \in Message /\ OutboundWay(msg[In(x)], o, origin[x]) /\ OptOutWay(msg[In(x)], o, origin[x])
      /\ OutboundBilled(o, origin[x], charged[Out(x)], billing_outbound_connector)
      /\ charged \in [Messages -> BOOLEAN]
  BY OutboundFact
<1>3. r \in Message /\ r.at = how /\ r.hops = o.hops /\ r.unroutable = o.unroutable /\ r.tag = o.tag
  <2>1. how \in Endings /\ o \in Message
    BY <1>2 DEF Endings
  <2> HIDE DEF o
  <2> QED
    BY <2>1, EndedFact
<1> HIDE DEF r
<1>4. OutboundWay(msg[In(x)], r, origin[x])
  <2>1. o.hops # <<>> => StartsAt(r, origin[x])
    BY <1>2, <1>3 DEF OutboundWay, StartsAt
  <2> QED
    BY <1>1, <1>2, <1>3, <2>1 DEF OutboundWay, AtRouter, AtBilling, Waits
<1>5. OptOutWay(msg[In(x)], r, origin[x])
  BY <1>1, <1>2, <1>3 DEF OptOutWay, AtBilling, Waits
<1>6. OutboundBilled(r, origin[x], charged[Out(x)], billing_outbound_connector)
  BY <1>1, <1>3 DEF OutboundBilled, AtRouter, AtBilling, Waits
<1>7. Becomes(Out(x), r) /\ o.at # "TRANSPORT_TAG"
  BY <1>1 DEF r
<1> QED
  BY <1>1, <1>2, <1>3, <1>4, <1>5, <1>6, <1>7, OutboundKeeps

\* Billing and routers hand a message back to the dispatcher.
LEMMA OutboundHanded ==
  ASSUME IInv, NEW x \in Exchanges,
         RouterReturns(x) \/ \E transaction \in BOOLEAN : BillingPasses(Out(x), transaction)
  PROVE  IInv'
<1> DEFINE o == msg[Out(x)]
           i == msg[In(x)]
           billed == billing_outbound_connector
<1>1. /\ o \in Message /\ OutboundWay(i, o, origin[x]) /\ OptOutWay(i, o, origin[x])
      /\ OutboundBilled(o, origin[x], charged[Out(x)], billed)
      /\ charged \in [Messages -> BOOLEAN] /\ "default" \in Endpoints
  BY OutboundFact, RoutingTableAssumption
<1>2. CASE RouterReturns(x)
  <2> DEFINE r == ToDispatcher(o, "ROUTER", "default")
  <2>1. o.at = "ROUTER" /\ Becomes(Out(x), r) /\ UNCHANGED <<origin, charged, account, cache, config>>
    BY <1>2 DEF RouterReturns, history
  <2>2. Handed(r, o, "ROUTER", "default")
    BY <1>1, DispatcherFact DEF Workers
  <2> HIDE DEF r
  <2>3. OutboundWay(i, r, origin[x])
    <3>1. o.hops # <<>> => StartsAt(r, origin[x])
      BY <1>1, <2>2 DEF OutboundWay, StartsAt, Handed
    <3> QED
      BY <1>1, <2>1, <2>2, <3>1 DEF OutboundWay, AtRouter, AtBilling, Waits, Handed, SourceKinds
  <2>4. OptOutWay(i, r, origin[x])
    BY <1>1, <2>1, <2>2 DEF OptOutWay, AtBilling, Waits, Handed
  <2>5. OutboundBilled(r, origin[x], charged[Out(x)], billed)
    BY <1>1, <2>1, <2>2 DEF OutboundBilled, AtRouter, AtBilling, Waits, Handed
  <2> QED
    BY <1>1, <2>1, <2>2, <2>3, <2>4, <2>5, OutboundKeeps DEF Handed
<1>3. ASSUME NEW transaction \in BOOLEAN, BillingPasses(Out(x), transaction) PROVE IInv'
  <2> DEFINE p == [o EXCEPT !.paid = o.paid \/ transaction]
             r == ToDispatcher(p, "BILLING", o.ep)
  <2>1. /\ o.at = "BILLING" /\ Becomes(Out(x), r) /\ UNCHANGED <<origin, account, cache, config>>
        /\ charged' = [charged EXCEPT ![Out(x)] = charged[Out(x)] \/ transaction]
    BY <1>3 DEF BillingPasses
  <2>2. p \in Message /\ p.hops = o.hops /\ p.unroutable = o.unroutable /\ p.tag = o.tag
        /\ p.router = o.router
    BY <1>1 DEF Message
  <2>3. p.paid = TRUE => o.paid = TRUE \/ transaction = TRUE
    BY <1>1 DEF Message
  <2> HIDE DEF p
  <2>4. Handed(r, p, "BILLING", o.ep) /\ r.ep = o.ep
    <3>1. "BILLING" \in Workers /\ o.ep \in Endpoints
      BY <1>1 DEF Workers, Message
    <3>2. Handed(r, p, "BILLING", o.ep)
      BY <2>2, <3>1, DispatcherFact
    <3> HIDE DEF r
    <3> QED
      BY <3>2 DEF Handed
  <2> HIDE DEF r
  <2>5. /\ charged' \in [Messages -> BOOLEAN]
        /\ charged'[Out(x)] = (charged[Out(x)] \/ transaction)
        /\ \A y \in Exchanges : y # x => charged'[Out(y)] = charged[Out(y)]
    BY <1>1, <2>1, MessageNames
  <2>6. OutboundWay(i, r, origin[x])
    <3>1. o.hops # <<>> => StartsAt(r, origin[x])
      BY <1>1, <2>2, <2>4 DEF OutboundWay, StartsAt, Handed
    <3> QED
      BY <1>1, <2>1, <2>2, <2>4, <3>1
      DEF OutboundWay, AtRouter, AtBilling, Waits, Handed, SourceKinds, EndsAt
  <2>7. OptOutWay(i, r, origin[x])
    BY <1>1, <2>1, <2>2, <2>4 DEF OptOutWay, AtBilling, Waits, Handed
  <2>8. OutboundBilled(r, origin[x], charged'[Out(x)], billed)
    <3>1. billed => BillingHops(r.hops, "INBOUND") = 0
      BY <1>1, <2>1, <2>2, <2>4 DEF OutboundBilled, AtBilling, Handed
    <3>2. billed /\ origin[x] \notin {Nothing, OptOut} /\ r.paid = TRUE => charged'[Out(x)]
      BY <1>1, <2>1, <2>3, <2>4, <2>5 DEF OutboundBilled, AtBilling, Handed
    <3> QED
      BY <2>4, <3>1, <3>2 DEF OutboundBilled, Handed
  <2> QED
    BY <1>1, <2>1, <2>4, <2>5, <2>6, <2>7, <2>8, OutboundKeeps DEF Handed
<1> QED
  BY <1>2, <1>3

-----------------------------------------------------------------------------
\* Events.  Wherever one is, it knows the way once the dispatcher has received it.
LEMMA ReceivedFact ==
  ASSUME NEW e \in Message, NEW o \in Message, NEW org, EventWay(o, e, org), e.at = "dispatcher"
  PROVE  /\ SetEventMetadata(e, o) \in Message
         /\ SetEventMetadata(e, o).outbound_hops = o.hops
         /\ SetEventMetadata(e, o).unroutable = o.unroutable
         /\ SetEventMetadata(e, o).tag = o.tag
         /\ SetEventMetadata(e, o).hops = e.hops /\ SetEventMetadata(e, o).from = e.from
         /\ SetEventMetadata(e, o).ep = e.ep /\ SetEventMetadata(e, o).router = e.router
         /\ o.hops # <<>> => SetEventMetadata(e, o).account = TRUE
<1> DEFINE known == e.account \/ ~o.unroutable \/ o.hops # <<>>
           p == InformedOf(e, o.hops, o.unroutable, o.tag, known)
           informed == e.outbound_hops # Nothing /\ e.account /\ e.tag # Nothing
<1>1. known \in BOOLEAN
  BY DEF Message
<1>2. SetEventMetadata(e, o) = IF informed THEN e ELSE p
  BY DEF SetEventMetadata, InformedOf
<1>3. o.hops # <<>> => known = TRUE
  OBVIOUS
<1> HIDE DEF known
<1>4. /\ p \in Message /\ p.outbound_hops = o.hops /\ p.unroutable = o.unroutable /\ p.tag = o.tag
      /\ p.hops = e.hops /\ p.from = e.from /\ p.ep = e.ep /\ p.router = e.router /\ p.account = known
  <2>1. /\ o.hops \in Seq(Hop) /\ o.unroutable \in BOOLEAN /\ o.tag \in Tags \union {Nothing}
    BY DEF Message
  <2>2. KnowsWay(p, e, o.hops, o.unroutable, o.tag, known)
    BY <1>1, <2>1, InformedFact
  <2> HIDE DEF p
  <2> QED
    BY <2>2 DEF KnowsWay
<1>5. informed => /\ e.outbound_hops = o.hops /\ e.unroutable = o.unroutable /\ e.tag = o.tag
                  /\ e.account = TRUE
  <2>1. e.from \in {"TRANSPORT_TAG", "ROUTER", "BILLING"}
    BY DEF EventWay, SourceKinds
  <2>2. CASE e.from = "TRANSPORT_TAG"
    BY <2>2 DEF EventWay, Waits
  <2>3. CASE e.from \in {"ROUTER", "BILLING"}
    <3>1. Informed(o, e)
      BY <2>3 DEF EventWay, AtRouter, AtBilling, Waits
    <3>2. e.account \in BOOLEAN
      BY DEF Message
    <3> QED
      BY <3>1, <3>2 DEF Informed
  <2> QED
    BY <2>1, <2>2, <2>3
<1> HIDE DEF p, informed
<1>6. CASE informed
  BY <1>2, <1>5, <1>6
<1>7. CASE ~informed
  BY <1>2, <1>3, <1>4, <1>7
<1> QED
  BY <1>6, <1>7

\* Where the hops of an outbound message begin.
LEMMA HopSource ==
  ASSUME NEW i, NEW o \in Message, NEW org, OutboundWay(i, o, org), o.at # "unsent",
         NEW j \in 1..Len(o.hops)
  PROVE  \/ o.hops[j].src.conn \in Senders
         \/ o.hops[j].src = Place(Billing("INBOUND"), "default")
<1>1. o.hops \in Seq(Hop) /\ o.hops # <<>>
  BY DEF Message
<1>2. CASE j = 1
  <2>1. StartsAt(o, org) /\ (~o.unroutable => org \in Senders)
    BY <1>1 DEF OutboundWay
  <2> QED
    BY <1>2, <2>1 DEF StartsAt, Senders
<1>3. CASE j # 1
  <2>1. j - 1 \in 1..(Len(o.hops) - 1) /\ (j - 1) + 1 = j
    BY <1>1, <1>3
  <2>2. Chain(o.hops)
    BY DEF OutboundWay
  <2>3. \/ \E r \in Routers : o.hops[j].src.conn = Router(r, "INBOUND")
        \/ o.hops[j].src = Place(Billing("INBOUND"), "default")
    BY <2>1, <2>2 DEF Chain
  <2> QED
    BY <2>3 DEF Senders
<1> QED
  BY <1>2, <1>3

\* The hop an event undoes next ends where the event comes from.
LEMMA NextToUndo ==
  ASSUME NEW i, NEW o \in Message, NEW e \in Message, NEW org, OutboundWay(i, o, org),
         EventWay(o, e, org), e.at = "dispatcher", NEW r \in Message,
         r.from = e.from, r.router = e.router, r.tag = o.tag,
         Len(e.hops) < Len(o.hops)
  PROVE  ToUndo(o, e).dst = Place(Source(r, "INBOUND"), e.ep)
<1> DEFINE j == Len(o.hops) - Len(e.hops)
<1>1. /\ o.hops \in Seq(Hop) /\ e.hops \in Seq(Hop) /\ Len(o.hops) \in Nat /\ Len(e.hops) \in Nat
      /\ j \in 1..Len(o.hops) /\ o.hops # <<>>
  BY DEF Message
<1>2. o.hops[j] \in Hop /\ ToUndo(o, e) = o.hops[j]
  BY <1>1 DEF ToUndo
<1>3. o.hops[j].dst = Place(o.hops[j].dst.conn, o.hops[j].dst.ep)
  BY <1>2 DEF Hop, AnyPlace, Place
<1>4. o.at = "TRANSPORT_TAG" /\ e.from \in {"TRANSPORT_TAG", "ROUTER", "BILLING"}
  BY DEF EventWay, SourceKinds
<1>5. e.hops # <<>> =>
        /\ j \in 1..(Len(o.hops) - 1)
        /\ Last(e.hops) = Mirror(o.hops[j + 1]) /\ Last(e.hops).dst = o.hops[j + 1].src
  <2>1. SUFFICES ASSUME e.hops # <<>>
                 PROVE  /\ j \in 1..(Len(o.hops) - 1)
                        /\ Last(e.hops) = Mirror(o.hops[j + 1]) /\ Last(e.hops).dst = o.hops[j + 1].src
    OBVIOUS
  <2>2. Len(e.hops) \in 1..Len(e.hops)
    BY <1>1, <2>1
  <2>3. e.hops[Len(e.hops)] = Mirror(o.hops[Len(o.hops) - Len(e.hops) + 1])
    BY <2>2 DEF EventWay
  <2>4. Len(o.hops) - Len(e.hops) + 1 = j + 1 /\ j \in 1..(Len(o.hops) - 1)
    <3>1. \A a, b \in Nat : b \in 1..b /\ b < a => a - b \in 1..(a - 1)
      OBVIOUS
    <3> QED
      BY <1>1, <2>2, <3>1
  <2>5. Last(e.hops) = Mirror(o.hops[j + 1])
    BY <2>3, <2>4 DEF Last
  <2>6. Mirror(o.hops[j + 1]).dst = o.hops[j + 1].src
    BY DEF Mirror
  <2> HIDE DEF j
  <2> QED
    BY <2>4, <2>5, <2>6
<1>6. j \in 1..(Len(o.hops) - 1) =>
        \/ \E k \in Routers : /\ o.hops[j].dst.conn = Router(k, "OUTBOUND")
                              /\ o.hops[j + 1].src.conn = Router(k, "INBOUND")
        \/ /\ o.hops[j].dst = Place(Billing("OUTBOUND"), "default")
           /\ o.hops[j + 1].src = Place(Billing("INBOUND"), "default")
  BY DEF OutboundWay, Chain
<1>7. /\ \A k, l : /\ Router(k, "INBOUND") = Router(l, "INBOUND") => k = l
                     /\ Router(k, "INBOUND") # Billing("INBOUND")
       /\ Place(Billing("INBOUND"), "default").conn = Billing("INBOUND")
  BY DEF Router, Billing, Connector, Place
<1>8. CASE e.from = "TRANSPORT_TAG"
  <2>1. Len(e.hops) = 0 /\ e.ep = "default"
    BY <1>8 DEF EventWay, Waits
  <2>2. o.hops[j] = Last(o.hops)
    BY <1>1, <2>1 DEF Last
  <2>3. Last(o.hops).dst = Place(TransportTag(o.tag), "default")
    BY <1>1, <1>4 DEF OutboundWay, EndsAt
  <2>4. Source(r, "INBOUND") = TransportTag(o.tag)
    BY <1>8, SourceFact
  <2> HIDE DEF j
  <2> QED
    BY <1>2, <2>1, <2>2, <2>3, <2>4
<1>9. CASE e.from = "ROUTER"
  <2>1. /\ e.hops # <<>> /\ Last(e.hops).dst.conn = Router(e.router, "INBOUND")
        /\ e.ep = ToUndo(o, e).dst.ep
    BY <1>9 DEF EventWay, AtRouter, Waits, Informed
  <2>2. Source(r, "INBOUND") = Router(e.router, "OUTBOUND")
    BY <1>9, SourceFact DEF Flip
  <2>3. o.hops[j + 1].src.conn = Router(e.router, "INBOUND") /\ j \in 1..(Len(o.hops) - 1)
    BY <1>5, <2>1
  <2> HIDE DEF j
  <2>4. o.hops[j].dst.conn = Router(e.router, "OUTBOUND")
    BY <1>6, <1>7, <2>3
  <2> QED
    BY <1>2, <1>3, <2>1, <2>2, <2>4
<1>10. CASE e.from = "BILLING"
  <2>1. /\ e.hops # <<>> /\ Last(e.hops).dst = Place(Billing("INBOUND"), "default")
        /\ e.ep = "default"
    BY <1>10 DEF EventWay, AtBilling, Waits, Informed
  <2>2. Source(r, "INBOUND") = Billing("OUTBOUND")
    BY <1>10, SourceFact DEF Flip
  <2>3. o.hops[j + 1].src = Place(Billing("INBOUND"), "default") /\ j \in 1..(Len(o.hops) - 1)
    BY <1>5, <2>1
  <2> HIDE DEF j
  <2>4. o.hops[j].dst = Place(Billing("OUTBOUND"), "default")
    BY <1>6, <1>7, <2>3
  <2> QED
    BY <1>2, <2>1, <2>2, <2>4
<1> QED
  BY <1>4, <1>8, <1>9, <1>10

\* An event that is not done has a hop to undo.
LEMMA HopLeft ==
  ASSUME NEW i, NEW o \in Message, NEW e \in Message, NEW org, OutboundWay(i, o, org),
         EventWay(o, e, org), e.at = "dispatcher", ~UnroutableEventDone(SetEventMetadata(e, o))
  PROVE  Len(e.hops) < Len(o.hops)
<1> DEFINE r == SetEventMetadata(e, o)
<1>1. r.outbound_hops = o.hops /\ r.unroutable = o.unroutable /\ r.hops = e.hops
  BY ReceivedFact
<1> HIDE DEF r
<1>2. /\ o.hops \in Seq(Hop) /\ e.hops \in Seq(Hop) /\ Len(o.hops) \in Nat /\ Len(e.hops) \in Nat
      /\ Len(e.hops) <= Len(o.hops) /\ o.at = "TRANSPORT_TAG"
      /\ e.from \in {"TRANSPORT_TAG", "ROUTER", "BILLING"}
      /\ ~UnroutableEventDone(r)
  BY DEF Message, EventWay, SourceKinds, r
<1>3. CASE e.from = "TRANSPORT_TAG"
  <2>1. e.hops = <<>>
    BY <1>3 DEF EventWay, Waits
  <2>2. CASE o.hops = <<>>
    <3>1. o.unroutable
      BY <1>2, <2>2 DEF OutboundWay, EndsAt
    <3> QED
      BY <1>1, <1>2, <2>1, <2>2, <3>1 DEF UnroutableEventDone
  <2>3. CASE o.hops # <<>>
    BY <1>2, <2>1, <2>3
  <2> QED
    BY <2>2, <2>3
<1>4. CASE e.from = "ROUTER"
  BY <1>4 DEF EventWay, Waits
<1>5. CASE e.from = "BILLING"
  <2>1. SUFFICES ASSUME Len(e.hops) = Len(o.hops) PROVE FALSE
    BY <1>2
  <2>2. e.hops # <<>> /\ Last(e.hops).dst = Place(Billing("INBOUND"), "default")
    BY <1>5 DEF EventWay, AtBilling, Waits, Informed
  <2>3. Last(e.hops) = Mirror(o.hops[1]) /\ o.hops # <<>>
    <3>1. Len(e.hops) \in 1..Len(e.hops) /\ Len(o.hops) - Len(e.hops) + 1 = 1 /\ o.hops # <<>>
      BY <1>2, <2>1, <2>2
    <3>2. e.hops[Len(e.hops)] = Mirror(o.hops[Len(o.hops) - Len(e.hops) + 1])
      BY <3>1 DEF EventWay
    <3> QED
      BY <3>1, <3>2 DEF Last
  <2>4. o.hops[1].src.conn = Billing("INBOUND")
    BY <2>2, <2>3 DEF Mirror, Place
  <2>5. Billing("INBOUND") \notin Senders
    BY DEF Senders, Billing, Conversation, Router, OptOut, Connector
  <2>6. o.unroutable
    BY <1>2, <2>3, <2>4, <2>5 DEF OutboundWay, StartsAt
  <2>7. Head(o.hops) = o.hops[1]
    BY <1>2, <2>3
  <2> QED
    BY <1>1, <1>2, <2>2, <2>3, <2>6, <2>7 DEF UnroutableEventDone
<1> QED
  BY <1>2, <1>3, <1>4, <1>5

\* An event is passed on to where the hop it undoes began.
LEMMA EventTarget ==
  ASSUME NEW i, NEW o \in Message, NEW e \in Message, NEW org, OutboundWay(i, o, org),
         EventWay(o, e, org), e.at = "dispatcher", Len(e.hops) < Len(o.hops)
  PROVE  LET r == SetEventMetadata(e, o)
             s == PushSource(r, Source(r, "INBOUND")) IN
         /\ s = Sourced(r, "INBOUND") /\ NextHops(s) = {ToUndo(o, e).src}
         /\ TheHop(r, "INBOUND", ToUndo(o, e).src) = Mirror(ToUndo(o, e))
         /\ Source(r, "INBOUND") \in Receivers
<1> DEFINE r == SetEventMetadata(e, o)
           src == Source(r, "INBOUND")
           s == PushSource(r, src)
           undo == ToUndo(o, e)
           h == [src |-> Place(src, r.ep), dst |-> Nothing]
           n == Len(o.hops) - Len(e.hops)
<1>1. /\ r \in Message /\ r.outbound_hops = o.hops /\ r.unroutable = o.unroutable /\ r.tag = o.tag
      /\ r.hops = e.hops /\ r.from = e.from /\ r.ep = e.ep /\ r.router = e.router
      /\ o.hops # <<>> => r.account = TRUE
  BY ReceivedFact
<1> HIDE DEF r
<1>2. /\ o.hops \in Seq(Hop) /\ e.hops \in Seq(Hop) /\ Len(o.hops) \in Nat /\ Len(e.hops) \in Nat
      /\ n \in 1..Len(o.hops) /\ o.hops # <<>>
  BY DEF Message
<1>3. undo.dst = Place(src, e.ep)
  BY <1>1, NextToUndo
<1>4. undo \in Hop /\ undo = o.hops[n]
  BY <1>2 DEF ToUndo
<1> HIDE DEF undo, src
<1>5. s = Sourced(r, "INBOUND")
  <2>1. [r EXCEPT !.account = TRUE] = r
    BY <1>1, <1>2 DEF Message
  <2> QED
    BY <2>1 DEF Sourced, src
<1>6. s.hops = Append(e.hops, h) /\ s.outbound_hops = o.hops
  <2>1. s = [r EXCEPT !.hops = Append(r.hops, h)]
    BY DEF PushSource
  <2> HIDE DEF s, h
  <2> QED
    BY <1>1, <2>1 DEF Message
<1>7. /\ Len(s.hops) = Len(e.hops) + 1 /\ Last(s.hops) = h
  <2> HIDE DEF h, s
  <2> QED
    BY <1>2, <1>6, LastOfAppend
<1>8. Last(s.hops).src = Place(src, e.ep)
  BY <1>1, <1>7
<1> HIDE DEF s, h
<1>9. NextHops(s) = {undo.src}
  <2>1. ~(Len(s.hops) > Len(o.hops)) /\ Len(o.hops) - Len(s.hops) + 1 = n
    BY <1>2, <1>7
  <2>2. NextHops(s) = {place \in {undo.src} : undo.dst = Last(s.hops).src}
    BY <1>4, <1>6, <2>1 DEF NextHops
  <2> QED
    BY <1>3, <1>8, <2>2
<1>10. TheHop(r, "INBOUND", undo.src) = Mirror(undo)
  BY <1>1, <1>3 DEF TheHop, Mirror, src
<1>11. src \in Receivers
  <2>1. undo.dst.conn = src /\ undo.dst \in AnyPlace
    BY <1>3, <1>4 DEF Hop, Place
  <2> QED
    BY <2>1 DEF AnyPlace, Receivers
<1> QED
  BY <1>5, <1>9, <1>10, <1>11 DEF s, src, r, undo

LEMMA EventForward ==
  ASSUME NEW i, NEW o \in Message, NEW e \in Message, NEW org, OutboundWay(i, o, org),
         EventWay(o, e, org), e.at = "dispatcher", Len(e.hops) < Len(o.hops), NEW f,
         LET r == SetEventMetadata(e, o) IN
         f = Forward(Sourced(r, "INBOUND"), ToUndo(o, e).src, "INBOUND")
  PROVE  f \in Message /\ EventWay(o, f, org)
<1> DEFINE r == SetEventMetadata(e, o)
           undo == ToUndo(o, e)
           place == undo.src
           conn == place.conn
           n == Len(o.hops) - Len(e.hops)
<1>1. /\ r \in Message /\ r.outbound_hops = o.hops /\ r.unroutable = o.unroutable /\ r.tag = o.tag
      /\ r.hops = e.hops
  BY ReceivedFact
<1>2. TheHop(r, "INBOUND", place) = Mirror(undo) /\ Source(r, "INBOUND") \in Receivers
  BY EventTarget
<1>3. /\ o.hops \in Seq(Hop) /\ e.hops \in Seq(Hop) /\ Len(o.hops) \in Nat /\ Len(e.hops) \in Nat
      /\ n \in 1..Len(o.hops) /\ o.at = "TRANSPORT_TAG"
  BY DEF Message, EventWay
<1>4. undo \in Hop /\ undo = o.hops[n] /\ place \in AnyPlace
  <2>1. undo = o.hops[n] /\ o.hops[n] \in Hop
    BY <1>3 DEF ToUndo
  <2> HIDE DEF undo
  <2> QED
    BY <2>1 DEF Hop
<1>5. conn \in Senders \/ place = Place(Billing("INBOUND"), "default")
  BY <1>3, <1>4, HopSource
<1> HIDE DEF undo
<1>6. /\ conn \in Receivers /\ place.ep \in Endpoints /\ place = Place(conn, place.ep)
  BY <1>4 DEF AnyPlace, Receivers, Place
<1>7. /\ conn.ctype \in {"CONVERSATION", "ROUTER", "OPT_OUT", "BILLING"}
      /\ conn.ctype = "CONVERSATION" => conn.key \in Conversations /\ conn = Conversation(conn.key)
      /\ conn.ctype = "ROUTER" => conn.key \in Routers /\ conn = Router(conn.key, "INBOUND")
      /\ conn.ctype = "OPT_OUT" => conn = OptOut
      /\ conn.ctype = "BILLING" => place = Place(Billing("INBOUND"), "default")
  <2>1. CASE conn \in Senders
    BY <2>1 DEF Senders, Conversation, Router, OptOut, Connector
  <2>2. CASE place = Place(Billing("INBOUND"), "default")
    <3>1. conn = Billing("INBOUND")
      BY <2>2 DEF Place
    <3> QED
      BY <2>2, <3>1 DEF Billing, Connector
  <2> QED
    BY <1>5, <2>1, <2>2
<1> HIDE DEF r, place, conn
<1>8. Passed(f, r, Mirror(undo))
  <2>1. f = Forward(Sourced(r, "INBOUND"), Place(conn, place.ep), "INBOUND")
    BY <1>6 DEF r, place, undo
  <2>2. Passed(f, r, TheHop(r, "INBOUND", Place(conn, place.ep)))
    BY <1>1, <1>2, <1>6, <1>7, <2>1, ForwardFact DEF DestinationKinds
  <2> QED
    BY <1>2, <1>6, <2>2
<1>9. Mirror(undo).dst = place
  BY DEF Mirror, place
<1>10. /\ f \in Message /\ f.at = conn.ctype /\ f.ep = place.ep /\ f.from = Nothing
       /\ f.hops = Append(e.hops, Mirror(undo)) /\ Mirror(undo) \in Hop
       /\ f.at = "CONVERSATION" => f.conv = conn.key
       /\ f.at = "ROUTER" => f.router = conn.key
       /\ f.outbound_hops = o.hops /\ f.unroutable = o.unroutable /\ f.tag = o.tag
  BY <1>1, <1>7, <1>8, <1>9 DEF Passed, conn
<1>11. /\ Last(f.hops) = Mirror(undo) /\ f.hops # <<>> /\ Len(f.hops) = Len(e.hops) + 1
       /\ \A k \in 1..Len(e.hops) : f.hops[k] = e.hops[k]
       /\ f.hops[Len(e.hops) + 1] = Mirror(undo)
  BY <1>3, <1>10, LastOfAppend DEF Last
<1>12. Len(f.hops) <= Len(o.hops)
  BY <1>3, <1>11
<1>13. \A k \in 1..Len(f.hops) : f.hops[k] = Mirror(o.hops[Len(o.hops) - k + 1])
  <2> TAKE k \in 1..Len(f.hops)
  <2>1. CASE k \in 1..Len(e.hops)
    BY <1>11, <2>1 DEF EventWay
  <2>2. CASE k = Len(e.hops) + 1
    <3>1. Len(o.hops) - k + 1 = n
      BY <1>3, <2>2
    <3> QED
      BY <1>4, <1>11, <2>2, <3>1
  <2> QED
    BY <1>3, <1>11, <2>1, <2>2
<1>14. Informed(o, f) /\ Last(f.hops).dst = place
  BY <1>9, <1>10, <1>11 DEF Informed
<1>15. /\ f.at = "ROUTER" => f.router \in Routers /\ Last(f.hops).dst.conn = Router(f.router, "INBOUND")
       /\ f.at = "BILLING" => f.ep = "default" /\ Last(f.hops).dst = Place(Billing("INBOUND"), "default")
       /\ f.at = "CONVERSATION" => Last(f.hops).dst.conn = Conversation(f.conv)
       /\ f.at = "OPT_OUT" => Last(f.hops).dst.conn = OptOut
  <2>1. Place(Billing("INBOUND"), "default").ep = "default"
    BY DEF Place
  <2> QED
    BY <1>7, <1>10, <1>14, <2>1 DEF conn
<1>16. EventWay(o, f, org)
  BY <1>3, <1>7, <1>10, <1>12, <1>13, <1>14, <1>15 DEF EventWay, AtRouter, AtBilling, Waits
<1> QED
  BY <1>10, <1>16

-----------------------------------------------------------------------------
\* The steps of an event.
LEMMA EventFact ==
  ASSUME IInv, NEW x \in Exchanges
  PROVE  /\ msg[Out(x)] \in Message /\ OutboundWay(msg[In(x)], msg[Out(x)], origin[x])
         /\ msg[Ev(x)] \in Message /\ EventWay(msg[Out(x)], msg[Ev(x)], origin[x])
         /\ charged \in [Messages -> BOOLEAN]
BY Records DEF ExchangeInv, IInv, TypeInv

LEMMA EventKeeps ==
  ASSUME IInv, NEW x \in Exchanges, NEW r \in Message, Becomes(Ev(x), r),
         EventWay(msg[Out(x)], r, origin[x]),
         UNCHANGED <<origin, account, cache, config>>,
         charged' \in [Messages -> BOOLEAN],
         \A y \in Exchanges : charged'[Out(y)] = charged[Out(y)]
  PROVE  IInv'
<1>1. AccountInv'
  BY Records, ReadsFact
<1> QED
  BY <1>1, EventBecomes DEF config

\* An event that is done was the dispatcher's own business, or its sender's.
LEMMA EventEnds ==
  ASSUME IInv, NEW x \in Exchanges, Ends(Ev(x), "done"), msg[Ev(x)].at # "unsent",
         UNCHANGED <<history, account, cache, config>>,
         msg[Out(x)].unroutable \/ origin[x] = Router(msg[Ev(x)].router, "INBOUND")
  PROVE  IInv'
<1> DEFINE e == msg[Ev(x)]
           r == EndedAs(e, "done")
<1>1. Becomes(Ev(x), r)
  BY DEF Ends, EndedAs
<1>2. /\ r \in Message /\ r.at = "done" /\ r.hops = e.hops /\ r.router = e.router
  <2>1. e \in Message
    BY EventFact
  <2> HIDE DEF e
  <2> QED
    BY <2>1, EndedFact DEF Endings
<1> HIDE DEF r
<1>3. EventWay(msg[Out(x)], r, origin[x])
  <2>1. EventWay(msg[Out(x)], e, origin[x])
    BY EventFact
  <2> QED
    BY <1>2, <2>1 DEF EventWay, AtRouter, AtBilling, Waits
<1> QED
  BY <1>1, <1>2, <1>3, EventFact, EventKeeps DEF history

LEMMA EventRouting ==
  ASSUME IInv, NEW x \in Exchanges, EventDone(x) \/ EventRouted(x)
  PROVE  IInv'
<1> DEFINE e == msg[Ev(x)]
           o == msg[Out(x)]
           r == SetEventMetadata(e, o)
<1>1. /\ o \in Message /\ OutboundWay(msg[In(x)], o, origin[x])
      /\ e \in Message /\ EventWay(o, e, origin[x]) /\ charged \in [Messages -> BOOLEAN]
      /\ e.at = "dispatcher"
  BY EventFact DEF EventDone, EventRouted, EventArrived
<1>2. CASE EventDone(x)
  <2>1. o.unroutable
    BY <1>1, <1>2, ReceivedFact DEF EventDone, EventReceived, UnroutableEventDone
  <2> QED
    BY <1>1, <1>2, <2>1, EventEnds DEF EventDone
<1>3. CASE EventRouted(x)
  <2> DEFINE s == PushSource(r, Source(r, "INBOUND"))
             place == ToUndo(o, e).src
             f == Forward(Sourced(r, "INBOUND"), place, "INBOUND")
  <2>1. Len(e.hops) < Len(o.hops)
    BY <1>1, <1>3, HopLeft DEF EventRouted, EventReceived
  <2>2. s = Sourced(r, "INBOUND") /\ NextHops(s) = {place}
    BY <1>1, <2>1, EventTarget
  <2>3. Becomes(Ev(x), IF NextHops(s) = {} THEN [s EXCEPT !.at = "unroutable"]
                       ELSE Forward(s, CHOOSE q \in NextHops(s) : TRUE, "INBOUND"))
    BY <1>3 DEF EventRouted, EventSourced, EventReceived
  <2> HIDE DEF s, place, r
  <2>4. Becomes(Ev(x), f)
    <3>1. NextHops(s) # {} /\ (CHOOSE q \in NextHops(s) : TRUE) = place
      BY <2>2
    <3> QED
      BY <2>2, <2>3, <3>1
  <2>5. f \in Message /\ EventWay(o, f, origin[x])
    BY <1>1, <2>1, EventForward DEF r, place
  <2> HIDE DEF f
  <2> QED
    BY <1>1, <1>3, <2>4, <2>5, EventKeeps DEF EventRouted, history
<1> QED
  BY <1>2, <1>3

LEMMA RouterEvent ==
  ASSUME IInv, NEW x \in Exchanges, RouterHandlesEvent(x)
  PROVE  IInv'
<1> DEFINE e == msg[Ev(x)]
           o == msg[Out(x)]
           n == Len(o.hops) - Len(e.hops)
<1>1. /\ o \in Message /\ OutboundWay(msg[In(x)], o, origin[x])
      /\ e \in Message /\ EventWay(o, e, origin[x]) /\ charged \in [Messages -> BOOLEAN]
      /\ e.at = "ROUTER" /\ UNCHANGED <<origin, charged, account, cache, config>>
  BY EventFact DEF RouterHandlesEvent, history
<1>2. /\ Informed(o, e) /\ e.router \in Routers /\ Last(e.hops).dst.conn = Router(e.router, "INBOUND")
      /\ Len(e.hops) <= Len(o.hops) /\ o.at = "TRANSPORT_TAG"
  BY <1>1 DEF EventWay, AtRouter
<1>3. /\ o.hops \in Seq(Hop) /\ e.hops \in Seq(Hop) /\ Len(o.hops) \in Nat /\ Len(e.hops) \in Nat
      /\ e.hops # <<>> /\ e.outbound_hops = o.hops
  BY <1>1, <1>2 DEF Message, Informed
<1>4. CASE NoHopLeft(e)
  <2>1. Len(e.hops) = Len(o.hops)
    BY <1>2, <1>3, <1>4 DEF NoHopLeft
  <2>2. o.hops[1].src.conn = Router(e.router, "INBOUND") /\ o.hops # <<>>
    <3>1. Len(e.hops) \in 1..Len(e.hops) /\ Len(o.hops) - Len(e.hops) + 1 = 1 /\ o.hops # <<>>
      BY <1>3, <2>1
    <3>2. e.hops[Len(e.hops)] = Mirror(o.hops[Len(o.hops) - Len(e.hops) + 1])
      BY <1>1, <3>1 DEF EventWay
    <3>3. Last(e.hops) = Mirror(o.hops[1])
      BY <3>1, <3>2 DEF Last
    <3>4. Mirror(o.hops[1]).dst = o.hops[1].src
      BY DEF Mirror
    <3> QED
      BY <1>2, <3>1, <3>3, <3>4
  <2>3. o.unroutable \/ origin[x] = Router(e.router, "INBOUND")
    BY <1>1, <2>2 DEF OutboundWay, StartsAt
  <2>4. Ends(Ev(x), "done")
    BY <1>4 DEF RouterHandlesEvent
  <2> QED
    BY <1>1, <2>3, <2>4, EventEnds DEF history
<1>5. CASE ~NoHopLeft(e)
  <2> DEFINE ep == ToUndo(o, e).dst.ep
             r == ToDispatcher(e, "ROUTER", ep)
  <2>1. Len(e.hops) < Len(o.hops) /\ n \in 1..Len(o.hops)
    <3>1. \A a, b \in Nat : ~(b > a - 1) => b < a /\ a - b \in 1..a
      OBVIOUS
    <3>2. ~(Len(e.hops) > Len(o.hops) - 1)
      BY <1>3, <1>5 DEF NoHopLeft
    <3> QED
      BY <1>3, <3>1, <3>2
  <2>2. ep \in Endpoints
    <3>1. o.hops[n] \in Hop
      BY <1>3, <2>1
    <3> QED
      BY <3>1 DEF ToUndo, Hop, AnyPlace
  <2>3. NextRouterHop(e) = ToUndo(o, e)
    BY <1>3 DEF NextRouterHop, ToUndo
  <2>4. Becomes(Ev(x), r)
    BY <1>5, <2>3 DEF RouterHandlesEvent
  <2> HIDE DEF ep
  <2>5. Handed(r, e, "ROUTER", ep)
    BY <1>1, <2>2, DispatcherFact DEF Workers
  <2> HIDE DEF r
  <2>6. EventWay(o, r, origin[x])
    <3>1. Informed(o, r) \/ r.unroutable # o.unroutable
      BY <1>2, <2>5 DEF Informed, Handed
    <3>2. r.unroutable = o.unroutable
      BY <1>2, <2>5 DEF Informed, Handed
    <3>3. r.ep = ToUndo(o, r).dst.ep
      BY <2>5 DEF Handed, ep, ToUndo
    <3> QED
      BY <1>1, <1>2, <2>1, <2>5, <3>1, <3>2, <3>3
      DEF EventWay, AtRouter, AtBilling, Waits, Handed, SourceKinds
  <2> QED
    BY <1>1, <2>4, <2>5, <2>6, EventKeeps DEF Handed
<1> QED
  BY <1>4, <1>5

LEMMA EventHanded ==
  ASSUME IInv, NEW x \in Exchanges,
         TransportReports(x) \/ \E transaction \in BOOLEAN : BillingPasses(Ev(x), transaction)
  PROVE  IInv'
<1> DEFINE e == msg[Ev(x)]
           o == msg[Out(x)]
<1>1. /\ o \in Message /\ OutboundWay(msg[In(x)], o, origin[x])
      /\ e \in Message /\ EventWay(o, e, origin[x]) /\ charged \in [Messages -> BOOLEAN]
  BY EventFact
<1>2. CASE TransportReports(x)
  <2> DEFINE r == ToDispatcher(Blank, "TRANSPORT_TAG", "default")
  <2>1. Becomes(Ev(x), r) /\ o.at = "TRANSPORT_TAG" /\ UNCHANGED <<history, account, cache, config>>
    BY <1>2 DEF TransportReports
  <2>2. Handed(r, Blank, "TRANSPORT_TAG", "default")
    BY BlankFact, RoutingTableAssumption, DispatcherFact DEF Workers
  <2> HIDE DEF r
  <2>3. EventWay(o, r, origin[x])
    <3>1. Len(<<>>) = 0 /\ Len(o.hops) \in Nat /\ 1..0 = {}
      BY <1>1 DEF Message
    <3> QED
      BY <2>1, <2>2, <3>1, BlankFact DEF EventWay, AtRouter, AtBilling, Waits, Handed, SourceKinds
  <2> QED
    BY <1>1, <2>1, <2>2, <2>3, EventKeeps DEF Handed, history
<1>3. ASSUME NEW transaction \in BOOLEAN, BillingPasses(Ev(x), transaction) PROVE IInv'
  <2> DEFINE p == [e EXCEPT !.paid = e.paid \/ transaction]
             r == ToDispatcher(p, "BILLING", e.ep)
  <2>1. /\ e.at = "BILLING" /\ Becomes(Ev(x), r) /\ UNCHANGED <<origin, account, cache, config>>
        /\ charged' = [charged EXCEPT ![Ev(x)] = charged[Ev(x)] \/ transaction]
    BY <1>3 DEF BillingPasses
  <2>2. /\ p \in Message /\ p.hops = e.hops /\ p.unroutable = e.unroutable /\ p.tag = e.tag
        /\ p.router = e.router /\ p.outbound_hops = e.outbound_hops
    <3>1. (e.paid \/ transaction) \in BOOLEAN /\ e \in Message
      BY <1>1 DEF Message
    <3> HIDE DEF e
    <3> QED
      BY <3>1, MarkedFact
  <2> HIDE DEF p
  <2>3. Handed(r, p, "BILLING", e.ep)
    <3>1. "BILLING" \in Workers /\ e.ep \in Endpoints
      BY <1>1 DEF Workers, Message
    <3> QED
      BY <2>2, <3>1, DispatcherFact
  <2> HIDE DEF r
  <2>4. /\ charged' \in [Messages -> BOOLEAN]
        /\ \A y \in Exchanges : charged'[Out(y)] = charged[Out(y)]
    BY <1>1, <2>1, MessageNames
  <2>5. Informed(o, e) /\ e.ep = "default" /\ Last(e.hops).dst = Place(Billing("INBOUND"), "default")
    BY <1>1, <2>1 DEF EventWay, AtBilling
  <2>6. Informed(o, r)
    BY <2>2, <2>3, <2>5 DEF Informed, Handed
  <2>7. EventWay(o, r, origin[x])
    BY <1>1, <2>1, <2>2, <2>3, <2>5, <2>6 DEF EventWay, AtRouter, AtBilling, Waits, Handed, SourceKinds
  <2> QED
    BY <1>1, <2>1, <2>3, <2>4, <2>7, EventKeeps DEF Handed
<1> QED
  BY <1>2, <1>3

-----------------------------------------------------------------------------
\* The account changes between the steps of the exchanges.
LEMMA TableShrinks ==
  ASSUME NEW t \in Tables, ChannelsByDefault(t), NEW conn
  PROVE  RemoveConnector(t, conn) \in Tables /\ ChannelsByDefault(RemoveConnector(t, conn))
BY DEF RemoveConnector, Tables, ChannelsByDefault

LEMMA AccountChangesKeep ==
  ASSUME IInv, AccountChanges
  PROVE  IInv'
<1>1. AccountInv /\ MaxChanges \in Nat /\ UNCHANGED <<msg, origin, charged, config>>
  BY RoutingAssumption
  DEF IInv, AccountChanges, UpdateTable, AcquireTag, ReleaseTag, Changes, EvictAccount, history
<1>2. AccountInv'
  <2>1. ASSUME NEW t \in TableChoices, UpdateTable(t) PROVE AccountInv'
    BY <1>1, <2>1, RoutingAssumption DEF AccountInv, UpdateTable, Changes, config
  <2>2. ASSUME NEW tag \in Tags, AcquireTag(tag) PROVE AccountInv'
    BY <1>1, <2>2 DEF AccountInv, AcquireTag, Changes, config
  <2>3. ASSUME NEW tag \in Tags, ReleaseTag(tag) PROVE AccountInv'
    BY <1>1, <2>3, TableShrinks DEF AccountInv, ReleaseTag, Changes, config
  <2>4. CASE EvictAccount
    BY <1>1, <2>4 DEF AccountInv, EvictAccount, account, config
  <2> QED
    BY <2>1, <2>2, <2>3, <2>4 DEF AccountChanges
<1> QED
  BY <1>1, <1>2 DEF IInv, TypeInv, ThisInv, config

LEMMA InitIInv == Init => IInv
<1> SUFFICES ASSUME Init PROVE IInv
  OBVIOUS
<1>1. TypeInv
  BY BlankFact DEF Init, TypeInv
<1>2. AccountInv
  BY RoutingAssumption DEF Init, AccountInv
<1>3. ASSUME NEW x \in Exchanges PROVE ThisInv(x)
  <2>1. /\ msg[In(x)] = Blank /\ msg[Out(x)] = Blank /\ msg[Ev(x)] = Blank /\ origin[x] = Nothing
    BY MessageNames DEF Init
  <2>2. /\ 1..0 = {} /\ Len(<<>>) = 0 /\ 1..(Len(<<>>) - 1) = {} /\ Nothing # OptOut
    BY RoutingAssumption
  <2>3. InboundInv(Blank, billing_outbound_connector)
    BY BlankFact DEF InboundInv, AtRouter, AtBilling, Waits
  <2>4. OutboundWay(Blank, Blank, Nothing)
    BY <2>2, BlankFact DEF OutboundWay, AtRouter, AtBilling, Waits, Chain
  <2>5. OptOutWay(Blank, Blank, Nothing) /\ OutboundBilled(Blank, Nothing, charged[Out(x)], billing_outbound_connector)
    BY <2>2, BlankFact DEF OptOutWay, OutboundBilled, AtRouter, AtBilling, Waits
  <2>6. EventWay(Blank, Blank, Nothing)
    BY <2>2, BlankFact DEF EventWay, AtRouter, AtBilling, Waits
  <2> QED
    BY <2>1, <2>3, <2>4, <2>5, <2>6 DEF ThisInv, ExchangeInv
<1> QED
  BY <1>1, <1>2, <1>3 DEF IInv

LEMMA StepIInv == IInv /\ [Next]_vars => IInv'
<1> SUFFICES ASSUME IInv, [Next]_vars PROVE IInv'
  OBVIOUS
<1>1. ASSUME NEW x \in Exchanges, HandleInbound(x) PROVE IInv'
  <2>1. CASE DispatchInbound(x)
    BY <2>1, InboundRouting, InboundUnroutableKeeps DEF DispatchInbound
  <2>2. CASE PassBilling(In(x))
    BY <2>2, InboundMove DEF PassBilling
  <2>3. CASE Route(x)
    BY <2>3, InboundMove, RouterRepliesKeeps DEF Route
  <2> QED
    BY <1>1, <2>1, <2>2, <2>3 DEF HandleInbound
<1>2. ASSUME NEW x \in Exchanges, HandleOutbound(x) PROVE IInv'
  <2>1. CASE DispatchOutbound(x)
    BY <2>1, OutboundRouting, OutboundEnds, OutboundByTag DEF DispatchOutbound
  <2>2. CASE PassBilling(Out(x)) \/ RouterReturns(x)
    BY <2>2, OutboundHanded DEF PassBilling
  <2>3. CASE BillingDrops(x)
    BY <2>3, OutboundEnds
  <2> QED
    BY <1>2, <2>1, <2>2, <2>3 DEF HandleOutbound
<1>3. ASSUME NEW x \in Exchanges, HandleEvent(x) PROVE IInv'
  <2>1. CASE DispatchEvent(x)
    BY <2>1, EventRouting DEF DispatchEvent
  <2>2. CASE PassBilling(Ev(x))
    BY <2>2, EventHanded DEF PassBilling
  <2>3. CASE RouterHandlesEvent(x)
    BY <2>3, RouterEvent
  <2> QED
    BY <1>3, <2>1, <2>2, <2>3 DEF HandleEvent
<1>4. ASSUME NEW x \in Exchanges, Originate(x) PROVE IInv'
  <2>1. ASSUME NEW tag \in Tags, NEW keyword \in BOOLEAN, NEW disabled \in BOOLEAN,
               TransportReceives(x, tag, IsKeywordOptOut(keyword, disabled))
        PROVE  IInv'
    <3>1. IsKeywordOptOut(keyword, disabled) \in BOOLEAN
      BY DEF IsKeywordOptOut
    <3> QED
      BY <2>1, <3>1, InboundMove
  <2> QED
    BY <1>4, <2>1, InboundMove, EventHanded, WorkersSend DEF Originate
<1>5. CASE UNCHANGED vars
  BY <1>5 DEF vars, IInv, TypeInv, AccountInv, ThisInv
<1> QED
  BY <1>1, <1>2, <1>3, <1>4, <1>5, AccountChangesKeep DEF Next

(* In every state an exchange is where its hops say it is.                 *)
THEOREM ExchangesKeepTheirWay == Spec => []IInv
BY InitIInv, StepIInv, PTL DEF Spec

-----------------------------------------------------------------------------
\* What the invariant says of one that the messages' hops show.
LEMMA HandedFact ==
  ASSUME IInv, NEW x \in Exchanges
  PROVE  HandedToItsSender(x)
<1> DEFINE e == msg[Ev(x)]
           o == msg[Out(x)]
           k == Len(o.hops) - Len(e.hops) + 1
<1>1. /\ o \in Message /\ OutboundWay(msg[In(x)], o, origin[x])
      /\ e \in Message /\ EventWay(o, e, origin[x])
  BY EventFact
<1>2. e.at = "done" => o.unroutable \/ origin[x] = Router(e.router, "INBOUND")
  BY <1>1 DEF EventWay
<1>3. ASSUME NEW conn, e.hops # <<>>, Last(e.hops).dst.conn = conn, o.at = "TRANSPORT_TAG",
             \A r \in Routers : conn # Router(r, "INBOUND"), conn # Billing("INBOUND")
      PROVE  origin[x] = conn
  <2>1. /\ o.hops \in Seq(Hop) /\ e.hops \in Seq(Hop) /\ Len(o.hops) \in Nat /\ Len(e.hops) \in Nat
        /\ Len(e.hops) <= Len(o.hops)
    BY <1>1 DEF Message, EventWay
  <2>2. Len(e.hops) \in 1..Len(e.hops) /\ k \in 1..Len(o.hops) /\ o.hops # <<>>
    <3>1. \A a, b \in Nat : b # 0 /\ b <= a => b \in 1..b /\ a - b + 1 \in 1..a /\ a # 0
      OBVIOUS
    <3>2. Len(e.hops) # 0 /\ (Len(o.hops) # 0 => o.hops # <<>>)
      BY <1>3, <2>1
    <3> QED
      BY <2>1, <3>1, <3>2
  <2>3. Last(e.hops) = Mirror(o.hops[k])
    BY <1>1, <2>2 DEF EventWay, Last
  <2>4. Mirror(o.hops[k]).dst = o.hops[k].src
    BY DEF Mirror
  <2> HIDE DEF k, e, o
  <2>5. o.hops[k].src.conn = conn
    BY <1>3, <2>3, <2>4
  <2>6. Place(Billing("INBOUND"), "default").conn = Billing("INBOUND")
    BY DEF Place
  <2>7. k = 1
    <3>1. SUFFICES ASSUME k # 1 PROVE FALSE
      OBVIOUS
    <3>2. k - 1 \in 1..(Len(o.hops) - 1) /\ (k - 1) + 1 = k
      BY <2>1, <2>2, <3>1
    <3>3. Chain(o.hops)
      BY <1>1 DEF OutboundWay
    <3>4. \/ \E r \in Routers : o.hops[k].src.conn = Router(r, "INBOUND")
          \/ o.hops[k].src = Place(Billing("INBOUND"), "default")
      BY <3>2, <3>3 DEF Chain
    <3> QED
      BY <1>3, <2>5, <2>6, <3>4
  <2>8. StartsAt(o, origin[x])
    BY <1>1, <2>2 DEF OutboundWay
  <2> QED
    BY <1>3, <2>5, <2>6, <2>7, <2>8 DEF StartsAt
<1>4. \A c : /\ \A r \in Routers : Conversation(c) # Router(r, "INBOUND") /\ OptOut # Router(r, "INBOUND")
             /\ Conversation(c) # Billing("INBOUND") /\ OptOut # Billing("INBOUND")
  BY DEF Conversation, Router, OptOut, Billing, Connector
<1>5. /\ e.at = "CONVERSATION" => /\ e.hops # <<>> /\ Last(e.hops).dst.conn = Conversation(e.conv)
                                  /\ o.at = "TRANSPORT_TAG"
      /\ e.at = "OPT_OUT" => e.hops # <<>> /\ Last(e.hops).dst.conn = OptOut /\ o.at = "TRANSPORT_TAG"
  BY <1>1 DEF EventWay, Informed
<1>6. /\ e.at = "CONVERSATION" => origin[x] = Conversation(e.conv)
      /\ e.at = "OPT_OUT" => origin[x] = OptOut
  <2> HIDE DEF e, o
  <2> QED
    BY <1>3, <1>4, <1>5
<1> QED
  BY <1>2, <1>6 DEF HandedToItsSender

(* The hops of an event mirror the last hops of its message at every       *)
(* moment, and it is handed to the worker that sent the message.           *)
THEOREM EventsFindTheirSender == Spec => []EventsRetrace
<1>1. IInv => EventsRetrace
  <2> SUFFICES ASSUME IInv, NEW x \in Exchanges
               PROVE  LET e == msg[Ev(x)].hops
                          o == msg[Out(x)].hops
                      IN /\ msg[Ev(x)].at # "unroutable"
                         /\ Len(e) <= Len(o)
                         /\ \A i \in 1..Len(e) : e[i] = Mirror(o[Len(o) - i + 1])
                         /\ HandedToItsSender(x)
    BY DEF EventsRetrace
  <2>1. EventWay(msg[Out(x)], msg[Ev(x)], origin[x])
    BY EventFact
  <2> QED
    BY <2>1, HandedFact DEF EventWay
<1> QED
  BY <1>1, ExchangesKeepTheirWay, PTL

(* The variables keep their types, and no message is refused for its       *)
(* connectors or its hops.                                                 *)
THEOREM LostOnlyForWantOfAnEntry == Spec => []OnlyMissingEntriesLose
<1>1. IInv => OnlyMissingEntriesLose
  <2> SUFFICES ASSUME IInv PROVE OnlyMissingEntriesLose
    OBVIOUS
  <2>1. \A m \in Messages : msg[m].at # "unroutable"
    <3> TAKE m \in Messages
    <3>1. PICK x \in Exchanges : m \in {In(x), Out(x), Ev(x)}
      BY DEF Messages, In, Out, Ev
    <3>2. /\ InboundInv(msg[In(x)], billing_outbound_connector)
          /\ OutboundWay(msg[In(x)], msg[Out(x)], origin[x])
          /\ EventWay(msg[Out(x)], msg[Ev(x)], origin[x])
      BY Records DEF ExchangeInv
    <3> QED
      BY <3>1, <3>2 DEF InboundInv, OutboundWay, EventWay
  <2>2. AccountInv /\ charged \in [Messages -> BOOLEAN]
    BY DEF IInv, TypeInv
  <2>3. ASSUME NEW m \in Messages
        PROVE  /\ msg[m].at \in Workers \union Endings \union {"unsent", "dispatcher"}
               /\ msg[m].from \in Workers \union {Nothing}
               /\ msg[m].ep \in Endpoints
               /\ msg[m].tag \in Tags \union {Nothing}
               /\ msg[m].router \in Routers \union {Nothing}
               /\ msg[m].conv \in Conversations \union {Nothing}
               /\ {msg[m].account, msg[m].optout, msg[m].paid, msg[m].unroutable} \subseteq BOOLEAN
               /\ Hops(msg[m].hops) \/ msg[m].at = "unroutable"
               /\ msg[m].outbound_hops = Nothing \/ Hops(msg[m].outbound_hops)
    <3>1. msg[m] \in Message
      BY DEF IInv, TypeInv
    <3> QED
      BY <3>1 DEF Message, Hop, Hops
  <2>4. TypeOK
    BY <2>2, <2>3 DEF TypeOK, AccountInv
  <2> QED
    BY <2>1, <2>4 DEF OnlyMissingEntriesLose
<1> QED
  BY <1>1, ExchangesKeepTheirWay, PTL

(* Every message a worker gets or a transport is given has passed billing  *)
(* once, if there is billing.                                              *)
THEOREM BilledOnceOnTheWay == Spec => []BilledOnTheWay
<1>1. IInv => BilledOnTheWay
  <2> SUFFICES ASSUME IInv, NEW x \in Exchanges
               PROVE  /\ billing_inbound_connector /\ msg[In(x)].at \in {"CONVERSATION", "ROUTER", "OPT_OUT"}
                           => BillingHops(msg[In(x)].hops, "OUTBOUND") = 1
                      /\ billing_outbound_connector /\ msg[Out(x)].at = "TRANSPORT_TAG"
                           => \/ BillingHops(msg[Out(x)].hops, "INBOUND") = 1
                              \/ msg[Out(x)].unroutable /\ BillingHops(msg[Out(x)].hops, "INBOUND") = 0
    BY DEF BilledOnTheWay
  <2>1. /\ InboundInv(msg[In(x)], billing_outbound_connector)
        /\ billing_inbound_connector = billing_outbound_connector
        /\ OutboundWay(msg[In(x)], msg[Out(x)], origin[x])
        /\ OutboundBilled(msg[Out(x)], origin[x], charged[Out(x)], billing_outbound_connector)
    BY Records, OutboundFact
  <2> QED
    BY <2>1 DEF InboundInv, OutboundWay, OutboundBilled, EndsAt, AtRouter
<1> QED
  BY <1>1, ExchangesKeepTheirWay, PTL

(* An opt-out is for the opt-out worker alone, and its answer leaves by    *)
(* the tag it came in on.                                                  *)
THEOREM OptOutsStayApart == Spec => []OptOutsStayOut
<1>1. IInv => OptOutsStayOut
  <2> SUFFICES ASSUME IInv, NEW x \in Exchanges
               PROVE  /\ msg[In(x)].optout => msg[In(x)].at \notin {"CONVERSATION", "ROUTER"}
                      /\ origin[x] = OptOut /\ msg[Out(x)].at = "TRANSPORT_TAG"
                           => msg[Out(x)].tag = msg[In(x)].tag
    BY DEF OptOutsStayOut
  <2>1. /\ InboundInv(msg[In(x)], billing_outbound_connector)
        /\ OptOutWay(msg[In(x)], msg[Out(x)], origin[x])
    BY Records, OutboundFact
  <2> QED
    BY <2>1 DEF InboundInv, OptOutWay, AtRouter
<1> QED
  BY <1>1, ExchangesKeepTheirWay, PTL

(* A message that a transport is given as paid was charged for itself.     *)
THEOREM NobodyPassesForPaid == Spec => []SendersPayForThemselves
<1>1. IInv => SendersPayForThemselves
  <2> SUFFICES ASSUME IInv, NEW x \in Exchanges, msg[Out(x)].at = "TRANSPORT_TAG",
                      origin[x] \notin {Nothing, OptOut}, msg[Out(x)].paid
               PROVE  charged[Out(x)] \/ ~billing_outbound_connector
    BY DEF SendersPayForThemselves
  <2>1. OutboundBilled(msg[Out(x)], origin[x], charged[Out(x)], billing_outbound_connector)
    BY OutboundFact
  <2> QED
    BY <2>1 DEF OutboundBilled
<1> QED
  BY <1>1, ExchangesKeepTheirWay, PTL
=============================================================================
