------------------------- MODULE MCRoutingDispatcher -------------------------
(* TLC instances of RoutingDispatcher: an account with two conversations,    *)
(* two routers and two tags, and the tables its user may save.               *)
EXTENDS RoutingDispatcher, TLC

CONSTANTS c1, c2, r1, r2, t1, t2

Link(src, src_ep, dst, dst_ep) == [src |-> Place(src, src_ep), dst |-> Place(dst, dst_ep)]
Outer(r) == Router(r, "INBOUND")
Inner(r) == Router(r, "OUTBOUND")

TwoEndpoints == {"default", "kw"}

\* The conversation on a channel of its own.
Direct == {Link(TransportTag(t1), "default", Conversation(c1), "default"),
           Link(Conversation(c1), "default", TransportTag(t1), "default")}

\* Both conversations behind a router, in by one channel and out by the other.
OneRouter == {Link(TransportTag(t1), "default", Outer(r1), "default"),
              Link(Inner(r1), "kw", Conversation(c1), "default"),
              Link(Inner(r1), "default", Conversation(c2), "kw"),
              Link(Conversation(c1), "default", Inner(r1), "kw"),
              Link(Conversation(c2), "kw", Inner(r1), "default"),
              Link(Outer(r1), "default", TransportTag(t2), "default")}

\* A router behind a router; the way out skips the first.
TwoRouters == {Link(TransportTag(t1), "default", Outer(r1), "default"),
               Link(TransportTag(t2), "default", Outer(r2), "default"),
               Link(Inner(r1), "kw", Outer(r2), "kw"),
               Link(Inner(r2), "kw", Conversation(c1), "default"),
               Link(Conversation(c1), "default", Inner(r2), "default"),
               Link(Conversation(c2), "default", Inner(r1), "kw"),
               Link(Outer(r2), "default", Inner(r1), "kw"),
               Link(Outer(r1), "default", TransportTag(t1), "default")}

\* Routers that send messages round in a circle, both ways.
Circle == {Link(TransportTag(t1), "default", Outer(r1), "default"),
           Link(Inner(r1), "kw", Outer(r2), "default"),
           Link(Inner(r2), "kw", Outer(r1), "default"),
           Link(Inner(r2), "default", Conversation(c1), "default"),
           Link(Conversation(c1), "default", Inner(r2), "default"),
           Link(Outer(r2), "default", Inner(r1), "kw"),
           Link(Outer(r1), "default", Inner(r2), "kw")}

Acyclic == {Direct, OneRouter, TwoRouters}
AllTables == Acyclic \union {Circle}
=============================================================================
