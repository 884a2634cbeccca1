--------------------------- MODULE MCAccountStore ---------------------------
(* TLC instances of AccountStore: an account with a conversation and a       *)
(* router, and another that shares the tag pool.                             *)
EXTENDS AccountStore

CONSTANTS a1, a2, c1, r1, t1, t2

Link(src, src_ep, dst, dst_ep) == [src |-> Place(src, src_ep), dst |-> Place(dst, dst_ep)]

TwoEndpoints == {"default", "kw"}
AllOfFirst == [k \in Conversations \union Routers |-> a1]
AllOperations == {"acquire", "release", "archive", "configure", "update", "manage", "details"}
TagOperations == {"acquire", "release", "details"}

In1  == Link(TransportTag(t1), "default", Conversation(c1), "kw")
In2  == Link(TransportTag(t2), "default", Conversation(c1), "kw")
Out1 == Link(Conversation(c1), "kw", TransportTag(t1), "default")
ViaRouter == {Link(TransportTag(t1), "default", Router(r1, "INBOUND"), "default"),
              Link(Router(r1, "OUTBOUND"), "kw", Conversation(c1), "default"),
              Link(Conversation(c1), "default", Router(r1, "OUTBOUND"), "kw")}

SavedTables == {{In1, In2, Out1}, ViaRouter}
TwoEntries == {Link(Conversation(c1), "default", TransportTag(t1), "default"), Out1}
=============================================================================
