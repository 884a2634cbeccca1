---------------------------- MODULE RoutingSearch ----------------------------
(***************************************************************************)
(* transitive_targets and transitive_sources (go/vumitools/routing_table.py *)
(* 316-388): the worklist searches get_channels uses to tell the channels  *)
(* of a conversation.  One step is one turn of the while loop.             *)
(***************************************************************************)
EXTENDS RoutingTable

VARIABLES
  backwards,          \* transitive_sources rather than transitive_targets
  table, start,       \* the arguments, never changed
  pending,            \* sources (destinations), still to be searched
  seen,               \* sources_seen (destinations_seen)
  results

vars == <<backwards, table, start, pending, seen, results>>

\* The connectors one entry away from conn, in the direction of the search.
Neighbours(conn) ==
  IF backwards THEN LookupSources(table, conn) ELSE LookupTargets(table, conn)

\* seen starts with a GoConnector and is only asked about strings, which never
\* equal one: the start counts as unseen and may be searched a second time.
Init ==
  /\ backwards \in BOOLEAN /\ table \in Tables /\ start \in Connectors
  /\ pending = {start} /\ seen = {} /\ results = {}

\* A router that is found is searched from its other side.  (Faults for the
\* mutation runs: from the same side; without asking seen.)
SameSide(conns) == {c \in conns : c.ctype = "ROUTER"}
FarSides(conns) == {FlipDirection(c) : c \in {d \in conns : d.ctype = "ROUTER"}}

NotAsked(conns) == FarSides(conns)
Unseen(conns) == FarSides(conns) \ seen

Search ==
  /\ \E conn \in pending :
       LET extra == Unseen(Neighbours(conn)) IN
       /\ results' = results \union Neighbours(conn)
       /\ pending' = (pending \ {conn}) \union extra
       /\ seen' = seen \union extra
  /\ UNCHANGED <<backwards, table, start>>

Next == Search
Spec == Init /\ [][Next]_vars /\ WF_vars(Next)

-----------------------------------------------------------------------------
(* What the search should return, stated without a search: the least set   *)
(* that holds the neighbours of the start and, with a router, those of its *)
(* other side.                                                             *)
IsClosed(set) ==
  /\ Neighbours(start) \subseteq set
  /\ \A c \in set : c.ctype = "ROUTER" => Neighbours(FlipDirection(c)) \subseteq set

Reachable == {c \in Connectors : \A set \in SUBSET Connectors : IsClosed(set) => c \in set}

(* The variables have the types the code gives them. *)
TypeOK ==
  /\ backwards \in BOOLEAN /\ table \in Tables /\ start \in Connectors
  /\ pending \subseteq Connectors /\ seen \subseteq Connectors
  /\ results \subseteq Connectors

(* Whatever the order the worklist is taken in and however the table loops, *)
(* the search returns exactly the connectors a message can pass:           *)
(* get_channels shows no channel the conversation cannot reach and misses  *)
(* none that it can.                                                       *)
SearchIsExact == pending = {} => results = Reachable

(* The search ends even on a table whose routers form a loop, which        *)
(* validate_entry lets through.                                            *)
SearchEnds == <>(pending = {})
=============================================================================
