------------------------- MODULE RoutingSearchProofs -------------------------
(***************************************************************************)
(* The worklist searches of RoutingSearch are exact for every set of       *)
(* connectors, every table and every order of the worklist.                *)
(***************************************************************************)
EXTENDS RoutingSearch, TLAPS

(* Nothing is forgotten: what was found has its far side noted, what was    *)
(* noted is still pending or has been expanded.                            *)
NothingForgotten ==
  /\ pending \subseteq seen \union {start}
  /\ \A c \in results : c.ctype = "ROUTER" => FlipDirection(c) \in seen
  /\ \A s \in seen \union {start} : s \in pending \/ Neighbours(s) \subseteq results

(* Nothing is invented: every closed set holds all that the search found   *)
(* and will find from what is pending.                                     *)
NothingInvented ==
  \A set \in SUBSET Connectors : IsClosed(set) =>
    /\ results \subseteq set
    /\ \A s \in seen \union {start} : Neighbours(s) \subseteq set

IInv == TypeOK /\ NothingForgotten /\ NothingInvented

-----------------------------------------------------------------------------
(* A table only links connectors of the account, and both sides of a router *)
(* are among them.                                                         *)
LEMMA NeighboursAreConnectors ==
  ASSUME table \in Tables, NEW c
  PROVE  Neighbours(c) \subseteq Connectors
BY DEF Tables, Entries, Places, Place, Neighbours, LookupSources, LookupTargets

LEMMA FlipType ==
  ASSUME NEW c \in Connectors, c.ctype = "ROUTER"
  PROVE  FlipDirection(c) \in Connectors
<1>1. PICK r \in Routers, d \in {"INBOUND", "OUTBOUND"} : c = Router(r, d)
  BY DEF Connectors, RouterConnectors, Conversation, TransportTag, Connector
<1>2. c.key = r /\ c.direction = d
  BY <1>1 DEF Router, Connector
<1>3. Flip(d) \in {"INBOUND", "OUTBOUND"}
  BY DEF Flip
<1> QED
  BY <1>2, <1>3 DEF FlipDirection, Connectors, RouterConnectors

LEMMA FarSidesType ==
  ASSUME NEW set, set \subseteq Connectors
  PROVE  FarSides(set) \subseteq Connectors
BY FlipType DEF FarSides

-----------------------------------------------------------------------------
LEMMA InitIInv == Init => IInv
<1> SUFFICES ASSUME Init PROVE IInv
  OBVIOUS
<1>1. TypeOK
  BY DEF Init, TypeOK
<1>2. NothingForgotten
  BY DEF Init, NothingForgotten
<1>3. NothingInvented
  BY DEF Init, NothingInvented, IsClosed
<1> QED
  BY <1>1, <1>2, <1>3 DEF IInv

LEMMA StepIInv == IInv /\ [Next]_vars => IInv'
<1> SUFFICES ASSUME IInv, [Next]_vars PROVE IInv'
  OBVIOUS
<1> USE DEF IInv
<1>1. CASE UNCHANGED vars
  <2>1. /\ \A c : Neighbours(c)' = Neighbours(c)
        /\ table' = table /\ start' = start /\ backwards' = backwards /\ pending' = pending
        /\ seen' = seen /\ results' = results
    BY <1>1 DEF vars, Neighbours, LookupSources, LookupTargets
  <2>2. \A set : IsClosed(set)' <=> IsClosed(set)
    BY <2>1 DEF IsClosed
  <2> QED
    BY <2>1, <2>2 DEF TypeOK, NothingForgotten, NothingInvented
<1>2. CASE Search
  <2>1. PICK conn \in pending :
          /\ results' = results \union Neighbours(conn)
          /\ pending' = (pending \ {conn}) \union Unseen(Neighbours(conn))
          /\ seen' = seen \union Unseen(Neighbours(conn))
    BY <1>2 DEF Search
  <2> DEFINE found == Neighbours(conn)
             extra == Unseen(found)
  <2>2. /\ \A c : Neighbours(c)' = Neighbours(c)
        /\ table' = table /\ start' = start /\ backwards' = backwards
    BY <1>2 DEF Search, Neighbours, LookupSources, LookupTargets
  <2>3. /\ found \subseteq Connectors
        /\ extra \subseteq FarSides(found)
        /\ FarSides(found) \subseteq seen \union extra
        /\ FarSides(found) \subseteq Connectors
    BY NeighboursAreConnectors, FarSidesType DEF TypeOK, Unseen
  <2>4. \A set : IsClosed(set)' <=> IsClosed(set)
    BY <2>2 DEF IsClosed
  <2>5. conn \in seen \union {start}
    BY DEF NothingForgotten
  <2>6. TypeOK'
    BY <2>1, <2>2, <2>3 DEF TypeOK
  <2>7. NothingForgotten'
    <3>1. (pending \subseteq seen \union {start})'
      BY <2>1, <2>2 DEF NothingForgotten
    <3>2. \A c \in found : c.ctype = "ROUTER" => FlipDirection(c) \in FarSides(found)
      BY DEF FarSides
    <3>3. (\A c \in results : c.ctype = "ROUTER" => FlipDirection(c) \in seen)'
      BY <2>1, <2>3, <3>2 DEF NothingForgotten
    <3>4. (\A s \in seen \union {start} : s \in pending \/ Neighbours(s) \subseteq results)'
      BY <2>1, <2>2 DEF NothingForgotten
    <3> QED
      BY <3>1, <3>3, <3>4 DEF NothingForgotten
  <2>8. NothingInvented'
    <3> SUFFICES ASSUME NEW set \in SUBSET Connectors, IsClosed(set)
                 PROVE  /\ results' \subseteq set
                        /\ \A s \in seen' \union {start} : Neighbours(s) \subseteq set
      BY <2>2, <2>4 DEF NothingInvented
    <3>1. /\ results \subseteq set
          /\ \A s \in seen \union {start} : Neighbours(s) \subseteq set
      BY DEF NothingInvented
    <3>2. found \subseteq set
      BY <2>5, <3>1
    <3>3. \A s \in FarSides(found) : Neighbours(s) \subseteq set
      BY <3>2 DEF FarSides, IsClosed
    <3> QED
      BY <2>1, <2>3, <3>1, <3>2, <3>3
  <2> QED
    BY <2>6, <2>7, <2>8
<1> QED
  BY <1>1, <1>2 DEF Next

LEMMA IInvExact == IInv => SearchIsExact
<1> SUFFICES ASSUME IInv, pending = {} PROVE results = Reachable
  BY DEF SearchIsExact
<1>1. IsClosed(results)
  BY DEF IInv, NothingForgotten, IsClosed
<1>2. results \in SUBSET Connectors
  BY DEF IInv, TypeOK
<1>3. Reachable \subseteq results
  BY <1>1, <1>2 DEF Reachable
<1>4. results \subseteq Reachable
  BY <1>2 DEF IInv, NothingInvented, Reachable
<1> QED
  BY <1>3, <1>4

(* transitive_targets and transitive_sources return exactly the connectors *)
(* reachable through the table, for any table, start and worklist order.   *)
THEOREM SearchExact == Spec => [](TypeOK /\ SearchIsExact)
<1>1. Init => IInv
  BY InitIInv
<1>2. IInv /\ [Next]_vars => IInv'
  BY StepIInv
<1>3. IInv => TypeOK /\ SearchIsExact
  BY IInvExact DEF IInv
<1> QED
  BY <1>1, <1>2, <1>3, PTL DEF Spec
=============================================================================
