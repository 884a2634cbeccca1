----------------------------- MODULE RoutingTable -----------------------------
(***************************************************************************)
(* The routing table of an account (go/vumitools/routing_table.py) and the *)
(* connectors it links.                                                    *)
(*                                                                         *)
(* The source keeps a table as nested dictionaries of strings; here it is  *)
(* the set of its entries, each from a place - an endpoint of a connector  *)
(* - to another.  The inbound side of a router faces the channels, its     *)
(* outbound side the conversations.                                        *)
(***************************************************************************)
EXTENDS FiniteSets

CONSTANTS
  Conversations, Routers, Tags,   \* keys of an account's objects
  Endpoints,
  NoKey                           \* a connector there is only one of

ASSUME RoutingTableAssumption == "default" \in Endpoints

-----------------------------------------------------------------------------
Flip(direction) == IF direction = "INBOUND" THEN "OUTBOUND" ELSE "INBOUND"

Connector(ctype, key, direction) ==
  [ctype |-> ctype, key |-> key, direction |-> direction]

Conversation(c)      == Connector("CONVERSATION", c, "INBOUND")
Router(r, direction) == Connector("ROUTER", r, direction)
TransportTag(t)      == Connector("TRANSPORT_TAG", t, "OUTBOUND")
OptOut               == Connector("OPT_OUT", NoKey, "INBOUND")
Billing(direction)   == Connector("BILLING", NoKey, direction)

FlipDirection(conn) == Router(conn.key, Flip(conn.direction))

\* What an account's table may link: conversations, routers and channels.
RouterConnectors == {Router(r, d) : r \in Routers, d \in {"INBOUND", "OUTBOUND"}}
Connectors == RouterConnectors \union {Conversation(c) : c \in Conversations}
              \union {TransportTag(t) : t \in Tags}

Place(conn, ep) == [conn |-> conn, ep |-> ep]
Places == [conn : Connectors, ep : Endpoints]

\* validate_entry: an entry links connectors of opposite directions.
Validated(entry) == entry.src.conn.direction # entry.dst.conn.direction
Entries == {entry \in [src : Places, dst : Places] : Validated(entry)}

\* The tables add_entry can build: a dictionary has one target per source.
Tables == {table \in SUBSET Entries :
             \A e, f \in table : e.src = f.src => e = f}

-----------------------------------------------------------------------------
LookupTarget(table, place) == {e.dst : e \in {f \in table : f.src = place}}
LookupTargets(table, conn) == {e.dst.conn : e \in {f \in table : f.src.conn = conn}}
LookupSources(table, conn) == {e.src.conn : e \in {f \in table : f.dst.conn = conn}}

\* A source has one target: an entry takes the place of the one before.
AddEntry(table, entry) == {e \in table : e.src # entry.src} \union {entry}

RemoveEntry(table, place) == {e \in table : e.src # place}

\* lookup_source returns one source of the endpoint, whichever the dictionary
\* yields first, and only that one is removed: the set of possible outcomes.
RemoveEndpoint(table, place) ==
  LET sources == {e.src : e \in {f \in table : f.dst = place}}
  IN IF sources = {} THEN {RemoveEntry(table, place)}
     ELSE {RemoveEntry(RemoveEntry(table, src), place) : src \in sources}

RemoveConnector(table, conn) ==
  {e \in table : e.src.conn # conn /\ e.dst.conn # conn}

RemoveRouter(table, r) ==
  RemoveConnector(RemoveConnector(table, Router(r, "INBOUND")), Router(r, "OUTBOUND"))

\* The connectors a table mentions.
Linked(table) == {e.src.conn : e \in table} \union {e.dst.conn : e \in table}
=============================================================================
