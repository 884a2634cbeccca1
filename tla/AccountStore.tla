---------------------------- MODULE AccountStore ----------------------------
(***************************************************************************)
(* The user account object in Riak, the tag pool in Redis and the          *)
(* operations that read the one, change it in memory and save it whole:    *)
(* acquiring and releasing tags, archiving, editing, replacing the routing *)
(* table (go/vumitools/api.py, conversation/utils.py, the go_api worker,   *)
(* the management command).                                                *)
(*                                                                         *)
(* A job is one web request, task or command.  Each step of it is one      *)
(* request to a store; what it changes in memory it changes at the step    *)
(* that loaded the object.                                                 *)
(***************************************************************************)
EXTENDS RoutingTable, Naturals, Sequences, SequencesExt

CONSTANTS
  Accounts, Jobs, Nobody,
  OwnerOf,          \* the account of each conversation and router
  Operations,       \* what jobs there are
  TableChoices,     \* the tables users ask for
  EntryChoices,     \* the entries the management command is given
  Faults,           \* may a job die between two steps
  MaxStarted        \* bound on the jobs of a behaviour

ASSUME AccountsAssumption ==
  /\ Nobody \notin Accounts
  /\ OwnerOf \in [Conversations \union Routers -> Accounts]
  /\ Conversations \intersect Routers = {}
  /\ TableChoices \subseteq Tables /\ EntryChoices \subseteq Entries
  /\ Faults \in BOOLEAN /\ MaxStarted \in Nat

VARIABLES
  account,          \* per account, its tags and routing table as saved
  owner,            \* the user_account in the tag_info of each tag
  free,             \* the tag pool: tags not in use
  object,           \* per conversation and router, archived and endpoints as saved
  job,
  started,
  died              \* history: a job died on its way

vars == <<account, owner, free, object, job, started, died>>

Keys == Conversations \union Routers
Idle == [op |-> "none", acct |-> Nobody, arg |-> NoKey, at |-> "idle",
         copy |-> NoKey, obj |-> NoKey]
AtRest == \A j \in Jobs : job[j] = Idle

Listed(t, a) == t \in ToSet(account[a].tags)
ConnectorsOf(k) == IF k \in Conversations THEN {Conversation(k)}
                   ELSE {Router(k, "INBOUND"), Router(k, "OUTBOUND")}

\* What validate_routing_table accepts in the table of a.
Own(a) ==
  {TransportTag(t) : t \in ToSet(account[a].tags)}
  \union UNION {ConnectorsOf(k) : k \in {l \in Keys : OwnerOf[l] = a /\ ~object[l].archived}}

\* The endpoints the go_api worker knows of.
KnownPlaces(a) ==
  {p \in [conn : Own(a), ep : Endpoints] :
     /\ p.conn.ctype = "CONVERSATION" => p.ep \in object[p.conn.key].endpoints
     /\ p.conn.ctype = "TRANSPORT_TAG" => p.ep = "default"}

-----------------------------------------------------------------------------
Becomes(j, r) == job' = [job EXCEPT ![j] = r]
Advanced(r, at) == [r EXCEPT !.at = at]
Moves(j, at) == Becomes(j, Advanced(job[j], at))
Ends(j) == Becomes(j, Idle)

Starts(j, op, a, arg, at, obj) ==
  /\ job[j] = Idle /\ op \in Operations
  /\ started < MaxStarted /\ started' = started + 1
  /\ Becomes(j, [op |-> op, acct |-> a, arg |-> arg, at |-> at, copy |-> NoKey, obj |-> obj])
  /\ UNCHANGED <<account, owner, free, object, died>>

Loading(j, op) == job[j].at = "load" /\ job[j].op = op
Stored(j) == account[job[j].acct]

\* A job loads its account, changes its copy and goes on.
Loads(j, copy, at) ==
  /\ Becomes(j, Advanced([job[j] EXCEPT !.copy = copy], at))
  /\ UNCHANGED <<account, owner, free, object, started, died>>

\* (Fault for the mutation runs: a release ends here.)
SaveEnds(j) == IF job[j].op = "configure" THEN "save_object" ELSE "end"
AfterSave(j) ==
  CASE job[j].op = "release" -> "free"
    [] job[j].op = "configure" -> "save_object"
    [] OTHER -> "end"

\* account.save(): the whole object, whatever happened to it since.
SaveAccount(j) ==
  /\ job[j].at = "save"
  /\ account' = [account EXCEPT ![job[j].acct] = job[j].copy]
  /\ IF AfterSave(j) = "end" THEN Ends(j) ELSE Moves(j, AfterSave(j))
  /\ UNCHANGED <<owner, free, object, started, died>>

-----------------------------------------------------------------------------
(* acquire_tag and acquire_specific_tag. *)
StartAcquire(j, a, t) == Starts(j, "acquire", a, t, "load", NoKey)

LoadToAcquire(j) ==
  /\ Loading(j, "acquire")
  /\ Loads(j, [Stored(j) EXCEPT !.tags = Append(@, job[j].arg)], "acquire")

Available(t) == t \in free

AcquireFromPool(j) ==
  /\ job[j].at = "acquire"
  /\ IF Available(job[j].arg) THEN Moves(j, "own") ELSE Ends(j)
  /\ free' = free \ {job[j].arg}
  /\ UNCHANGED <<account, owner, object, started, died>>

OwnTag(j) ==
  /\ job[j].at = "own"
  /\ owner' = [owner EXCEPT ![job[j].arg] = job[j].acct]
  /\ Moves(j, "save")
  /\ UNCHANGED <<account, free, object, started, died>>

(* release_tag.  A channel view shows the tags the account lists. *)
StartRelease(j, a, t) == Listed(t, a) /\ Starts(j, "release", a, t, "load", NoKey)

RemoveTransportTag(table, t) == RemoveConnector(table, TransportTag(t))

\* A tag that is not listed is logged, and given back to the pool all the same.
LoadToRelease(j) ==
  /\ Loading(j, "release")
  /\ LET t == job[j].arg IN
     IF Listed(t, job[j].acct)
     THEN Loads(j, [tags |-> RemoveFirst(Stored(j).tags, t),
                    table |-> RemoveTransportTag(Stored(j).table, t)], "disown")
     ELSE Loads(j, NoKey, "free")

\* (Fault for the mutation runs: the tag info keeps its account.)
KeepOwner(t) == owner
Disowned(t) == [owner EXCEPT ![t] = Nobody]

DisownTag(j) ==
  /\ job[j].at = "disown"
  /\ owner' = Disowned(job[j].arg)
  /\ Moves(j, "save")
  /\ UNCHANGED <<account, free, object, started, died>>

FreeTag(j) ==
  /\ job[j].at = "free"
  /\ free' = free \union {job[j].arg}
  /\ Ends(j)
  /\ UNCHANGED <<account, owner, object, started, died>>

-----------------------------------------------------------------------------
(* Views load the conversation or router they are about before they act. *)
SaveObject(j) ==
  /\ job[j].at = "save_object"
  /\ object' = [object EXCEPT ![job[j].arg] = job[j].obj.model]
  /\ IF job[j].op = "archive" THEN Moves(j, "load") ELSE Ends(j)
  /\ UNCHANGED <<account, owner, free, started, died>>

(* archive_conversation, archive_router. *)
StartArchive(j, k) ==
  Starts(j, "archive", OwnerOf[k], k, "save_object",
         [model |-> [object[k] EXCEPT !.archived = TRUE], detached |-> {}])

RemoveKey(table, k) ==
  IF k \in Routers THEN RemoveRouter(table, k) ELSE RemoveConnector(table, Conversation(k))

LoadToArchive(j) ==
  /\ Loading(j, "archive")
  /\ Loads(j, [Stored(j) EXCEPT !.table = RemoveKey(@, job[j].arg)], "save")

(* update_config: an edit that adds an endpoint or takes one away.  The     *)
(* entries go with it, the account is saved, then the conversation.         *)
StartConfigure(j, c, ep) ==
  LET known == object[c].endpoints IN
  /\ ep # "default"
  /\ Starts(j, "configure", OwnerOf[c], c, "load",
            [model |-> [object[c] EXCEPT !.endpoints =
                          IF ep \in @ THEN @ \ {ep} ELSE @ \union {ep}],
             detached |-> known \intersect {ep}])

\* detach_removed_endpoints.
Detach(table, c, removed) ==
  IF removed = {} THEN {table}
  ELSE UNION {RemoveEndpoint(table, Place(Conversation(c), ep)) : ep \in removed}

LoadToConfigure(j) ==
  /\ Loading(j, "configure")
  /\ LET c == job[j].arg IN
     \E table \in Detach(Stored(j).table, c, job[j].obj.detached) :
       Loads(j, [Stored(j) EXCEPT !.table = table], "save")

(* jsonrpc_update_routing_table checks the table it is given against the   *)
(* channels, routers and conversations, then loads the account.            *)
Checked(a, t) == \A e \in t : {e.src, e.dst} \subseteq KnownPlaces(a)

StartUpdate(j, a, t) == Checked(a, t) /\ Starts(j, "update", a, t, "load", NoKey)

LoadToUpdate(j) ==
  /\ Loading(j, "update")
  /\ Loads(j, [Stored(j) EXCEPT !.table = job[j].arg], "save")

(* go_manage_routing_table: add, remove, clear.  What is saved is validated *)
(* against the stores, not against the copy.                                *)
StartManage(j, a, op, entry) ==
  Starts(j, "manage", a, [op |-> op, entry |-> entry], "load", NoKey)

LoadToManage(j) ==
  /\ Loading(j, "manage")
  /\ LET op == job[j].arg.op
         entry == job[j].arg.entry
         stored == Stored(j)
     IN \/ /\ op = "add"
           /\ Loads(j, [stored EXCEPT !.table = AddEntry(@, entry)], "validate")
        \/ /\ op = "remove" /\ entry \in stored.table
           /\ Loads(j, [stored EXCEPT !.table = RemoveEntry(@, entry.src)], "validate")
        \/ /\ op = "remove" /\ entry \notin stored.table
           /\ Ends(j) /\ UNCHANGED <<account, owner, free, object, started, died>>
        \/ /\ op = "clear"
           /\ Loads(j, [stored EXCEPT !.table = {}], "save")

ValidateTable(j) ==
  /\ job[j].at = "validate"
  /\ IF Linked(job[j].copy.table) \subseteq Own(job[j].acct) THEN Moves(j, "save") ELSE Ends(j)
  /\ UNCHANGED <<account, owner, free, object, started, died>>

(* update_account_details: other fields of the same object. *)
StartDetails(j, a) == Starts(j, "details", a, NoKey, "load", NoKey)
LoadToDetails(j) == Loading(j, "details") /\ Loads(j, Stored(j), "save")

\* The process of a job dies.
Die(j) ==
  /\ Faults /\ job[j] # Idle /\ Ends(j)
  /\ died' = TRUE
  /\ UNCHANGED <<account, owner, free, object, started>>

-----------------------------------------------------------------------------
Init ==
  /\ account = [a \in Accounts |-> [tags |-> <<>>, table |-> {}]]
  /\ owner = [t \in Tags |-> Nobody] /\ free = Tags
  /\ object = [k \in Keys |-> [archived |-> FALSE, endpoints |-> {"default"}]]
  /\ job = [j \in Jobs |-> Idle] /\ started = 0 /\ died = FALSE

TagSteps(j) ==
  \/ LoadToAcquire(j) \/ AcquireFromPool(j) \/ OwnTag(j)
  \/ LoadToRelease(j) \/ DisownTag(j) \/ FreeTag(j)

TableSteps(j) ==
  \/ LoadToArchive(j) \/ LoadToConfigure(j) \/ LoadToUpdate(j) \/ LoadToManage(j)
  \/ ValidateTable(j) \/ LoadToDetails(j)

Start(j) ==
  \/ \E a \in Accounts, t \in Tags : StartAcquire(j, a, t) \/ StartRelease(j, a, t)
  \/ \E k \in Keys : StartArchive(j, k)
  \/ \E c \in Conversations, ep \in Endpoints : StartConfigure(j, c, ep)
  \/ \E a \in Accounts, t \in TableChoices : StartUpdate(j, a, t)
  \/ \E a \in Accounts, op \in {"add", "remove", "clear"}, e \in EntryChoices :
       StartManage(j, a, op, e)
  \/ \E a \in Accounts : StartDetails(j, a)

Next ==
  \E j \in Jobs :
    Start(j) \/ TagSteps(j) \/ TableSteps(j) \/ SaveAccount(j) \/ SaveObject(j) \/ Die(j)

Spec == Init /\ [][Next]_vars

-----------------------------------------------------------------------------
Steps == {"idle", "load", "acquire", "own", "disown", "save", "free", "save_object", "validate"}

(* The variables have the types the code gives them. *)
TypeOK ==
  /\ \A a \in Accounts : account[a].tags \in Seq(Tags) /\ account[a].table \in Tables
  /\ owner \in [Tags -> Accounts \union {Nobody}] /\ free \subseteq Tags
  /\ object \in [Keys -> [archived : BOOLEAN, endpoints : SUBSET Endpoints]]
  /\ \A j \in Jobs :
       /\ job[j].at \in Steps
       /\ job[j].at = "idle" <=> job[j] = Idle
       /\ job[j].acct \in Accounts \union {Nobody}
       /\ job[j].at = "save" => job[j].copy.table \in Tables
  /\ started \in 0..MaxStarted /\ died \in BOOLEAN

Copies(t, a) == Cardinality({i \in DOMAIN account[a].tags : account[a].tags[i] = t})

(* When jobs run one at a time to their end, the three books of tags agree *)
(* between them: a tag is free, named by no tag info and listed by no      *)
(* account, or taken, and the account its tag info names lists it once and *)
(* no other does.                                                          *)
TagBooksAgree ==
  AtRest /\ ~died => \A t \in Tags :
    /\ t \in free <=> owner[t] = Nobody
    /\ \A a \in Accounts : Copies(t, a) = IF owner[t] = a THEN 1 ELSE 0

(* When jobs run one at a time to their end, a saved table links only what *)
(* its account has: tags it lists, conversations and routers not archived. *)
TableLinksOwn ==
  AtRest /\ ~died => \A a \in Accounts : Linked(account[a].table) \subseteq Own(a)

(* Wherever one job at a time dies, the pool never hands out a tag that    *)
(* some account still lists or routes by, or that a tag info names: a      *)
(* release gives the tag back last, an acquisition takes it first.         *)
FreeTagsAreNobodys ==
  \A t \in free : /\ owner[t] = Nobody
                 /\ \A a \in Accounts : ~Listed(t, a)
                                       /\ TransportTag(t) \notin Linked(account[a].table)

(* No two accounts list a tag, and none lists it twice. *)
TagHeldByOne ==
  \A t \in Tags : \A a, b \in Accounts :
    Listed(t, a) /\ Listed(t, b) => a = b /\ Copies(t, a) = 1

\* A job between two steps of taking or giving back t.
BusyWith(j, t) == job[j].arg = t /\ job[j].at \in {"own", "save", "free"}

(* However many jobs acquire and release the same tags at once, a tag that *)
(* is not in the pool is never lost: its tag info names the account that   *)
(* its messages are routed for, or a job is still at work on it.  Only the *)
(* death of a job between two of its steps loses one.                      *)
NoTagIsLost ==
  ~died => \A t \in Tags : t \notin free => owner[t] # Nobody \/ \E j \in Jobs : BusyWith(j, t)
=============================================================================
