-------------------------- MODULE ContactMigrations --------------------------
(***************************************************************************)
(* The versions of a contact.  Loading brings what is stored to the latest *)
(* version, in which addresses are indexed; only saving stores it, so a    *)
(* script loads and saves every contact of an account.  Users change and   *)
(* delete contacts meanwhile, and what is saved is the whole contact.      *)
(***************************************************************************)
EXTENDS Naturals

CONSTANTS
  Contacts, Procs, Values,
  MaxJobs,             \* bound on the changes, deletions and migrations
  MaxDeaths,           \* bound on the processes that die
  Nothing

Fields == {"msisdn", "wechat_id"}
Addresses == [Fields -> Values \union {Nothing}]
ContactState == [version : 0..2, values : Addresses, index : Addresses]

ContactMigrationsConstants ==
  {MaxJobs, MaxDeaths} \subseteq Nat /\ Nothing \notin Values \union ContactState

VARIABLES
  stored,              \* the contacts in Riak
  job,                 \* the processes: what they do to which contact, and the copy they loaded
  started, deaths,
  listed,              \* history: contacts the script has been through
  truth,               \* history: the addresses last saved
  excused              \* history: contacts saved or deleted while another process had a copy

vars == <<stored, job, started, deaths, listed, truth, excused>>

NoneSet == [f \in Fields |-> Nothing]
Idle == [at |-> "idle", does |-> Nothing, contact |-> Nothing, copy |-> Nothing]

Contact(version, values, index) == [version |-> version, values |-> values, index |-> index]

\* ContactVNone has no wechat_id, ContactV1 no index on the addresses.
ContactOf(version, msisdn, wechat_id) ==
  LET values == [f \in Fields |-> IF f = "msisdn" THEN msisdn
                                  ELSE IF version = 0 THEN Nothing ELSE wechat_id] IN
  Contact(version, values, IF version = 2 THEN values ELSE NoneSet)

MigrateFromUnversioned(c) == Contact(1, [c.values EXCEPT !["wechat_id"] = Nothing], c.index)
MigrateFrom1(c) == Contact(2, c.values, c.values)

Loaded(c) == IF c.version = 0 THEN MigrateFrom1(MigrateFromUnversioned(c))
             ELSE IF c.version = 1 THEN MigrateFrom1(c) ELSE c
WasMigrated(c) == c.version # 2

\* contact_for_addr with FIND_BY_INDEX, and without the search it may fall back on
ContactsForAddr(field, value) ==
  {k \in Contacts : stored[k] # Nothing /\ stored[k].index[field] = value}

Others(p, k) == \E q \in Procs \ {p} : job[q].at = "loaded" /\ job[q].contact = k

\* A contact is changed or deleted by a user, or migrated by the script.
Load(p, k, does) ==
  /\ job[p].at = "idle" /\ started < MaxJobs /\ started' = started + 1
  /\ IF stored[k] = Nothing \/ (does = "migrate" /\ ~WasMigrated(stored[k])) THEN UNCHANGED job
     ELSE job' = [job EXCEPT ![p] = [at |-> "loaded", does |-> does, contact |-> k,
                                     copy |-> Loaded(stored[k])]]
  /\ listed' = IF does = "migrate" /\ job' = job THEN listed \union {k} ELSE listed
  /\ UNCHANGED <<stored, deaths, truth, excused>>

\* What others have in hand by now is older.
Finish(p) ==
  LET k == job[p].contact IN
  /\ job' = [job EXCEPT ![p] = Idle]
  /\ excused' = IF Others(p, k) THEN excused \union {k} ELSE excused
  /\ UNCHANGED <<started, deaths>>

\* The descriptor of the field sets the value and its index.
WithAddress(c, f, v) == Contact(c.version, [c.values EXCEPT ![f] = v], [c.index EXCEPT ![f] = v])

Change(p, f, v) ==
  LET k == job[p].contact IN
  /\ job[p].at = "loaded" /\ job[p].does = "change"
  /\ stored' = [stored EXCEPT ![k] = WithAddress(job[p].copy, f, v)]
  /\ truth' = [truth EXCEPT ![k][f] = v]
  /\ Finish(p) /\ UNCHANGED listed

Delete(p) ==
  LET k == job[p].contact IN
  /\ job[p].at = "loaded" /\ job[p].does = "delete"
  /\ stored' = [stored EXCEPT ![k] = Nothing] /\ truth' = [truth EXCEPT ![k] = NoneSet]
  /\ Finish(p) /\ UNCHANGED listed

\* migrate_contact: saved as it was loaded
Migrate(p) ==
  LET k == job[p].contact IN
  /\ job[p].at = "loaded" /\ job[p].does = "migrate"
  /\ stored' = [stored EXCEPT ![k] = job[p].copy] /\ listed' = listed \union {k}
  /\ Finish(p) /\ UNCHANGED truth

Die(p) ==
  /\ job[p].at # "idle" /\ deaths < MaxDeaths /\ deaths' = deaths + 1
  /\ job' = [job EXCEPT ![p] = Idle]
  /\ UNCHANGED <<stored, started, listed, truth, excused>>

\* Contacts that the releases so far have stored
Init ==
  /\ \E version \in [Contacts -> 0..2], msisdn \in [Contacts -> Values], wechat_id \in [Contacts -> Values \union {Nothing}] :
       stored = [k \in Contacts |-> ContactOf(version[k], msisdn[k], wechat_id[k])]
  /\ job = [p \in Procs |-> Idle] /\ started = 0 /\ deaths = 0
  /\ listed = {} /\ truth = [k \in Contacts |-> stored[k].values] /\ excused = {}

Next ==
  \E p \in Procs :
    \/ \E k \in Contacts, does \in {"change", "delete", "migrate"} : Load(p, k, does)
    \/ \E f \in Fields, v \in Values : Change(p, f, v)
    \/ Delete(p) \/ Migrate(p) \/ Die(p)

Spec == Init /\ [][Next]_vars
-----------------------------------------------------------------------------
(* A contact has the addresses last saved for it, in whatever version it   *)
(* is stored and however often it is loaded and saved, and those the       *)
(* script has been through are found by each of them; unless it was saved  *)
(* or deleted while another process had a copy.                            *)
MigrationKeepsAddresses ==
  \A k \in Contacts \ excused :
    LET values == IF stored[k] = Nothing THEN NoneSet ELSE Loaded(stored[k]).values IN
    /\ values = truth[k]
    /\ k \in listed => \A f \in Fields : values[f] # Nothing => k \in ContactsForAddr(f, values[f])
=============================================================================
