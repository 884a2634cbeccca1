--------------------------- MODULE AccountSettings ---------------------------
(***************************************************************************)
(* The settings in the record of a user account: flags, the e-mail summary *)
(* and the permissions to use applications and tag pools.  Forms, admin    *)
(* pages and commands load the record, change it and save it whole, while  *)
(* a new release is rolled out: its migrators bring old records up to date *)
(* and, as long as the old release runs too, reverse what is stored.       *)
(***************************************************************************)
EXTENDS Naturals

CONSTANTS
  Procs,         \* processes of both releases
  Keys,          \* of permissions
  MaxJobs, MaxDeaths,   \* bounds
  Nothing

Old == 5   \* UserAccountV5, the release being replaced
New == 6   \* UserAccount
OptOutFlags == {"can_manage_optouts", "disable_optouts"}
Flags == OptOutFlags \union {"is_developer"}
Fields == OptOutFlags \union {"flags", "email_summary", "tags", "routing_table", "applications", "tagpools"}

SettingsConstants ==
  /\ {MaxJobs, MaxDeaths} \subseteq Nat
  /\ Nothing # {} /\ Nothing \notin BOOLEAN /\ Nothing \notin {"application", "tagpool"}

VARIABLES
  stored,        \* the account in Riak: its version and fields
  permissions,   \* key -> what the permission is for, Nothing if there is none
  releases,      \* the releases that run
  storing,       \* store_versions of the new one
  job,           \* what each process does, with the account it loaded
  started, deaths,
  flagged, summary      \* history: opt-out flags and summary as last saved

vars == <<stored, permissions, releases, storing, job, started, deaths, flagged, summary>>

-----------------------------------------------------------------------------
(* The migrators.  Fields that all of them copy alike are left out; Nothing *)
(* is null, and a field the version does not have.                         *)
CopyValues(data, names) == [f \in Fields |-> IF f \in names THEN data[f] ELSE Nothing]
With(data, field, value) == [data EXCEPT ![field] = value]
CopyIndexes == {"applications", "tagpools"}
Unchanged == CopyIndexes \union {"tags", "routing_table"}

\* tags and routing_table: "We populate this later"
MigrateFromUnversioned(data) == CopyValues(data, CopyIndexes)
MigrateFrom1(data) == CopyValues(data, CopyIndexes \union {"tags"})
NoNull(value) == IF value = Nothing THEN {} ELSE value
MigrateFrom2(data) ==
  With(With(CopyValues(data, Unchanged), "tags", NoNull(data.tags)), "routing_table", NoNull(data.routing_table))
MigrateFrom3(data) == With(CopyValues(data, Unchanged), "can_manage_optouts", FALSE)
MigrateFrom4(data) ==
  With(CopyValues(data, Unchanged \union {"can_manage_optouts"}), "disable_optouts", FALSE)
MigrateFrom5(data) == With(CopyValues(data, Unchanged), "flags", {f \in OptOutFlags : data[f]})

ReverseFrom6(data) ==
  With(With(CopyValues(data, Unchanged), "can_manage_optouts", "can_manage_optouts" \in data.flags),
       "disable_optouts", "disable_optouts" \in data.flags)

\* What a release makes of a record; it has no migrator for a newer one.
Loads(release, rec) == rec.version <= release
LoadAs(release, rec) ==
  LET to1 == IF rec.version = 0 THEN MigrateFromUnversioned(rec.data) ELSE rec.data
      to2 == IF rec.version < 2 THEN MigrateFrom1(to1) ELSE rec.data
      to3 == IF rec.version < 3 THEN MigrateFrom2(to2) ELSE rec.data
      to4 == IF rec.version < 4 THEN MigrateFrom3(to3) ELSE rec.data
      to5 == IF rec.version < 5 THEN MigrateFrom4(to4) ELSE rec.data
      to6 == IF rec.version < 6 THEN MigrateFrom5(to5) ELSE rec.data
  IN IF release = Old THEN to5 ELSE to6

StoreAs(release, data) ==
  IF release = New /\ storing = Old THEN [version |-> Old, data |-> ReverseFrom6(data)]
  ELSE [version |-> release, data |-> data]

FlagsOf(release, data) == IF release = New THEN data.flags ELSE {f \in OptOutFlags : data[f]}

-----------------------------------------------------------------------------
(* Jobs: each loads the account, with the permissions its command reads,   *)
(* changes it, and saves it.                                               *)
Idle(p) == job[p] = Nothing
Existing(data, field) == {k \in data[field] : permissions[k] # Nothing}
Ready(p) == ~Idle(p) /\ ~job[p].done
AccountsData == {stored.data} \union {job[p].data : p \in {q \in Procs : ~Idle(q)}}
\* permission, = ...: exactly one
IsOne(keys) == \E k \in Keys : keys = {k}
Fresh(k) == permissions[k] = Nothing /\ \A data \in AccountsData : k \notin data.applications \union data.tagpools

Job(release, data, done, apps, pools) ==
  [release |-> release, data |-> data, done |-> done, apps |-> apps, pools |-> pools]

Load(p, release) ==
  /\ Idle(p) /\ started < MaxJobs /\ started' = started + 1 /\ release \in releases
  /\ Loads(release, stored)
  /\ LET data == LoadAs(release, stored) IN
       job' = [job EXCEPT ![p] =
                 Job(release, data, FALSE, Existing(data, "applications"), Existing(data, "tagpools"))]
  /\ UNCHANGED <<stored, permissions, releases, storing, deaths, flagged, summary>>

Changed(p, data) == job' = [job EXCEPT ![p] = Job(@.release, data, TRUE, @.apps, @.pools)]

UpdateDetails(p, email_summary) ==
  /\ Ready(p) /\ Changed(p, With(job[p].data, "email_summary", email_summary))
  /\ UNCHANGED <<stored, permissions, releases, storing, started, deaths, flagged, summary>>

\* a field of the old release; of the new one a flag property
SetFlag(p, flag, value) ==
  /\ Ready(p) /\ (job[p].release = Old => flag \in OptOutFlags)
  /\ LET data == job[p].data IN
       Changed(p, IF job[p].release = Old THEN With(data, flag, value)
                  ELSE With(data, "flags", IF value THEN data.flags \union {flag} ELSE data.flags \ {flag}))
  /\ UNCHANGED <<stored, permissions, releases, storing, started, deaths, flagged, summary>>

(* Fault for the mutation runs: nobody looks for the permission first.     *)
AlwaysNew(existing) == TRUE
NotYet(existing) == existing = {}

EnableApplication(p, k) ==
  /\ Ready(p) /\ NotYet(job[p].apps) /\ Fresh(k)
  /\ permissions' = [permissions EXCEPT ![k] = "application"]
  /\ Changed(p, With(job[p].data, "applications", job[p].data.applications \union {k}))
  /\ UNCHANGED <<stored, releases, storing, started, deaths, flagged, summary>>

DisableApplication(p) ==
  /\ Ready(p) /\ IsOne(job[p].apps)
  /\ Changed(p, With(job[p].data, "applications", job[p].data.applications \ job[p].apps))
  /\ UNCHANGED <<stored, permissions, releases, storing, started, deaths, flagged, summary>>

ProcessCreatePermission(p, k) ==
  /\ Ready(p) /\ job[p].pools = {} /\ Fresh(k)
  /\ permissions' = [permissions EXCEPT ![k] = "tagpool"]
  /\ Changed(p, With(job[p].data, "tagpools", job[p].data.tagpools \union {k}))
  /\ UNCHANGED <<stored, releases, storing, started, deaths, flagged, summary>>

\* The account is not saved; a permission removed meanwhile is back.
ProcessUpdatePermission(p) ==
  /\ Ready(p) /\ IsOne(job[p].pools)
  /\ permissions' = [k \in Keys |-> IF k \in job[p].pools THEN "tagpool" ELSE permissions[k]]
  /\ job' = [job EXCEPT ![p] = Nothing]
  /\ UNCHANGED <<stored, releases, storing, started, deaths, flagged, summary>>

\* The account keeps the key of the permission.
ProcessRemovePermission(p) ==
  /\ Ready(p) /\ IsOne(job[p].pools)
  /\ permissions' = [k \in Keys |-> IF k \in job[p].pools THEN Nothing ELSE permissions[k]]
  /\ job' = [job EXCEPT ![p] = Nothing]
  /\ UNCHANGED <<stored, releases, storing, started, deaths, flagged, summary>>

\* account.save(), of the whole record
Save(p) ==
  /\ ~Idle(p) /\ job[p].done
  /\ stored' = StoreAs(job[p].release, job[p].data)
  /\ flagged' = FlagsOf(job[p].release, job[p].data) \intersect OptOutFlags
  /\ summary' = job[p].data.email_summary
  /\ job' = [job EXCEPT ![p] = Nothing]
  /\ UNCHANGED <<permissions, releases, storing, started, deaths>>

\* The old release runs alone, both, the new one storing as the old one, and alone.
RollOut ==
  /\ \/ releases = {Old} /\ releases' = {Old, New} /\ UNCHANGED storing
     \/ /\ releases = {Old, New} /\ \A p \in Procs : ~Idle(p) => job[p].release = New
        /\ releases' = {New} /\ UNCHANGED storing
     \/ releases = {New} /\ storing = Old /\ storing' = New /\ UNCHANGED releases
  /\ UNCHANGED <<stored, permissions, job, started, deaths, flagged, summary>>

Die(p) ==
  /\ ~Idle(p) /\ deaths < MaxDeaths /\ deaths' = deaths + 1
  /\ job' = [job EXCEPT ![p] = Nothing]
  /\ UNCHANGED <<stored, permissions, releases, storing, started, flagged, summary>>

\* What the models of the releases so far declare: a null value is one that was migrated.
AccountVNone == [f \in Fields |-> IF f \in CopyIndexes THEN {} ELSE Nothing]
AccountV1(tags) == With(AccountVNone, "tags", tags)
AccountV2(table) == With(AccountV1(table), "routing_table", table)
AccountV3 == AccountV2({})
AccountV4(flags) == With(AccountV3, "can_manage_optouts", "can_manage_optouts" \in flags)
AccountV5(flags) == With(AccountV4(flags), "disable_optouts", "disable_optouts" \in flags)

\* An account as the store of some release made it, or an earlier migrator left it.
Created(version, null, flags) ==
  [version |-> version, data |->
     CASE version = 0 -> AccountVNone [] version = 1 -> AccountV1(null) [] version = 2 -> AccountV2(null)
       [] version = 3 -> AccountV3 [] version = 4 -> AccountV4(flags) [] version = 5 -> AccountV5(flags)]

Init ==
  /\ \E version \in 0..Old, tags \in {Nothing, {}}, flags \in SUBSET OptOutFlags :
       /\ stored = Created(version, tags, flags)
       /\ flagged = {f \in OptOutFlags : stored.data[f] = TRUE}
  /\ permissions = [k \in Keys |-> Nothing]
  /\ releases = {Old} /\ storing = Old /\ job = [p \in Procs |-> Nothing]
  /\ started = 0 /\ deaths = 0 /\ summary = Nothing

Next ==
  \/ \E p \in Procs :
       \/ \E release \in {Old, New} : Load(p, release)
       \/ \E email_summary \in {"never", "daily"} : UpdateDetails(p, email_summary)
       \/ \E flag \in Flags, value \in BOOLEAN : SetFlag(p, flag, value)
       \/ \E k \in Keys : EnableApplication(p, k) \/ ProcessCreatePermission(p, k)
       \/ DisableApplication(p) \/ ProcessUpdatePermission(p) \/ ProcessRemovePermission(p)
       \/ Save(p) \/ Die(p)
  \/ RollOut

Spec == Init /\ [][Next]_vars
-----------------------------------------------------------------------------
(* An opt-out flag that was saved last, by whichever release, is what any  *)
(* release that runs then finds, whatever version it is stored in; every   *)
(* one of them can load the account, and finds no null where the model     *)
(* allows none.                                                            *)
OptOutFlagsSurvive ==
  \A release \in releases :
    LET data == LoadAs(release, stored) IN
      /\ Loads(release, stored) /\ data.tags # Nothing /\ data.routing_table # Nothing
      /\ FlagsOf(release, data) \intersect OptOutFlags = flagged

(* An account never has two permissions for an application: the command    *)
(* that withdraws it unpacks exactly one.                                  *)
OnePermissionEach ==
  \A k, l \in stored.data.applications :
    permissions[k] = "application" /\ permissions[l] = "application" => k = l

(* "Copy stuff that hasn't changed between versions": the interval of the  *)
(* e-mail summary is in every version since 2, and is what was saved last. *)
SummaryKept == \A release \in releases : LoadAs(release, stored).email_summary = summary
=============================================================================
