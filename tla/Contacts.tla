------------------------------ MODULE Contacts ------------------------------
(***************************************************************************)
(* Contacts, groups and opt-outs of one account in Riak, and who reads and *)
(* writes them: ContactStore and OptOutStore (go/vumitools/contact,        *)
(* opt_out), the resources of the JavaScript sandbox (apps/jsbox), the     *)
(* views and background tasks of go/contacts, and the applications that    *)
(* look a sender up, record an opt-out or collect addresses to send to.    *)
(*                                                                         *)
(* A job is one sandbox command, web request, task or message.  Each step  *)
(* of it is one request to Riak; objects are saved whole.                  *)
(***************************************************************************)
EXTENDS Naturals, FiniteSets

CONSTANTS
  Keys, Groups,       \* the keys uuid4 will give to contacts and groups
  Jobs,
  Labels, Values,     \* labels of dynamic fields, and their values
  GroupNames,
  Senders,            \* pairs of a delivery class and an address
  Faults,             \* may a job die between two steps
  MaxStarted,         \* bound on the jobs of a behaviour, in turn,
  MaxRacing,          \*   and side by side
  MaxRows,            \* bound on the rows of an uploaded file
  ExportLimit,        \* CONTACT_EXPORT_TASK_LIMIT
  Racing,             \* what jobs may run side by side
  Nothing,            \* no object, no value
  Unknown             \* the msisdn of a contact that has none

Deliveries == {"sms", "gtalk", "carrier_pigeon"}
Addresses == [user : {s.addr.user : s \in Senders}, resource : BOOLEAN]

ContactsConstants ==
  /\ \A s \in Senders : s.delivery \in Deliveries /\ s.addr \in Addresses
  /\ Faults \in BOOLEAN /\ {MaxStarted, MaxRacing, MaxRows, ExportLimit} \subseteq Nat
  /\ Nothing \notin Values \union GroupNames \union Groups \union Keys
  /\ Nothing # Unknown /\ Addresses \intersect {Nothing, Unknown} = {}
  /\ IsFiniteSet(Keys) /\ Nothing \notin [name : GroupNames, smart : BOOLEAN]

VARIABLES
  contacts,           \* per key, the contact as saved
  groups,             \* per key, the group as saved
  opt_outs,           \* the opt-outs, pairs of an address type and an address
  used,               \* the keys given to contacts and groups so far
  job,
  together,           \* the jobs run side by side, not in turn
  started,
  undone              \* history: the contacts of imports that reported failure

vars == <<contacts, groups, opt_outs, used, job, together, started, undone>>
data == <<contacts, groups, opt_outs, used>>

-----------------------------------------------------------------------------
(* DELIVERY_CLASSES: the field that holds the addresses of a class. *)
Supported(delivery) == delivery \in {"sms", "gtalk"}
Field(delivery) == IF delivery = "gtalk" THEN "gtalk_id" ELSE "msisdn"

\* normalize_addr is handed the delivery class: its msisdn branch is never taken.
NormalizeAddr(delivery, addr) ==
  IF delivery = "gtalk" THEN [addr EXCEPT !.resource = FALSE] ELSE addr

NoFields == [l \in Labels |-> Nothing]
Blank(at) == [msisdn |-> Nothing, gtalk_id |-> Nothing, groups |-> {},
              extra |-> NoFields, subscription |-> NoFields, created_at |-> at]
ContactAt(field, addr, at) ==
  IF field = "msisdn" THEN [Blank(at) EXCEPT !.msisdn = addr]
                      ELSE [Blank(at) EXCEPT !.gtalk_id = addr, !.msisdn = Unknown]

AddrOf(c, delivery) == IF Field(delivery) = "msisdn" THEN c.msisdn ELSE c.gtalk_id

\* index_keys(field, value): Riak's secondary index.
Indexed(s) ==
  {k \in Keys : /\ contacts[k] # Nothing
                /\ AddrOf(contacts[k], s.delivery) = NormalizeAddr(s.delivery, s.addr)}

StaticMembers(g) == {k \in Keys : contacts[k] # Nothing /\ g \in contacts[k].groups}
\* The query of a smart group, standing for any: it asks for contacts with extras.
DynamicMembers(g) ==
  IF groups[g].smart THEN {k \in Keys : contacts[k] # Nothing /\ contacts[k].extra # NoFields} ELSE {}

\* get_contact_keys_for_group chains the pages of the search and of the index:
\* a contact may be in both.
MemberPages(g) == (StaticMembers(g) \X {"index"}) \union (DynamicMembers(g) \X {"search"})
Known(g) == groups[g] # Nothing

-----------------------------------------------------------------------------
Idle == [op |-> "none", at |-> "idle", sender |-> Nothing, key |-> Nothing, copy |-> Nothing,
         group |-> Nothing, label |-> Nothing, value |-> Nothing, todo |-> {}, rows |-> 0,
         made |-> {}, stood |-> {}]

Becomes(j, r) == job' = [job EXCEPT ![j] = r]
Moves(j, at) == Becomes(j, [job[j] EXCEPT !.at = at])
Ends(j) == Becomes(j, Idle)
Holding(r, k, c, at) == [r EXCEPT !.key = k, !.copy = c, !.at = at]

\* All kinds of jobs in turn, or some of them side by side.
MayStart(j, op) ==
  /\ job[j] = Idle /\ started' = started + 1
  /\ started < IF together THEN MaxRacing ELSE MaxStarted
  /\ IF together THEN op \in Racing ELSE \A i \in Jobs : job[i] = Idle

Starts(j, r) == MayStart(j, r.op) /\ Becomes(j, r) /\ UNCHANGED <<data, together, undone>>

-----------------------------------------------------------------------------
(* Look-ups by address: contacts.get, contacts.get_or_create, the group     *)
(* router, the subscription application and the end of a survey session.    *)
LookUps == {"get", "get_or_create", "route", "subscribe", "end_survey"}

StartLookUp(j, op, s, l, v) ==
  Starts(j, [Idle EXCEPT !.op = op, !.at = "query", !.sender = s, !.label = l, !.value = v])

QueryIndex(j) ==
  /\ job[j].at = "query"
  /\ IF Supported(job[j].sender.delivery)
     THEN Becomes(j, [job[j] EXCEPT !.todo = Indexed(job[j].sender), !.at = "load_found"])
     ELSE Ends(j)
  /\ UNCHANGED <<data, together, started, undone>>

\* What the subscription application and a survey write into the contact they got.
Subscribed(r, c) == [c EXCEPT !.subscription = [@ EXCEPT ![r.label] = r.value]]
\* The labels of the survey's questions are cleared first; here they are all labels.
Surveyed(r, c) == [c EXCEPT !.extra = [l \in Labels |-> IF l = r.label THEN r.value ELSE Nothing]]
Answered(r, c) == IF r.op = "subscribe" THEN Subscribed(r, c) ELSE Surveyed(r, c)

Newest(found) ==
  {k \in found : \A i \in found : contacts[i].created_at <= contacts[k].created_at}

\* contact_for_addr_field: the newest of the keys that can still be loaded.
LoadFound(j) ==
  LET r == job[j]
      found == {k \in r.todo : contacts[k] # Nothing}
  IN /\ r.at = "load_found" /\ found # {}
     /\ IF r.op \in {"subscribe", "end_survey"}
        THEN \/ \E k \in Newest(found) : Becomes(j, Holding(r, k, Answered(r, contacts[k]), "save"))
             \/ r.op = "subscribe" /\ Ends(j)         \* the keyword is not recognised
        ELSE Ends(j)
     /\ UNCHANGED <<data, together, started, undone>>

\* create=True builds a contact under the normal address and leaves the saving to the
\* caller; get_or_create has another request save one under the address as it came.
LoadNone(j) ==
  LET r == job[j]
      s == r.sender
  IN /\ r.at = "load_found" /\ \A k \in r.todo : contacts[k] = Nothing
     /\ \/ r.op \in {"get", "route", "subscribe"} /\ Ends(j) /\ UNCHANGED used
        \/ r.op = "get_or_create" /\ Moves(j, "new_for_addr") /\ UNCHANGED used
        \/ /\ r.op \in {"subscribe", "end_survey"}
           /\ \E k \in Keys \ used :
                /\ Becomes(j, Holding(r, k, Answered(r, ContactAt(Field(s.delivery),
                     NormalizeAddr(s.delivery, s.addr), started)), "save"))
                /\ used' = used \union {k}
     /\ UNCHANGED <<contacts, groups, opt_outs, together, started, undone>>

ContactForAddr(s) == ContactAt(Field(s.delivery), s.addr, started)

NewContactForAddr(j) ==
  LET s == job[j].sender IN
  /\ job[j].at = "new_for_addr"
  /\ \E k \in Keys \ used : /\ contacts' = [contacts EXCEPT ![k] = ContactForAddr(s)]
                            /\ used' = used \union {k}
  /\ Ends(j)
  /\ UNCHANGED <<groups, opt_outs, together, started, undone>>

-----------------------------------------------------------------------------
(* Commands, forms and views on one contact. *)
Edits == {"update", "update_extras", "update_subscriptions", "save", "person", "remove_member",
          "delete", "get_by_key"}

StartEdit(j, op, k, l, v, g) ==
  Starts(j, [Idle EXCEPT !.op = op, !.at = "load", !.key = k, !.label = l, !.value = v, !.group = g])

OneField(l, v) == [NoFields EXCEPT ![l] = v]

\* contacts.update replaces a dynamic field whole and adds groups.
Updated(r, c) == [c EXCEPT !.extra = OneField(r.label, r.value), !.groups = @ \union {r.group}]
\* update_extras and update_subscriptions replace one label of the field.
WithExtra(r, c) == [c EXCEPT !.extra = [@ EXCEPT ![r.label] = r.value]]
WithSubscription(r, c) == [c EXCEPT !.subscription = [@ EXCEPT ![r.label] = r.value]]
\* contacts.save replaces the contact by what the script made of it, here without the
\* subscriptions; created_at is that of the saving.
Replaced(r, c) == [c EXCEPT !.extra = OneField(r.label, r.value), !.subscription = NoFields,
                            !.groups = {r.group}, !.created_at = started]
\* The form of a person replaces the groups.
InGroupsOfForm(r, c) == [c EXCEPT !.groups = {r.group}]
OutOfGroup(r, c) == [c EXCEPT !.groups = @ \ {r.group}]

Edited(r, c) ==
  CASE r.op = "update" -> Updated(r, c)
    [] r.op = "update_extras" -> WithExtra(r, c)
    [] r.op = "update_subscriptions" -> WithSubscription(r, c)
    [] r.op = "save" -> Replaced(r, c)
    [] r.op = "person" -> InGroupsOfForm(r, c)
    [] r.op = "remove_member" -> OutOfGroup(r, c)
    [] OTHER -> c

\* get_contact_by_key raises ContactNotFoundError.
LoadContact(j) ==
  LET r == job[j] IN
  /\ r.at = "load"
  /\ IF contacts[r.key] = Nothing \/ r.op = "get_by_key" THEN Ends(j)
     ELSE Becomes(j, [r EXCEPT !.copy = Edited(r, contacts[r.key]),
                               !.at = IF r.op = "delete" THEN "delete" ELSE "save"])
  /\ UNCHANGED <<data, together, started, undone>>

AfterSave(op) ==
  CASE op = "delete_group" -> "sweep"
    [] op \in {"upload_is_truth", "existing_is_truth"} -> "row"
    [] OTHER -> "idle"

SaveContact(j) ==
  LET r == job[j] IN
  /\ r.at = "save"
  /\ contacts' = [contacts EXCEPT ![r.key] = r.copy]
  /\ IF AfterSave(r.op) = "idle" THEN Ends(j) ELSE Moves(j, AfterSave(r.op))
  /\ UNCHANGED <<groups, opt_outs, used, together, started, undone>>

DeleteContact(j) ==
  LET r == job[j] IN
  /\ r.at = "delete"
  /\ contacts' = [contacts EXCEPT ![r.key] = Nothing]
  /\ IF r.op = "delete" THEN Ends(j) ELSE Moves(j, "purge")
  /\ UNCHANGED <<groups, opt_outs, used, together, started, undone>>

(* contacts.new and the form for a new person: one save. *)
NewContact(j, s, l, v, g) ==
  /\ MayStart(j, "new")
  /\ \E k \in Keys \ used :
       /\ contacts' = [contacts EXCEPT ![k] =
            [ContactAt(Field(s.delivery), s.addr, started) EXCEPT
               !.groups = {g}, !.extra = OneField(l, v)]]
       /\ used' = used \union {k}
  /\ UNCHANGED <<groups, opt_outs, job, together, undone>>

-----------------------------------------------------------------------------
(* Groups: made by a form or by name, edited, and deleted by a task. *)
NewGroup(j, n, smart) ==
  /\ MayStart(j, "new_group")
  /\ \E g \in Groups \ used : /\ groups' = [groups EXCEPT ![g] = [name |-> n, smart |-> smart]]
                              /\ used' = used \union {g}
  /\ UNCHANGED <<contacts, opt_outs, job, together, undone>>

StartByName(j, n) == Starts(j, [Idle EXCEPT !.op = "group_by_name", !.at = "search", !.value = n])

\* (Fault for the mutation runs: smart groups are not searched.)
NamedStatic(n) == {g \in Groups : Known(g) /\ ~groups[g].smart /\ groups[g].name = n}
Named(n) == {g \in Groups : Known(g) /\ groups[g].name = n}

\* One match is loaded, several are refused.
SearchByName(j) ==
  /\ job[j].at = "search"
  /\ IF Named(job[j].value) = {} THEN Moves(j, "new_group") ELSE Ends(j)
  /\ UNCHANGED <<data, together, started, undone>>

NewGroupByName(j) ==
  /\ job[j].at = "new_group"
  /\ \E g \in Groups \ used :
       /\ groups' = [groups EXCEPT ![g] = [name |-> job[j].value, smart |-> FALSE]]
       /\ used' = used \union {g}
  /\ Ends(j)
  /\ UNCHANGED <<contacts, opt_outs, together, started, undone>>

GroupJobs == {"edit_group", "delete_group", "delete_group_contacts", "import_new"}
StartOnGroup(j, op, g, n) ==
  Starts(j, [Idle EXCEPT !.op = op, !.at = "load_group", !.group = g, !.value = n, !.rows = MaxRows])

\* The tool go_manage_contact_group deletes a group like the task does, if it is there.
ManageContactGroup(j, n) ==
  \/ \E smart \in BOOLEAN : NewGroup(j, n, smart)
  \/ \E g \in Groups : Known(g) /\ StartOnGroup(j, "delete_group", g, n)

\* A group that is not there: a 404, or an error that ends the task.  An import reports it.
LoadGroup(j) ==
  LET r == job[j]
      next == CASE r.op = "edit_group" -> "save_group"
                [] r.op = "delete_group" -> "members"
                [] r.op = "delete_group_contacts" -> "pages"
                [] OTHER -> "row"
  IN /\ r.at = "load_group"
     /\ \/ Known(r.group) /\ Becomes(j, [r EXCEPT !.copy = groups[r.group], !.at = next])
        \/ ~Known(r.group) /\ r.op # "import_new" /\ Ends(j)
        \/ ~Known(r.group) /\ r.op = "import_new" /\ Moves(j, "clean_up")
     /\ UNCHANGED <<data, together, started, undone>>

\* A name and a query: a query makes the group a smart one, none an ordinary one.
SaveGroup(j) ==
  LET r == job[j] IN
  /\ r.at = "save_group"
  /\ \E smart \in BOOLEAN : groups' = [groups EXCEPT ![r.group] = [name |-> r.value, smart |-> smart]]
  /\ Ends(j)
  /\ UNCHANGED <<contacts, opt_outs, used, together, started, undone>>

(* delete_group takes the group out of its contacts, then deletes it. *)
ListMembers(j) ==
  /\ job[j].at = "members"
  /\ Becomes(j, [job[j] EXCEPT !.todo = StaticMembers(job[j].group), !.at = "sweep"])
  /\ UNCHANGED <<data, together, started, undone>>

SweepMember(j) ==
  LET r == job[j] IN
  /\ r.at = "sweep"
  /\ \E k \in r.todo :
       IF contacts[k] = Nothing THEN Ends(j)
       ELSE Becomes(j, [r EXCEPT !.key = k, !.todo = @ \ {k}, !.at = "save",
                                 !.copy = [contacts[k] EXCEPT !.groups = @ \ {r.group}]])
  /\ UNCHANGED <<data, together, started, undone>>

AllSwept(r) == r.at = "sweep" /\ r.todo = {}

DropGroup(j) ==
  LET r == job[j] IN
  /\ r.op = "delete_group" /\ AllSwept(r)
  /\ groups' = [groups EXCEPT ![r.group] = Nothing]
  /\ Ends(j)
  /\ UNCHANGED <<contacts, opt_outs, used, together, started, undone>>

(* delete_group_contacts collects all pages, then loads and deletes one by one. *)
ListPages(j) ==
  /\ job[j].at = "pages"
  /\ Becomes(j, [job[j] EXCEPT !.todo = MemberPages(job[j].group), !.at = "purge"])
  /\ UNCHANGED <<data, together, started, undone>>

PurgeContact(j) ==
  LET r == job[j] IN
  /\ r.at = "purge"
  /\ \/ \E m \in r.todo :
          Becomes(j, IF contacts[m[1]] = Nothing THEN [r EXCEPT !.at = "raised"]
                     ELSE [r EXCEPT !.key = m[1], !.todo = @ \ {m}, !.at = "delete"])
     \/ r.todo = {} /\ Ends(j)
  /\ UNCHANGED <<data, together, started, undone>>

\* The task ends with the error of get_contact_by_key.
RaisePurge(j) == /\ job[j].at = "raised" /\ Ends(j)
                 /\ UNCHANGED <<data, together, started, undone>>

-----------------------------------------------------------------------------
(* import_new_contacts_file: a contact for each row, or none. *)
ImportRow(j, s, v) ==
  LET r == job[j] IN
  /\ r.op = "import_new" /\ r.at = "row" /\ r.rows > 0
  /\ \E l \in Labels, k \in Keys \ used :
       /\ contacts' = [contacts EXCEPT ![k] =
            [ContactAt("msisdn", s.addr, started) EXCEPT !.groups = {r.group}, !.extra = OneField(l, v)]]
       /\ used' = used \union {k}
       /\ Becomes(j, [r EXCEPT !.made = @ \union {k}, !.rows = @ - 1])
  /\ UNCHANGED <<groups, opt_outs, together, started, undone>>

\* A row cannot be parsed, the file has no row, or the mail is not accepted.
ImportRaises(j) ==
  /\ job[j].op = "import_new" /\ job[j].at = "row"
  /\ Moves(j, "clean_up")
  /\ UNCHANGED <<data, together, started, undone>>

\* The file ends and the mail says so.
ImportDone(j) ==
  /\ job[j].op = "import_new" /\ job[j].at = "row" /\ job[j].made # {}
  /\ Ends(j)
  /\ UNCHANGED <<data, together, started, undone>>

\* (Fault for the mutation runs: what was written stays.)
NothingOf(made) == {}
ToCleanUp(made) == made

CleanUp(j) ==
  LET made == ToCleanUp(job[j].made) IN
  /\ job[j].at = "clean_up" /\ made # {}
  /\ \E k \in made : /\ contacts' = [contacts EXCEPT ![k] = Nothing]
                     /\ Becomes(j, [job[j] EXCEPT !.made = @ \ {k}, !.todo = @ \union {k}])
  /\ UNCHANGED <<groups, opt_outs, used, together, started, undone>>

ReportFailure(j) ==
  /\ job[j].at = "clean_up" /\ ToCleanUp(job[j].made) = {}
  /\ undone' = undone \union job[j].todo \union job[j].made
  /\ Ends(j)
  /\ UNCHANGED <<data, together, started>>

\* The tool go_import_contacts finds the groups first, and cleans up like the task.
ImportContacts(j, g) ==
  Known(g) /\ Starts(j, [Idle EXCEPT !.op = "import_new", !.at = "row", !.group = g, !.rows = MaxRows])

(* import_and_update_contacts: for each row the contact is loaded for the   *)
(* merge, and loaded again to be updated.  Failed rows are reported.        *)
StartMerge(j, op, g) ==
  Starts(j, [Idle EXCEPT !.op = op, !.at = "row", !.group = g, !.rows = MaxRows])

Merged(op, old, new) ==
  IF op = "existing_is_truth"
  THEN [l \in Labels |-> IF old[l] # Nothing THEN old[l] ELSE new[l]]
  ELSE [l \in Labels |-> IF new[l] # Nothing THEN new[l] ELSE old[l]]

MergeRow(j, k, l, v) ==
  LET r == job[j]
      next == [r EXCEPT !.rows = @ - 1]
  IN /\ r.op \in {"upload_is_truth", "existing_is_truth"} /\ r.at = "row" /\ r.rows > 0
     /\ IF contacts[k] = Nothing THEN Becomes(j, next)
        ELSE Becomes(j, Holding(next, k,
               [contacts[k] EXCEPT !.extra = Merged(r.op, @, OneField(l, v))], "reload"))
     /\ UNCHANGED <<data, together, started, undone>>

ReloadRow(j) ==
  LET r == job[j]
      stored == contacts[r.key]
  IN /\ r.at = "reload"
     /\ IF stored = Nothing THEN Moves(j, "row")
        ELSE Becomes(j, [r EXCEPT !.at = "save",
               !.copy = [stored EXCEPT !.extra = r.copy.extra, !.subscription = r.copy.subscription,
                                       !.groups = @ \union {r.group}]])
     /\ UNCHANGED <<data, together, started, undone>>

MergeEnds(j) ==
  /\ job[j].op \in {"upload_is_truth", "existing_is_truth"} /\ job[j].at = "row" /\ job[j].rows = 0
  /\ Ends(j)
  /\ UNCHANGED <<data, together, started, undone>>

-----------------------------------------------------------------------------
(* Opt-outs.  The opt-out application files every sender under msisdn, a    *)
(* sandbox says the type itself.                                            *)
OptOut(type, addr) ==
  /\ opt_outs' = opt_outs \union {<<type, addr>>}
  /\ UNCHANGED <<contacts, groups, used, job, together, undone>>

ConsumeOptOut(j, s) == MayStart(j, "opt_out") /\ OptOut("msisdn", s.addr)
HandleOptOut(j, s) == /\ MayStart(j, "opt_out")
                      /\ OptOut(IF s.delivery = "gtalk" THEN "gtalk" ELSE "msisdn", s.addr)

\* delete_opt_out looks, then deletes.
StartCancel(j, type, addr) ==
  Starts(j, [Idle EXCEPT !.op = "cancel", !.at = "look", !.value = <<type, addr>>])

LookForOptOut(j) ==
  /\ job[j].at = "look"
  /\ IF job[j].value \in opt_outs THEN Moves(j, "opt_in") ELSE Ends(j)
  /\ UNCHANGED <<data, together, started, undone>>

OptIn(j) ==
  LET e == job[j].value IN
  /\ job[j].at = "opt_in"
  /\ opt_outs' = opt_outs \ {e}
  /\ job' = [i \in Jobs |-> IF i = j THEN Idle ELSE [job[i] EXCEPT !.stood = @ \ {e}]]
  /\ UNCHANGED <<contacts, groups, used, together, started, undone>>

(* get_opted_in_contact_bunches of a conversation: the keys of the contacts *)
(* of its groups, the contacts, and the opt-out of each.  "made" collects   *)
(* the addresses that are left, "stood" the opt-outs from before the start. *)
StartBunches(j, d, g) ==
  Starts(j, [Idle EXCEPT !.op = "bunches", !.at = "gather", !.group = g, !.value = d,
                         !.stood = opt_outs])

GatherKeys(j) ==
  /\ job[j].at = "gather"
  /\ IF Known(job[j].group)
     THEN Becomes(j, [job[j] EXCEPT !.todo = {m[1] : m \in MemberPages(job[j].group)}, !.at = "bunch"])
     ELSE Ends(j)
  /\ UNCHANGED <<data, together, started, undone>>

LoadBunch(j) ==
  /\ job[j].at = "bunch"
  /\ Becomes(j, [job[j] EXCEPT !.at = "filter",
       !.todo = {AddrOf(contacts[k], job[j].value) : k \in {i \in @ : contacts[i] # Nothing}} \ {Nothing}])
  /\ UNCHANGED <<data, together, started, undone>>

\* addr_type of get_opted_in_contact_address.
\* (Fault for the mutation runs: the type goes by the delivery class.)
TypeByClass(delivery) == delivery
AddrType(delivery) == IF delivery = "gtalk" THEN "gtalk" ELSE "msisdn"

FilterOptedOut(j) ==
  LET r == job[j] IN
  /\ r.at = "filter"
  /\ \E a \in r.todo :
       Becomes(j, [r EXCEPT !.todo = @ \ {a},
         !.made = IF <<AddrType(r.value), a>> \in opt_outs THEN @ ELSE @ \union {a}])
  /\ UNCHANGED <<data, together, started, undone>>

\* The caller has sent to the addresses of the bunch.
BunchesEnd(j) ==
  /\ job[j].at = "filter" /\ job[j].todo = {}
  /\ Ends(j)
  /\ UNCHANGED <<data, together, started, undone>>

-----------------------------------------------------------------------------
(* Exports: the keys of chosen contacts, of all or of those of groups, then *)
(* the contacts, and a mail.  "todo" has the keys with where they are from, *)
(* "stood" the groups, "rows" the number of keys before they were cut.      *)
StartExport(j, chosen) ==
  Starts(j, [Idle EXCEPT !.op = "export_contacts", !.at = "cut", !.todo = chosen \X {"form"}])
StartExportAll(j) == Starts(j, [Idle EXCEPT !.op = "export_all_contacts", !.at = "all_keys"])
StartGroupExport(j, gs) == Starts(j, [Idle EXCEPT !.op = "export_groups", !.at = "get_groups", !.stood = gs])

ListAllKeys(j) ==
  /\ job[j].at = "all_keys"
  /\ Becomes(j, [job[j] EXCEPT !.at = "cut", !.todo = {k \in Keys : contacts[k] # Nothing} \X {"index"}])
  /\ UNCHANGED <<data, together, started, undone>>

\* No more than the limit are exported, and the mail says so.
Cut(j) ==
  LET keys == job[j].todo
      kept == IF Cardinality(keys) > ExportLimit
              THEN {s \in SUBSET keys : Cardinality(s) = ExportLimit} ELSE {keys} IN
  /\ job[j].at = "cut"
  /\ \E some \in kept :
       Becomes(j, [job[j] EXCEPT !.at = "load_rows", !.todo = some, !.rows = Cardinality(keys)])
  /\ UNCHANGED <<data, together, started, undone>>

\* A group that is gone ends the task.
GetGroups(j) ==
  /\ job[j].at = "get_groups"
  /\ IF \A g \in job[j].stood : Known(g) THEN Moves(j, "list_rows") ELSE Ends(j)
  /\ UNCHANGED <<data, together, started, undone>>

\* get_group_contacts: a contact of two of the groups, or in both kinds of pages, is there twice.
ListRows(j) ==
  /\ job[j].at = "list_rows"
  /\ Becomes(j, [job[j] EXCEPT !.at = "load_rows", !.todo =
       UNION {{<<m[1], <<m[2], g>>>> : m \in MemberPages(g)} : g \in job[j].stood}])
  /\ UNCHANGED <<data, together, started, undone>>

\* What was deleted meanwhile is left out.
ContactsByKey(keys) == {m \in keys : contacts[m[1]] # Nothing}

\* contacts_to_csv, in a zipped file: one row for each contact that was loaded
LoadRows(j) ==
  /\ job[j].at = "load_rows"
  /\ Becomes(j, [job[j] EXCEPT !.at = "mail", !.todo = {}, !.made = ContactsByKey(job[j].todo)])
  /\ UNCHANGED <<data, together, started, undone>>

MailExport(j) ==
  /\ job[j].at = "mail" /\ Ends(j)
  /\ UNCHANGED <<data, together, started, undone>>

-----------------------------------------------------------------------------
\* The process of a job dies.
Die(j) ==
  /\ Faults /\ ~together /\ job[j] # Idle /\ Ends(j)
  /\ UNCHANGED <<data, together, started, undone>>

Init ==
  /\ contacts = [k \in Keys |-> Nothing] /\ groups = [g \in Groups |-> Nothing]
  /\ opt_outs = {} /\ used = {}
  /\ job = [j \in Jobs |-> Idle] /\ together \in BOOLEAN /\ started = 0
  /\ undone = {}

StartOne(j) ==
  \/ \E s \in Senders, op \in LookUps, l \in Labels, v \in Values : StartLookUp(j, op, s, l, v)
  \/ \E op \in Edits, k \in Keys \intersect used, l \in Labels, v \in Values, g \in Groups \intersect used :
       Known(g) /\ StartEdit(j, op, k, l, v, g)
  \/ \E s \in Senders, l \in Labels, v \in Values, g \in Groups : Known(g) /\ NewContact(j, s, l, v, g)
  \/ \E n \in GroupNames, smart \in BOOLEAN : NewGroup(j, n, smart)
  \/ \E n \in GroupNames : StartByName(j, n)
  \/ \E op \in GroupJobs, g \in Groups \intersect used, n \in GroupNames : StartOnGroup(j, op, g, n)
  \/ \E n \in GroupNames : ManageContactGroup(j, n)
  \/ \E g \in Groups : ImportContacts(j, g)
  \/ \E op \in {"upload_is_truth", "existing_is_truth"}, g \in Groups : Known(g) /\ StartMerge(j, op, g)
  \/ \E chosen \in SUBSET (Keys \intersect used) : StartExport(j, chosen)
  \/ StartExportAll(j)
  \/ \E gs \in SUBSET (Groups \intersect used) : gs # {} /\ StartGroupExport(j, gs)

StartOptOutJob(j) ==
  \/ \E s \in Senders : ConsumeOptOut(j, s) \/ HandleOptOut(j, s)
  \/ \E e \in opt_outs : StartCancel(j, e[1], e[2])
  \/ \E d \in {"sms", "gtalk"}, g \in Groups : Known(g) /\ StartBunches(j, d, g)

LookUpSteps(j) == QueryIndex(j) \/ LoadFound(j) \/ LoadNone(j) \/ NewContactForAddr(j)
ContactSteps(j) == LoadContact(j) \/ SaveContact(j) \/ DeleteContact(j)
GroupSteps(j) ==
  \/ SearchByName(j) \/ NewGroupByName(j) \/ LoadGroup(j) \/ SaveGroup(j)
  \/ ListMembers(j) \/ SweepMember(j) \/ DropGroup(j) \/ ListPages(j) \/ PurgeContact(j) \/ RaisePurge(j)
ImportSteps(j) ==
  \/ \E s \in Senders, v \in Values : ImportRow(j, s, v)
  \/ ImportRaises(j) \/ ImportDone(j) \/ CleanUp(j) \/ ReportFailure(j)
  \/ \E k \in Keys, l \in Labels, v \in Values : MergeRow(j, k, l, v)
  \/ ReloadRow(j) \/ MergeEnds(j)
ExportSteps(j) ==
  ListAllKeys(j) \/ Cut(j) \/ GetGroups(j) \/ ListRows(j) \/ LoadRows(j) \/ MailExport(j)
OptOutSteps(j) ==
  LookForOptOut(j) \/ OptIn(j) \/ GatherKeys(j) \/ LoadBunch(j) \/ FilterOptedOut(j) \/ BunchesEnd(j)

Next ==
  \E j \in Jobs :
    \/ StartOne(j) \/ StartOptOutJob(j) \/ LookUpSteps(j) \/ ContactSteps(j) \/ GroupSteps(j)
    \/ ImportSteps(j) \/ ExportSteps(j) \/ OptOutSteps(j) \/ Die(j)

Spec == Init /\ [][Next]_vars
-----------------------------------------------------------------------------
(* In turn, a look-up by address makes a contact only if nobody is stored  *)
(* under an address of that correspondent, and a look-up by name a group   *)
(* only if no group has that name, whatever else was saved before.         *)
MakesOnlyTheMissing ==
  ~together => \A j \in Jobs :
    /\ job[j].op \in LookUps /\ used' # used =>
         ~\E k \in Keys : /\ contacts[k] # Nothing
                         /\ AddrOf(contacts[k], job[j].sender.delivery) \in
                              [user : {job[j].sender.addr.user}, resource : BOOLEAN]
    /\ job[j].op = "group_by_name" /\ used' # used =>
         ~\E g \in Groups : Known(g) /\ groups[g].name = job[j].value

(* An import of new contacts that reports failure has left none of the     *)
(* contacts it wrote: either everything is written or nothing is.          *)
ImportAllOrNothing == ~together => \A k \in undone : contacts[k] = Nothing

(* Jobs in turn, each of which may die anywhere: no contact is ever in a   *)
(* group that is gone, as a group is deleted after its members left it.    *)
NoDanglingGroups ==
  ~together => \A k \in Keys : contacts[k] # Nothing =>
    \A g \in contacts[k].groups : Known(g)

(* In turn, the mail of an export has all the contacts there are, or of    *)
(* its groups, whatever pages they are on; or as many as the limit allows, *)
(* and then it says how many there are.                                    *)
ExportsAreWhole ==
  ~together => \A j \in Jobs : job[j].at = "mail" =>
    LET r == job[j]
        stored == {k \in Keys : contacts[k] # Nothing}
        rows == {m[1] : m \in r.made}
    IN /\ rows \subseteq stored
       /\ r.op = "export_all_contacts" =>
            /\ r.rows = Cardinality(stored)
            /\ Cardinality(r.made) = IF r.rows > ExportLimit THEN ExportLimit ELSE r.rows
       /\ r.op = "export_groups" =>
            rows = {k \in stored : contacts[k].groups \intersect r.stood # {}} \union
                   {k \in stored : contacts[k].extra # NoFields /\ \E g \in r.stood : groups[g].smart}

(* In turn, an import for which existing data is the truth changes no      *)
(* value a contact has, and takes it out of no group.                      *)
ExistingIsTruth ==
  ~together => \A j \in Jobs : job[j].op = "existing_is_truth" =>
    \A k \in Keys : contacts[k] # Nothing =>
      /\ contacts[k].groups \subseteq contacts'[k].groups
      /\ contacts'[k].subscription = contacts[k].subscription
      /\ \A l \in Labels : contacts[k].extra[l] # Nothing => contacts'[k].extra[l] = contacts[k].extra[l]

(* Whatever else runs, a conversation is not given an address that was     *)
(* opted out before it asked for addresses and was not opted in since.     *)
OptedOutAreSkipped ==
  \A j \in Jobs : job[j].op = "bunches" => \A a \in job[j].made :
    <<IF job[j].value = "gtalk" THEN "gtalk" ELSE "msisdn", a>> \notin job[j].stood
=============================================================================
