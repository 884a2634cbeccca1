----------------------- MODULE ConversationMigrations -----------------------
(***************************************************************************)
(* A conversation stored by an older version of the code: the migrators    *)
(* that bring it up to date whenever it is loaded, and the commands of     *)
(* go_migrate_conversations that save it migrated, give it one batch, or   *)
(* a batch no tag has, while workers and the web interface go on with it.  *)
(*                                                                         *)
(* Version 0 is a record without one.  Riak keeps data and index of a      *)
(* record together; a field a version does not have is Nothing.            *)
(***************************************************************************)
EXTENDS Naturals

CONSTANTS
  Procs,         \* processes that load and save the conversation
  OldBatches, NewBatches,
  Messages,
  MaxJobs, MaxDeaths,   \* bounds
  Nothing

Batches == OldBatches \union NewBatches
Statuses == {"draft", "starting", "running", "stopping", "stopped", "finished"}
Index == [status : Statuses \union {Nothing}, archive_status : {"active", "archived", Nothing}]
Fields == [status : Statuses \union {Nothing}, archive_status : {"active", "archived", Nothing},
           extra_endpoints : {{}, {"configured"}, Nothing}, ended : BOOLEAN, batches : SUBSET Batches]
ConversationState == [version : 0..3, data : Fields, index : Index]
Kinds == {"migrate-models", "fix-batches", "split-batches", "fix-jsbox-endpoints", "use"}
JobState == [kind : Kinds, conv : ConversationState, new : NewBatches \union {Nothing},
             copying : SUBSET Messages, done : BOOLEAN]

MigrationsConstants ==
  /\ {MaxJobs, MaxDeaths} \subseteq Nat /\ OldBatches \intersect NewBatches = {}
  /\ Nothing \notin NewBatches \union ConversationState \union JobState

VARIABLES
  stored,        \* the conversation in Riak
  content,       \* the messages of each batch
  tagged,        \* batches that are the current batch of a tag
  free,          \* batches not started yet
  job,           \* what each process does, with the object it loaded
  started, deaths,
  kept           \* history: messages stored before any migration copied

vars == <<stored, content, tagged, free, job, started, deaths, kept>>

-----------------------------------------------------------------------------
(* The migrators.  What they copy unchanged is left out.                   *)
Record(version, data, index) == [version |-> version, data |-> data, index |-> index]
Data(status, archive_status, extra_endpoints, ended, batches) ==
  [status |-> status, archive_status |-> archive_status, extra_endpoints |-> extra_endpoints,
   ended |-> ended, batches |-> batches]
IndexOfTwo(status, archive_status) == [status |-> status, archive_status |-> archive_status]
NoIndex == IndexOfTwo(Nothing, Nothing)

MigrateFromUnversioned(rec) ==
  LET status == IF rec.data.ended THEN "finished"
                ELSE IF rec.data.batches # {} THEN "running" ELSE "draft"
  IN Record(1, [rec.data EXCEPT !.status = status], IndexOfTwo(status, Nothing))

MigrateFrom1(rec) ==
  LET finished == rec.data.status = "finished"
      status == IF rec.data.status = "running" THEN "running" ELSE "stopped"
      archive_status == IF finished THEN "archived" ELSE "active"
  IN Record(2, Data(status, archive_status, {}, rec.data.ended, rec.data.batches),
            IndexOfTwo(status, archive_status))

\* ModelMigrationError unless there is exactly one batch
CanBeMigrated(rec) == \E b \in rec.data.batches : rec.data.batches = {b}
MigrateFrom2(rec) == IF CanBeMigrated(rec) THEN Record(3, rec.data, rec.index) ELSE Nothing

\* What a load makes of a record for the model of version 2, and for the current one.
LoadV2(rec) == CASE rec.version = 0 -> MigrateFrom1(MigrateFromUnversioned(rec))
                 [] rec.version = 1 -> MigrateFrom1(rec)
                 [] rec.version = 2 -> rec
                 [] OTHER           -> Nothing
Load(rec) == IF rec.version = 3 THEN rec ELSE MigrateFrom2(LoadV2(rec))

\* What a conversation is by the code of each version.
StatusOfNone(data) == IF data.ended THEN "finished" ELSE IF data.batches # {} THEN "running" ELSE "draft"
StatusOf1(data) == data.status
StatusSince2(data) == IF data.archive_status = "archived" THEN "finished"
                      ELSE IF data.status = "stopped" THEN "draft" ELSE data.status
Life(rec) == CASE rec.version = 0 -> StatusOfNone(rec.data)
               [] rec.version = 1 -> StatusOf1(rec.data)
               [] OTHER           -> StatusSince2(rec.data)

\* list_active_conversations: by the old index and by the new one
Listed(rec) == rec.index.archive_status = "active" \/ rec.index.status \in {"draft", "running"}

-----------------------------------------------------------------------------
(* Jobs.  handle_user loads the conversations of a user, sees which the    *)
(* migration applies to, and then runs it on the objects it has.           *)
Idle(p) == job[p] = Nothing
Batch(rec) == CHOOSE b \in rec.data.batches : TRUE

Job(kind, conv, new, copying, done) ==
  [kind |-> kind, conv |-> conv, new |-> new, copying |-> copying, done |-> done]
Goes(p, new, copying) == job' = [job EXCEPT ![p] = Job(@.kind, @.conv, new, copying, @.done)]
Changes(p, data, index) ==
  job' = [job EXCEPT ![p] = Job(@.kind, Record(@.conv.version, data, index), @.new, @.copying, TRUE)]

Start(p, kind, conv) ==
  /\ Idle(p) /\ started < MaxJobs /\ started' = started + 1
  /\ job' = [job EXCEPT ![p] = Job(kind, conv, Nothing, {}, FALSE)]
  /\ UNCHANGED <<stored, content, tagged, free, deaths, kept>>

UpdateModels(p) == Load(stored) # Nothing /\ stored.version < 3 /\ Start(p, "migrate-models", Load(stored))

FixBatches(p) ==
  /\ LoadV2(stored) # Nothing
  /\ ~CanBeMigrated(LoadV2(stored))
  /\ Start(p, "fix-batches", LoadV2(stored))

SplitBatches(p) ==
  /\ Load(stored) # Nothing /\ Load(stored).data.batches \intersect tagged # {}
  /\ Start(p, "split-batches", Load(stored))

FixJsboxEndpoint(p) == Load(stored) # Nothing /\ Start(p, "fix-jsbox-endpoints", Load(stored))

Use(p) == Load(stored) # Nothing /\ Start(p, "use", Load(stored))

\* batch_start, and the keys of the messages to copy
NewBatch(p) ==
  /\ ~Idle(p) /\ job[p].kind \in {"fix-batches", "split-batches"} /\ job[p].new = Nothing
  /\ \E b \in free :
       /\ free' = free \ {b}
       /\ Goes(p, b, UNION {content[old] : old \in job[p].conv.data.batches})
  /\ UNCHANGED <<stored, content, tagged, started, deaths, kept>>

\* _process_pages: a message that comes meanwhile may be on a page to come.
CopyMessage(p, m) ==
  /\ ~Idle(p) /\ job[p].new # Nothing /\ ~job[p].done
  /\ m \in UNION {content[old] : old \in job[p].conv.data.batches}
  /\ content' = [content EXCEPT ![job[p].new] = @ \union {m}]
  /\ Goes(p, job[p].new, job[p].copying \ {m})
  /\ UNCHANGED <<stored, tagged, free, started, deaths, kept>>

(* Fault for the mutation runs: the new batch replaces the old ones first. *)
AnyTime(p) == TRUE
AllCopied(p) == job[p].copying = {}

\* The batches are replaced by the new one.
Replace(p) ==
  /\ ~Idle(p) /\ job[p].new # Nothing /\ ~job[p].done /\ AllCopied(p)
  /\ Changes(p, [job[p].conv.data EXCEPT !.batches = {job[p].new}], job[p].conv.index)
  /\ UNCHANGED <<stored, content, tagged, free, started, deaths, kept>>

SetEndpoints(p) ==
  /\ ~Idle(p) /\ job[p].kind = "fix-jsbox-endpoints" /\ ~job[p].done
  /\ Changes(p, [job[p].conv.data EXCEPT !.extra_endpoints = {"configured"}], job[p].conv.index)
  /\ UNCHANGED <<stored, content, tagged, free, started, deaths, kept>>

\* set_status_* and archiving set the field and its index.
SetStatus(p, status, archive_status) ==
  /\ ~Idle(p) /\ job[p].kind = "use" /\ ~job[p].done
  /\ LET data == job[p].conv.data IN
       Changes(p, Data(status, archive_status, data.extra_endpoints, data.ended, data.batches),
               IndexOfTwo(status, archive_status))
  /\ UNCHANGED <<stored, content, tagged, free, started, deaths, kept>>

\* GoStoringMiddleware: into the batch of the conversation the worker has
StoreMessage(p, m) ==
  /\ ~Idle(p) /\ job[p].kind = "use" /\ m \notin UNION {content[b] : b \in DOMAIN content}
  /\ content' = [content EXCEPT ![Batch(job[p].conv)] = @ \union {m}]
  /\ kept' = IF free = NewBatches THEN kept \union {m} ELSE kept
  /\ UNCHANGED <<stored, tagged, free, job, started, deaths>>

\* FixBatches saves the object of version 2 it has; all others the current version.
Save(p) ==
  /\ ~Idle(p) /\ (job[p].kind = "migrate-models" \/ job[p].done)
  /\ stored' = job[p].conv
  /\ job' = [job EXCEPT ![p] = Nothing]
  /\ UNCHANGED <<content, tagged, free, started, deaths, kept>>

Die(p) ==
  /\ ~Idle(p) /\ deaths < MaxDeaths /\ deaths' = deaths + 1
  /\ job' = [job EXCEPT ![p] = Nothing]
  /\ UNCHANGED <<stored, content, tagged, free, started, kept>>

Stored(version, status, ended, batches) ==
  LET v0 == Record(0, Data(Nothing, Nothing, Nothing, ended, batches), NoIndex)
      v1 == Record(1, Data(status, Nothing, Nothing, ended, batches), IndexOfTwo(status, Nothing))
  IN CASE version = 0 -> v0 [] version = 1 -> v1 [] OTHER -> MigrateFrom1(v1)

Init ==
  /\ \E version \in 0..2, status \in {"draft", "running", "finished"}, ended \in BOOLEAN,
        batches \in SUBSET OldBatches :
       /\ version > 0 => (ended <=> status = "finished")
       /\ stored = Stored(version, status, ended, batches)
  /\ content \in [Batches -> SUBSET Messages]
  /\ \A b \in NewBatches : content[b] = {}
  /\ tagged \in SUBSET OldBatches /\ free = NewBatches
  /\ job = [p \in Procs |-> Nothing] /\ started = 0 /\ deaths = 0
  /\ kept = UNION {content[b] : b \in stored.data.batches}

Next ==
  \/ \E p \in Procs :
       \/ UpdateModels(p) \/ FixBatches(p) \/ SplitBatches(p) \/ FixJsboxEndpoint(p) \/ Use(p)
       \/ NewBatch(p) \/ Replace(p) \/ SetEndpoints(p) \/ Save(p) \/ Die(p)
       \/ \E m \in Messages : CopyMessage(p, m) \/ StoreMessage(p, m)
       \/ \E status \in {"starting", "running", "stopping", "stopped"},
             archive_status \in {"active", "archived"} : SetStatus(p, status, archive_status)

Spec == Init /\ [][Next]_vars
-----------------------------------------------------------------------------
(* Whatever version a conversation is stored in, loading it makes of it a  *)
(* conversation that is finished, running or a draft just as the code of   *)
(* that version would say, and one that has a version and is not finished  *)
(* is found by list_active_conversations, migrated or not.                 *)
MigrationKeepsLife ==
  /\ Load(stored) # Nothing => Life(Load(stored)) = Life(stored)
  /\ LoadV2(stored) # Nothing => Life(LoadV2(stored)) = Life(stored)
  /\ stored.version > 0 /\ Life(stored) # "finished" => Listed(stored)

(* The messages a conversation had before any migration began to copy are  *)
(* in its batches at all times, whatever migrations run at once or die,    *)
(* and whoever saves it meanwhile.                                         *)
MessagesAreKept ==
  kept \subseteq UNION {content[b] : b \in stored.data.batches}
=============================================================================
