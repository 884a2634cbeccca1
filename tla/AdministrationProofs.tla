------------------------ MODULE AdministrationProofs -------------------------
(***************************************************************************)
(* The composite invariants of the run of MCAdministration, proved of the  *)
(* specification that it runs, from the theorems of AdministrationParts.   *)
(* In a behaviour of one part the variables of that part behave as its own *)
(* specification says, and the part never changes.                         *)
(***************************************************************************)
EXTENDS MCAdministration, TLAPS

-----------------------------------------------------------------------------
(* The jobs on accounts and tags (AccountStore). NoTagIsLost does not      *)
(* survive a step by itself: a job that acquires is at "save" too, when    *)
(* the tag info may already have been cleared by a late release. What      *)
(* survives is that somebody who will still write the tag info or free the *)
(* tag is at work.                                                         *)
\* A job that will still name an account for t, or free it.
WillSettle(j, t) ==
  /\ job[j].arg = t
  /\ job[j].at \in {"own", "free"} \/ (job[j].at = "save" /\ job[j].op = "release")

Settled ==
  \A t \in Tags : t \notin free => owner[t] # Nobody \/ \E j \in Jobs : WillSettle(j, t)

\* The shape of the two functions, without the types of what jobs carry; a job that
\* acquires a tag does so for an account, and only a release clears a tag info.
IsJob(r) == r = [op |-> r.op, acct |-> r.acct, arg |-> r.arg, at |-> r.at,
                 copy |-> r.copy, obj |-> r.obj]
Acquires(r) == r.at \in {"acquire", "own"} \/ (r.at = "load" /\ r.op = "acquire")
Consistent(r) == /\ Acquires(r) => r.acct \in Accounts
                 /\ r.at = "disown" => r.op = "release"

WellFormed ==
  /\ job = [j \in Jobs |-> job[j]] /\ \A j \in Jobs : IsJob(job[j])
  /\ owner = [t \in Tags |-> owner[t]]
  /\ \A j \in Jobs : Consistent(job[j])

Inv == WellFormed /\ Settled

-----------------------------------------------------------------------------
(* Moving on changes nothing of a job but where it is. *)
LEMMA MovedOn ==
  ASSUME NEW j \in Jobs, NEW place, WellFormed, Moves(j, place)
  PROVE  /\ job' = [k \in Jobs |-> job'[k]]
         /\ job'[j] = [op |-> job[j].op, acct |-> job[j].acct, arg |-> job[j].arg,
                       at |-> place, copy |-> job[j].copy, obj |-> job[j].obj]
         /\ \A k \in Jobs \ {j} : job'[k] = job[k]
<1>1. job[j] = [op |-> job[j].op, acct |-> job[j].acct, arg |-> job[j].arg,
                at |-> job[j].at, copy |-> job[j].copy, obj |-> job[j].obj]
  BY DEF WellFormed, IsJob
<1>2. job' = [job EXCEPT ![j] = Advanced(job[j], place)]
  BY DEF Moves, Becomes
<1>3. Advanced(job[j], place)
        = [op |-> job[j].op, acct |-> job[j].acct, arg |-> job[j].arg,
           at |-> place, copy |-> job[j].copy, obj |-> job[j].obj]
  BY <1>1 DEF Advanced
<1> QED BY <1>2, <1>3 DEF WellFormed

LEMMA Loaded ==
  ASSUME NEW j \in Jobs, NEW changed, NEW place, WellFormed, Loads(j, changed, place)
  PROVE  /\ job' = [k \in Jobs |-> job'[k]]
         /\ job'[j] = [op |-> job[j].op, acct |-> job[j].acct, arg |-> job[j].arg,
                       at |-> place, copy |-> changed, obj |-> job[j].obj]
         /\ \A k \in Jobs \ {j} : job'[k] = job[k]
<1>1. job[j] = [op |-> job[j].op, acct |-> job[j].acct, arg |-> job[j].arg,
                at |-> job[j].at, copy |-> job[j].copy, obj |-> job[j].obj]
  BY DEF WellFormed, IsJob
<1>2. PICK loaded : /\ loaded = [job[j] EXCEPT !.copy = changed]
                    /\ job' = [job EXCEPT ![j] = Advanced(loaded, place)]
  BY DEF Loads, Becomes
<1>3. loaded = [op |-> job[j].op, acct |-> job[j].acct, arg |-> job[j].arg,
                at |-> job[j].at, copy |-> changed, obj |-> job[j].obj]
  BY <1>1, <1>2
<1>4. Advanced(loaded, place)
        = [op |-> job[j].op, acct |-> job[j].acct, arg |-> job[j].arg,
           at |-> place, copy |-> changed, obj |-> job[j].obj]
  BY <1>3 DEF Advanced
<1> QED BY <1>2, <1>4 DEF WellFormed

LEMMA Ended ==
  ASSUME NEW j \in Jobs, WellFormed, Ends(j)
  PROVE  /\ job' = [k \in Jobs |-> job'[k]]
         /\ job'[j] = Idle
         /\ \A k \in Jobs \ {j} : job'[k] = job[k]
  BY DEF Ends, Becomes, WellFormed

(* A step of one job that leaves the tag books alone, and was not about to *)
(* settle a tag or still is, keeps the invariant.                          *)
LEMMA OneJobSteps ==
  ASSUME NEW j \in Jobs, Inv,
         job' = [k \in Jobs |-> job'[k]], IsJob(job[j])',
         \A k \in Jobs \ {j} : job'[k] = job[k],
         Consistent(job[j])',
         \A t \in Tags : WillSettle(j, t) => WillSettle(j, t)',
         UNCHANGED <<owner, free>>
  PROVE  Inv'
<1>1. WellFormed'
  <2>1. \A k \in Jobs : IsJob(job[k])'
    BY DEF Inv, WellFormed, IsJob
  <2>2. \A k \in Jobs : Consistent(job[k])'
    BY DEF Inv, WellFormed, Consistent, Acquires
  <2> QED BY <2>1, <2>2 DEF Inv, WellFormed
<1>2. \A k \in Jobs, t \in Tags : WillSettle(k, t) => WillSettle(k, t)'
  BY DEF WillSettle
<1>3. Settled'
  BY <1>2 DEF Inv, Settled
<1> QED BY <1>1, <1>3 DEF Inv

LEMMA StartsKeep ==
  ASSUME NEW j \in Jobs, NEW kind, NEW a, NEW key, NEW place, NEW saved, Inv,
         Starts(j, kind, a, key, place, saved), a \in Accounts, place \in {"load", "save_object"}
  PROVE  Inv'
<1>1. /\ job' = [k \in Jobs |-> job'[k]]
      /\ job'[j] = [op |-> kind, acct |-> a, arg |-> key, at |-> place, copy |-> NoKey, obj |-> saved]
      /\ \A k \in Jobs \ {j} : job'[k] = job[k]
  BY DEF Starts, Becomes, Inv, WellFormed
<1>2. \A t \in Tags : ~WillSettle(j, t)
  <2>1. job[j] = Idle
    BY DEF Starts
  <2>2. job[j].at = "idle"
    BY <2>1 DEF Idle
  <2> QED BY <2>2 DEF WillSettle
<1>3. IsJob(job[j])'
  <2>1. IsJob(job'[j])
    BY <1>1 DEF IsJob
  <2> QED BY <2>1 DEF IsJob
<1>4. Consistent(job[j])'
  <2>1. job'[j].acct = a /\ job'[j].at = place
    BY <1>1
  <2> QED BY <2>1 DEF Consistent
<1> QED BY <1>1, <1>2, <1>3, <1>4, OneJobSteps DEF Starts

\* Loading an account is no settling step, whatever the next one is.
LEMMA LoadsKeep ==
  ASSUME NEW j \in Jobs, NEW changed, NEW place, Inv, Loads(j, changed, place), job[j].at = "load",
         place = "acquire" => job[j].op = "acquire", place \notin {"own", "load"},
         place = "disown" => job[j].op = "release"
  PROVE  Inv'
<1>1. WellFormed
  BY DEF Inv
<1>2. IsJob(job[j])'
  <2>1. job'[j] = [op |-> job[j].op, acct |-> job[j].acct, arg |-> job[j].arg,
                   at |-> place, copy |-> changed, obj |-> job[j].obj]
    BY <1>1, Loaded
  <2> QED BY <2>1 DEF IsJob
<1>3. Consistent(job[j])'
  <2>1. job'[j] = [op |-> job[j].op, acct |-> job[j].acct, arg |-> job[j].arg,
                   at |-> place, copy |-> changed, obj |-> job[j].obj]
    BY <1>1, Loaded
  <2> QED BY <2>1, <1>1 DEF Consistent, Acquires, WellFormed
<1>4. \A t \in Tags : ~WillSettle(j, t)
  BY DEF WillSettle
<1> QED BY <1>1, <1>2, <1>3, <1>4, Loaded, OneJobSteps DEF Loads

LEMMA EndsKeep ==
  ASSUME NEW j \in Jobs, Inv, Ends(j), UNCHANGED <<owner, free>>,
         \A t \in Tags : ~WillSettle(j, t)
  PROVE  Inv'
<1>1. IsJob(job[j])' /\ Consistent(job[j])'
  BY Ended DEF Inv, Idle, IsJob, Consistent, Acquires
<1> QED BY <1>1, Ended, OneJobSteps DEF Inv

-----------------------------------------------------------------------------
(* Starting a job, whichever it is. *)
LEMMA StartKeeps ==
  ASSUME NEW j \in Jobs, Inv, Start(j)
  PROVE  Inv'
<1>1. ASSUME NEW a \in Accounts, NEW t \in Tags, StartAcquire(j, a, t) \/ StartRelease(j, a, t)
      PROVE  Inv'
  BY <1>1, StartsKeep DEF StartAcquire, StartRelease
<1>2. ASSUME NEW k \in Keys, StartArchive(j, k)
      PROVE  Inv'
  <2>1. OwnerOf[k] \in Accounts
    BY AccountsAssumption DEF Keys
  <2> QED BY <1>2, <2>1, StartsKeep DEF StartArchive
<1>3. ASSUME NEW c \in Conversations, NEW ep \in Endpoints, StartConfigure(j, c, ep)
      PROVE  Inv'
  <2>1. OwnerOf[c] \in Accounts
    BY AccountsAssumption
  <2> QED BY <1>3, <2>1, StartsKeep DEF StartConfigure
<1>4. ASSUME NEW a \in Accounts, NEW t \in TableChoices, StartUpdate(j, a, t)
      PROVE  Inv'
  BY <1>4, StartsKeep DEF StartUpdate
<1>5. ASSUME NEW a \in Accounts, NEW op \in {"add", "remove", "clear"}, NEW e \in EntryChoices,
             StartManage(j, a, op, e)
      PROVE  Inv'
  BY <1>5, StartsKeep DEF StartManage
<1>6. ASSUME NEW a \in Accounts, StartDetails(j, a)
      PROVE  Inv'
  BY <1>6, StartsKeep DEF StartDetails
<1> QED BY <1>1, <1>2, <1>3, <1>4, <1>5, <1>6 DEF Start

(* Loading an account, whatever for. *)
LEMMA LoadingKeeps ==
  ASSUME NEW j \in Jobs, Inv,
         \/ LoadToAcquire(j) \/ LoadToRelease(j) \/ LoadToArchive(j) \/ LoadToConfigure(j)
         \/ LoadToUpdate(j) \/ LoadToManage(j) \/ LoadToDetails(j)
  PROVE  Inv'
<1>1. CASE LoadToAcquire(j)
  BY <1>1, LoadsKeep DEF LoadToAcquire, Loading
<1>2. CASE LoadToRelease(j)
  BY <1>2, LoadsKeep DEF LoadToRelease, Loading
<1>3. CASE LoadToArchive(j)
  BY <1>3, LoadsKeep DEF LoadToArchive, Loading
<1>4. CASE LoadToConfigure(j)
  BY <1>4, LoadsKeep DEF LoadToConfigure, Loading
<1>5. CASE LoadToUpdate(j)
  BY <1>5, LoadsKeep DEF LoadToUpdate, Loading
<1>6. CASE LoadToManage(j)
  <2>1. CASE Ends(j) /\ UNCHANGED <<account, owner, free, object, started>>
    <3>1. \A t \in Tags : ~WillSettle(j, t)
      BY <1>6 DEF LoadToManage, Loading, WillSettle
    <3> QED BY <2>1, <3>1, EndsKeep
  <2>2. ASSUME NEW copy, NEW next \in {"validate", "save"}, Loads(j, copy, next)
        PROVE  Inv'
    BY <1>6, <2>2, LoadsKeep DEF LoadToManage, Loading
  <2> QED BY <1>6, <2>1, <2>2 DEF LoadToManage
<1>7. CASE LoadToDetails(j)
  BY <1>7, LoadsKeep DEF LoadToDetails, Loading
<1> QED BY <1>1, <1>2, <1>3, <1>4, <1>5, <1>6, <1>7

(* A step that leaves the tag books alone and only moves its job on. *)
LEMMA MovesKeep ==
  ASSUME NEW j \in Jobs, NEW place, Inv, Moves(j, place), UNCHANGED <<owner, free>>,
         place \notin {"acquire", "own", "disown"},
         place = "load" => job[j].op # "acquire",
         \A t \in Tags : WillSettle(j, t) => place = "free"
  PROVE  Inv'
<1>1. WellFormed
  BY DEF Inv
<1>2. job'[j] = [op |-> job[j].op, acct |-> job[j].acct, arg |-> job[j].arg,
                 at |-> place, copy |-> job[j].copy, obj |-> job[j].obj]
  BY <1>1, MovedOn
<1>3. IsJob(job[j])' /\ Consistent(job[j])'
  BY <1>2 DEF IsJob, Consistent, Acquires
<1>4. \A t \in Tags : WillSettle(j, t) => WillSettle(j, t)'
  BY <1>2 DEF WillSettle
<1> QED BY <1>1, <1>3, <1>4, MovedOn, OneJobSteps

(* Saving: a release goes on to free its tag, an acquisition has named an  *)
(* account already.                                                        *)
LEMMA SaveAccountKeeps ==
  ASSUME NEW j \in Jobs, Inv, SaveAccount(j)
  PROVE  Inv'
<1>1. CASE job[j].op = "release"
  <2>1. AfterSave(j) = "free"
    BY <1>1 DEF AfterSave
  <2> QED BY <2>1, MovesKeep DEF SaveAccount
<1>2. CASE job[j].op # "release"
  <2>1. \A t \in Tags : ~WillSettle(j, t)
    BY <1>2 DEF SaveAccount, WillSettle
  <2>2. CASE AfterSave(j) = "end"
    BY <2>1, <2>2, EndsKeep DEF SaveAccount
  <2>3. CASE AfterSave(j) # "end"
    <3>1. AfterSave(j) = "save_object"
      BY <1>2, <2>3 DEF AfterSave
    <3> QED BY <2>1, <3>1, <2>3, MovesKeep DEF SaveAccount
  <2> QED BY <2>2, <2>3
<1> QED BY <1>1, <1>2

(* Taking a tag out of the pool puts its job to work on it. *)
LEMMA AcquireFromPoolKeeps ==
  ASSUME NEW j \in Jobs, Inv, AcquireFromPool(j)
  PROVE  Inv'
<1>1. WellFormed
  BY DEF Inv
<1>2. \A t \in Tags : ~WillSettle(j, t)
  BY DEF AcquireFromPool, WillSettle
<1>3. CASE ~Available(job[j].arg)
  <2>1. UNCHANGED <<owner, free>> /\ Ends(j)
    BY <1>3 DEF AcquireFromPool, Available
  <2> QED BY <1>2, <2>1, EndsKeep
<1>4. CASE Available(job[j].arg)
  <2>1. Moves(j, "own") /\ free' = free \ {job[j].arg} /\ UNCHANGED owner
    BY <1>4 DEF AcquireFromPool
  <2>2. /\ job' = [k \in Jobs |-> job'[k]]
        /\ job'[j] = [op |-> job[j].op, acct |-> job[j].acct, arg |-> job[j].arg,
                      at |-> "own", copy |-> job[j].copy, obj |-> job[j].obj]
        /\ \A k \in Jobs \ {j} : job'[k] = job[k]
    BY <1>1, <2>1, MovedOn
  <2>3. job[j].acct \in Accounts
    BY <1>1 DEF WellFormed, Consistent, Acquires, AcquireFromPool
  <2>4. WellFormed'
    <3>1. \A k \in Jobs : IsJob(job[k])'
      BY <1>1, <2>2 DEF WellFormed, IsJob
    <3>2. \A k \in Jobs : Consistent(job[k])'
      BY <1>1, <2>2, <2>3 DEF WellFormed, Consistent, Acquires
    <3> QED BY <1>1, <2>1, <2>2, <3>1, <3>2 DEF WellFormed
  <2>5. \A k \in Jobs \ {j}, t \in Tags : WillSettle(k, t) => WillSettle(k, t)'
    BY <2>2 DEF WillSettle
  <2>6. ASSUME NEW t \in Tags, t \notin free'
        PROVE  owner'[t] # Nobody \/ \E k \in Jobs : WillSettle(k, t)'
    <3>1. CASE t = job[j].arg
      <4>1. WillSettle(j, t)'
        BY <2>2, <3>1 DEF WillSettle
      <4> QED BY <4>1
    <3>2. CASE t # job[j].arg
      <4>1. t \notin free
        BY <2>1, <2>6, <3>2
      <4>2. owner[t] # Nobody \/ \E k \in Jobs \ {j} : WillSettle(k, t)
        BY <1>2, <4>1 DEF Inv, Settled
      <4> QED BY <2>1, <2>5, <4>2
    <3> QED BY <3>1, <3>2
  <2> QED BY <2>4, <2>6 DEF Inv, Settled
<1> QED BY <1>3, <1>4

(* Writing a tag info: naming an account settles the tag; clearing it is   *)
(* done by a release that will free the tag.                               *)
LEMMA TagInfoKeeps ==
  ASSUME NEW j \in Jobs, Inv, OwnTag(j) \/ DisownTag(j)
  PROVE  Inv'
<1>1. WellFormed
  BY DEF Inv
<1>2. Moves(j, "save") /\ UNCHANGED free
  BY DEF OwnTag, DisownTag
<1>3. /\ job' = [k \in Jobs |-> job'[k]]
      /\ job'[j] = [op |-> job[j].op, acct |-> job[j].acct, arg |-> job[j].arg,
                    at |-> "save", copy |-> job[j].copy, obj |-> job[j].obj]
      /\ \A k \in Jobs \ {j} : job'[k] = job[k]
  BY <1>1, <1>2, MovedOn
<1>4. /\ owner' = [t \in Tags |-> owner'[t]]
      /\ \A t \in Tags : t # job[j].arg => owner'[t] = owner[t]
  BY <1>1 DEF OwnTag, DisownTag, Disowned, WellFormed
<1>5. WellFormed'
  <2>1. \A k \in Jobs : IsJob(job[k])'
    BY <1>1, <1>3 DEF WellFormed, IsJob
  <2>2. \A k \in Jobs : Consistent(job[k])'
    BY <1>1, <1>3 DEF WellFormed, Consistent, Acquires
  <2> QED BY <1>3, <1>4, <2>1, <2>2 DEF WellFormed
<1>6. ASSUME NEW t \in Tags, t \notin free
      PROVE  owner'[t] # Nobody \/ \E k \in Jobs : WillSettle(k, t)'
  <2>1. CASE t # job[j].arg
    <3>1. \A k \in Jobs : WillSettle(k, t) => k # j
      BY <2>1 DEF WillSettle
    <3>2. \A k \in Jobs : WillSettle(k, t) => WillSettle(k, t)'
      BY <3>1, <1>3 DEF WillSettle
    <3> QED BY <1>4, <1>6, <2>1, <3>2 DEF Inv, Settled
  <2>2. CASE t = job[j].arg /\ OwnTag(j)
    <3>1. job[j].acct \in Accounts
      BY <1>1, <2>2 DEF WellFormed, Consistent, Acquires, OwnTag
    <3>2. owner'[t] = job[j].acct
      BY <1>1, <2>2 DEF WellFormed, OwnTag
    <3> QED BY <3>1, <3>2, AccountsAssumption
  <2>3. CASE t = job[j].arg /\ DisownTag(j)
    <3>1. job[j].op = "release"
      BY <1>1, <2>3 DEF WellFormed, Consistent, DisownTag
    <3>2. WillSettle(j, t)'
      BY <1>3, <2>3, <3>1 DEF WillSettle
    <3> QED BY <3>2
  <2> QED BY <2>1, <2>2, <2>3
<1>7. Settled'
  BY <1>2, <1>6 DEF Settled
<1> QED BY <1>5, <1>7 DEF Inv

LEMMA FreeTagKeeps ==
  ASSUME NEW j \in Jobs, Inv, FreeTag(j)
  PROVE  Inv'
<1>1. WellFormed
  BY DEF Inv
<1>2. /\ Ends(j) /\ free' = free \union {job[j].arg} /\ UNCHANGED owner
      /\ job[j].at = "free"
  BY DEF FreeTag
<1>3. /\ job' = [k \in Jobs |-> job'[k]]
      /\ job'[j] = Idle
      /\ \A k \in Jobs \ {j} : job'[k] = job[k]
  BY <1>1, <1>2, Ended
<1>4. WellFormed'
  <2>1. IsJob(job[j])' /\ Consistent(job[j])'
    BY <1>3 DEF Idle, IsJob, Consistent, Acquires
  <2>2. \A k \in Jobs : IsJob(job[k])'
    BY <1>1, <1>3, <2>1 DEF WellFormed, IsJob
  <2>3. \A k \in Jobs : Consistent(job[k])'
    BY <1>1, <1>3, <2>1 DEF WellFormed, Consistent, Acquires
  <2> QED BY <1>1, <1>2, <1>3, <2>2, <2>3 DEF WellFormed
<1>5. ASSUME NEW t \in Tags, t \notin free'
      PROVE  owner'[t] # Nobody \/ \E k \in Jobs : WillSettle(k, t)'
  <2>1. t \notin free /\ t # job[j].arg
    BY <1>2, <1>5
  <2>2. \A k \in Jobs : WillSettle(k, t) => k # j
    BY <2>1 DEF WillSettle
  <2>3. \A k \in Jobs : WillSettle(k, t) => WillSettle(k, t)'
    BY <2>2, <1>3 DEF WillSettle
  <2> QED BY <1>2, <2>1, <2>3 DEF Inv, Settled
<1>6. Settled'
  BY <1>5 DEF Settled
<1> QED BY <1>4, <1>6 DEF Inv

-----------------------------------------------------------------------------
LEMMA InitInv == Init => Inv
<1> SUFFICES ASSUME Init PROVE Inv
  OBVIOUS
<1>1. \A j \in Jobs : IsJob(job[j]) /\ Consistent(job[j])
  BY DEF Init, Idle, IsJob, Consistent, Acquires
<1>2. Settled
  BY DEF Init, Settled
<1> QED BY <1>1, <1>2 DEF Init, Inv, WellFormed

(* What happens after a death is remembered. *)
LEMMA DeathIsKept == died /\ [Next]_vars => died'
<1> SUFFICES ASSUME died, [Next]_vars PROVE died'
  OBVIOUS
<1>1. CASE Next
  <2>1. PICK j \in Jobs :
          \/ Start(j) \/ TagSteps(j) \/ TableSteps(j)
          \/ SaveAccount(j) \/ SaveObject(j) \/ Die(j)
    BY <1>1 DEF Next
  <2>2. CASE Start(j)
    BY <2>2 DEF Start, StartAcquire, StartRelease, StartArchive, StartConfigure, StartUpdate,
                StartManage, StartDetails, Starts
  <2>3. CASE TagSteps(j)
    BY <2>3 DEF TagSteps, LoadToAcquire, AcquireFromPool, OwnTag, LoadToRelease, DisownTag, FreeTag, Loads
  <2>4. CASE TableSteps(j)
    BY <2>4 DEF TableSteps, LoadToArchive, LoadToConfigure, LoadToUpdate, LoadToManage, ValidateTable,
                LoadToDetails, Loads
  <2>5. CASE SaveAccount(j) \/ SaveObject(j) \/ Die(j)
    BY <2>5 DEF SaveAccount, SaveObject, Die
  <2> QED BY <2>1, <2>2, <2>3, <2>4, <2>5
<1>2. CASE UNCHANGED vars
  BY <1>2 DEF vars
<1> QED BY <1>1, <1>2

LEMMA NextInv == Inv /\ [Next]_vars => died' \/ Inv'
<1> SUFFICES ASSUME Inv, [Next]_vars PROVE died' \/ Inv'
  OBVIOUS
<1>1. CASE Next
  <2>1. PICK j \in Jobs :
          \/ Start(j) \/ TagSteps(j) \/ TableSteps(j)
          \/ SaveAccount(j) \/ SaveObject(j) \/ Die(j)
    BY <1>1 DEF Next
  <2>2. CASE Start(j)
    BY <2>2, StartKeeps
  <2>3. CASE TagSteps(j)
    BY <2>3, LoadingKeeps, AcquireFromPoolKeeps, TagInfoKeeps, FreeTagKeeps DEF TagSteps
  <2>4. CASE TableSteps(j)
    <3>1. CASE ValidateTable(j)
      <4>1. UNCHANGED <<owner, free>> /\ (Moves(j, "save") \/ Ends(j))
        BY <3>1 DEF ValidateTable
      <4>2. \A t \in Tags : ~WillSettle(j, t)
        BY <3>1 DEF ValidateTable, WillSettle
      <4> QED BY <4>1, <4>2, MovesKeep, EndsKeep
    <3> QED BY <2>4, <3>1, LoadingKeeps DEF TableSteps
  <2>5. CASE SaveAccount(j)
    BY <2>5, SaveAccountKeeps
  <2>6. CASE SaveObject(j)
    <3>1. /\ UNCHANGED <<owner, free>>
          /\ (job[j].op = "archive" /\ Moves(j, "load")) \/ Ends(j)
      BY <2>6 DEF SaveObject
    <3>2. \A t \in Tags : ~WillSettle(j, t)
      BY <2>6 DEF SaveObject, WillSettle
    <3> QED BY <3>1, <3>2, MovesKeep, EndsKeep
  <2>7. CASE Die(j)
    BY <2>7 DEF Die
  <2> QED BY <2>1, <2>2, <2>3, <2>4, <2>5, <2>6, <2>7
<1>2. CASE UNCHANGED vars
  <2>1. UNCHANGED <<job, owner, free>>
    BY <1>2 DEF vars
  <2> QED BY <2>1 DEF Inv, WellFormed, Settled, IsJob, Consistent, Acquires, WillSettle
<1> QED BY <1>1, <1>2

LEMMA InvSuffices == died \/ Inv => NoTagIsLost
<1>1. \A j \in Jobs, t \in Tags : WillSettle(j, t) => BusyWith(j, t)
  BY DEF WillSettle, BusyWith
<1> QED BY <1>1 DEF Inv, Settled, NoTagIsLost

(* _update_tag_data_for_acquire and release_tag interleave without losing  *)
(* a tag, whatever else saves the same accounts meanwhile: the property    *)
(* fails only if a job dies between two of its steps.                      *)
THEOREM TagsAreNeverLost == Spec => []NoTagIsLost
<1>1. Init => died \/ Inv
  BY InitInv
<1>2. (died \/ Inv) /\ [Next]_vars => (died \/ Inv)'
  BY NextInv, DeathIsKept
<1> QED BY <1>1, <1>2, InvSuffices, PTL DEF Spec

(* The same in the run of all the parts: what the others do is no step of  *)
(* the jobs, and those of the run are some of the jobs that there are.     *)
THEOREM AdministrationKeepsTags == AdminSpec => []NoTagIsLost
<1>1. AdminInit => Init
  BY DEF AdminInit
<1>2. [AdminNext]_everything => [Next]_vars
  BY DEF AdminNext, everything
<1> QED
  BY <1>1, <1>2, TagsAreNeverLost, PTL DEF AdminSpec, Spec

-----------------------------------------------------------------------------

\* The parts, with the values and variables that they have in the run.
Proved == INSTANCE AdministrationParts WITH
  Users <- {a1, a2}, Browsers <- {k1}, Procs <- Pair, MaxRequests <- 3, MaxKeys <- 4,
  MaxDeaths <- 1, Keys <- {k1}, Callers <- Pair, TTLs <- {0, 2}, MaxFetch <- 2, MaxVersion <- 2,
  Horizon <- 6, MaxWorkerDeaths <- 1, Requests <- Pair, UserTokens <- {k1, k2},
  Offers <- WhatIsAsked, Kinds <- {"conversation", "router"}, PagesTTLs <- {1},
  MaxCommands <- 1, MaxTokens <- 2, MaxCrashes <- 1, Pending <- {k1, k2}, MaxNow <- 1,
  MaxJobs <- 5, OldBatches <- {"b1", "b2"}, NewBatches <- {"n1", "n2"}, Messages <- {k1},
  SplitMaxJobs <- 2, Contacts <- {a1, a2}, Values <- {k1, k2}, ReindexMaxJobs <- 3,
  SettingsKeys <- {k1, k2}, SettingsMaxJobs <- 3, sessions <- s1, cookie <- s2, request <- s3,
  started <- s4, used <- s5, deaths <- s6, ended <- s7, excused <- s8, ttl <- s1, now <- s2,
  stored <- s3, replaced <- s4, models <- s5, evictors <- s6, call <- s7, served <- s8,
  cleaned <- s9, routerpages_stored <- s1, routed <- s2, job <- s3, api <- s4, queue <- s5,
  working <- s6, requests <- s7, routerpages_deaths <- s8, workerDeaths <- s9, saves <- s10,
  overwritten <- s11, pages_kind <- s1, pages_ttl <- s2, offered <- s3, pages_conv <- s4,
  pages_job <- s5, pages_served <- s6, tokens <- s7, generated <- s8, links <- s9,
  pages_queue <- s10, control <- s11, pages_cache <- s12, work <- s13, rest <- s14,
  handled <- s15, performed <- s16, crashes <- s17, planned_now <- s1, task <- s2,
  pending <- s3, messages <- s4, planned_job <- s5, begun <- s6, planned_deaths <- s7,
  planned_performed <- s8, withdrawn <- s9, planned_excused <- s10, split_stored <- s1,
  content <- s2, tagged <- s3, free <- s4, split_job <- s5, split_started <- s6,
  split_deaths <- s7, kept <- s8, reindex_stored <- s1, reindex_job <- s2,
  reindex_started <- s3, reindex_deaths <- s4, listed <- s5, truth <- s6, reindex_excused <- s7,
  settings_stored <- s1, permissions <- s2, releases <- s3, storing <- s4, settings_job <- s5,
  settings_started <- s6, settings_deaths <- s7, flagged <- s8, summary <- s9

LEMMA PartStays ==
  ASSUME NEW name, [AdminNext]_everything
  PROVE  (part = name => part' = name) /\ (part # name => part' # name)
BY DEF AdminNext, everything

-----------------------------------------------------------------------------
LEMMA LoginsBegins == AdminInit /\ part = "logins" => Proved!Logins!Init
<1>1. Logins!Init => Proved!Logins!Init
  BY DEF Logins!Init, Proved!Logins!Init, Logins!Keys, Proved!Logins!Keys, Logins!Idle,
       Proved!Logins!Idle, Logins!Empty, Proved!Logins!Empty
<1> QED
  BY <1>1 DEF AdminInit

LEMMA LoginsGoesOn ==
  part = "logins" /\ [AdminNext]_everything => [Proved!Logins!Next]_(Proved!Logins!vars)
<1>1. Logins!Next => Proved!Logins!Next
  BY DEF Logins!Next, Proved!Logins!Next, Logins!Load, Proved!Logins!Load, Logins!Create,
       Proved!Logins!Create, Logins!Created, Proved!Logins!Created, Logins!ShowPage,
       Proved!Logins!ShowPage, Logins!Flush, Proved!Logins!Flush, Logins!CycleKey,
       Proved!Logins!CycleKey, Logins!Cycled, Proved!Logins!Cycled, Logins!Respond,
       Proved!Logins!Respond, Logins!Saved, Proved!Logins!Saved, Logins!Die, Proved!Logins!Die,
       Logins!StartRequest, Proved!Logins!StartRequest, Logins!Keys, Proved!Logins!Keys,
       Logins!Expires, Proved!Logins!Expires, Logins!NewKey, Proved!Logins!NewKey,
       Logins!Stored, Proved!Logins!Stored, Logins!Empty, Proved!Logins!Empty,
       Logins!AfterCreation, Proved!Logins!AfterCreation, Logins!Noted, Proved!Logins!Noted,
       Logins!Delete, Proved!Logins!Delete, Logins!LoggedIn, Proved!Logins!LoggedIn,
       Logins!Idle, Proved!Logins!Idle, Logins!WithExpiry, Proved!Logins!WithExpiry,
       Logins!Held, Proved!Logins!Held
<1>2. UNCHANGED everything => UNCHANGED Proved!Logins!vars
  BY DEF Proved!Logins!vars, everything
<1> QED
  BY <1>1, <1>2 DEF AdminNext

LEMMA LoginsEndedSessionsStayEnded == AdminSpec => (part = "logins" => [](Logins!EndedSessionsStayEnded))
<1>1. [AdminNext]_everything => (part = "logins" => (part = "logins")')
  BY PartStays
<1>2. Proved!Logins!Spec => []Proved!Logins!EndedSessionsStayEnded
  <2>1. Proved!Logins!SessionsConstants
    BY PartsAssumption DEF Logins!SessionsConstants, Proved!Logins!SessionsConstants
  <2> QED
    BY <2>1, Proved!EndedForGood
<1>3. Proved!Logins!EndedSessionsStayEnded => Logins!EndedSessionsStayEnded
  BY DEF Logins!EndedSessionsStayEnded, Proved!Logins!EndedSessionsStayEnded, Logins!Accepted,
       Proved!Logins!Accepted
<1> QED
  BY LoginsBegins, LoginsGoesOn, <1>1, <1>2, <1>3, PTL DEF AdminSpec, Proved!Logins!Spec

LEMMA LoginsSessionsEnd == AdminSpec => (part = "logins" => [](Logins!SessionsEnd))
<1>1. [AdminNext]_everything => (part = "logins" => (part = "logins")')
  BY PartStays
<1>2. Proved!Logins!Spec => []Proved!Logins!SessionsEnd
  <2>1. Proved!Logins!SessionsConstants
    BY PartsAssumption DEF Logins!SessionsConstants, Proved!Logins!SessionsConstants
  <2> QED
    BY <2>1, Proved!AllSessionsEnd
<1>3. Proved!Logins!SessionsEnd => Logins!SessionsEnd
  BY DEF Logins!SessionsEnd, Proved!Logins!SessionsEnd, Logins!Keys, Proved!Logins!Keys
<1> QED
  BY LoginsBegins, LoginsGoesOn, <1>1, <1>2, <1>3, PTL DEF AdminSpec, Proved!Logins!Spec

(* A session that ended is not used again, and all of them end             *)
(* (SessionManager of go/api and its middleware), in the instance of the   *)
(* run.                                                                    *)
THEOREM SessionsEndForGood == AdminSpec => []SessionsStayEnded
<1>1. [AdminNext]_everything => (~(part = "logins") => ~(part = "logins")')
  BY PartStays
<1>2. (part = "logins" => Logins!EndedSessionsStayEnded /\ Logins!SessionsEnd) => SessionsStayEnded
  BY DEF SessionsStayEnded
<1> QED
  BY <1>1, <1>2, LoginsEndedSessionsStayEnded, LoginsSessionsEnd, PTL DEF AdminSpec

-----------------------------------------------------------------------------
LEMMA CachedBegins == AdminInit /\ part = "cache" => Proved!Cached!Init
<1>1. Cached!Init => Proved!Cached!Init
  BY DEF Cached!Init, Proved!Cached!Init
<1> QED
  BY <1>1 DEF AdminInit

LEMMA CachedGoesOn ==
  part = "cache" /\ [AdminNext]_everything => [Proved!Cached!Next]_(Proved!Cached!vars)
<1>1. Cached!Next => Proved!Cached!Next
  BY DEF Cached!Next, Proved!Cached!Next, Cached!Fetching, Proved!Cached!Fetching, Cached!Evict,
       Proved!Cached!Evict, Cached!Store, Proved!Cached!Store, Cached!Cleanup,
       Proved!Cached!Cleanup, Cached!Tick, Proved!Cached!Tick, Cached!GetCached,
       Proved!Cached!GetCached, Cached!StartFetch, Proved!Cached!StartFetch, Cached!RiakReads,
       Proved!Cached!RiakReads, Cached!Fetched, Proved!Cached!Fetched, Cached!FetchFails,
       Proved!Cached!FetchFails, Cached!WithoutModel, Proved!Cached!WithoutModel, Cached!riak,
       Proved!Cached!riak, Cached!Serves, Proved!Cached!Serves, Cached!Waiting,
       Proved!Cached!Waiting, Cached!Cached, Proved!Cached!Cached, Cached!Scheduled,
       Proved!Cached!Scheduled
<1>2. UNCHANGED everything => UNCHANGED Proved!Cached!vars
  BY DEF Proved!Cached!vars, everything
<1> QED
  BY <1>1, <1>2 DEF AdminNext

LEMMA CachedTypeOK == AdminSpec => (part = "cache" => [](Cached!TypeOK))
<1>1. [AdminNext]_everything => (part = "cache" => (part = "cache")')
  BY PartStays
<1>2. Proved!Cached!Spec => []Proved!Cached!TypeOK
  <2>1. Proved!Cached!CacheConstants
    BY PartsAssumption DEF Cached!CacheConstants, Proved!Cached!CacheConstants
  <2> QED
    BY <2>1, Proved!ModelsHaveEvictors
<1>3. Proved!Cached!TypeOK => Cached!TypeOK
  BY DEF Cached!TypeOK, Proved!Cached!TypeOK
<1> QED
  BY CachedBegins, CachedGoesOn, <1>1, <1>2, <1>3, PTL DEF AdminSpec, Proved!Cached!Spec

LEMMA CachedServedFresh == AdminSpec => (part = "cache" => [](Cached!ServedFresh))
<1>1. [AdminNext]_everything => (part = "cache" => (part = "cache")')
  BY PartStays
<1>2. Proved!Cached!Spec => []Proved!Cached!ServedFresh
  <2>1. Proved!Cached!CacheConstants
    BY PartsAssumption DEF Cached!CacheConstants, Proved!Cached!CacheConstants
  <2> QED
    BY <2>1, Proved!ModelsAreFresh
<1>3. Proved!Cached!ServedFresh => Cached!ServedFresh
  BY DEF Cached!ServedFresh, Proved!Cached!ServedFresh
<1> QED
  BY CachedBegins, CachedGoesOn, <1>1, <1>2, <1>3, PTL DEF AdminSpec, Proved!Cached!Spec

(* A model from the cache is no older than its time to live and a fetch,   *)
(* and every cached model has the call that evicts it (ModelObjectCache),  *)
(* in the instance of the run.                                             *)
THEOREM CacheStaysFresh == AdminSpec => []CachedIsFresh
<1>1. [AdminNext]_everything => (~(part = "cache") => ~(part = "cache")')
  BY PartStays
<1>2. (part = "cache" => Cached!TypeOK /\ Cached!ServedFresh) => CachedIsFresh
  BY DEF CachedIsFresh
<1> QED
  BY <1>1, <1>2, CachedTypeOK, CachedServedFresh, PTL DEF AdminSpec

-----------------------------------------------------------------------------
LEMMA RouterPagesBegins == AdminInit /\ part = "routers" => Proved!RouterPages!Init
<1>1. RouterPages!Init => Proved!RouterPages!Init
  BY DEF RouterPages!Init, Proved!RouterPages!Init
<1> QED
  BY <1>1 DEF AdminInit

LEMMA RouterPagesGoesOn ==
  part = "routers" /\ [AdminNext]_everything => [Proved!RouterPages!Next]_(Proved!RouterPages!vars)
<1>1. RouterPages!Next => Proved!RouterPages!Next
  BY DEF RouterPages!Next, Proved!RouterPages!Next, RouterPages!RouterOperations,
       Proved!RouterPages!RouterOperations, RouterPages!Request, Proved!RouterPages!Request,
       RouterPages!GetRouter, Proved!RouterPages!GetRouter, RouterPages!SaveRouter,
       Proved!RouterPages!SaveRouter, RouterPages!DispatchRouterCommand,
       Proved!RouterPages!DispatchRouterCommand, RouterPages!RemoveFromRoutingTable,
       Proved!RouterPages!RemoveFromRoutingTable, RouterPages!Die, Proved!RouterPages!Die,
       RouterPages!ConsumeControlCommand, Proved!RouterPages!ConsumeControlCommand,
       RouterPages!ProcessCommandStart, Proved!RouterPages!ProcessCommandStart,
       RouterPages!ProcessCommandStop, Proved!RouterPages!ProcessCommandStop,
       RouterPages!WorkerSaves, Proved!RouterPages!WorkerSaves, RouterPages!WorkerDies,
       Proved!RouterPages!WorkerDies, RouterPages!Idle, Proved!RouterPages!Idle,
       RouterPages!CommandAllows, Proved!RouterPages!CommandAllows, RouterPages!Steps,
       Proved!RouterPages!Steps, RouterPages!Takes, Proved!RouterPages!Takes,
       RouterPages!WithStatus, Proved!RouterPages!WithStatus, RouterPages!ProcessCommand,
       Proved!RouterPages!ProcessCommand
<1>2. UNCHANGED everything => UNCHANGED Proved!RouterPages!vars
  BY DEF Proved!RouterPages!vars, everything
<1> QED
  BY <1>1, <1>2 DEF AdminNext

LEMMA RouterPagesNeverStuck == AdminSpec => (part = "routers" => [](RouterPages!NeverStuck))
<1>1. [AdminNext]_everything => (part = "routers" => (part = "routers")')
  BY PartStays
<1>2. Proved!RouterPages!Spec => []Proved!RouterPages!NeverStuck
  <2>1. Proved!RouterPages!RoutersConstants
    BY PartsAssumption DEF RouterPages!RoutersConstants, Proved!RouterPages!RoutersConstants,
         RouterPages!RouterState, Proved!RouterPages!RouterState, RouterPages!JobState,
         Proved!RouterPages!JobState, RouterPages!WorkState, Proved!RouterPages!WorkState,
         RouterPages!RouterOperations, Proved!RouterPages!RouterOperations,
         RouterPages!Commands, Proved!RouterPages!Commands
  <2> QED
    BY <2>1, Proved!RoutersGoOn
<1>3. Proved!RouterPages!NeverStuck => RouterPages!NeverStuck
  BY DEF RouterPages!NeverStuck, Proved!RouterPages!NeverStuck, RouterPages!Coming,
       Proved!RouterPages!Coming, RouterPages!Idle, Proved!RouterPages!Idle
<1> QED
  BY RouterPagesBegins, RouterPagesGoesOn, <1>1, <1>2, <1>3, PTL DEF AdminSpec, Proved!RouterPages!Spec

(* A router does not stay between two statuses with nothing on the way     *)
(* that takes it on (the views, the API and the workers of routers), in    *)
(* the instance of the run.                                                *)
THEOREM RoutersMoveOn == AdminSpec => []RoutersAreNeverStuck
<1>1. [AdminNext]_everything => (~(part = "routers") => ~(part = "routers")')
  BY PartStays
<1>2. (part = "routers" => RouterPages!NeverStuck) => RoutersAreNeverStuck
  BY DEF RoutersAreNeverStuck
<1> QED
  BY <1>1, <1>2, RouterPagesNeverStuck, PTL DEF AdminSpec

-----------------------------------------------------------------------------
LEMMA PagesBegins == AdminInit /\ part = "pages" => Proved!Pages!Init
<1>1. Pages!Init => Proved!Pages!Init
  BY DEF Pages!Init, Proved!Pages!Init, Pages!AllWork, Proved!Pages!AllWork, Pages!New,
       Proved!Pages!New, Pages!Slots, Proved!Pages!Slots, Pages!RouterWork,
       Proved!Pages!RouterWork, Pages!ConversationWork, Proved!Pages!ConversationWork
<1> QED
  BY <1>1 DEF AdminInit

LEMMA PagesGoesOn ==
  part = "pages" /\ [AdminNext]_everything => [Proved!Pages!Next]_(Proved!Pages!vars)
<1>1. Pages!Next => Proved!Pages!Next
  BY DEF Pages!Next, Proved!Pages!Next, Pages!Serve, Proved!Pages!Serve, Pages!TokenExpires,
       Proved!Pages!TokenExpires, Pages!Dispatch, Proved!Pages!Dispatch, Pages!Slots,
       Proved!Pages!Slots, Pages!GetCached, Proved!Pages!GetCached, Pages!Fetch,
       Proved!Pages!Fetch, Pages!Fetched, Proved!Pages!Fetched, Pages!SaveStatus,
       Proved!Pages!SaveStatus, Pages!WorkerDies, Proved!Pages!WorkerDies, Pages!Evict,
       Proved!Pages!Evict, Pages!Tick, Proved!Pages!Tick, Pages!ConversationWork,
       Proved!Pages!ConversationWork, Pages!Begin, Proved!Pages!Begin, Pages!ManageConversation,
       Proved!Pages!ManageConversation, Pages!ManageHttpApi, Proved!Pages!ManageHttpApi,
       Pages!StartByTool, Proved!Pages!StartByTool, Pages!Load, Proved!Pages!Load,
       Pages!StartConversation, Proved!Pages!StartConversation, Pages!StopConversation,
       Proved!Pages!StopConversation, Pages!ArchiveConversation,
       Proved!Pages!ArchiveConversation, Pages!SaveEdits, Proved!Pages!SaveEdits,
       Pages!DispatchCommand, Proved!Pages!DispatchCommand, Pages!SendOneOffReply,
       Proved!Pages!SendOneOffReply, Pages!PostAction, Proved!Pages!PostAction, Pages!DrawToken,
       Proved!Pages!DrawToken, Pages!SetSystemToken, Proved!Pages!SetSystemToken,
       Pages!SetExpiry, Proved!Pages!SetExpiry, Pages!SendTokenUrl, Proved!Pages!SendTokenUrl,
       Pages!Resave, Proved!Pages!Resave, Pages!FollowLink, Proved!Pages!FollowLink,
       Pages!GetConfirmation, Proved!Pages!GetConfirmation, Pages!PostConfirmation,
       Proved!Pages!PostConfirmation, Pages!DeleteToken, Proved!Pages!DeleteToken,
       Pages!PerformAction, Proved!Pages!PerformAction, Pages!RequestDies,
       Proved!Pages!RequestDies, Pages!queues, Proved!Pages!queues, Pages!worker,
       Proved!Pages!worker, Pages!web, Proved!Pages!web, Pages!Received, Proved!Pages!Received,
       Pages!Handle, Proved!Pages!Handle, Pages!Busy, Proved!Pages!Busy, Pages!Age,
       Proved!Pages!Age, Pages!Stored, Proved!Pages!Stored, Pages!Acknowledge,
       Proved!Pages!Acknowledge, Pages!Request, Proved!Pages!Request, Pages!CommandAllows,
       Proved!Pages!CommandAllows, Pages!Tool, Proved!Pages!Tool, Pages!Saves,
       Proved!Pages!Saves, Pages!SetStatus, Proved!Pages!SetStatus, Pages!Goes,
       Proved!Pages!Goes, Pages!SetFinished, Proved!Pages!SetFinished, Pages!Ends,
       Proved!Pages!Ends, Pages!Edits, Proved!Pages!Edits, Pages!Edited, Proved!Pages!Edited,
       Pages!Sending, Proved!Pages!Sending, Pages!Sends, Proved!Pages!Sends, Pages!Command,
       Proved!Pages!Command, Pages!CheckActionIsEnabled, Proved!Pages!CheckActionIsEnabled,
       Pages!Sent, Proved!Pages!Sent, Pages!Exists, Proved!Pages!Exists, Pages!Link,
       Proved!Pages!Link, Pages!VerifyGet, Proved!Pages!VerifyGet, Pages!Deleted,
       Proved!Pages!Deleted, Pages!Name, Proved!Pages!Name, Pages!ChangeStatus,
       Proved!Pages!ChangeStatus, Pages!HandleMessage, Proved!Pages!HandleMessage,
       Pages!SendMessage, Proved!Pages!SendMessage, Pages!EditDetail, Proved!Pages!EditDetail,
       Pages!UpdateConfig, Proved!Pages!UpdateConfig, Pages!SetGroups, Proved!Pages!SetGroups,
       Pages!IsDisabled, Proved!Pages!IsDisabled, Pages!Range, Proved!Pages!Range,
       Pages!Mutated, Proved!Pages!Mutated
<1>2. UNCHANGED everything => UNCHANGED Proved!Pages!vars
  BY DEF Proved!Pages!web, Proved!Pages!queues, Proved!Pages!worker, Proved!Pages!vars,
       everything
<1> QED
  BY <1>1, <1>2 DEF AdminNext

LEMMA PagesHandledWhileRunning == AdminSpec => (part = "pages" => [](Pages!HandledWhileRunning))
<1>1. [AdminNext]_everything => (part = "pages" => (part = "pages")')
  BY PartStays
<1>2. Proved!Pages!Spec => []Proved!Pages!HandledWhileRunning
  <2>1. Proved!Pages!ConversationsConstants
    BY PartsAssumption DEF Pages!ConversationsConstants, Proved!Pages!ConversationsConstants
  <2> QED
    BY <2>1, Proved!OnlyRunningHandle
<1>3. Proved!Pages!HandledWhileRunning => Pages!HandledWhileRunning
  BY DEF Pages!HandledWhileRunning, Proved!Pages!HandledWhileRunning
<1> QED
  BY PagesBegins, PagesGoesOn, <1>1, <1>2, <1>3, PTL DEF AdminSpec, Proved!Pages!Spec

LEMMA PagesConfirmedOnce == AdminSpec => (part = "pages" => [](Pages!ConfirmedOnce))
<1>1. [AdminNext]_everything => (part = "pages" => (part = "pages")')
  BY PartStays
<1>2. Proved!Pages!Spec => []Proved!Pages!ConfirmedOnce
  <2>1. Proved!Pages!ConversationsConstants
    BY PartsAssumption DEF Pages!ConversationsConstants, Proved!Pages!ConversationsConstants
  <2> QED
    BY <2>1, Proved!ActionsAreConfirmedOnce
<1>3. Proved!Pages!ConfirmedOnce => Pages!ConfirmedOnce
  BY DEF Pages!ConfirmedOnce, Proved!Pages!ConfirmedOnce
<1> QED
  BY PagesBegins, PagesGoesOn, <1>1, <1>2, <1>3, PTL DEF AdminSpec, Proved!Pages!Spec

(* A message is handled by a conversation that runs, or ran within the     *)
(* time its copy is cached, and a confirmed action is performed once, for  *)
(* its own link (the pages, the token manager and the workers of           *)
(* conversations), in the instance of the run.                             *)
THEOREM CommandsAndActionsOnce == AdminSpec => []CommandsTakeEffectOnce
<1>1. [AdminNext]_everything => (~(part = "pages") => ~(part = "pages")')
  BY PartStays
<1>2. (part = "pages" => Pages!HandledWhileRunning /\ Pages!ConfirmedOnce) => CommandsTakeEffectOnce
  BY DEF CommandsTakeEffectOnce
<1> QED
  BY <1>1, <1>2, PagesHandledWhileRunning, PagesConfirmedOnce, PTL DEF AdminSpec

-----------------------------------------------------------------------------
LEMMA PlannedBegins == AdminInit /\ part = "scheduler" => Proved!Planned!Init
<1>1. Planned!Init => Proved!Planned!Init
  BY DEF Planned!Init, Proved!Planned!Init, Planned!Dates, Proved!Planned!Dates,
       Planned!NewTask, Proved!Planned!NewTask
<1> QED
  BY <1>1 DEF AdminInit

LEMMA PlannedGoesOn ==
  part = "scheduler" /\ [AdminNext]_everything => [Proved!Planned!Next]_(Proved!Planned!vars)
<1>1. Planned!Next => Proved!Planned!Next
  BY DEF Planned!Next, Proved!Planned!Next, Planned!Steps, Proved!Planned!Steps,
       Planned!PollTasks, Proved!Planned!PollTasks, Planned!Tick, Proved!Planned!Tick,
       Planned!Overlap, Proved!Planned!Overlap, Planned!DiesHalfWay, Proved!Planned!DiesHalfWay,
       Planned!PerformTask, Proved!Planned!PerformTask, Planned!GetPending,
       Proved!Planned!GetPending, Planned!GetTask, Proved!Planned!GetTask, Planned!StartTask,
       Proved!Planned!StartTask, Planned!PerformAction, Proved!Planned!PerformAction,
       Planned!DeletePending, Proved!Planned!DeletePending, Planned!CompleteTask,
       Proved!Planned!CompleteTask, Planned!Request, Proved!Planned!Request, Planned!GetObject,
       Proved!Planned!GetObject, Planned!CreatePending, Proved!Planned!CreatePending,
       Planned!SaveTask, Proved!Planned!SaveTask, Planned!GetRow, Proved!Planned!GetRow,
       Planned!WriteRow, Proved!Planned!WriteRow, Planned!Die, Proved!Planned!Die,
       Planned!Exists, Proved!Planned!Exists, Planned!Starting, Proved!Planned!Starting,
       Planned!Holds, Proved!Planned!Holds, Planned!Begin, Proved!Planned!Begin, Planned!Goes,
       Proved!Planned!Goes, Planned!Ends, Proved!Planned!Ends, Planned!AlreadyStarted,
       Proved!Planned!AlreadyStarted, Planned!Loads, Proved!Planned!Loads, Planned!Saves,
       Proved!Planned!Saves, Planned!Expected, Proved!Planned!Expected, Planned!Rows,
       Proved!Planned!Rows, Planned!Dates, Proved!Planned!Dates
<1>2. UNCHANGED everything => UNCHANGED Proved!Planned!vars
  BY DEF Proved!Planned!vars, everything
<1> QED
  BY <1>1, <1>2 DEF AdminNext

LEMMA PlannedPerformedOnce == AdminSpec => (part = "scheduler" => [](Planned!PerformedOnce))
<1>1. [AdminNext]_everything => (part = "scheduler" => (part = "scheduler")')
  BY PartStays
<1>2. Proved!Planned!Spec => []Proved!Planned!PerformedOnce
  <2>1. Proved!Planned!SchedulerConstants
    BY PartsAssumption DEF Planned!SchedulerConstants, Proved!Planned!SchedulerConstants,
         Planned!Dates, Proved!Planned!Dates, Planned!TaskState, Proved!Planned!TaskState,
         Planned!JobState, Proved!Planned!JobState
  <2> QED
    BY <2>1, Proved!TasksOnce
<1>3. Proved!Planned!PerformedOnce => Planned!PerformedOnce
  BY DEF Planned!PerformedOnce, Proved!Planned!PerformedOnce
<1> QED
  BY PlannedBegins, PlannedGoesOn, <1>1, <1>2, <1>3, PTL DEF AdminSpec, Proved!Planned!Spec

(* A task is performed at most once, and not when it was cancelled (the    *)
(* scheduler's loop and its pages), in the instance of the run.            *)
THEOREM EachTaskOnce == AdminSpec => []TasksArePerformedOnce
<1>1. [AdminNext]_everything => (~(part = "scheduler") => ~(part = "scheduler")')
  BY PartStays
<1>2. (part = "scheduler" => Planned!PerformedOnce) => TasksArePerformedOnce
  BY DEF TasksArePerformedOnce
<1> QED
  BY <1>1, <1>2, PlannedPerformedOnce, PTL DEF AdminSpec

-----------------------------------------------------------------------------
LEMMA SplitBegins == AdminInit /\ part = "conversation migrations" => Proved!Split!Init
<1>1. Split!Init => Proved!Split!Init
  BY DEF Split!Init, Proved!Split!Init, Split!Stored, Proved!Split!Stored, Split!Batches,
       Proved!Split!Batches, Split!Record, Proved!Split!Record, Split!Data, Proved!Split!Data,
       Split!NoIndex, Proved!Split!NoIndex, Split!IndexOfTwo, Proved!Split!IndexOfTwo,
       Split!MigrateFrom1, Proved!Split!MigrateFrom1
<1> QED
  BY <1>1 DEF AdminInit

LEMMA SplitGoesOn ==
  part = "conversation migrations" /\ [AdminNext]_everything => [Proved!Split!Next]_(Proved!Split!vars)
<1>1. Split!Next => Proved!Split!Next
  BY DEF Split!Next, Proved!Split!Next, Split!UpdateModels, Proved!Split!UpdateModels,
       Split!FixBatches, Proved!Split!FixBatches, Split!SplitBatches, Proved!Split!SplitBatches,
       Split!FixJsboxEndpoint, Proved!Split!FixJsboxEndpoint, Split!Use, Proved!Split!Use,
       Split!NewBatch, Proved!Split!NewBatch, Split!Replace, Proved!Split!Replace,
       Split!SetEndpoints, Proved!Split!SetEndpoints, Split!Save, Proved!Split!Save, Split!Die,
       Proved!Split!Die, Split!CopyMessage, Proved!Split!CopyMessage, Split!StoreMessage,
       Proved!Split!StoreMessage, Split!SetStatus, Proved!Split!SetStatus, Split!Load,
       Proved!Split!Load, Split!Start, Proved!Split!Start, Split!LoadV2, Proved!Split!LoadV2,
       Split!CanBeMigrated, Proved!Split!CanBeMigrated, Split!Idle, Proved!Split!Idle,
       Split!Goes, Proved!Split!Goes, Split!AllCopied, Proved!Split!AllCopied, Split!Changes,
       Proved!Split!Changes, Split!Batch, Proved!Split!Batch, Split!Data, Proved!Split!Data,
       Split!IndexOfTwo, Proved!Split!IndexOfTwo, Split!MigrateFrom2, Proved!Split!MigrateFrom2,
       Split!Job, Proved!Split!Job, Split!MigrateFrom1, Proved!Split!MigrateFrom1,
       Split!MigrateFromUnversioned, Proved!Split!MigrateFromUnversioned, Split!Record,
       Proved!Split!Record
<1>2. UNCHANGED everything => UNCHANGED Proved!Split!vars
  BY DEF Proved!Split!vars, everything
<1> QED
  BY <1>1, <1>2 DEF AdminNext

LEMMA SplitMigrationKeepsLife == AdminSpec => (part = "conversation migrations" => [](Split!MigrationKeepsLife))
<1>1. [AdminNext]_everything => (part = "conversation migrations" => (part = "conversation migrations")')
  BY PartStays
<1>2. Proved!Split!Spec => []Proved!Split!MigrationKeepsLife
  <2>1. Proved!Split!MigrationsConstants
    BY PartsAssumption DEF Split!MigrationsConstants, Proved!Split!MigrationsConstants,
         Split!ConversationState, Proved!Split!ConversationState, Split!JobState,
         Proved!Split!JobState, Split!Fields, Proved!Split!Fields, Split!Index,
         Proved!Split!Index, Split!Kinds, Proved!Split!Kinds, Split!Statuses,
         Proved!Split!Statuses, Split!Batches, Proved!Split!Batches
  <2> QED
    BY <2>1, Proved!LifeIsKept
<1>3. Proved!Split!MigrationKeepsLife => Split!MigrationKeepsLife
  BY DEF Split!MigrationKeepsLife, Proved!Split!MigrationKeepsLife, Split!Load,
       Proved!Split!Load, Split!Life, Proved!Split!Life, Split!LoadV2, Proved!Split!LoadV2,
       Split!Listed, Proved!Split!Listed, Split!MigrateFrom2, Proved!Split!MigrateFrom2,
       Split!StatusOfNone, Proved!Split!StatusOfNone, Split!StatusOf1, Proved!Split!StatusOf1,
       Split!StatusSince2, Proved!Split!StatusSince2, Split!MigrateFrom1,
       Proved!Split!MigrateFrom1, Split!MigrateFromUnversioned,
       Proved!Split!MigrateFromUnversioned, Split!CanBeMigrated, Proved!Split!CanBeMigrated,
       Split!Record, Proved!Split!Record, Split!Data, Proved!Split!Data, Split!IndexOfTwo,
       Proved!Split!IndexOfTwo
<1> QED
  BY SplitBegins, SplitGoesOn, <1>1, <1>2, <1>3, PTL DEF AdminSpec, Proved!Split!Spec

LEMMA SplitMessagesAreKept == AdminSpec => (part = "conversation migrations" => [](Split!MessagesAreKept))
<1>1. [AdminNext]_everything => (part = "conversation migrations" => (part = "conversation migrations")')
  BY PartStays
<1>2. Proved!Split!Spec => []Proved!Split!MessagesAreKept
  <2>1. Proved!Split!MigrationsConstants
    BY PartsAssumption DEF Split!MigrationsConstants, Proved!Split!MigrationsConstants,
         Split!ConversationState, Proved!Split!ConversationState, Split!JobState,
         Proved!Split!JobState, Split!Fields, Proved!Split!Fields, Split!Index,
         Proved!Split!Index, Split!Kinds, Proved!Split!Kinds, Split!Statuses,
         Proved!Split!Statuses, Split!Batches, Proved!Split!Batches
  <2> QED
    BY <2>1, Proved!MessagesStayInBatches
<1>3. Proved!Split!MessagesAreKept => Split!MessagesAreKept
  BY DEF Split!MessagesAreKept, Proved!Split!MessagesAreKept
<1> QED
  BY SplitBegins, SplitGoesOn, <1>1, <1>2, <1>3, PTL DEF AdminSpec, Proved!Split!Spec

LEMMA ReindexBegins == AdminInit /\ part = "contact migrations" => Proved!Reindex!Init
<1>1. Reindex!Init => Proved!Reindex!Init
  BY DEF Reindex!Init, Proved!Reindex!Init, Reindex!ContactOf, Proved!Reindex!ContactOf,
       Reindex!Idle, Proved!Reindex!Idle, Reindex!Fields, Proved!Reindex!Fields,
       Reindex!Contact, Proved!Reindex!Contact, Reindex!NoneSet, Proved!Reindex!NoneSet
<1> QED
  BY <1>1 DEF AdminInit

LEMMA ReindexGoesOn ==
  part = "contact migrations" /\ [AdminNext]_everything => [Proved!Reindex!Next]_(Proved!Reindex!vars)
<1>1. Reindex!Next => Proved!Reindex!Next
  BY DEF Reindex!Next, Proved!Reindex!Next, Reindex!Load, Proved!Reindex!Load, Reindex!Fields,
       Proved!Reindex!Fields, Reindex!Change, Proved!Reindex!Change, Reindex!Delete,
       Proved!Reindex!Delete, Reindex!Migrate, Proved!Reindex!Migrate, Reindex!Die,
       Proved!Reindex!Die, Reindex!WasMigrated, Proved!Reindex!WasMigrated, Reindex!Loaded,
       Proved!Reindex!Loaded, Reindex!WithAddress, Proved!Reindex!WithAddress, Reindex!Finish,
       Proved!Reindex!Finish, Reindex!NoneSet, Proved!Reindex!NoneSet, Reindex!Idle,
       Proved!Reindex!Idle, Reindex!MigrateFrom1, Proved!Reindex!MigrateFrom1,
       Reindex!MigrateFromUnversioned, Proved!Reindex!MigrateFromUnversioned, Reindex!Contact,
       Proved!Reindex!Contact, Reindex!Others, Proved!Reindex!Others
<1>2. UNCHANGED everything => UNCHANGED Proved!Reindex!vars
  BY DEF Proved!Reindex!vars, everything
<1> QED
  BY <1>1, <1>2 DEF AdminNext

LEMMA ReindexMigrationKeepsAddresses == AdminSpec => (part = "contact migrations" => [](Reindex!MigrationKeepsAddresses))
<1>1. [AdminNext]_everything => (part = "contact migrations" => (part = "contact migrations")')
  BY PartStays
<1>2. Proved!Reindex!Spec => []Proved!Reindex!MigrationKeepsAddresses
  <2>1. Proved!Reindex!ContactMigrationsConstants
    BY PartsAssumption DEF Reindex!ContactMigrationsConstants,
         Proved!Reindex!ContactMigrationsConstants, Reindex!ContactState,
         Proved!Reindex!ContactState, Reindex!Addresses, Proved!Reindex!Addresses,
         Reindex!Fields, Proved!Reindex!Fields
  <2> QED
    BY <2>1, Proved!AddressesAreKept
<1>3. Proved!Reindex!MigrationKeepsAddresses => Reindex!MigrationKeepsAddresses
  BY DEF Reindex!MigrationKeepsAddresses, Proved!Reindex!MigrationKeepsAddresses,
       Reindex!NoneSet, Proved!Reindex!NoneSet, Reindex!Loaded, Proved!Reindex!Loaded,
       Reindex!Fields, Proved!Reindex!Fields, Reindex!ContactsForAddr,
       Proved!Reindex!ContactsForAddr, Reindex!MigrateFrom1, Proved!Reindex!MigrateFrom1,
       Reindex!MigrateFromUnversioned, Proved!Reindex!MigrateFromUnversioned, Reindex!Contact,
       Proved!Reindex!Contact
<1> QED
  BY ReindexBegins, ReindexGoesOn, <1>1, <1>2, <1>3, PTL DEF AdminSpec, Proved!Reindex!Spec

(* Migrated or not, a conversation is as alive as it was and has all of    *)
(* its messages, and a contact has its addresses and is found by them (the *)
(* migrators and the commands that run them), in the instance of the run.  *)
THEOREM MigrationsLoseNothing == AdminSpec => []MigrationsKeepTheirObjects
<1>1. [AdminNext]_everything => (~(part = "conversation migrations") => ~(part = "conversation migrations")')
  BY PartStays
<1>2. [AdminNext]_everything => (~(part = "contact migrations") => ~(part = "contact migrations")')
  BY PartStays
<1>3. (part = "conversation migrations" => Split!MigrationKeepsLife /\ Split!MessagesAreKept) /\ (part = "contact migrations" => Reindex!MigrationKeepsAddresses) => MigrationsKeepTheirObjects
  BY DEF MigrationsKeepTheirObjects
<1> QED
  BY <1>1, <1>2, <1>3, SplitMigrationKeepsLife, SplitMessagesAreKept, ReindexMigrationKeepsAddresses, PTL DEF AdminSpec

-----------------------------------------------------------------------------
LEMMA SettingsBegins == AdminInit /\ part = "settings" => Proved!Settings!Init
<1>1. Settings!Init => Proved!Settings!Init
  BY DEF Settings!Init, Proved!Settings!Init, Settings!Old, Proved!Settings!Old,
       Settings!OptOutFlags, Proved!Settings!OptOutFlags, Settings!Created,
       Proved!Settings!Created, Settings!AccountVNone, Proved!Settings!AccountVNone,
       Settings!AccountV1, Proved!Settings!AccountV1, Settings!AccountV2,
       Proved!Settings!AccountV2, Settings!AccountV3, Proved!Settings!AccountV3,
       Settings!AccountV4, Proved!Settings!AccountV4, Settings!AccountV5,
       Proved!Settings!AccountV5, Settings!Fields, Proved!Settings!Fields, Settings!CopyIndexes,
       Proved!Settings!CopyIndexes, Settings!With, Proved!Settings!With
<1> QED
  BY <1>1 DEF AdminInit

LEMMA SettingsGoesOn ==
  part = "settings" /\ [AdminNext]_everything => [Proved!Settings!Next]_(Proved!Settings!vars)
<1>1. Settings!Next => Proved!Settings!Next
  BY DEF Settings!Next, Proved!Settings!Next, Settings!Old, Proved!Settings!Old, Settings!New,
       Proved!Settings!New, Settings!Load, Proved!Settings!Load, Settings!UpdateDetails,
       Proved!Settings!UpdateDetails, Settings!Flags, Proved!Settings!Flags, Settings!SetFlag,
       Proved!Settings!SetFlag, Settings!EnableApplication, Proved!Settings!EnableApplication,
       Settings!ProcessCreatePermission, Proved!Settings!ProcessCreatePermission,
       Settings!DisableApplication, Proved!Settings!DisableApplication,
       Settings!ProcessUpdatePermission, Proved!Settings!ProcessUpdatePermission,
       Settings!ProcessRemovePermission, Proved!Settings!ProcessRemovePermission, Settings!Save,
       Proved!Settings!Save, Settings!Die, Proved!Settings!Die, Settings!RollOut,
       Proved!Settings!RollOut, Settings!Idle, Proved!Settings!Idle, Settings!Loads,
       Proved!Settings!Loads, Settings!LoadAs, Proved!Settings!LoadAs, Settings!Job,
       Proved!Settings!Job, Settings!Existing, Proved!Settings!Existing, Settings!Ready,
       Proved!Settings!Ready, Settings!Changed, Proved!Settings!Changed, Settings!With,
       Proved!Settings!With, Settings!OptOutFlags, Proved!Settings!OptOutFlags, Settings!NotYet,
       Proved!Settings!NotYet, Settings!Fresh, Proved!Settings!Fresh, Settings!IsOne,
       Proved!Settings!IsOne, Settings!StoreAs, Proved!Settings!StoreAs, Settings!FlagsOf,
       Proved!Settings!FlagsOf, Settings!MigrateFromUnversioned,
       Proved!Settings!MigrateFromUnversioned, Settings!MigrateFrom1,
       Proved!Settings!MigrateFrom1, Settings!MigrateFrom2, Proved!Settings!MigrateFrom2,
       Settings!MigrateFrom3, Proved!Settings!MigrateFrom3, Settings!MigrateFrom4,
       Proved!Settings!MigrateFrom4, Settings!MigrateFrom5, Proved!Settings!MigrateFrom5,
       Settings!AccountsData, Proved!Settings!AccountsData, Settings!ReverseFrom6,
       Proved!Settings!ReverseFrom6, Settings!CopyValues, Proved!Settings!CopyValues,
       Settings!CopyIndexes, Proved!Settings!CopyIndexes, Settings!Unchanged,
       Proved!Settings!Unchanged, Settings!NoNull, Proved!Settings!NoNull, Settings!Fields,
       Proved!Settings!Fields
<1>2. UNCHANGED everything => UNCHANGED Proved!Settings!vars
  BY DEF Proved!Settings!vars, everything
<1> QED
  BY <1>1, <1>2 DEF AdminNext

LEMMA SettingsOptOutFlagsSurvive == AdminSpec => (part = "settings" => [](Settings!OptOutFlagsSurvive))
<1>1. [AdminNext]_everything => (part = "settings" => (part = "settings")')
  BY PartStays
<1>2. Proved!Settings!Spec => []Proved!Settings!OptOutFlagsSurvive
  <2>1. Proved!Settings!SettingsConstants
    BY PartsAssumption DEF Settings!SettingsConstants, Proved!Settings!SettingsConstants
  <2> QED
    BY <2>1, Proved!FlagsSurvive
<1>3. Proved!Settings!OptOutFlagsSurvive => Settings!OptOutFlagsSurvive
  BY DEF Settings!OptOutFlagsSurvive, Proved!Settings!OptOutFlagsSurvive, Settings!LoadAs,
       Proved!Settings!LoadAs, Settings!Loads, Proved!Settings!Loads, Settings!FlagsOf,
       Proved!Settings!FlagsOf, Settings!OptOutFlags, Proved!Settings!OptOutFlags,
       Settings!MigrateFromUnversioned, Proved!Settings!MigrateFromUnversioned,
       Settings!MigrateFrom1, Proved!Settings!MigrateFrom1, Settings!MigrateFrom2,
       Proved!Settings!MigrateFrom2, Settings!MigrateFrom3, Proved!Settings!MigrateFrom3,
       Settings!MigrateFrom4, Proved!Settings!MigrateFrom4, Settings!MigrateFrom5,
       Proved!Settings!MigrateFrom5, Settings!Old, Proved!Settings!Old, Settings!New,
       Proved!Settings!New, Settings!CopyValues, Proved!Settings!CopyValues,
       Settings!CopyIndexes, Proved!Settings!CopyIndexes, Settings!With, Proved!Settings!With,
       Settings!Unchanged, Proved!Settings!Unchanged, Settings!NoNull, Proved!Settings!NoNull,
       Settings!Fields, Proved!Settings!Fields
<1> QED
  BY SettingsBegins, SettingsGoesOn, <1>1, <1>2, <1>3, PTL DEF AdminSpec, Proved!Settings!Spec

LEMMA SettingsOnePermissionEach == AdminSpec => (part = "settings" => [](Settings!OnePermissionEach))
<1>1. [AdminNext]_everything => (part = "settings" => (part = "settings")')
  BY PartStays
<1>2. Proved!Settings!Spec => []Proved!Settings!OnePermissionEach
  <2>1. Proved!Settings!SettingsConstants
    BY PartsAssumption DEF Settings!SettingsConstants, Proved!Settings!SettingsConstants
  <2> QED
    BY <2>1, Proved!PermissionsAreUnique
<1>3. Proved!Settings!OnePermissionEach => Settings!OnePermissionEach
  BY DEF Settings!OnePermissionEach, Proved!Settings!OnePermissionEach
<1> QED
  BY SettingsBegins, SettingsGoesOn, <1>1, <1>2, <1>3, PTL DEF AdminSpec, Proved!Settings!Spec

(* The flags of an account survive its migrations, and no account has two  *)
(* permissions for the same thing (the migrators, pages and commands of    *)
(* accounts), in the instance of the run.                                  *)
THEOREM SavedSettingsSurvive == AdminSpec => []SettingsSurvive
<1>1. [AdminNext]_everything => (~(part = "settings") => ~(part = "settings")')
  BY PartStays
<1>2. (part = "settings" => Settings!OptOutFlagsSurvive /\ Settings!OnePermissionEach) => SettingsSurvive
  BY DEF SettingsSurvive
<1> QED
  BY <1>1, <1>2, SettingsOptOutFlagsSurvive, SettingsOnePermissionEach, PTL DEF AdminSpec
=============================================================================
