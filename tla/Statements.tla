----------------------------- MODULE Statements -----------------------------
(***************************************************************************)
(* Monthly statements and the archiving of transactions, for one account:  *)
(* the tasks of go/billing/tasks.py, the two commands that run them by     *)
(* hand, and the transactions the billing API goes on writing meanwhile.   *)
(*                                                                         *)
(* Costs are whole thousandths of a cent and a markup a whole percentage.  *)
(* Credits are counted in units of 10^-4 of those, in which the            *)
(* conversion factor of 10 and the six decimals of the columns make every  *)
(* quantisation exact.                                                     *)
(***************************************************************************)
EXTENDS Naturals, FiniteSets, FiniteSetsExt, Functions, Sequences

CONSTANTS
  Ids,             \* primary keys of transactions
  Charges,         \* what a message may cost, see Charge
  Tasks,           \* numbers of the processes that run tasks
  MaxMonth,        \* bound on the months of a behaviour
  MaxStatements,   \* bound on the statements
  MaxArchives,     \* bound on the archives
  ArchiveAfter,    \* the months_ago of archive_monthly_transactions
  EarlyArchives,   \* is a month archived, and deleted, before it is over
  Faults,          \* may a task die, or an upload fail
  Nothing

Months == 1..MaxMonth

Charge == [type : {"Message", "Top Up"}, tag_pool : STRING, direction : STRING,
           message_cost : Nat, storage_cost : Nat, session_cost : Nat,
           session_created : BOOLEAN, unit_cost : Nat, intervals : Nat, markup : Nat]

StatementsConstants ==
  /\ Charges \subseteq Charge
  /\ MaxMonth \in Nat /\ MaxStatements \in Nat /\ MaxArchives \in Nat
  /\ ArchiveAfter \in 1..3 /\ EarlyArchives \in BOOLEAN /\ Faults \in BOOLEAN

VARIABLES
  now,             \* the current month
  table,           \* billing_transaction: the rows that are there
  charged,         \* history: the rows that ever were
  bucket,          \* per month, the rows in its file in S3
  statements,      \* the statements, in the order of their making
  archives,        \* the records of archivals
  task,
  forced           \* history: months archived by hand without a statement

vars == <<now, table, charged, bucket, statements, archives, task, forced>>

-----------------------------------------------------------------------------
(* MessageCost: costs are marked up, and only then are credits. *)
Credits(cost, markup) == cost * (100 + markup)

SessionLengthCost(c) == c.unit_cost * c.intervals

\* calculate_credit_cost: what the transaction takes off the balance.
CreditCost(c) ==
  Credits(c.message_cost + c.storage_cost
            + (IF c.session_created THEN c.session_cost ELSE 0) + SessionLengthCost(c), c.markup)

Rows(m) == {r \in table : r.month = m}               \* get_transactions
MessageRows(rows) == {r \in rows : r.charge.type = "Message"}

-----------------------------------------------------------------------------
(* Line items: summarize() groups the rows by the selected fields and adds *)
(* up the others.  get_*_unit_cost divides by the number of rows.           *)
Sum(amounts) == FoldFunction(+, 0, amounts)

Item(kind, group, cost, credits, units, unit_cost) ==
  [kind |-> kind, group |-> group, cost |-> cost, credits |-> credits,
   units |-> units, unit_cost |-> unit_cost]

MessageItems(rows) ==
  LET Select(c) == <<c.tag_pool, c.direction, c.message_cost, c.markup>>
      messages == MessageRows(rows)
      Group(g) == {r \in messages : Select(r.charge) = g}
      Cost(g) == Sum([r \in Group(g) |-> r.charge.message_cost])
      Credit(g) == Sum([r \in Group(g) |-> Credits(r.charge.message_cost, r.charge.markup)])
      Units(g) == Cardinality(Group(g))
  IN {Item("message", g, Cost(g), Credit(g), Units(g), Cost(g) \div Units(g)) :
        g \in {Select(r.charge) : r \in messages}}

\* (Fault for the mutation runs: every message of a session counts as its start.)
AnyMessage(rows) == MessageRows(rows)
SessionRows(rows) == {r \in MessageRows(rows) : r.charge.session_created}

SessionItems(rows) ==
  LET Select(c) == <<c.tag_pool, c.session_cost, c.markup>>
      sessions == SessionRows(rows)
      Group(g) == {r \in sessions : Select(r.charge) = g}
      Cost(g) == Sum([r \in Group(g) |-> r.charge.session_cost])
      Credit(g) == Sum([r \in Group(g) |-> Credits(r.charge.session_cost, r.charge.markup)])
      Units(g) == Cardinality(Group(g))
  IN {Item("session", g, Cost(g), Credit(g), Units(g), Cost(g) \div Units(g)) :
        g \in {Select(r.charge) : r \in sessions}}

\* The cost of the intervals is divided by that of one: rows without a cost are left out.
SessionLengthItems(rows) ==
  LET Select(c) == <<c.tag_pool, c.unit_cost, c.markup>>
      lengths == {r \in MessageRows(rows) : SessionLengthCost(r.charge) # 0}
      Group(g) == {r \in lengths : Select(r.charge) = g}
      Cost(g) == Sum([r \in Group(g) |-> SessionLengthCost(r.charge)])
      Credit(g) == Sum([r \in Group(g) |-> Credits(SessionLengthCost(r.charge), r.charge.markup)])
  IN {Item("session_length", g, Cost(g), Credit(g), Cost(g) \div g[2], g[2]) :
        g \in {Select(r.charge) : r \in lengths}}

\* Stored messages are grouped by cost and credits.
StorageItems(rows) ==
  LET Select(c) == <<c.storage_cost, Credits(c.storage_cost, c.markup)>>
      messages == MessageRows(rows)
      Group(g) == {r \in messages : Select(r.charge) = g}
      Cost(g) == Sum([r \in Group(g) |-> r.charge.storage_cost])
      Credit(g) == Sum([r \in Group(g) |-> Credits(r.charge.storage_cost, r.charge.markup)])
      Units(g) == Cardinality(Group(g))
  IN {Item("storage", g, Cost(g), Credit(g), Units(g), Cost(g) \div Units(g)) :
        g \in {Select(r.charge) : r \in messages}}

\* totals_from_items
Total(items) == MapThenSumSet(LAMBDA i : i.credits, items)

-----------------------------------------------------------------------------
Idle == [at |-> "idle", month |-> 0, id |-> 0, items |-> {}, rows |-> {},
         archives |-> FALSE, deletes |-> FALSE]

Becomes(t, r) == task' = [task EXCEPT ![t] = r]
Goes(t, at) == Becomes(t, [task[t] EXCEPT !.at = at])
Ends(t) == Becomes(t, Idle)

\* The tasks and commands of one month are run one at a time.
Free(t, m) == task[t] = Idle /\ m \in Months /\ \A u \in Tasks : task[u].month # m

HasStatement(m) == \E i \in 1..Len(statements) : statements[i].month = m
HasArchive(m) == \E i \in 1..Len(archives) : archives[i].month = m

NewStatement(t, m, by, archives_after) ==
  /\ Len(statements) < MaxStatements
  /\ statements' = Append(statements, [month |-> m, status |-> "pending", items |-> {}, by |-> by])
  /\ Becomes(t, [Idle EXCEPT !.at = "exists", !.month = m, !.id = Len(statements) + 1,
                             !.archives = archives_after, !.deletes = archives_after])
  /\ UNCHANGED <<now, table, charged, bucket, archives, forced>>

(* generate_monthly_account_statements: last month, if the account has no  *)
(* statement of it.                                                        *)
GenerateMonthly(t) ==
  Free(t, now - 1) /\ ~HasStatement(now - 1) /\ NewStatement(t, now - 1, "schedule", FALSE)

(* gen_statement_then_archive_monthly: accounts with neither. *)
GenerateThenArchiveMonthly(t) ==
  /\ Free(t, now - 1) /\ ~HasStatement(now - 1) /\ ~HasArchive(now - 1)
  /\ NewStatement(t, now - 1, "schedule", TRUE)

(* go_gen_statements: any month. *)
GenerateByHand(t, m) == Free(t, m) /\ m <= now /\ NewStatement(t, m, "hand", FALSE)

\* transactions.exists()
AnyTransactions(t) ==
  /\ task[t].at = "exists"
  /\ Goes(t, IF Rows(task[t].month) # {} THEN "messages" ELSE "complete")
  /\ UNCHANGED <<now, table, charged, bucket, statements, archives, forced>>

Lists(t, at, items, next) ==
  /\ task[t].at = at
  /\ Becomes(t, [task[t] EXCEPT !.items = @ \union items, !.at = next])
  /\ UNCHANGED <<now, table, charged, bucket, statements, archives, forced>>

ListMessages(t) == Lists(t, "messages", MessageItems(Rows(task[t].month)), "sessions")
ListSessions(t) == Lists(t, "sessions", SessionItems(Rows(task[t].month)), "lengths")
ListSessionLengths(t) == Lists(t, "lengths", SessionLengthItems(Rows(task[t].month)), "storage")
ListStorage(t) == Lists(t, "storage", StorageItems(Rows(task[t].month)), "create")

\* bulk_create
CreateItems(t) ==
  /\ task[t].at = "create"
  /\ statements' = [statements EXCEPT ![task[t].id] = [@ EXCEPT !.items = task[t].items]]
  /\ Goes(t, "complete")
  /\ UNCHANGED <<now, table, charged, bucket, archives, forced>>

CompleteStatement(t) ==
  /\ task[t].at = "complete"
  /\ statements' = [statements EXCEPT ![task[t].id] = [@ EXCEPT !.status = "completed"]]
  /\ IF task[t].archives THEN Goes(t, "archive") ELSE Ends(t)
  /\ UNCHANGED <<now, table, charged, bucket, archives, forced>>

-----------------------------------------------------------------------------
(* archive_transactions: a record, the file, and the deletion of what the  *)
(* query finds by then.                                                    *)
NewArchive(t, r) ==
  /\ Len(archives) < MaxArchives
  /\ archives' = Append(archives, [month |-> r.month, status |-> "created"])
  /\ Becomes(t, [r EXCEPT !.at = "check_key", !.id = Len(archives) + 1])

ArchiveMonthly(t) ==
  /\ Free(t, now - ArchiveAfter) /\ ~HasArchive(now - ArchiveAfter)
  /\ NewArchive(t, [Idle EXCEPT !.month = now - ArchiveAfter, !.deletes = TRUE])
  /\ UNCHANGED <<now, table, charged, bucket, statements, forced>>

(* go_archive_transactions, with or without --delete and --no-statement. *)
ArchiveByHand(t, m, deletes, no_statement) ==
  /\ Free(t, m) /\ m <= now
  /\ deletes /\ ~EarlyArchives => m < now
  /\ HasStatement(m) \/ no_statement
  /\ NewArchive(t, [Idle EXCEPT !.month = m, !.deletes = deletes])
  /\ forced' = IF no_statement THEN forced \union {m} ELSE forced
  /\ UNCHANGED <<now, table, charged, bucket, statements>>

ThenArchive(t) ==
  /\ task[t].at = "archive"
  /\ NewArchive(t, task[t])
  /\ UNCHANGED <<now, table, charged, bucket, statements, forced>>

\* upload() refuses a key the bucket has: it is not to be replaced.
KeyExists(m) == bucket[m] # Nothing

\* The cursor of the query is opened when the first chunk is read.
ReadTransactions(t) ==
  LET m == task[t].month IN
  /\ task[t].at = "check_key"
  /\ IF KeyExists(m) THEN Ends(t)
     ELSE Becomes(t, [task[t] EXCEPT !.rows = Rows(m), !.at = "upload"])
  /\ UNCHANGED <<now, table, charged, bucket, statements, archives, forced>>

\* complete_upload, or cancel_upload
Upload(t) ==
  /\ task[t].at = "upload"
  /\ \/ /\ bucket' = [bucket EXCEPT ![task[t].month] = task[t].rows]
        /\ Goes(t, "uploaded")
     \/ Faults /\ Ends(t) /\ UNCHANGED bucket
  /\ UNCHANGED <<now, table, charged, statements, archives, forced>>

MarkUploaded(t) ==
  /\ task[t].at = "uploaded"
  /\ archives' = [archives EXCEPT ![task[t].id] = [@ EXCEPT !.status = "uploaded"]]
  /\ IF task[t].deletes THEN Goes(t, "delete") ELSE Ends(t)
  /\ UNCHANGED <<now, table, charged, bucket, statements, forced>>

DeleteTransactions(t) ==
  /\ task[t].at = "delete"
  /\ table' = table \ Rows(task[t].month)
  /\ Goes(t, "mark")
  /\ UNCHANGED <<now, charged, bucket, statements, archives, forced>>

MarkCompleted(t) ==
  /\ task[t].at = "mark"
  /\ archives' = [archives EXCEPT ![task[t].id] = [@ EXCEPT !.status = "completed"]]
  /\ Ends(t)
  /\ UNCHANGED <<now, table, charged, bucket, statements, forced>>

-----------------------------------------------------------------------------
\* The billing API, or a top-up, commits a transaction.
Commit(c) ==
  /\ \E i \in Ids : /\ \A r \in charged : r.id # i
                    /\ \A j \in Ids : (\A r \in charged : r.id # j) => i <= j
                    /\ LET row == [id |-> i, month |-> now, charge |-> c]
                       IN table' = table \union {row} /\ charged' = charged \union {row}
  /\ UNCHANGED <<now, bucket, statements, archives, task, forced>>

NextMonth ==
  /\ now < MaxMonth /\ now' = now + 1
  /\ UNCHANGED <<table, charged, bucket, statements, archives, task, forced>>

\* A task dies, and is not run again.
Die(t) ==
  /\ Faults /\ task[t] # Idle /\ Ends(t)
  /\ UNCHANGED <<now, table, charged, bucket, statements, archives, forced>>

Init ==
  /\ now = 1 /\ table = {} /\ charged = {} /\ forced = {}
  /\ bucket = [m \in Months |-> Nothing] /\ statements = <<>> /\ archives = <<>>
  /\ task = [t \in Tasks |-> Idle]

Starts(t) ==
  \/ GenerateMonthly(t) \/ GenerateThenArchiveMonthly(t) \/ ArchiveMonthly(t)
  \/ \E m \in Months : \/ GenerateByHand(t, m)
                       \/ \E deletes, no_statement \in BOOLEAN : ArchiveByHand(t, m, deletes, no_statement)

Steps(t) ==
  \/ AnyTransactions(t) \/ ListMessages(t) \/ ListSessions(t) \/ ListSessionLengths(t) \/ ListStorage(t)
  \/ CreateItems(t) \/ CompleteStatement(t)
  \/ ThenArchive(t) \/ ReadTransactions(t) \/ Upload(t) \/ MarkUploaded(t)
  \/ DeleteTransactions(t) \/ MarkCompleted(t)

Next ==
  \/ \E t \in Tasks : Starts(t) \/ Steps(t) \/ Die(t)
  \/ \E c \in Charges : Commit(c)
  \/ NextMonth

Spec == Init /\ [][Next]_vars
-----------------------------------------------------------------------------
(* No charge is lost: a transaction is in the table or in the file of its  *)
(* month, whatever tasks died on the way and whatever was archived twice,  *)
(* if no month is deleted before it is over.  And the record of an         *)
(* archival says what there is: uploaded, its month has a file; completed, *)
(* the file has the whole month and the table nothing.                     *)
NothingIsLost ==
  /\ \A r \in charged : r \in table \/ (bucket[r.month] # Nothing /\ r \in bucket[r.month])
  /\ \A i \in 1..Len(archives) :
       LET a == archives[i] IN
       /\ a.status # "created" => bucket[a.month] # Nothing
       /\ a.status = "completed" => /\ Rows(a.month) = {}
                                    /\ bucket[a.month] = {r \in charged : r.month = a.month}

(* A completed statement the schedule made of a month accounts for all of  *)
(* it: the credits of its items are those the messages were charged, and   *)
(* each item is so many units of one cost.  Months that were archived by   *)
(* hand without a statement are not.                                       *)
StatementsAccountForTheMonth ==
  \A i \in 1..Len(statements) :
    LET s == statements[i]
        messages == {r \in charged : r.month = s.month /\ r.charge.type = "Message"}
    IN s.status = "completed" /\ s.by = "schedule" /\ s.month \notin forced =>
         /\ Total(s.items) = Sum([r \in messages |-> CreditCost(r.charge)])
         /\ \A item \in s.items : item.units * item.unit_cost = item.cost
=============================================================================
