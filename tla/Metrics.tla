------------------------------ MODULE Metrics ------------------------------
(***************************************************************************)
(* GoMetricsWorker: at the start of each metrics interval it lists the     *)
(* running conversations of all accounts and distributes them into         *)
(* buckets; each granularity it sends a collect_metrics command to the     *)
(* conversations of a bucket.  And the application worker, which collects  *)
(* and publishes the metrics of a conversation, a command at a time.       *)
(*                                                                         *)
(* A request to Riak, Redis or the broker that fails raises, and nothing   *)
(* catches it: the LoopingCall stops for good.                             *)
(***************************************************************************)
EXTENDS Naturals, Sequences, FiniteSets, SequencesExt

CONSTANTS
  Convs, Accounts,
  OwnerOf,         \* the account of each conversation
  NumBuckets,      \* metrics_interval / metrics_granularity
  BucketOf,        \* hash(conv_key) % NumBuckets
  MaxCommands,     \* bound on the commands in the queue
  MaxChanges,      \* bound on conversations started or stopped, and accounts disabled
  MaxFailures,     \* bound on failures and restarts
  Nothing

MetricsConstants ==
  /\ IsFiniteSet(Convs) /\ Nothing \notin Convs
  /\ OwnerOf \in [Convs -> Accounts] /\ NumBuckets \in Nat \ {0}
  /\ BucketOf \in [Convs -> 0..(NumBuckets - 1)]
  /\ {MaxCommands, MaxChanges, MaxFailures} \subseteq Nat

VARIABLES
  running,         \* conversations whose stored status is running
  disabled,        \* disabled_metrics_accounts, in Redis
  at,              \* where metrics_loop_func is
  current_bucket, buckets,
  named,           \* _conversation_workers: what the name of a worker is known for
  accounts, keys,  \* what populate_conversation_buckets has to do yet
  commands,        \* the control queue of the application
  collecting,      \* the application's command in progress
  in_progress,     \* its _metrics_conversations
  changes, failures,
  sent,            \* history: commands per conversation in this cycle
  steady,          \* history: what was to be collected all through this cycle
  raised, ignored  \* history: what raised in this process, and what it ignored

loop == <<at, current_bucket, buckets, named, accounts, keys, sent, steady>>
application == <<collecting, in_progress, raised, ignored>>
world == <<running, disabled, changes>>
vars == <<loop, application, world, commands, failures>>

Enabled(c) == c \in running /\ OwnerOf[c] \notin disabled

-----------------------------------------------------------------------------
(* metrics_loop_func: the buckets are filled when the first is due. *)
LoopStarts ==
  /\ at = "idle"
  /\ IF current_bucket = 0
     THEN at' = "accounts" /\ sent' = [c \in Convs |-> 0] /\ steady' = {c \in Convs : Enabled(c)}
     ELSE at' = "process" /\ UNCHANGED <<sent, steady>>
  /\ UNCHANGED <<current_bucket, buckets, named, accounts, keys, application, world, commands, failures>>

\* find_account_keys: all keys but those of the disabled accounts
FindAccountKeys ==
  /\ at = "accounts" /\ accounts' = Accounts \ disabled /\ at' = "list"
  /\ UNCHANGED <<current_bucket, buckets, named, keys, sent, steady, application, world, commands, failures>>

FindConversations(a) ==
  /\ at = "list" /\ a \in accounts
  /\ accounts' = accounts \ {a}
  /\ keys' = SetToSeq({c \in running : OwnerOf[c] = a}) /\ at' = "fill"
  /\ UNCHANGED <<current_bucket, buckets, named, sent, steady, application, world, commands, failures>>

\* The conversation is loaded, for the name of its worker, the first time it is met.
FillBucket ==
  LET c == Head(keys) IN
  /\ at = "fill" /\ keys # <<>> /\ keys' = Tail(keys)
  /\ named' = named \union {c}
  /\ buckets' = [buckets EXCEPT ![BucketOf[c]] = Append(@, c)]
  /\ UNCHANGED <<at, current_bucket, accounts, sent, steady, application, world, commands, failures>>

Filled ==
  /\ \/ at = "fill" /\ keys = <<>> /\ at' = "list"
     \/ at = "list" /\ accounts = {} /\ at' = "process"
  /\ UNCHANGED <<current_bucket, buckets, named, accounts, keys, sent, steady, application, world, commands,
                 failures>>

(* process_bucket takes the conversations out before it sends.  (Fault for *)
(* the mutation runs: it leaves them in.)                                  *)
LeftIn == buckets
Emptied == [buckets EXCEPT ![current_bucket] = <<>>]

ProcessBucket ==
  /\ at = "process" /\ at' = "send"
  /\ keys' = buckets[current_bucket] /\ buckets' = Emptied
  /\ UNCHANGED <<current_bucket, named, accounts, sent, steady, application, world, commands, failures>>

SendMetricsCommand ==
  LET c == Head(keys) IN
  /\ at = "send" /\ keys # <<>> /\ Len(commands) < MaxCommands
  /\ keys' = Tail(keys) /\ commands' = Append(commands, c)
  /\ sent' = [sent EXCEPT ![c] = @ + 1]
  /\ UNCHANGED <<at, current_bucket, buckets, named, accounts, steady, application, world, failures>>

IncrementBucket ==
  /\ at = "send" /\ keys = <<>>
  /\ current_bucket' = (current_bucket + 1) % NumBuckets
  /\ at' = IF current_bucket' = 0 THEN "cycled" ELSE "idle"
  /\ UNCHANGED <<buckets, named, accounts, keys, sent, steady, application, world, commands, failures>>

\* The next call, when a granularity has passed and this one is done.
Granularity ==
  /\ at = "cycled" /\ at' = "idle"
  /\ UNCHANGED <<current_bucket, buckets, named, accounts, keys, sent, steady, application, world, commands,
                 failures>>

\* What raises in the middle of it stops the LoopingCall.
LoopRaises ==
  /\ \/ at \in {"accounts", "list", "send"}
     \/ at = "fill" /\ keys # <<>> /\ Head(keys) \notin named
  /\ failures < MaxFailures /\ failures' = failures + 1 /\ at' = "stopped"
  /\ UNCHANGED <<current_bucket, buckets, named, accounts, keys, sent, steady, application, world, commands>>

\* setup_worker, with nothing of what the process before it knew
SetupWorker ==
  /\ at' = "idle" /\ current_bucket' = 0
  /\ buckets' = [b \in 0..(NumBuckets - 1) |-> <<>>] /\ named' = {}
  /\ accounts' = {} /\ keys' = <<>>

Restart ==
  /\ failures < MaxFailures /\ failures' = failures + 1
  /\ SetupWorker
  /\ UNCHANGED <<sent, steady, application, world, commands>>

-----------------------------------------------------------------------------
(* process_command_collect_metrics: the next command comes when this one   *)
(* is done.                                                                *)
CollectMetrics ==
  LET c == Head(commands) IN
  /\ collecting = Nothing /\ commands # <<>>
  /\ commands' = Tail(commands)
  /\ IF c \in in_progress
     THEN ignored' = ignored \union {c} /\ UNCHANGED <<collecting, in_progress, raised>>
     ELSE collecting' = c /\ in_progress' = in_progress \union {c} /\ UNCHANGED <<raised, ignored>>
  /\ UNCHANGED <<loop, world, failures>>

(* publish_conversation_metrics reads the conversation and each metric,    *)
(* and publishes them.                                                     *)
Publish ==
  /\ collecting # Nothing
  /\ in_progress' = in_progress \ {collecting} /\ collecting' = Nothing
  /\ UNCHANGED <<loop, raised, ignored, world, commands, failures>>

\* If it raises the conversation stays in progress.
CollectRaises ==
  /\ collecting # Nothing /\ failures < MaxFailures /\ failures' = failures + 1
  /\ raised' = raised \union {collecting} /\ collecting' = Nothing
  /\ UNCHANGED <<loop, in_progress, ignored, world, commands>>

\* The command in progress was not acknowledged.
ApplicationDies ==
  /\ failures < MaxFailures /\ failures' = failures + 1
  /\ commands' = (IF collecting = Nothing THEN <<>> ELSE <<collecting>>) \o commands
  /\ collecting' = Nothing /\ in_progress' = {} /\ raised' = {} /\ ignored' = {}
  /\ UNCHANGED <<loop, world>>

-----------------------------------------------------------------------------
(* Others start and stop conversations; a tool disables and enables the    *)
(* metrics of an account, whose key is added to a set in Redis or removed. *)
Toggled(set, x) == (set \ {x}) \union ({x} \ set)
Changes ==
  /\ changes < MaxChanges /\ changes' = changes + 1
  /\ steady' = {c \in steady : c \in running' /\ OwnerOf[c] \notin disabled'}
  /\ UNCHANGED <<at, current_bucket, buckets, named, accounts, keys, sent, application, commands, failures>>

StartOrStop == (\E c \in Convs : running' = Toggled(running, c)) /\ UNCHANGED disabled /\ Changes
ManageMetrics == (\E a \in Accounts : disabled' = Toggled(disabled, a)) /\ UNCHANGED running /\ Changes

Init ==
  /\ running \in SUBSET Convs /\ disabled \in {{}} \union {{a} : a \in Accounts} /\ changes = 0
  /\ at = "idle" /\ current_bucket = 0 /\ buckets = [b \in 0..(NumBuckets - 1) |-> <<>>]
  /\ named = {} /\ accounts = {} /\ keys = <<>>
  /\ sent = [c \in Convs |-> 0] /\ steady = {}
  /\ commands = <<>> /\ collecting = Nothing /\ in_progress = {} /\ raised = {} /\ ignored = {}
  /\ failures = 0

Next ==
  \/ LoopStarts \/ FindAccountKeys \/ (\E a \in accounts : FindConversations(a))
  \/ FillBucket \/ Filled \/ ProcessBucket \/ SendMetricsCommand \/ IncrementBucket \/ Granularity
  \/ LoopRaises \/ Restart
  \/ CollectMetrics \/ Publish \/ CollectRaises \/ ApplicationDies
  \/ StartOrStop \/ ManageMetrics

Spec == Init /\ [][Next]_vars
-----------------------------------------------------------------------------
(* In a cycle no conversation is sent two commands, and one that was to be *)
(* collected all through the cycle was sent one when the cycle is over:    *)
(* whatever is started, stopped or disabled meanwhile, and wherever the    *)
(* loop was stopped and the worker restarted.  A command is ignored only   *)
(* if an earlier collection raised in the same process.                    *)
CollectedOncePerCycle ==
  /\ \A c \in Convs : sent[c] <= 1
  /\ at = "cycled" => \A c \in steady : sent[c] = 1
  /\ ignored \subseteq raised
=============================================================================
