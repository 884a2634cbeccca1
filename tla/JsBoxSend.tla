------------------------------ MODULE JsBoxSend ------------------------------
(***************************************************************************)
(* The script that starts a JavaScript conversation with its contacts: it  *)
(* collects the addresses of those opted in, without the ones of a file,   *)
(* and sends each a push trigger, held back by a ticker.  After a run that *)
(* died the next is given the addresses that were reported as started.     *)
(***************************************************************************)
EXTENDS Naturals, Sequences

CONSTANTS
  Contacts,            \* the contacts of the conversation, in the order they are loaded
  MinDt,               \* the time between two ticks, 1/hz
  MaxNow, MaxRuns, MaxChanges, \* bounds
  Nothing

JsBoxSendConstants ==
  /\ {MinDt, MaxNow, MaxRuns, MaxChanges} \subseteq Nat /\ MinDt > 0
  /\ Nothing \notin Nat

Positions == 1..Len(Contacts)
Addresses == {Contacts[k] : k \in Positions}

VARIABLES
  now,
  opted_out,           \* the addresses that are opted out
  run,                 \* where the script is, the contacts it has left, and the address it sends to
  last,                \* when the ticker was called last, and when it lets go
  wake,
  excluded,            \* the addresses of exclude-addresses-file
  reported,            \* those that a run said it started
  sent,                \* history: the push triggers of this run, and when
  earlier,             \* history: the addresses runs before it have sent to
  runs, changes

vars == <<now, opted_out, run, last, wake, excluded, reported, sent, earlier, runs, changes>>

OptInOrOut(a) ==
  /\ changes < MaxChanges /\ changes' = changes + 1
  /\ opted_out' = IF a \in opted_out THEN opted_out \ {a} ELSE opted_out \union {a}
  /\ UNCHANGED <<now, run, last, wake, excluded, reported, sent, earlier, runs>>

\* to_addrs, as the positions of their contacts
Collected == {k \in Positions : Contacts[k] \notin opted_out \union excluded'}
Run(where, to_addrs, to_addr) == [at |-> where, left |-> to_addrs, to_addr |-> to_addr]

\* send_jsbox: by the conversation, the opt-outs and the file as they are when it starts
SendJsbox ==
  /\ run.at = "idle" /\ runs < MaxRuns /\ runs' = runs + 1
  /\ excluded' = reported
  /\ run' = Run("send", Collected, Nothing) /\ last' = Nothing
  /\ earlier' = earlier \union {sent[i].to_addr : i \in 1..Len(sent)} /\ sent' = <<>>
  /\ UNCHANGED <<now, opted_out, wake, reported, changes>>

\* send_inbound_push_trigger says so, ...
SendInboundPushTrigger ==
  /\ run.at = "send"
  /\ \E k \in run.left :
       /\ \A j \in run.left : k <= j
       /\ reported' = reported \union {Contacts[k]}
       /\ run' = Run("publish", run.left \ {k}, Contacts[k])
  /\ UNCHANGED <<now, opted_out, last, wake, excluded, sent, earlier, runs, changes>>

\* ... and send_to_conv publishes it.
SendToConv ==
  /\ run.at = "publish"
  /\ sent' = Append(sent, [to_addr |-> run.to_addr, at |-> now])
  /\ run' = Run("tick", run.left, Nothing)
  /\ UNCHANGED <<now, opted_out, last, wake, excluded, reported, earlier, runs, changes>>

Delay(dt) == IF dt > MinDt THEN 0 ELSE MinDt - dt

\* Ticker.tick: last is when it was called, and not when it let go.
TickerTick ==
  /\ run.at = "tick"
  /\ wake' = IF last = Nothing THEN now ELSE now + Delay(now - last)
  /\ last' = now /\ run' = Run("wait", run.left, Nothing)
  /\ UNCHANGED <<now, opted_out, excluded, reported, sent, earlier, runs, changes>>

Ticked ==
  /\ run.at = "wait" /\ now >= wake /\ run' = Run("send", run.left, Nothing)
  /\ UNCHANGED <<now, opted_out, last, wake, excluded, reported, sent, earlier, runs, changes>>

Stop ==
  /\ run.at = "send" /\ run.left = {} /\ run' = Run("idle", {}, Nothing)
  /\ UNCHANGED <<now, opted_out, last, wake, excluded, reported, sent, earlier, runs, changes>>

Die ==
  /\ run.at # "idle" /\ run' = Run("idle", {}, Nothing)
  /\ UNCHANGED <<now, opted_out, last, wake, excluded, reported, sent, earlier, runs, changes>>

Clock ==
  /\ now < MaxNow /\ now' = now + 1
  /\ UNCHANGED <<opted_out, run, last, wake, excluded, reported, sent, earlier, runs, changes>>

Init ==
  /\ now = 0 /\ opted_out = {} /\ run = Run("idle", {}, Nothing) /\ last = Nothing /\ wake = 0
  /\ excluded = {} /\ reported = {} /\ sent = <<>> /\ earlier = {} /\ runs = 0 /\ changes = 0

Next ==
  \/ \E a \in Addresses : OptInOrOut(a)
  \/ SendJsbox \/ SendInboundPushTrigger \/ SendToConv \/ TickerTick \/ Ticked
  \/ Stop \/ Die \/ Clock

Spec == Init /\ [][Next]_vars
-----------------------------------------------------------------------------
(* The ticker lets two messages go at most in the time that it has for     *)
(* one, however late it is called; and no address that an earlier run has  *)
(* started is started again.                                               *)
SendsAreTicked ==
  /\ \A i \in 1..Len(sent) : i + 2 <= Len(sent) => sent[i + 2].at >= sent[i].at + MinDt
  /\ \A i \in 1..Len(sent) : sent[i].to_addr \notin earlier
==============================================================================
