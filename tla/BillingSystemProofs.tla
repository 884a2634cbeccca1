------------------------- MODULE BillingSystemProofs -------------------------
(***************************************************************************)
(* Proofs about the billing dispatcher in front of the API.  Every step of *)
(* the composition is a step of the API or leaves it alone, so what        *)
(* BillingApiProofs shows of the API holds in it (SystemRunsApi); with the *)
(* answers true of the table, what the dispatcher writes into the message  *)
(* is true as well.                                                        *)
(***************************************************************************)
EXTENDS BillingSystem, BillingApiProofs, FiniteSetTheorems

(* What the API does under the dispatcher is a behaviour of the API, so    *)
(* that what holds of the API holds in the composition.                    *)
THEOREM SystemRunsApi == SystemSpec => Spec
<1>1. SystemInit => Init
  BY DEF SystemInit
<1>2. [SystemNext]_system => [Next]_vars
  <2> SUFFICES ASSUME [SystemNext]_system PROVE [Next]_vars
    OBVIOUS
  <2>0. \A m \in Messages, k \in {1, 2} : <<m, k>> \in Requests
    BY BillingSystemAssumption
  <2>1. CASE \E m \in Messages : Dispatch(m)
    <3> PICK m \in Messages : Dispatch(m)
      BY <2>1
    <3>1. CASE PostTransaction(m) \/ Retry(m)
      <4>1. RenderPost(Call(m)) /\ Call(m) \in Requests
        BY <3>1 DEF PostTransaction, Retry, RenderPost
      <4> QED BY <4>1 DEF Next, Charge
    <3>2. CASE ~(PostTransaction(m) \/ Retry(m))
      BY <3>2 DEF Dispatch, PassUnbilled, CallRaises, BillingErrorAnswer, HandleAnswer
    <3> QED BY <3>1, <3>2
  <2>2. CASE \E r \in Requests : ApiStep(r)
    BY <2>2 DEF ApiStep, Next
  <2>3. CASE (\E t \in TopUps : Load(t)) \/ Crash
    BY <2>3 DEF Next
  <2>4. CASE UNCHANGED system
    BY <2>4 DEF system
  <2> QED BY <2>1, <2>2, <2>3, <2>4 DEF SystemNext
<1> QED BY <1>1, <1>2, PTL DEF SystemSpec, Spec

-----------------------------------------------------------------------------
(* The invariant of the dispatcher *)

\* Of a message none of whose calls raised: only the first call exists, it has not
\* been made before the message is taken up, and once the message has left, the
\* call is over and is_paid says whether it was charged.
HeardInv(m) ==
  ~unheard[m] =>
    /\ attempt[m] = 1 /\ pc[<<m, 2>>] = "idle" /\ stage[m] # "delay"
    /\ stage[m] = "idle" => pc[<<m, 1>>] = "idle" /\ ~paid[m]
    /\ stage[m] = "posted" => ~paid[m]
    /\ stage[m] \in Ended => /\ pc[<<m, 1>>] \in {"idle", "answered"}
                             /\ paid[m] <=> <<m, 1>> \in charged

\* An answer has one of the codes the API gives to a POST.
AnsweredInv ==
  \A r \in Requests : pc[r] = "answered" => reply[r].code \in {200, 400, 500}

DispatcherInv ==
  /\ stage \in [Messages -> {"idle", "posted", "delay"} \cup Ended]
  /\ attempt \in [Messages -> {1, 2}]
  /\ paid \in [Messages -> BOOLEAN]
  /\ closed \in [Messages -> BOOLEAN]
  /\ unheard \in [Messages -> BOOLEAN]
  /\ \A m \in Messages : HeardInv(m)
  /\ PaidIsCharged
  /\ AnsweredInv

\* A step of the API for call r: nobody else's call is begun or ended by it (a
\* waiter may be given its connection), and no row disappears.
LEMMA ApiStepFact ==
  ASSUME IInv, NEW r \in Requests, Charge(r)
  PROVE  /\ charged \subseteq charged'
         /\ charged' \subseteq charged \cup {r}
         /\ r \in charged' \ charged => pc[r] = "commit"
         /\ pc[r] # "answered"
         /\ \A d \in Requests \ {r} :
              pc'[d] = pc[d] \/ (pc[d] \in Queued /\ pc'[d] \in InTransaction \cup {"ping"})
<1>1. Shift(r)
  BY ChargeShift DEF IInv
<1>2. /\ charged \subseteq charged'
      /\ charged' \subseteq charged \cup {r}
      /\ r \in charged' \ charged => pc[r] = "commit"
  <2>1. CASE Commit(r)
    BY <2>1 DEF Commit
  <2>2. CASE ~Commit(r)
    BY <2>2 DEF Charge, RejectPost, RenderPost, GetCost, CostFound, CostMissing,
       AccountMissing, SelectBalance, InsertTransaction, UpdateBalance,
       NotifyThreshold, RenderToJson, MappingEmpty, Fail, db, history
  <2> QED BY <2>1, <2>2
<1>3. pc[r] # "answered"
  BY DEF Charge, RejectPost, RenderPost, GetCost, CostFound, CostMissing,
     AccountMissing, SelectBalance, InsertTransaction, UpdateBalance,
     NotifyThreshold, RenderToJson, MappingEmpty, Fail, Commit, InTransaction
<1> QED BY <1>1, <1>2, <1>3 DEF Shift, Queued, InTransaction, Callers

\* The code of an answer is 400, 500 or what RenderToJson copies from the result.
LEMMA AnsweredStep ==
  ASSUME IInv, AnsweredInv, NEW r \in Requests, Charge(r)
  PROVE  AnsweredInv'
<1> r \in Callers /\ Requests \subseteq Callers
  BY DEF Callers
<1>0. TypeOK /\ TableOf(r)
  BY DEF IInv, TableInv
<1>1. \A d \in Requests \ {r} : pc'[d] = "answered" => pc[d] = "answered"
  BY ApiStepFact DEF InTransaction
<1>2. ASSUME NEW v \in Responses, v.code \in {200, 400, 500},
             reply' = [reply EXCEPT ![r] = v]
      PROVE  AnsweredInv'
  BY <1>0, <1>1, <1>2 DEF AnsweredInv, TypeOK
<1>3. CASE RejectPost(r)
  <2>1. Code(400) \in Responses /\ Code(400).code = 400
    BY ZenonT(80) DEF Code, NoReply, Responses
  <2> QED BY ZenonT(80), <1>2, <1>3, <2>1 DEF RejectPost
<1>4. CASE CostMissing(r) \/ AccountMissing(r) \/ MappingEmpty(r) \/ Fail(r)
  <2>1. Code(500) \in Responses /\ Code(500).code = 500
    BY ZenonT(80) DEF Code, NoReply, Responses
  <2> QED BY <1>2, <1>4, <2>1 DEF CostMissing, AccountMissing, MappingEmpty, Fail, Rollback
<1>5. CASE RenderToJson(r)
  <2>1. result[r] \in Responses /\ result[r].code = 200
    BY <1>0, <1>5 DEF RenderToJson, TypeOK, TableOf
  <2> QED BY ZenonT(80), <1>2, <1>5, <2>1 DEF RenderToJson
<1>6. ASSUME UNCHANGED reply, pc'[r] # "answered"
      PROVE  AnsweredInv'
  BY <1>1, <1>6 DEF AnsweredInv
<1>7. CASE RenderPost(r)
  BY <1>0, <1>6, <1>7 DEF RenderPost, Acquire, TypeOK
<1>8. CASE GetCost(r)
  BY <1>0, <1>6, <1>8 DEF GetCost, Acquire, TypeOK
<1>9. CASE CostFound(r) \/ Commit(r)
  BY <1>6, <1>9 DEF CostFound, Commit, Release
<1>10. CASE SelectBalance(r) \/ InsertTransaction(r) \/ UpdateBalance(r) \/ NotifyThreshold(r)
  BY <1>0, <1>6, <1>10 DEF SelectBalance, InsertTransaction, UpdateBalance,
     NotifyThreshold, TypeOK
<1> QED BY <1>3, <1>4, <1>5, <1>7, <1>8, <1>9, <1>10 DEF Charge

LEMMA DispatcherInit == SystemInit => DispatcherInv
<1> SUFFICES ASSUME SystemInit PROVE DispatcherInv
  OBVIOUS
<1>1. \A m \in Messages, k \in {1, 2} : <<m, k>> \in Requests
  BY BillingSystemAssumption
<1>2. \A r \in Requests : pc[r] = "idle"
  BY DEF SystemInit, Init, Callers
<1>3. \A m \in Messages : stage[m] = "idle" /\ attempt[m] = 1 /\ ~paid[m] /\ ~unheard[m]
  BY DEF SystemInit
<1>4. /\ stage \in [Messages -> {"idle", "posted", "delay"} \cup Ended]
      /\ attempt \in [Messages -> {1, 2}]
      /\ paid \in [Messages -> BOOLEAN]
      /\ closed \in [Messages -> BOOLEAN]
      /\ unheard \in [Messages -> BOOLEAN]
  BY DEF SystemInit
<1> QED BY <1>1, <1>2, <1>3, <1>4 DEF DispatcherInv, HeardInv, PaidIsCharged, AnsweredInv, Ended

\* A step of the API, of Django or a crash, which the dispatcher does not see.
LEMMA UnseenStep ==
  ASSUME DispatcherInv, UNCHANGED dispatcher, AnsweredInv', charged \subseteq charged',
         \A m \in Messages, k \in {1, 2} :
            /\ pc[<<m, k>>] = "idle" => pc'[<<m, k>>] = "idle"
            /\ pc[<<m, k>>] \in {"idle", "answered"} =>
                 /\ pc'[<<m, k>>] \in {"idle", "answered"}
                 /\ <<m, k>> \in charged' => <<m, k>> \in charged
  PROVE  DispatcherInv'
<1> USE DEF dispatcher
<1>1. PaidIsCharged'
  BY DEF DispatcherInv, PaidIsCharged, Charges
<1>2. \A m \in Messages : HeardInv(m)'
  BY DEF DispatcherInv, HeardInv
<1> QED BY <1>1, <1>2 DEF DispatcherInv

LEMMA DispatchStep ==
  ASSUME IInv, DispatcherInv, NEW m \in Messages, Dispatch(m)
  PROVE  DispatcherInv'
<1>0. /\ stage \in [Messages -> {"idle", "posted", "delay"} \cup Ended]
      /\ attempt \in [Messages -> {1, 2}]
      /\ paid \in [Messages -> BOOLEAN]
      /\ closed \in [Messages -> BOOLEAN]
      /\ unheard \in [Messages -> BOOLEAN]
      /\ \A n \in Messages : HeardInv(n)
      /\ PaidIsCharged /\ AnsweredInv
  BY DEF DispatcherInv
<1>1. \A n \in Messages, k \in {1, 2} : <<n, k>> \in Requests
  BY BillingSystemAssumption
<1>2. Call(m) \in Requests /\ Call(m) = <<m, attempt[m]>>
  BY <1>0, <1>1 DEF Call
<1>3. AnswerOf(Call(m)) /\ TableOf(Call(m)) /\ TypeOK /\ QueueInv
  BY <1>2 DEF IInv, TableInv, AnswerAgreesWithTable
<1>t. /\ stage' \in [Messages -> {"idle", "posted", "delay"} \cup Ended]
      /\ attempt' \in [Messages -> {1, 2}]
      /\ closed' \in [Messages -> BOOLEAN]
      /\ unheard' \in [Messages -> BOOLEAN]
  <2>1. CASE PassUnbilled(m) \/ PostTransaction(m) \/ Retry(m) \/ BillingErrorAnswer(m)
    <3>1. UNCHANGED <<attempt, closed, unheard>>
      BY <2>1 DEF PassUnbilled, PostTransaction, Retry, BillingErrorAnswer
    <3>2. \E where \in {"posted"} \cup Ended : stage' = [stage EXCEPT ![m] = where]
      BY <2>1 DEF PassUnbilled, PostTransaction, Retry, BillingErrorAnswer, Goes, Ended
    <3> QED BY <1>0, <3>1, <3>2 DEF Ended
  <2>2. CASE CallRaises(m)
    BY <1>0, <2>2 DEF CallRaises, RetryOrPass, Goes, Ended
  <2>3. CASE HandleAnswer(m)
    <3>1. UNCHANGED <<attempt, unheard>>
          /\ (UNCHANGED closed \/ closed' = [closed EXCEPT ![m] = TRUE])
      BY <2>3 DEF HandleAnswer
    <3>2. \E where \in Ended : stage' = [stage EXCEPT ![m] = where]
      BY <2>3 DEF HandleAnswer, Goes, Ended
    <3> QED BY <1>0, <3>1, <3>2 DEF Ended
  <2> QED BY <2>1, <2>2, <2>3 DEF Dispatch
<1>4. CASE PostTransaction(m)
  <2>1. RenderPost(Call(m)) /\ stage[m] = "idle" /\ stage' = [stage EXCEPT ![m] = "posted"]
        /\ UNCHANGED <<attempt, paid, closed, unheard>>
    BY <1>4 DEF PostTransaction, Goes
  <2>2. Charge(Call(m)) /\ UNCHANGED charged
    BY <2>1 DEF Charge, RenderPost, db, history
  <2>3. AnsweredInv'
    BY <1>0, <1>2, <2>2, AnsweredStep
  <2>4. \A d \in Callers \ {Call(m)} : pc'[d] = pc[d]
    BY <1>2, <1>3, <2>1, AcquireFact DEF RenderPost, Acquire, TypeOK
  <2>5. ASSUME NEW n \in Messages PROVE HeardInv(n)'
    <3>1. CASE n = m
      <4>1. ~unheard[m] => <<m, 2>> # Call(m) /\ <<m, 2>> \in Callers
        <5>1. ~unheard[m] => <<m, 2>> # <<m, attempt[m]>>
          <6>1. HeardInv(m) /\ \A k \in {1, 2} : k # 2 => <<m, 2>> # <<m, k>>
            BY <1>0
          <6> QED BY <6>1 DEF HeardInv
        <5> QED BY <1>1, <1>2, <5>1 DEF Callers
      <4> QED BY <1>0, <2>1, <2>4, <3>1, <4>1 DEF HeardInv, Ended
    <3>2. CASE n # m
      <4>1. \A k \in {1, 2} : <<n, k>> \in Callers \ {Call(m)}
        <5> TAKE k \in {1, 2}
        <5>1. <<n, k>> # <<m, attempt[m]>>
          BY <3>2
        <5> QED BY <1>1, <1>2, <5>1 DEF Callers
      <4> QED BY <1>0, <2>1, <2>2, <2>4, <3>2, <4>1 DEF HeardInv
    <3> QED BY <3>1, <3>2
  <2>6. PaidIsCharged'
    BY <1>0, <2>1, <2>2 DEF PaidIsCharged, Charges
  <2> QED BY <1>0, <1>t, <2>1, <2>3, <2>5, <2>6 DEF DispatcherInv
<1>5. CASE Retry(m)
  <2>1. RenderPost(Call(m)) /\ stage[m] = "delay" /\ stage' = [stage EXCEPT ![m] = "posted"]
        /\ UNCHANGED <<attempt, paid, closed, unheard>>
    BY <1>5 DEF Retry, Goes
  <2>2. Charge(Call(m)) /\ UNCHANGED charged
    BY <2>1 DEF Charge, RenderPost, db, history
  <2>3. AnsweredInv'
    BY <1>0, <1>2, <2>2, AnsweredStep
  <2>4. \A d \in Callers \ {Call(m)} : pc'[d] = pc[d]
    BY <1>2, <1>3, <2>1 DEF RenderPost, Acquire, TypeOK
  <2>5. ASSUME NEW n \in Messages PROVE HeardInv(n)'
    <3>1. CASE n = m
      BY <1>0, <2>1, <3>1 DEF HeardInv
    <3>2. CASE n # m
      <4>1. \A k \in {1, 2} : <<n, k>> \in Callers \ {Call(m)}
        <5> TAKE k \in {1, 2}
        <5>1. <<n, k>> # <<m, attempt[m]>>
          BY <3>2
        <5> QED BY <1>1, <1>2, <5>1 DEF Callers
      <4> QED BY <1>0, <2>1, <2>2, <2>4, <3>2, <4>1 DEF HeardInv
    <3> QED BY <3>1, <3>2
  <2>6. PaidIsCharged'
    BY <1>0, <2>1, <2>2 DEF PaidIsCharged, Charges
  <2> QED BY <1>0, <1>t, <2>1, <2>3, <2>5, <2>6 DEF DispatcherInv
<1>6. CASE CallRaises(m)
  <2>1. UNCHANGED <<vars, paid>> /\ unheard' = [unheard EXCEPT ![m] = TRUE]
        /\ \A n \in Messages \ {m} : stage'[n] = stage[n] /\ attempt'[n] = attempt[n]
    BY <1>0, <1>6 DEF CallRaises, RetryOrPass, Goes
  <2>2. \A n \in Messages : HeardInv(n)'
    BY <1>0, <2>1 DEF HeardInv, vars, db, history
  <2>3. UNCHANGED <<pc, reply, charged>>
    BY <2>1 DEF vars, db, history
  <2>4. PaidIsCharged' /\ AnsweredInv'
    <3>1. PaidIsCharged'
      BY <1>0, <2>1, <2>3 DEF PaidIsCharged, Charges
    <3>2. AnsweredInv'
      BY <1>0, <2>3 DEF AnsweredInv
    <3> QED BY <3>1, <3>2
  <2> QED BY <1>0, <1>t, <2>1, <2>2, <2>4 DEF DispatcherInv
<1>7. CASE PassUnbilled(m) \/ BillingErrorAnswer(m) \/ HandleAnswer(m)
  <2> DEFINE ok == IF HandleAnswer(m) THEN TransactionMade(m) ELSE paid[m]
  <2>1. /\ UNCHANGED <<vars, attempt, unheard>>
        /\ \A n \in Messages \ {m} : stage'[n] = stage[n] /\ paid'[n] = paid[n]
        /\ stage'[m] \in Ended
    BY <1>0, <1>7 DEF PassUnbilled, BillingErrorAnswer, HandleAnswer, Goes, Ended
  <2>2. paid' \in [Messages -> BOOLEAN]
    <3>1. TransactionMade(m) \in BOOLEAN
      BY <1>2, <1>3 DEF TransactionMade, TypeOK, Responses, Callers
    <3> QED BY <1>0, <1>7, <3>1 DEF PassUnbilled, BillingErrorAnswer, HandleAnswer
  <2>3. PaidIsCharged' /\ (~unheard[m] => HeardInv(m)')
    <3>1. CASE PassUnbilled(m)
      <4>1. stage[m] = "idle" /\ UNCHANGED paid
        BY <3>1 DEF PassUnbilled
      <4>2. PaidIsCharged'
        BY <1>0, <2>1, <4>1 DEF PaidIsCharged, Charges, vars, db, history
      <4>3. pc[<<m, 1>>] = "idle" => <<m, 1>> \notin charged
        BY <1>1 DEF IInv, TableInv, TableOf, Final
      <4> QED BY <1>0, <2>1, <4>1, <4>2, <4>3 DEF HeardInv, vars, db, history, Ended
    <3>2. CASE BillingErrorAnswer(m)
      <4>1. stage[m] = "posted" /\ UNCHANGED paid /\ pc[Call(m)] = "answered"
            /\ reply[Call(m)].code # 200
        BY <3>2 DEF BillingErrorAnswer
      <4>2. PaidIsCharged'
        BY ZenonT(80), <1>0, <2>1, <4>1 DEF PaidIsCharged, Charges, vars, db, history
      <4>3. Call(m) \notin charged
        BY <1>0, <1>2, <1>3, <4>1 DEF AnsweredInv, AnswerOf
      <4> QED BY <1>0, <1>2, <2>1, <4>1, <4>2, <4>3 DEF HeardInv, vars, db, history, Ended
    <3>3. CASE HandleAnswer(m)
      <4>1. stage[m] = "posted" /\ pc[Call(m)] = "answered" /\ reply[Call(m)].code = 200
            /\ paid' = [paid EXCEPT ![m] = reply[Call(m)].transaction]
        BY <3>3 DEF HandleAnswer, TransactionMade
      <4>2. paid'[m] <=> Call(m) \in charged
        BY <1>0, <1>3, <4>1 DEF AnswerOf
      <4>3. PaidIsCharged'
        <5>1. paid'[m] => Charges(m)' # {}
          BY <1>0, <1>2, <2>1, <4>2 DEF Charges, vars, db, history
        <5> QED BY <1>0, <2>1, <5>1 DEF PaidIsCharged, Charges, vars, db, history
      <4> QED BY <1>0, <1>2, <2>1, <4>1, <4>2, <4>3 DEF HeardInv, vars, db, history, Ended
    <3> QED BY <1>7, <3>1, <3>2, <3>3
  <2>4. \A n \in Messages : HeardInv(n)'
    <3> TAKE n \in Messages
    <3>1. CASE n = m
      BY <1>0, <2>1, <2>3, <3>1 DEF HeardInv
    <3>2. CASE n # m
      BY <1>0, <2>1, <3>2 DEF HeardInv, vars, db, history
    <3> QED BY <3>1, <3>2
  <2>5. AnsweredInv'
    BY <1>0, <2>1 DEF AnsweredInv, vars
  <2> QED BY <1>t, <2>2, <2>3, <2>4, <2>5 DEF DispatcherInv
<1> QED BY <1>4, <1>5, <1>6, <1>7 DEF Dispatch

LEMMA SystemStep == IInv /\ DispatcherInv /\ [SystemNext]_system => DispatcherInv'
<1> SUFFICES ASSUME IInv, DispatcherInv, [SystemNext]_system PROVE DispatcherInv'
  OBVIOUS
<1>0. (\A m \in Messages, k \in {1, 2} : <<m, k>> \in Requests) /\ Requests \subseteq Callers
  BY BillingSystemAssumption DEF Callers
<1>1. CASE \E m \in Messages : Dispatch(m)
  BY <1>1, DispatchStep
<1>2. CASE (\E r \in Requests : ApiStep(r)) /\ UNCHANGED dispatcher
  <2> PICK r \in Requests : ApiStep(r)
    BY <1>2
  <2>1. Charge(r) /\ pc[r] # "idle"
    BY DEF ApiStep
  <2>2. AnsweredInv'
    BY <2>1, AnsweredStep DEF DispatcherInv
  <2>3. \A d \in Requests :
            /\ pc[d] = "idle" => pc'[d] = "idle"
            /\ pc[d] \in {"idle", "answered"} =>
                 /\ pc'[d] \in {"idle", "answered"}
                 /\ d \in charged' => d \in charged
    BY <2>1, ApiStepFact DEF Queued
  <2> QED BY <1>0, <1>2, <2>1, <2>2, <2>3, ApiStepFact, UnseenStep
<1>3. CASE (\E t \in TopUps : Load(t)) /\ UNCHANGED dispatcher
  <2>1. UNCHANGED <<pc, pool, local, reply, charged>>
    BY <1>3, LoadType DEF IInv
  <2>2. AnsweredInv'
    BY <2>1 DEF DispatcherInv, AnsweredInv
  <2> QED BY <1>3, <2>1, <2>2, UnseenStep
<1>4. CASE Crash /\ UNCHANGED dispatcher
  <2>1. \A c \in Callers : pc'[c] = IF pc[c] \in Final \cup {"idle"} THEN pc[c] ELSE "lost"
    BY <1>4 DEF Crash
  <2>2. UNCHANGED <<reply, charged>>
    BY <1>4 DEF Crash, history
  <2>3. AnsweredInv'
    BY <1>0, <2>1, <2>2 DEF DispatcherInv, AnsweredInv
  <2>4. \A d \in Callers :
            /\ pc[d] = "idle" => pc'[d] = "idle"
            /\ pc[d] \in {"idle", "answered"} => pc'[d] \in {"idle", "answered"}
    BY <2>1 DEF Final
  <2> QED BY <1>0, <1>4, <2>2, <2>3, <2>4, UnseenStep
<1>5. CASE UNCHANGED system
  <2>1. UNCHANGED <<dispatcher, pc, reply, charged>>
    BY <1>5 DEF system, vars, db, history
  <2>2. AnsweredInv'
    BY <2>1 DEF DispatcherInv, AnsweredInv
  <2> QED BY <2>1, <2>2, UnseenStep
<1> QED BY <1>1, <1>2, <1>3, <1>4, <1>5 DEF SystemNext

LEMMA DispatcherInductive == SystemSpec => [](IInv /\ DispatcherInv)
<1>1. SystemSpec => []IInv
  BY SystemRunsApi, Inductive, PTL
<1>2. SystemSpec => []DispatcherInv
  BY <1>1, DispatcherInit, SystemStep, PTL DEF SystemSpec
<1> QED BY <1>1, <1>2, PTL

\* is_paid is never a lie, however many calls raise, fail or are made twice.
THEOREM PaidMessagesAreCharged == SystemSpec => []PaidIsCharged
<1>1. DispatcherInv => PaidIsCharged
  BY DEF DispatcherInv
<1> QED BY <1>1, DispatcherInductive, PTL

\* A message none of whose calls raised leaves the dispatcher charged at most once,
\* and marked paid exactly when it was.
THEOREM HeardMessagesBilledOnce == SystemSpec => []BilledOnceUnlessUnheard
<1>1. IInv /\ DispatcherInv => BilledOnceUnlessUnheard
  <2> SUFFICES ASSUME IInv, DispatcherInv,
                      NEW m \in Messages, ~unheard[m], stage[m] \in Ended
               PROVE  Cardinality(Charges(m)) <= 1 /\ (paid[m] <=> Charges(m) # {})
    BY DEF BilledOnceUnlessUnheard
  <2>1. HeardInv(m) /\ <<m, 2>> \in Requests
    BY BillingSystemAssumption DEF DispatcherInv
  <2>2. <<m, 2>> \notin charged
    BY <2>1 DEF HeardInv, IInv, TableInv, TableOf, Final
  <2>3. Charges(m) = IF <<m, 1>> \in charged THEN {1} ELSE {}
    BY <2>2 DEF Charges
  <2>4. Cardinality({}) = 0 /\ Cardinality({1}) = 1
    BY FS_EmptySet, FS_Singleton
  <2> QED BY <2>1, <2>3, <2>4 DEF HeardInv
<1> QED BY <1>1, DispatcherInductive, PTL

-----------------------------------------------------------------------------
(* The cutoff is never applied to an account with credit *)

\* Who is stopped sent outbound, for an account that was under the limit and is still.
StopOf(m) ==
  stage[m] = "dropped" \/ closed[m] =>
    Direction(m) = "Outbound" /\ Under(<<m, 1>>, balance[Account(m)])

StopInv == \A m \in Messages : StopOf(m)

LEMMA StopStays ==
  ASSUME TypeOK, TypeOK', NothingLoaded, topup = OpeningTopup, Falls,
         NEW m \in Messages, StopOf(m),
         stage'[m] = "dropped" \/ closed'[m] => stage[m] = "dropped" \/ closed[m]
  PROVE  StopOf(m)'
<1>1. <<m, 1>> \in Requests /\ Account(m) = AccountOf[<<m, 1>>]
  BY BillingSystemAssumption DEF Account
<1>2. Under(<<m, 1>>, balance[Account(m)]) => Under(<<m, 1>>, balance[Account(m)])'
  BY <1>1, UnderStays DEF Account
<1> QED BY <1>2 DEF StopOf, Direction

LEMMA StopStep ==
  ASSUME NothingLoaded
  PROVE  /\ IInv /\ IInv' /\ DispatcherInv /\ ToldInv /\ StopInv
         /\ [Next]_vars /\ [SystemNext]_system
         => StopInv'
<1> SUFFICES ASSUME IInv, IInv', DispatcherInv, ToldInv, StopInv, [Next]_vars, [SystemNext]_system
             PROVE  StopInv'
  OBVIOUS
<1>0. /\ TypeOK /\ TypeOK' /\ topup = OpeningTopup /\ Falls
      /\ \A m \in Messages : StopOf(m)
  BY ToldStep DEF IInv, ToldInv, StopInv
<1>1. /\ stage \in [Messages -> {"idle", "posted", "delay"} \cup Ended]
      /\ closed \in [Messages -> BOOLEAN] /\ attempt \in [Messages -> {1, 2}]
  BY DEF DispatcherInv
<1>2. ASSUME \A m \in Messages : stage'[m] = "dropped" \/ closed'[m] => stage[m] = "dropped" \/ closed[m]
      PROVE  StopInv'
  BY <1>0, <1>2, StopStays DEF StopInv
<1>3. ASSUME NEW m \in Messages, HandleAnswer(m) PROVE StopInv'
  <2>1. /\ pc[Call(m)] = "answered" /\ UNCHANGED vars
        /\ \A n \in Messages \ {m} : stage'[n] = stage[n] /\ closed'[n] = closed[n]
    BY <1>1, <1>3 DEF HandleAnswer, Goes
  <2>2. \A n \in Messages \ {m} : StopOf(n)'
    BY <1>0, <2>1, StopStays
  <2>3. CASE CutoffApplies(m)
    <3>1. Direction(m) = "Outbound" /\ reply[Call(m)].credit_cutoff_reached
      BY <2>3 DEF CutoffApplies
    <3>2. Call(m) \in Requests /\ AccountOf[Call(m)] = Account(m)
      <4>1. attempt[m] \in {1, 2} /\ Call(m) = <<m, attempt[m]>>
        BY <1>1 DEF Call
      <4>2. /\ <<m, 1>> \in Requests /\ <<m, 2>> \in Requests
            /\ AccountOf[<<m, 1>>] = AccountOf[<<m, 2>>]
        BY BillingSystemAssumption
      <4> QED BY <4>1, <4>2 DEF Account
    <3>3. Under(Call(m), balance[AccountOf[Call(m)]])
      BY <3>1, <3>2 DEF ToldInv, ToldOf
    <3>4. Under(<<m, 1>>, balance[Account(m)])
      BY <3>2, <3>3 DEF Under, Account
    <3>5. Under(<<m, 1>>, balance[Account(m)])'
      BY <2>1, <3>4 DEF Under, Account, vars, db, account
    <3>6. StopOf(m)'
      BY <3>1, <3>5 DEF StopOf, Direction
    <3> QED BY <2>2, <3>6 DEF StopInv
  <2>4. CASE ~CutoffApplies(m)
    <3>1. stage'[m] = "published" /\ closed' = closed
      BY <1>1, <1>3, <2>4 DEF HandleAnswer, Goes
    <3>2. StopOf(m)'
      BY <1>0, <3>1, StopStays
    <3> QED BY <2>2, <3>2 DEF StopInv
  <2> QED BY <2>3, <2>4
<1>4. CASE \E m \in Messages : Dispatch(m)
  <2> PICK m \in Messages : Dispatch(m)
    BY <1>4
  <2>1. CASE HandleAnswer(m)
    BY <1>3, <2>1
  <2>2. CASE ~HandleAnswer(m)
    <3>1. closed' = closed /\ (\A n \in Messages \ {m} : stage'[n] = stage[n])
          /\ stage'[m] \in {"published", "posted", "delay"}
      BY <1>1, <2>2 DEF Dispatch, PassUnbilled, PostTransaction, CallRaises, RetryOrPass, Retry,
         BillingErrorAnswer, Goes
    <3> QED BY <1>2, <3>1
  <2> QED BY <2>1, <2>2
<1>5. CASE UNCHANGED dispatcher
  BY <1>2, <1>5 DEF dispatcher
<1>6. UNCHANGED system => UNCHANGED dispatcher
  BY DEF system
<1> QED BY <1>4, <1>5, <1>6 DEF SystemNext

\* Without top-ups the balance never comes back between the API's look and the
\* dispatcher's decision, and nothing a user sends in is stopped: for any number of
\* messages, of connections, of failures and crashes.
THEOREM CutoffsAreDeserved ==
  ASSUME NothingLoaded
  PROVE  SystemSpec => []StoppedOnlyUnderLimit
<1>1. SystemInit => StopInv
  <2> SUFFICES ASSUME SystemInit PROVE StopInv
    OBVIOUS
  <2>1. \A m \in Messages : stage[m] = "idle" /\ ~closed[m]
    BY DEF SystemInit
  <2> QED BY <2>1 DEF StopInv, StopOf
<1>2. SystemSpec => [](IInv /\ ToldInv) /\ [][Next]_vars
  BY SystemRunsApi, ToldInductive, PTL DEF Spec
<1>3. IInv /\ IInv' /\ DispatcherInv /\ ToldInv /\ StopInv /\ [Next]_vars /\ [SystemNext]_system
      => StopInv'
  BY StopStep
<1>4. DispatcherInv /\ StopInv => StoppedOnlyUnderLimit
  BY DEF DispatcherInv, StopInv, StopOf, Under, Cutoff, SystemTypeOK, StoppedOnlyUnderLimit, Account
<1> QED BY <1>1, <1>2, <1>3, <1>4, DispatcherInductive, PTL DEF SystemSpec
=============================================================================
