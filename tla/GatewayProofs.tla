--------------------------- MODULE GatewayProofs ----------------------------
(***************************************************************************)
(* What the front doors guarantee for any number of messages, handlers,    *)
(* consumers and faults, and any limit and thresholds.                     *)
(*                                                                         *)
(* AtLeastOnce and AnswersAreTrue need each other: a consumer that is told *)
(* 404 holds an accepted message that is neither lent nor queued, which by *)
(* AtLeastOnce somebody has acknowledged.  Known and Promised say what a   *)
(* request may rely on between its steps: a push that has written its file *)
(* finds it there, unless an acknowledgement of another copy of the id has *)
(* removed it meanwhile.  TornKnown is AtLeastOnce's last part for every   *)
(* file, also of a message that is not accepted, or not yet.               *)
(***************************************************************************)
EXTENDS Gateway, FiniteSetTheorems, SequenceTheorems, TLAPS

\* Nothing is queued or lent that was not accepted.
Known == \A id \in Ids : Queued(id) \/ id \in lent => id \in accepted

\* What the next step of a request relies on.
Promised ==
    /\ \A h \in Handlers :
           /\ serving[h].at = "appending" => serving[h].id \in files \cup acked
           /\ serving[h].at = "pushed" => serving[h].id \in accepted
    /\ \A k \in Consumers :
           /\ consuming[k].at = "holding" => consuming[k].id \in accepted
           /\ consuming[k].at = "unlinking" => consuming[k].id \in acked

\* A file is torn only by a push that fails.
TornKnown == \A id \in torn : PushFailed(id)

GatewayInv == TypeOK /\ AtLeastOnce /\ AnswersAreTrue /\ Known /\ Promised /\ TornKnown

-----------------------------------------------------------------------------
(* The queue. *)

LEMMA AppendFact ==
    ASSUME TypeOK, NEW x \in Ids, queue' = Append(queue, x)
    PROVE  queue' \in Seq(Ids) /\ \A id \in Ids : Queued(id)' <=> Queued(id) \/ id = x
<1>1. queue \in Seq(Ids) /\ Len(queue) \in Nat /\ DOMAIN queue = 1..Len(queue)
  BY LenProperties DEF TypeOK
<1>2. /\ queue' \in Seq(Ids)
      /\ DOMAIN queue' = 1..(Len(queue) + 1)
      /\ \A i \in 1..Len(queue) : queue'[i] = queue[i]
      /\ queue'[Len(queue) + 1] = x
  BY <1>1
<1> QED
  BY <1>1, <1>2 DEF Queued

LEMMA PrependFact ==
    ASSUME TypeOK, NEW x \in Ids, queue' = <<x>> \o queue
    PROVE  queue' \in Seq(Ids) /\ \A id \in Ids : Queued(id)' <=> Queued(id) \/ id = x
<1>1. queue \in Seq(Ids) /\ Len(queue) \in Nat /\ DOMAIN queue = 1..Len(queue)
  BY LenProperties DEF TypeOK
<1>2. /\ queue' \in Seq(Ids)
      /\ DOMAIN queue' = 1..(Len(queue) + 1)
      /\ \A i \in 1..Len(queue) : queue'[i + 1] = queue[i]
      /\ queue'[1] = x
  BY <1>1
<1>3. \A j \in 1..(Len(queue) + 1) : j = 1 \/ (j - 1 \in 1..Len(queue) /\ queue'[j] = queue[j - 1])
  BY <1>1, <1>2
<1>4. ASSUME NEW id \in Ids PROVE Queued(id)' => Queued(id) \/ id = x
  BY <1>1, <1>2, <1>3 DEF Queued
<1>5. ASSUME NEW id \in Ids, Queued(id) \/ id = x PROVE Queued(id)'
  <2>1. CASE id = x
    BY <1>1, <1>2, <2>1 DEF Queued
  <2>2. CASE Queued(id)
    <3>1. PICK i \in 1..Len(queue) : queue[i] = id
      BY <1>1, <2>2 DEF Queued
    <3>2. i + 1 \in 1..(Len(queue) + 1) /\ queue'[i + 1] = id
      BY <1>1, <1>2, <3>1
    <3> QED
      BY <1>2, <3>2 DEF Queued
  <2> QED
    BY <1>5, <2>1, <2>2
<1> QED
  BY <1>2, <1>4, <1>5

LEMMA TailFact ==
    ASSUME TypeOK, queue # <<>>, queue' = Tail(queue)
    PROVE  /\ queue' \in Seq(Ids) /\ Head(queue) \in Ids /\ Queued(Head(queue))
           /\ \A id \in Ids : Queued(id)' => Queued(id)
           /\ \A id \in Ids : Queued(id) => Queued(id)' \/ id = Head(queue)
<1>1. queue \in Seq(Ids) /\ Len(queue) \in Nat \ {0} /\ DOMAIN queue = 1..Len(queue)
  BY LenProperties, EmptySeq DEF TypeOK
<1>2. /\ queue' \in Seq(Ids)
      /\ DOMAIN queue' = 1..(Len(queue) - 1)
      /\ \A i \in 1..(Len(queue) - 1) : queue'[i] = queue[i + 1]
      /\ Head(queue) = queue[1] /\ queue[1] \in Ids
  BY <1>1, HeadTailProperties
<1>3. ASSUME NEW id \in Ids, Queued(id)' PROVE Queued(id)
  BY <1>1, <1>2, <1>3 DEF Queued
<1>4. ASSUME NEW id \in Ids, Queued(id), id # Head(queue) PROVE Queued(id)'
  <2>1. PICK i \in 1..Len(queue) : queue[i] = id
    BY <1>1, <1>4 DEF Queued
  <2>2. i - 1 \in 1..(Len(queue) - 1) /\ queue'[i - 1] = id
    BY <1>1, <1>2, <1>4, <2>1
  <2> QED
    BY <1>2, <2>2 DEF Queued
<1>5. Queued(Head(queue))
  BY <1>1, <1>2 DEF Queued
<1> QED
  BY <1>2, <1>3, <1>4, <1>5

LEMMA RemoveFact ==
    ASSUME TypeOK, NEW x \in Ids, Remove(x)
    PROVE  queue' \in Seq(Ids) /\ \A id \in Ids : Queued(id)' <=> Queued(id) /\ id # x
<1> DEFINE kept == {i \in DOMAIN queue : queue[i] # x}
<1>1. PICK f \in Bijection(1..Cardinality(kept), kept) : queue' = [i \in DOMAIN f |-> queue[f[i]]]
  BY DEF Remove
<1>2. queue \in Seq(Ids) /\ Len(queue) \in Nat /\ DOMAIN queue = 1..Len(queue)
  BY LenProperties DEF TypeOK
<1>3. Cardinality(kept) \in Nat
  <2>1. IsFiniteSet(1..Len(queue))
    BY <1>2, FS_Interval
  <2>2. IsFiniteSet(kept)
    BY <1>2, <2>1, FS_Subset
  <2> QED
    BY <2>2, FS_CardinalityType
<1> DEFINE n == Cardinality(kept)
<1> HIDE DEF n
<1>4. f \in [1..n -> kept] /\ \A k \in kept : \E a \in 1..n : f[a] = k
  BY DEF Bijection, Injection, Surjection, n
<1>5. queue' = [i \in 1..n |-> queue[f[i]]] /\ \A i \in 1..n : queue[f[i]] \in Ids
  BY <1>1, <1>2, <1>4
<1>6. queue' \in Seq(Ids)
  BY <1>3, <1>5, SeqDef DEF n
<1> QED
  BY <1>4, <1>5, <1>6 DEF Queued

-----------------------------------------------------------------------------
(* Types. *)

\* The breaker's part: module CircuitBreaker, with the handlers for callers.
LEMMA BreakerType ==
    ASSUME CB!TypeOK,
           \/ \E h \in Handlers : CB!Admit(h) \/ CB!StartTrial(h) \/ CB!Refuse(h)
           \/ \E h \in Handlers : CB!Fail(h) \/ CB!Succeed(h)
           \/ CB!Reset \/ (\E t \in Thresholds : CB!ResetConfig(t)) \/ CB!Elapse
           \/ UNCHANGED breaker
    PROVE  CB!TypeOK'
<1> USE DEF CB!TypeOK, CB!Closed, CB!Open, CB!HalfOpen, CB!Activity
<1>1. ASSUME NEW h \in Handlers, CB!Admit(h) \/ CB!StartTrial(h) \/ CB!Refuse(h)
      PROVE  CB!TypeOK'
  <2>1. state' \in {CB!Closed, CB!Open, CB!HalfOpen} /\ failures' \in Nat
    BY <1>1 DEF CB!Enter, CB!Admit, CB!StartTrial, CB!Refuse
  <2>2. running' \in [Handlers -> CB!Activity]
    BY <1>1 DEF CB!Admit, CB!StartTrial, CB!Refuse
  <2>3. inTrial' \in BOOLEAN
    BY <1>1 DEF CB!Admit, CB!StartTrial, CB!Refuse
  <2>4. UNCHANGED <<threshold, timeoutPassed, wasReset>>
    BY <1>1 DEF CB!Enter, CB!Admit, CB!StartTrial, CB!Refuse
  <2> QED
    BY <2>1, <2>2, <2>3, <2>4
<1>2. ASSUME NEW act \in [Handlers -> CB!Activity]
      PROVE  CB!Overtake(act) \in [Handlers -> CB!Activity]
  BY DEF CB!Overtake
<1>3. ASSUME NEW h \in Handlers, CB!Fail(h) \/ CB!Succeed(h)
      PROVE  CB!TypeOK'
  <2>1. CB!Leave(h)
    BY <1>3 DEF CB!Fail, CB!Succeed
  <2>2. [running EXCEPT ![h] = "none"] \in [Handlers -> CB!Activity]
    OBVIOUS
  <2>3. running' \in [Handlers -> CB!Activity]
    BY <1>2, <2>1, <2>2 DEF CB!Leave
  <2>4. inTrial' \in BOOLEAN /\ UNCHANGED <<threshold, wasReset>>
    BY <2>1 DEF CB!Leave
  <2>5. state' \in {CB!Closed, CB!Open, CB!HalfOpen} /\ failures' \in Nat
    BY <1>3 DEF CB!Fail, CB!Succeed
  <2>6. timeoutPassed' \in BOOLEAN
    BY <1>3 DEF CB!Fail, CB!Succeed
  <2> QED
    BY <2>3, <2>4, <2>5, <2>6
<1>4. ASSUME CB!ForceClosed, threshold' \in Thresholds
      PROVE  CB!TypeOK'
  BY <1>2, <1>4 DEF CB!ForceClosed
<1>5. CASE CB!Reset
  BY <1>4, <1>5 DEF CB!Reset
<1>6. ASSUME NEW t \in Thresholds, CB!ResetConfig(t) PROVE CB!TypeOK'
  BY <1>4, <1>6 DEF CB!ResetConfig
<1>7. CASE CB!Elapse
  BY <1>7 DEF CB!Elapse
<1>8. CASE UNCHANGED breaker
  BY <1>8 DEF breaker
<1> QED
  BY <1>1, <1>3, <1>5, <1>6, <1>7, <1>8

\* A handler that is busy has a message, and so has a consumer.
LEMMA Busy ==
    ASSUME TypeOK
    PROVE  /\ \A h \in Handlers : serving[h].at \in PushSteps => serving[h] \in Doing(PushSteps)
           /\ \A k \in Consumers : consuming[k].at \in {"holding", "unlinking"} =>
                  consuming[k].id \in Ids
BY DEF TypeOK, Doing, Idle, PushSteps

\* The handler takes its next step with the same message.
LEMMA ServeFact ==
    ASSUME TypeOK, NEW h \in Handlers, serving[h].at \in PushSteps,
           NEW at \in PushSteps, Serve(h, at)
    PROVE  /\ serving' \in [Handlers -> Doing(PushSteps) \cup {Idle}]
           /\ serving'[h].at = at /\ serving'[h].id = serving[h].id
           /\ serving[h].id \in Ids
           /\ \A g \in Handlers : g # h => serving'[g] = serving[g]
<1>1. serving[h] \in Doing(PushSteps)
  BY Busy
<1>2. serving \in [Handlers -> Doing(PushSteps) \cup {Idle}]
  BY DEF TypeOK
<1>3. serving' = [serving EXCEPT ![h] = [serving[h] EXCEPT !.at = at]]
  BY DEF Serve
<1>4. [serving[h] EXCEPT !.at = at] \in Doing(PushSteps)
  BY <1>1 DEF Doing
<1> QED
  BY <1>1, <1>2, <1>3, <1>4 DEF Doing

-----------------------------------------------------------------------------
(* The steps. *)

LEMMA GatewayInit == Init => GatewayInv
<1> SUFFICES ASSUME Init PROVE GatewayInv
  OBVIOUS
<1>1. CB!TypeOK
  BY DEF Init, CB!Init, CB!TypeOK, CB!Activity, CB!Closed
<1>2. TypeOK
  BY <1>1, GatewayAssumption DEF Init, TypeOK
<1>3. Promised
  BY DEF Init, Promised, Idle
<1> QED
  BY <1>2, <1>3 DEF Init, GatewayInv, AtLeastOnce, AnswersAreTrue, Known, Queued, TornKnown

\* The door and the breaker: no step of theirs touches the queue.
LEMMA GatewayDoor ==
    ASSUME GatewayInv, NEW h \in Handlers,
           \/ \E id \in Ids : Arrive(h, id)
           \/ Turn(h) \/ Check(h)
    PROVE  GatewayInv'
<1> USE DEF memory, history, GatewayInv
<1>1. UNCHANGED <<consuming, queue, lent, files, torn, accepted, confirmed, warned, acked, denied, faults>>
  BY DEF Arrive, Turn, Check
<1>2. CB!TypeOK'
  BY BreakerType DEF Arrive, Turn, Check, TypeOK
<1>3. /\ serving' \in [Handlers -> Doing(PushSteps) \cup {Idle}]
      /\ \A g \in Handlers : serving'[g] = serving[g] \/ serving'[g].at \notin {"appending", "pushed"}
      /\ \A g \in Handlers : serving[g].at = "failed" => serving'[g] = serving[g]
  <2>1. ASSUME NEW id \in Ids, Arrive(h, id)
        PROVE  serving' = [serving EXCEPT ![h] = [at |-> "checking", id |-> id]]
    BY <2>1 DEF Arrive
  <2>2. CASE \E id \in Ids : Arrive(h, id)
    BY <2>1, <2>2 DEF Arrive, TypeOK, Doing, PushSteps, Idle
  <2>3. CASE Turn(h)
    BY <2>3 DEF Turn, TypeOK
  <2>4. CASE Check(h)
    BY <2>4, ServeFact DEF Check, PushSteps
  <2> QED
    BY <2>2, <2>3, <2>4
<1>4. TypeOK'
  BY <1>1, <1>2, <1>3 DEF TypeOK
<1>5. Promised'
  BY <1>1, <1>3 DEF Promised
<1>6. TornKnown'
  BY <1>1, <1>3 DEF TornKnown, PushFailed
<1> QED
  BY <1>1, <1>4, <1>5, <1>6 DEF AtLeastOnce, AnswersAreTrue, Known, Queued, TornKnown

\* A handler that fails to write may tear the file, but has a producer to tell.
LEMMA GatewaySaveFails ==
    ASSUME GatewayInv, NEW h \in Handlers, SaveFails(h)
    PROVE  GatewayInv'
<1> USE DEF history, GatewayInv
<1> DEFINE id == serving[h].id
<1>1. /\ serving[h].at = "saving"
      /\ serving' \in [Handlers -> Doing(PushSteps) \cup {Idle}]
      /\ serving'[h].at = "failed" /\ serving'[h].id = id /\ id \in Ids
      /\ \A g \in Handlers : g # h => serving'[g] = serving[g]
  BY ServeFact DEF SaveFails, PushSteps
<1>2. /\ files \subseteq files' /\ files' \subseteq files \cup {id}
      /\ torn' \subseteq torn \cup {id} /\ torn' \subseteq files'
      /\ faults' \in 0..MaxFaults
      /\ UNCHANGED <<consuming, queue, lent, accepted, confirmed, warned, acked, denied>>
  BY GatewayAssumption DEF SaveFails, TypeOK
<1>3. CB!TypeOK'
  BY BreakerType DEF SaveFails, TypeOK
<1>4. TypeOK'
  BY <1>1, <1>2, <1>3 DEF TypeOK
<1>5. Promised'
  BY <1>1, <1>2 DEF Promised
<1>6. serving'[h] = [at |-> "failed", id |-> id]
  BY <1>1, <1>4 DEF TypeOK, Doing, Idle
<1>7. TornKnown'
  BY <1>1, <1>2, <1>6 DEF TornKnown, PushFailed
<1> QED
  BY <1>2, <1>4, <1>5, <1>7 DEF AtLeastOnce, AnswersAreTrue, Known, Queued, TornKnown

\* Once it has told its producer, the producer is warned.
LEMMA GatewayAnswerError ==
    ASSUME GatewayInv, NEW h \in Handlers, AnswerError(h)
    PROVE  GatewayInv'
<1> USE DEF memory, GatewayInv
<1>1. /\ serving[h].at = "failed"
      /\ serving' = [serving EXCEPT ![h] = Idle]
      /\ warned' = warned \cup ({serving[h].id} \cap torn)
      /\ UNCHANGED <<consuming, queue, lent, files, torn, accepted, confirmed, acked, denied, faults>>
  BY DEF AnswerError
<1>2. CB!TypeOK'
  BY BreakerType DEF AnswerError, TypeOK
<1>3. /\ serving' \in [Handlers -> Doing(PushSteps) \cup {Idle}]
      /\ \A g \in Handlers : serving'[g] = serving[g] \/ serving'[g].at = "idle"
      /\ \A g \in Handlers : g # h => serving'[g] = serving[g]
  BY <1>1 DEF TypeOK, Idle
<1>4. TypeOK'
  BY <1>1, <1>2, <1>3 DEF TypeOK
<1>5. Promised'
  BY <1>1, <1>3 DEF Promised
<1>6. TornKnown'
  BY <1>1, <1>3 DEF TornKnown, PushFailed
<1> QED
  BY <1>1, <1>4, <1>5, <1>6 DEF AtLeastOnce, AnswersAreTrue, Known, Queued, TornKnown

LEMMA GatewaySave ==
    ASSUME GatewayInv, NEW h \in Handlers, Save(h)
    PROVE  GatewayInv'
<1> USE DEF history, GatewayInv
<1>1. /\ serving' \in [Handlers -> Doing(PushSteps) \cup {Idle}]
      /\ serving'[h].at = "appending" /\ serving'[h].id = serving[h].id
      /\ serving[h].id \in Ids
      /\ \A g \in Handlers : g # h => serving'[g] = serving[g]
  BY ServeFact DEF Save, PushSteps
<1>2. /\ serving[h].at = "saving"
      /\ files' = files \cup {serving[h].id} /\ torn' = torn \ {serving[h].id}
      /\ UNCHANGED <<consuming, queue, lent, accepted, confirmed, warned, acked, denied, faults>>
  BY DEF Save
<1>3. CB!TypeOK'
  BY BreakerType DEF Save, TypeOK
<1>4. TypeOK'
  BY <1>1, <1>2, <1>3 DEF TypeOK
<1>5. Promised'
  BY <1>1, <1>2 DEF Promised
<1>6. TornKnown'
  BY <1>1, <1>2 DEF TornKnown, PushFailed
<1> QED
  BY <1>2, <1>4, <1>5, <1>6 DEF AtLeastOnce, AnswersAreTrue, Known, Queued, TornKnown

\* The file that was written before is there, or somebody has acknowledged
\* another copy.
LEMMA GatewayAppend ==
    ASSUME GatewayInv, NEW h \in Handlers, AppendMsg(h)
    PROVE  GatewayInv'
<1> USE DEF GatewayInv
<1> DEFINE id == serving[h].id
<1>1. /\ serving' \in [Handlers -> Doing(PushSteps) \cup {Idle}]
      /\ serving'[h].at = "pushed" /\ serving'[h].id = id /\ id \in Ids
      /\ \A g \in Handlers : g # h => serving'[g] = serving[g]
  BY ServeFact DEF AppendMsg, PushSteps
<1>2. /\ serving[h].at = "appending"
      /\ queue' = Append(queue, id)
      /\ accepted' = accepted \cup {id}
      /\ UNCHANGED <<breaker, consuming, lent, files, torn, confirmed, warned, acked, denied, faults>>
  BY DEF AppendMsg
<1>3. queue' \in Seq(Ids) /\ \A i \in Ids : Queued(i)' <=> Queued(i) \/ i = id
  BY <1>1, <1>2, AppendFact
<1>4. CB!TypeOK'
  BY <1>2, BreakerType DEF TypeOK
<1>5. id \in files \cup acked
  BY <1>2 DEF Promised
<1>6. TypeOK'
  BY <1>1, <1>2, <1>3, <1>4 DEF TypeOK
<1>7. Promised'
  BY <1>1, <1>2 DEF Promised
<1>8. TornKnown'
  BY <1>1, <1>2 DEF TornKnown, PushFailed
<1>9. AtLeastOnce'
  BY <1>2, <1>3, <1>5, <1>6, <1>8 DEF AtLeastOnce, TornKnown, TypeOK
<1> QED
  BY <1>2, <1>3, <1>6, <1>7, <1>8, <1>9 DEF AnswersAreTrue, Known

LEMMA GatewayAnswer ==
    ASSUME GatewayInv, NEW h \in Handlers, Answer(h)
    PROVE  GatewayInv'
<1> USE DEF memory, GatewayInv
<1>1. /\ serving[h].at = "pushed"
      /\ serving' = [serving EXCEPT ![h] = Idle]
      /\ UNCHANGED <<consuming, queue, lent, files, torn, accepted, warned, acked, denied>>
      /\ confirmed' = confirmed \/ confirmed' = confirmed \cup {serving[h].id}
      /\ faults' \in 0..MaxFaults
  BY GatewayAssumption DEF Answer, TypeOK
<1>2. serving[h].id \in accepted
  BY <1>1 DEF Promised
<1>3. CB!TypeOK'
  BY BreakerType DEF Answer, TypeOK
<1>4. /\ serving' \in [Handlers -> Doing(PushSteps) \cup {Idle}]
      /\ \A g \in Handlers : serving'[g] = serving[g] \/ serving'[g].at = "idle"
      /\ \A g \in Handlers : g # h => serving'[g] = serving[g]
  BY <1>1 DEF TypeOK, Idle
<1>5. TypeOK'
  BY <1>1, <1>2, <1>3, <1>4 DEF TypeOK
<1>6. Promised'
  BY <1>1, <1>4 DEF Promised
<1>7. TornKnown'
  BY <1>1, <1>4 DEF TornKnown, PushFailed
<1> QED
  BY <1>1, <1>2, <1>5, <1>6, <1>7 DEF AtLeastOnce, AnswersAreTrue, Known, Queued, TornKnown

LEMMA GatewayPop ==
    ASSUME GatewayInv, NEW k \in Consumers, Pop(k)
    PROVE  GatewayInv'
<1> USE DEF GatewayInv
<1>1. /\ queue # <<>> /\ queue' = Tail(queue)
      /\ lent' = lent \cup {Head(queue)}
      /\ \/ consuming' = [consuming EXCEPT ![k] = [at |-> "holding", id |-> Head(queue)]]
         \/ consuming' = consuming
      /\ faults' \in 0..MaxFaults
      /\ UNCHANGED <<breaker, serving, accepted, confirmed, warned, files, torn, acked, denied>>
  BY GatewayAssumption DEF Pop, Consume, OnlyConsuming, TypeOK
<1>2. /\ queue' \in Seq(Ids) /\ Head(queue) \in Ids /\ Queued(Head(queue))
      /\ \A id \in Ids : Queued(id)' => Queued(id)
      /\ \A id \in Ids : Queued(id) => Queued(id)' \/ id = Head(queue)
  BY <1>1, TailFact
<1>3. CB!TypeOK'
  BY <1>1, BreakerType DEF TypeOK
<1>4. consuming' \in [Consumers -> Doing({"holding", "unlinking"}) \cup {Idle}]
  BY <1>1, <1>2 DEF TypeOK, Doing
<1>5. TypeOK'
  BY <1>1, <1>2, <1>3, <1>4 DEF TypeOK
<1>6. Head(queue) \in accepted
  BY <1>2 DEF Known
<1>7. Promised'
  BY <1>1, <1>6 DEF Promised, TypeOK
<1>8. TornKnown'
  BY <1>1 DEF TornKnown, PushFailed
<1>9. AtLeastOnce' /\ Known'
  BY <1>1, <1>2, <1>6, <1>8 DEF AtLeastOnce, Known, TornKnown, TypeOK
<1> QED
  BY <1>1, <1>5, <1>7, <1>8, <1>9 DEF AnswersAreTrue

\* Whoever is told 404 held a message that is neither lent nor queued.
LEMMA GatewayAck ==
    ASSUME GatewayInv, NEW k \in Consumers, Ack(k)
    PROVE  GatewayInv'
<1> USE DEF GatewayInv
<1> DEFINE id == consuming[k].id
<1>1. /\ consuming[k].at = "holding"
      /\ lent' = lent \ {id}
      /\ IF id \in lent THEN queue' = queue ELSE Remove(id)
      /\ UNCHANGED <<breaker, serving, accepted, confirmed, warned, files, torn, faults>>
  BY DEF Ack, OnlyConsuming
<1>2. id \in Ids /\ id \in accepted
  BY <1>1, Busy DEF Promised
<1>3. /\ queue' \in Seq(Ids)
      /\ \A i \in Ids : Queued(i)' => Queued(i)
      /\ \A i \in Ids : i # id /\ Queued(i) => Queued(i)'
  <2>1. CASE id \in lent
    BY <1>1, <2>1 DEF TypeOK, Queued
  <2>2. CASE id \notin lent
    BY <1>1, <1>2, <2>2, RemoveFact
  <2> QED
    BY <2>1, <2>2
<1>4. CB!TypeOK' /\ TornKnown'
  BY <1>1, BreakerType DEF TypeOK, TornKnown, PushFailed
<1>5. CASE id \in lent \/ Queued(id)
  <2>1. /\ consuming' = [consuming EXCEPT ![k] = [at |-> "unlinking", id |-> id]]
        /\ acked' = acked \cup {id} /\ denied' = denied
    BY <1>5 DEF Ack, Consume
  <2>2. consuming' \in [Consumers -> Doing({"holding", "unlinking"}) \cup {Idle}]
    BY <1>2, <2>1 DEF TypeOK, Doing
  <2>3. TypeOK'
    BY <1>1, <1>2, <1>3, <1>4, <2>1, <2>2 DEF TypeOK
  <2>4. Promised'
    BY <1>1, <2>1 DEF Promised, TypeOK
  <2>5. AtLeastOnce' /\ Known'
    BY <1>1, <1>3, <1>4, <2>1 DEF AtLeastOnce, Known, TornKnown, TypeOK
  <2> QED
    BY <1>1, <1>4, <2>1, <2>3, <2>4, <2>5 DEF AnswersAreTrue
<1>6. CASE ~(id \in lent \/ Queued(id))
  <2>1. /\ consuming' = [consuming EXCEPT ![k] = Idle]
        /\ denied' = denied \cup {id} /\ acked' = acked
    BY <1>6 DEF Ack
  <2>2. id \in acked
    BY <1>2, <1>6 DEF AtLeastOnce
  <2>3. /\ consuming' \in [Consumers -> Doing({"holding", "unlinking"}) \cup {Idle}]
        /\ \A j \in Consumers : consuming'[j] = consuming[j] \/ consuming'[j].at = "idle"
    BY <2>1 DEF TypeOK, Idle
  <2>4. TypeOK'
    BY <1>1, <1>2, <1>3, <1>4, <2>1, <2>3 DEF TypeOK
  <2>5. Promised'
    BY <1>1, <2>1, <2>3 DEF Promised
  <2>6. AtLeastOnce' /\ Known'
    BY <1>1, <1>3, <1>4, <2>1, <2>2 DEF AtLeastOnce, Known, TornKnown, TypeOK
  <2> QED
    BY <1>1, <1>4, <2>1, <2>2, <2>4, <2>5, <2>6 DEF AnswersAreTrue
<1> QED
  BY <1>5, <1>6

LEMMA GatewayUnlink ==
    ASSUME GatewayInv, NEW k \in Consumers, Unlink(k)
    PROVE  GatewayInv'
<1> USE DEF GatewayInv
<1> DEFINE id == consuming[k].id
<1>1. /\ consuming[k].at = "unlinking"
      /\ files' = files \ {id} /\ torn' = torn \ {id}
      /\ denied' = denied \/ denied' = denied \cup {id}
      /\ consuming' = [consuming EXCEPT ![k] = Idle]
      /\ UNCHANGED <<breaker, serving, accepted, confirmed, warned, queue, lent, acked, faults>>
  BY DEF Unlink, OnlyConsuming
<1>2. id \in Ids /\ id \in acked
  BY <1>1, Busy DEF Promised
<1>3. CB!TypeOK'
  BY <1>1, BreakerType DEF TypeOK
<1>4. /\ consuming' \in [Consumers -> Doing({"holding", "unlinking"}) \cup {Idle}]
      /\ \A j \in Consumers : consuming'[j] = consuming[j] \/ consuming'[j].at = "idle"
  BY <1>1 DEF TypeOK, Idle
<1>5. TypeOK'
  BY <1>1, <1>2, <1>3, <1>4 DEF TypeOK
<1>6. Promised'
  BY <1>1, <1>2, <1>4 DEF Promised
<1>7. TornKnown'
  BY <1>1 DEF TornKnown, PushFailed
<1> QED
  BY <1>1, <1>2, <1>5, <1>6, <1>7 DEF AtLeastOnce, AnswersAreTrue, Known, Queued, TornKnown

\* A message returns to the queue, by its consumer or by the clock.
LEMMA GatewayReturn ==
    ASSUME GatewayInv,
           \/ \E k \in Consumers : Nack(k)
           \/ \E id \in Ids : TimeOut(id)
    PROVE  GatewayInv'
<1> USE DEF GatewayInv
<1>1. ASSUME NEW x \in Ids, x \in lent, lent' = lent \ {x}, queue' = <<x>> \o queue
      PROVE  /\ queue' \in Seq(Ids) /\ lent' \subseteq Ids
             /\ \A id \in Ids : Queued(id) \/ id \in lent <=> Queued(id)' \/ id \in lent'
  BY <1>1, PrependFact DEF TypeOK
<1>2. /\ queue' \in Seq(Ids) /\ lent' \subseteq Ids
      /\ \A id \in Ids : Queued(id) \/ id \in lent <=> Queued(id)' \/ id \in lent'
  <2>1. ASSUME NEW k \in Consumers, Nack(k), consuming[k].id \in lent
        PROVE  consuming[k].id \in Ids /\ lent' = lent \ {consuming[k].id}
               /\ queue' = <<consuming[k].id>> \o queue
    BY <2>1 DEF Nack, TypeOK
  <2>2. ASSUME NEW k \in Consumers, Nack(k), consuming[k].id \notin lent
        PROVE  UNCHANGED <<lent, queue>>
    BY <2>2 DEF Nack
  <2>3. ASSUME UNCHANGED <<lent, queue>>
        PROVE  /\ queue' \in Seq(Ids) /\ lent' \subseteq Ids
               /\ \A id \in Ids : Queued(id) \/ id \in lent <=> Queued(id)' \/ id \in lent'
    BY <2>3 DEF TypeOK, Queued
  <2>4. ASSUME NEW id \in Ids, TimeOut(id)
        PROVE  id \in lent /\ lent' = lent \ {id} /\ queue' = <<id>> \o queue
    BY <2>4 DEF TimeOut
  <2> QED
    BY <1>1, <2>1, <2>2, <2>3, <2>4
<1>3. UNCHANGED <<breaker, serving, accepted, confirmed, warned, files, torn, acked, denied, faults>>
  BY DEF Nack, TimeOut, OnlyConsuming
<1>4. /\ consuming' \in [Consumers -> Doing({"holding", "unlinking"}) \cup {Idle}]
      /\ \A j \in Consumers : consuming'[j] = consuming[j] \/ consuming'[j].at = "idle"
  <2>1. ASSUME NEW k \in Consumers, Nack(k)
        PROVE  consuming' = [consuming EXCEPT ![k] = Idle]
    BY <2>1 DEF Nack
  <2>2. CASE \E k \in Consumers : Nack(k)
    BY <2>1, <2>2 DEF TypeOK, Idle
  <2>3. CASE \E id \in Ids : TimeOut(id)
    BY <2>3 DEF TimeOut, TypeOK
  <2> QED
    BY <2>2, <2>3
<1>5. CB!TypeOK'
  BY <1>3, BreakerType DEF TypeOK
<1>6. TypeOK'
  BY <1>2, <1>3, <1>4, <1>5 DEF TypeOK
<1>7. Promised'
  BY <1>3, <1>4 DEF Promised
<1>8. TornKnown'
  BY <1>3 DEF TornKnown, PushFailed
<1> QED
  BY <1>2, <1>3, <1>6, <1>7, <1>8 DEF AtLeastOnce, AnswersAreTrue, Known, TornKnown, TypeOK

LEMMA GatewayOperator ==
    ASSUME GatewayInv,
           handleReset \/ (\E t \in Thresholds : handleSetConfig(t)) \/ Elapse \/ UNCHANGED vars
    PROVE  GatewayInv'
<1> USE DEF memory, history, GatewayInv
<1>1. UNCHANGED <<serving, consuming, queue, lent, files, torn, accepted, confirmed, warned, acked, denied, faults>>
  BY DEF handleReset, handleSetConfig, Elapse, Elsewhere, vars
<1>2. CB!TypeOK'
  BY BreakerType DEF handleReset, handleSetConfig, Elapse, vars, TypeOK
<1>3. TypeOK'
  BY <1>1, <1>2 DEF TypeOK
<1> QED
  BY <1>1, <1>3 DEF AtLeastOnce, AnswersAreTrue, Known, Queued, Promised, TornKnown, PushFailed

LEMMA GatewayNext == GatewayInv /\ [Next]_vars => GatewayInv'
BY GatewayDoor, GatewaySave, GatewaySaveFails, GatewayAppend, GatewayAnswer, GatewayAnswerError, GatewayPop, GatewayAck,
   GatewayUnlink, GatewayReturn, GatewayOperator
   DEF Next, Handle

LEMMA GatewayCorrect == Spec => []GatewayInv
BY GatewayInit, GatewayNext, PTL DEF Spec

-----------------------------------------------------------------------------
\* The variables of the front doors and of the breaker inside keep their types
\* (http.go:194-260, grpc.go:22-73, cb.go:75-156).
THEOREM TypeCorrect == Spec => []TypeOK
BY GatewayCorrect, PTL DEF GatewayInv

\* An accepted message that nobody has acknowledged is queued or lent, and has
\* its file, however many producers repeat their pushes, however many handlers
\* and consumers race, and however many writes fail; and if a failed write has
\* spoilt that file, the producer whose push failed has been told, or is about
\* to be (broker.go:68-79, 150-175, 190-213, 288-366).
THEOREM NoneLost == Spec => []AtLeastOnce
BY GatewayCorrect, PTL DEF GatewayInv

\* A 201 is given for accepted messages only, and a 404 to the holder of a
\* message only after somebody has acknowledged it (http.go:210-242,
\* grpc.go:29-33, 62-65).
THEOREM NobodyMisled == Spec => []AnswersAreTrue
BY GatewayCorrect, PTL DEF GatewayInv
=============================================================================
