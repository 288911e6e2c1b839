------------------------------ MODULE Gateway -------------------------------
(***************************************************************************)
(* The front doors of the process and what a request passes through:       *)
(* pkg/server/http.go and grpc.go, the rate limiter, the storage breaker   *)
(* around Broker.Push (broker.go:141-148), the queue limit and the file.   *)
(* Producers repeat a push until they have seen it confirmed, and answers  *)
(* may get lost, so that, unlike in module Broker, the queue may hold one  *)
(* id several times, and the lent messages, a map by id, only once.        *)
(*                                                                         *)
(* The breaker is module CircuitBreaker, whose callers are the handlers.   *)
(* The rate limiter, the size limit and the decoder only ever send a       *)
(* request away, which is no step; the producer comes back.                *)
(*                                                                         *)
(* The steps of the broker are coarser than in module Broker: there are no *)
(* crashes here, and a write is one step; if it fails, the file may have   *)
(* lost what it held.  The dispatcher is disabled, as the flag             *)
(* -no-dispatcher does (main.go:67).                                       *)
(*                                                                         *)
(* A definition whose comment starts with "Seeded defect" is no part of    *)
(* the specification: it is the definition after it, with a bug the code   *)
(* could have had, and shows that a property notices that bug.             *)
(***************************************************************************)
EXTENDS Integers, Sequences, FiniteSets, Functions

CONSTANTS
    Ids,           \* the messages, each of a producer of its own
    Handlers,      \* the goroutines that serve pushes, HTTP or gRPC
    Consumers,     \* the clients that pop and acknowledge
    Nothing,       \* what a handler or a consumer without a message has
    MaxQueueSize,  \* max_queue_size, 0 for no limit
    Thresholds,    \* the thresholds the breaker can be configured with
    MaxFaults      \* bound on the lost answers and the failed writes

ASSUME GatewayAssumption ==
    /\ {MaxQueueSize, MaxFaults} \subseteq Nat
    /\ Nothing \notin Ids

VARIABLES
    \* the storage breaker, as in module CircuitBreaker
    state, failures, threshold, inTrial, timeoutPassed, running, wasReset,
    \* the front door
    serving,    \* what each handler does, about which message
    consuming,  \* what each consumer does, about which message
    \* the broker
    queue,      \* the ids in b.messages
    lent,       \* the keys of pendingAcks
    files,      \* the ids that have a file
    torn,       \* those whose file a failed write has emptied or cut
    \* history
    accepted,   \* appended to the queue
    confirmed,  \* and the producer knows
    warned,     \* the producer was told 500 while the file was torn
    acked,      \* taken out by an acknowledgement
    denied,     \* the consumer who was given it was told that it does not exist
    faults

breaker == <<state, failures, threshold, inTrial, timeoutPassed, running, wasReset>>
memory  == <<queue, lent, files, torn>>
history == <<accepted, confirmed, warned, acked, denied>>
vars    == <<breaker, serving, consuming, memory, history, faults>>

CB == INSTANCE CircuitBreaker WITH Callers <- Handlers

\* A handler looks for room; writes the file; appends; and reports success or
\* failure to the breaker.
PushSteps == {"checking", "saving", "appending", "pushed", "failed"}

Doing(steps) == [at : steps, id : Ids]
Idle == [at |-> "idle", id |-> Nothing]

TypeOK ==
    /\ CB!TypeOK
    /\ serving \in [Handlers -> Doing(PushSteps) \cup {Idle}]
    /\ consuming \in [Consumers -> Doing({"holding", "unlinking"}) \cup {Idle}]
    /\ queue \in Seq(Ids)
    /\ lent \subseteq Ids
    /\ files \subseteq Ids
    /\ torn \subseteq files
    /\ accepted \subseteq Ids
    /\ confirmed \subseteq Ids
    /\ warned \subseteq Ids
    /\ acked \subseteq Ids
    /\ denied \subseteq Ids
    /\ faults \in 0..MaxFaults

\* NewHTTPServer, NewGRPCServer and an empty broker.
Init ==
    /\ CB!Init
    /\ serving = [h \in Handlers |-> Idle]
    /\ consuming = [k \in Consumers |-> Idle]
    /\ queue = <<>>
    /\ lent = {}
    /\ files = {} /\ torn = {}
    /\ accepted = {} /\ confirmed = {} /\ warned = {} /\ acked = {} /\ denied = {}
    /\ faults = 0

Queued(id) == \E i \in DOMAIN queue : queue[i] = id

-----------------------------------------------------------------------------
(* Pushing. *)

Serve(h, at) == serving' = [serving EXCEPT ![h].at = at]

\* A producer that has not been answered sends its message, again or for the
\* first time, the limiter and the decoder let it pass, and so does the
\* breaker.
Arrive(h, id) ==
    /\ serving[h] = Idle
    /\ id \notin confirmed
    /\ CB!Admit(h) \/ CB!StartTrial(h)
    /\ serving' = [serving EXCEPT ![h] = [at |-> "checking", id |-> id]]
    /\ UNCHANGED <<consuming, memory, history, faults>>

\* The breaker answers for the broker.
Turn(h) ==
    /\ serving[h] = Idle
    /\ CB!Refuse(h)
    /\ UNCHANGED <<serving, consuming, memory, history, faults>>

\* Seeded defect: the limit applies to a count that pops do not lower.
HasRoomEver == MaxQueueSize = 0 \/ Cardinality(accepted) < MaxQueueSize

HasRoom == MaxQueueSize = 0 \/ Len(queue) < MaxQueueSize

Check(h) ==
    /\ serving[h].at = "checking"
    /\ Serve(h, IF HasRoom THEN "saving" ELSE "failed")
    /\ UNCHANGED <<breaker, consuming, memory, history, faults>>

Save(h) ==
    /\ serving[h].at = "saving"
    /\ files' = files \cup {serving[h].id}
    /\ torn' = torn \ {serving[h].id}
    /\ Serve(h, "appending")
    /\ UNCHANGED <<breaker, consuming, queue, lent, history, faults>>

\* os.WriteFile fails to open the file; or it opens the file, which empties it,
\* and fails to write all of it; or only closing it fails.
SaveFails(h) ==
    /\ serving[h].at = "saving"
    /\ faults < MaxFaults
    /\ faults' = faults + 1
    /\ \/ UNCHANGED <<files, torn>>
       \/ files' = files \cup {serving[h].id} /\ torn' = torn \cup {serving[h].id}
       \/ files' = files \cup {serving[h].id} /\ torn' = torn \ {serving[h].id}
    /\ Serve(h, "failed")
    /\ UNCHANGED <<breaker, consuming, queue, lent, history>>

AppendMsg(h) ==
    /\ serving[h].at = "appending"
    /\ queue' = Append(queue, serving[h].id)
    /\ accepted' = accepted \cup {serving[h].id}
    /\ Serve(h, "pushed")
    /\ UNCHANGED <<breaker, consuming, lent, files, torn, confirmed, warned, acked, denied, faults>>

\* The result goes to the breaker, and an answer to the producer: 201 ...
Answer(h) ==
    /\ serving[h].at = "pushed"
    /\ CB!Succeed(h)
    /\ serving' = [serving EXCEPT ![h] = Idle]
    /\ \/ confirmed' = confirmed \cup {serving[h].id} /\ UNCHANGED faults
       \/ faults < MaxFaults /\ faults' = faults + 1 /\ UNCHANGED confirmed
    /\ UNCHANGED <<consuming, memory, accepted, warned, acked, denied>>

\* Seeded defect: the handler does not look at the error.
ConfirmFailure(h) ==
    /\ serving[h].at = "failed"
    /\ CB!Fail(h)
    /\ serving' = [serving EXCEPT ![h] = Idle]
    /\ confirmed' = confirmed \cup {serving[h].id}
    /\ UNCHANGED <<consuming, memory, accepted, warned, acked, denied, faults>>

\* ... or 500.  A full queue counts as a failure of the storage.
AnswerError(h) ==
    /\ serving[h].at = "failed"
    /\ CB!Fail(h)
    /\ serving' = [serving EXCEPT ![h] = Idle]
    /\ warned' = warned \cup ({serving[h].id} \cap torn)
    /\ UNCHANGED <<consuming, memory, accepted, confirmed, acked, denied, faults>>

-----------------------------------------------------------------------------
(* Consuming. *)

Consume(k, at, id) == consuming' = [consuming EXCEPT ![k] = [at |-> at, id |-> id]]

OnlyConsuming == UNCHANGED <<breaker, serving, accepted, confirmed, warned>>

\* handlePop and GRPCServer.Pop, through Broker.Pop (broker.go:190-213): the
\* entry of an earlier loan of the same id is overwritten.  The answer may get
\* lost.
Pop(k) ==
    /\ consuming[k] = Idle
    /\ queue # <<>>
    /\ queue' = Tail(queue)
    /\ lent' = lent \cup {Head(queue)}
    /\ \/ Consume(k, "holding", Head(queue)) /\ UNCHANGED faults
       \/ faults < MaxFaults /\ faults' = faults + 1 /\ UNCHANGED consuming
    /\ OnlyConsuming /\ UNCHANGED <<files, torn, acked, denied>>

\* The queue without any copy of this id, in the same order.
Remove(id) ==
    LET kept == {i \in DOMAIN queue : queue[i] # id}
    IN  \E f \in Bijection(1..Cardinality(kept), kept) :
            /\ \A i, j \in DOMAIN f : i < j => f[i] < f[j]
            /\ queue' = [i \in DOMAIN f |-> queue[f[i]]]

\* handleAck and GRPCServer.Ack call Acknowledge: the loan is closed; if there
\* is none, every copy in the queue goes; if there is no copy, the answer is
\* 404.
Ack(k) ==
    LET id == consuming[k].id
    IN  /\ consuming[k].at = "holding"
        /\ lent' = lent \ {id}
        /\ IF id \in lent THEN UNCHANGED queue ELSE Remove(id)
        /\ IF id \in lent \/ Queued(id)
           THEN /\ Consume(k, "unlinking", id)
                /\ acked' = acked \cup {id}
                /\ UNCHANGED denied
           ELSE /\ consuming' = [consuming EXCEPT ![k] = Idle]
                /\ denied' = denied \cup {id}
                /\ UNCHANGED acked
        /\ OnlyConsuming /\ UNCHANGED <<files, torn, faults>>

\* Acknowledge ends with RemoveFromDisk (broker.go:82-88), whose error becomes
\* a 404 as well.
Unlink(k) ==
    LET id == consuming[k].id
    IN  /\ consuming[k].at = "unlinking"
        /\ files' = files \ {id}
        /\ torn' = torn \ {id}
        /\ denied' = IF id \in files THEN denied ELSE denied \cup {id}
        /\ consuming' = [consuming EXCEPT ![k] = Idle]
        /\ OnlyConsuming /\ UNCHANGED <<queue, lent, acked, faults>>

\* Seeded defect: the consumer keeps what it has returned.
NackAndKeep(k) ==
    LET id == consuming[k].id
    IN  /\ consuming[k].at = "holding"
        /\ IF id \in lent THEN lent' = lent \ {id} /\ queue' = <<id>> \o queue
                          ELSE UNCHANGED <<lent, queue>>
        /\ consuming' = [consuming EXCEPT ![k].at = "idle"]
        /\ OnlyConsuming /\ UNCHANGED <<files, torn, acked, denied, faults>>

\* handleNack and GRPCServer.Nack, through NegativeAcknowledge
\* (broker.go:328-346): the loan is found, or the answer is 404.
Nack(k) ==
    LET id == consuming[k].id
    IN  /\ consuming[k].at = "holding"
        /\ IF id \in lent THEN lent' = lent \ {id} /\ queue' = <<id>> \o queue
                          ELSE UNCHANGED <<lent, queue>>
        /\ consuming' = [consuming EXCEPT ![k] = Idle]
        /\ OnlyConsuming /\ UNCHANGED <<files, torn, acked, denied, faults>>

\* Seeded defect: an overdue message is put back only if there is room.
TimeOutIfRoom(id) ==
    /\ id \in lent
    /\ lent' = lent \ {id}
    /\ queue' = IF HasRoom THEN <<id>> \o queue ELSE queue
    /\ OnlyConsuming /\ UNCHANGED <<consuming, files, torn, acked, denied, faults>>

\* The checker returns an overdue message, also to a full queue.
TimeOut(id) ==
    /\ id \in lent
    /\ lent' = lent \ {id}
    /\ queue' = <<id>> \o queue
    /\ OnlyConsuming /\ UNCHANGED <<consuming, files, torn, acked, denied, faults>>

-----------------------------------------------------------------------------
(* The operator and the clock. *)

Elsewhere == UNCHANGED <<serving, consuming, memory, history, faults>>

handleReset == CB!Reset /\ Elsewhere
handleSetConfig(t) == CB!ResetConfig(t) /\ Elsewhere
Elapse == CB!Elapse /\ Elsewhere

-----------------------------------------------------------------------------
Handle(h) ==
    Check(h) \/ Save(h) \/ SaveFails(h) \/ AppendMsg(h) \/ Answer(h) \/ AnswerError(h)

Next ==
    \/ \E h \in Handlers :
           \/ \E id \in Ids : Arrive(h, id)
           \/ Turn(h)
           \/ Handle(h)
    \/ \E k \in Consumers : Pop(k) \/ Ack(k) \/ Unlink(k) \/ Nack(k)
    \/ \E id \in Ids : TimeOut(id)
    \/ handleReset
    \/ \E t \in Thresholds : handleSetConfig(t)
    \/ Elapse

Spec == Init /\ [][Next]_vars

(***************************************************************************)
(* A request that has arrived is served, a producer without an answer      *)
(* tries again until the limiter lets it pass, consumers keep popping and  *)
(* acknowledge what they are given now and then (a consumer that only ever *)
(* returns its messages keeps the queue full), and the clock runs: overdue *)
(* messages return and the breaker's timeout passes.                       *)
(***************************************************************************)
Fairness ==
    /\ \A h \in Handlers : WF_vars(Handle(h))
    /\ \A id \in Ids : WF_vars(\E h \in Handlers : Arrive(h, id))
    /\ \A k \in Consumers : WF_vars(Pop(k)) /\ SF_vars(Ack(k)) /\ WF_vars(Unlink(k))
    /\ \A id \in Ids : WF_vars(TimeOut(id))
    /\ WF_vars(Elapse)

FairSpec == Spec /\ Fairness

-----------------------------------------------------------------------------
(* Properties. *)

\* A producer of this id has been told that its push failed, or is about to be.
PushFailed(id) == id \in warned \/ \E h \in Handlers : serving[h] = [at |-> "failed", id |-> id]

\* A message that was accepted and that no consumer has acknowledged is on
\* offer or on loan, and has its file, whole unless a push of its id has failed
\* and its producer is told so, however often it was pushed, popped, returned
\* and timed out meanwhile, although a second loan of an id overwrites the
\* first and a failing push may spoil the file of an accepted message
\* (broker.go:150-175, 190-213, 288-366).
AtLeastOnce ==
    \A id \in accepted \ acked :
        /\ Queued(id) \/ id \in lent
        /\ id \in files
        /\ id \in torn => PushFailed(id)

\* A producer who was told 201 was told the truth: its message had entered
\* the queue.  A consumer who was given a message and is told that it does
\* not exist may forget it: somebody has acknowledged it (http.go:210-242,
\* grpc.go:29-33, 62-65).
AnswersAreTrue == confirmed \subseteq accepted /\ denied \subseteq acked

\* Overload passes: a full queue makes pushes fail and so opens the storage
\* breaker, but once consumers have made room every push gets through, unless
\* the operator resets the breaker (broker.go:142-156, cb.go:76-133).
PushesGetThrough ==
    \A id \in Ids : <>(id \in confirmed \/ wasReset)
=============================================================================
