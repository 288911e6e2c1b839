# A TLA+ development of the MBG message broker

This directory models the message broker of this repository (Go, `pkg/`), checks
the models with TLC and proves the central invariants with TLAPS. Line numbers
refer to the sources under `src/`; `PROJECT.json` maps every definition to the
lines it stands for.

## 1. The system

A single process. Producers push messages by HTTP or gRPC; consumers pop and
acknowledge them, or a dispatcher delivers them to registered targets. Every
message is a JSON file until it is acknowledged or moved to the dead letters.

| Part | State | Operations | Interacts with |
|---|---|---|---|
| Broker (`pkg/broker/broker.go`) | `messages` (slice), `pendingAcks` (map), `dlqSize`, `storagePath`, channels of listeners, all behind the RWMutex `b.mu`; one file per message in `storage_path` and `dead_letter_path` | `Push`, `Pop`, `Peek`, `Acknowledge`, `NegativeAcknowledge`, `Update`, `MoveToDLQ`, `All`, `Subscribe`, `SubscribeMessages`, `SetStoragePath`, `SetConfig`, `GetStats`, `Recover`; a ticker goroutine that returns overdue messages | storage breaker around `Push`; gauge in telemetry; signals to the dashboard; messages to the dispatcher |
| Circuit breaker (`pkg/circuitbreaker/cb.go`) | state, failure count, threshold, timeout, time of the last failure, `inTrial` | `Execute`, `Reset`, `ResetConfig`, `GetState`, `GetMetrics` | two instances: storage (around `Push`), network (around sends) |
| Dispatcher (`pkg/broker/dispatcher.go`, `heap.go`) | task channel (100), workers, `inProgress`, retry heap and its timer, target map | `Start`, `worker`, `processMessage`, `handleFailure`, `scheduleRetry`, `processRetryHeap`, `Reset` | calls `All`, `Acknowledge`, `Update`, `MoveToDLQ`, `SubscribeMessages`; network breaker; targets over HTTP and gRPC |
| Target registry (`dispatcher.go:42-123`, `pkg/storage/sqlite.go`) | map `targets` behind `d.mu`; SQLite table | `AddTarget`, `GetTargets`, the warm-up in `Start`; `SaveTarget`, `GetAllTargets` | HTTP handler, dispatcher |
| HTTP API (`pkg/server/http.go`) | rate limiter, limits, websocket connections | handlers, `StartStreaming`, `broadcastStats` | broker, dispatcher |
| gRPC API (`pkg/server/grpc.go`) | none | `Push`, `Pop`, `Ack`, `Nack` | broker |
| Telemetry, configuration, `main.go` | gauges and counters; constants | | |

What makes it hard:

* **Concurrency.** `b.mu` protects the memory but not the files. `Push`,
  `Acknowledge` and `MoveToDLQ` visit memory and disk one after the other, so
  that calls interleave between the visits. The breaker runs the protected
  action without its mutex. Targets are saved by unordered goroutines.
* **Failure.** Files can fail to be written, renamed or removed; the process can
  die between any two steps, and recovery has to make do with the files. The
  operator can redirect the storage path at run time.
* **Ordering.** Gauge, signals and announcements follow after the lock has been
  released.
* **Time.** Acknowledgement timeouts race with late acknowledgements; the
  breaker's timeout is only noticed inside a call; retries wait in a heap with
  one timer; the dashboard's signals are debounced.
* **The network.** Answers get lost, producers repeat their pushes, and one id
  is in the queue twice; targets fail, or fail to answer.

What makes each part correct:

* *Broker*: a message is in one place at a time; an accepted message is not lost
  before it is acknowledged; an acknowledged one does not come back; the queue
  keeps its order; every call returns and overdue messages are offered again;
  the counter of dead letters is right.
* *Circuit breaker*: counter and state agree; one trial per half-open period; the
  flag that refuses callers stands for a trial that is running; no state but
  Closed is for ever.
* *Target registry*: no target is forgotten; map and table agree.
* *Dispatcher*: a queued message leaves the dispatcher's sight only in the ways
  the code provides for; it is not worked on twice; its retry is not overslept;
  in the end it is delivered, given up or lost sight of, and a settled message
  is not taken up again.
* *Front doors*: what was accepted is acknowledged by somebody or still there;
  producers and consumers are told the truth; overload passes.
* *Streaming*: no signal is lost on an open dashboard, the last state is shown in
  the end, also of what changes without a signal, and the list of connections
  holds the open ones in the end.

`PROJECT.json` lists the hazards, each with its line and the properties that
watch it, or with the reason why none does yet.

## 2. The modules

| Module | What it is |
|---|---|
| `CircuitBreaker` | the breaker with any number of overlapping callers |
| `CircuitBreakerProofs` | its invariants, proved |
| `Outbox` | what the broker promises, abstractly: the fate of each message and what is on offer |
| `Broker` | the broker, step by step, with faults and crashes; it implements `Outbox` |
| `MCBroker` | the symmetry set for `Broker`'s runs |
| `BrokerProofs` | the broker's type invariant, `OnePlace` and `AckIsFinal`, proved |
| `BrokerDiskProofs` | what the files are worth: `Durable`, the refinement of `Outbox`, and `FileIsCurrent`, proved |
| `BrokerViewProofs` | what clients see: `KeepsOrder`, `FeedIsHonest` and `DLQSizeIsHonest`, proved |
| `TargetRegistry` | the target map, the table, the background saves and the start-up |
| `TargetRegistryProofs` | its type invariant and two of its safety invariants, proved |
| `Dispatcher` | the start-up scan, the loop, the workers, the retry heap and its timer, over a broker reduced to its queue |
| `MCDispatcher` | the symmetry set for `Dispatcher`'s runs |
| `DispatcherProofs` | its type invariant, `Accounted`, `OneCopy`, `TimerIsTimely` and `NoResurrection`, proved |
| `Gateway` | the HTTP and gRPC handlers, the storage breaker (an instance of `CircuitBreaker`) and the queue, with repeated pushes and lost answers |
| `GatewayProofs` | its type invariant and two safety invariants, proved |
| `Streaming` | the dashboard: changes with and without signals, debounce timer, broadcasts, connections |
| `StreamingProofs` | its type invariant and `NobodyForgotten`, proved |

### CircuitBreaker

`Execute` holds the mutex twice. The first critical section (`cb.go:76-100`) is
`Admit`, `StartTrial` or `Refuse`; the second (`cb.go:104-133`) is `Fail` or
`Succeed`. In between `running[c]` says what caller `c` is inside of; any number
of callers may be. `Reset` and `ResetConfig` are actions of their own. The clock
is the boolean `timeoutPassed`, which `Elapse` sets and a failure clears. Two
pieces of state are history and guard nothing: `running` tells a trial of the present
half-open period from one whose period has ended, and `wasReset` remembers that
the operator has intervened. The event log and the getters are left out.

### Broker

Each call is a sequence of steps, as many as there are visits to memory and disk
between which something else may happen; `call[t]` says where thread `t` is.

| Code | Actions |
|---|---|
| `doPush` (150-175) | `PushCheck` (room?), `PushOpen` (truncate), `PushWrite`, `PushAppend`, `PushAnnounce` (gauge, signals, channels) |
| `Pop`, `NegativeAcknowledge` | one action each, then `FinishReport` (gauge and signals) |
| `startTimeoutChecker` (349-366) | `Age` (a timeout passes), `CheckTimeouts`, `FinishReport` |
| `Acknowledge` (288-325) | `AckTake`, `AckReport`, `AckUnlink` |
| `Update` (369-391) | `UpdateMemory` (replace, truncate), `UpdateWrite`, with `b.mu` held throughout |
| `MoveToDLQ` (227-285) | `DLQTake`, `DLQReport`, `DLQTruncate`, `DLQSave`, `DLQRename`, and if that fails `DLQCopy`, `DLQRemove`; `DLQCount` |
| `Subscribe`, `SubscribeMessages`, receivers | `Subscribe`, `ReceiveSignal`, `ReceiveMessage` |
| `SetStoragePath` | `SetStoragePath` |
| crash and `Recover` (98-138) | `Restart` |

A file holds a message, is `Absent`, or is `Torn` (truncated, or partly written):
`os.WriteFile` is two steps, and a failing write leaves any of the possible
contents. `Recover` skips what it cannot parse, as `json.Unmarshal` does. What
may go wrong is the constant `Faults`, so that a run can say under which faults
a property holds; writes whose failure loses nothing may always fail.
`CrossDevice` says whether the rename into the dead-letter directory may fail;
if it does, the copy may not open, or fail, and the removal after it may fail
unnoticed (`broker.go:277`).

The variables `accepted` and `done` record which messages have entered the queue
and whose `Acknowledge` has returned nil. They guard nothing but `PushCheck`,
where they stand for the clients' side of the bargain: ids are not reused. (The
code does not check that; `Gateway` is the model in which they are.)

Calls that return an error without having changed anything are not steps. `Push`
runs without the storage breaker (`Gateway` adds it). `max_queue_size` is constant: `SetConfig` is
called once, before the servers start (`main.go:63`; the handler at
`http.go:363` that would change it has no route). `storagePath` is read without
the lock (`broker.go:70, 259`); as it is a good or a bad path to the model, a
racy read is one that came before or after the change. `Peek`, `GetStats` and
`All` only read.

### Outbox

Four actions: a message is accepted, withdrawn from the offer, settled (done or
dead), and everything stored comes back on offer after a crash. The refinement
mapping (`fate` and `offered` in `Broker`) reads a message's fate off the files:
stored if the storage directory has it, dead if only the dead-letter directory
does, and `"lost"`, which no abstract behaviour allows, if neither.

### TargetRegistry

`AddTarget` changes the map and adds a save to a set; `SaveTarget` and
`SaveFails` take one out, in any order. `Start`'s warm-up is two steps, `Read`
and `Merge`, because `GetAllTargets` runs before `d.mu` is taken. `Read` returns all
rows, or an error, or silently only some of them: `rows.Err()` is not asked
(`sqlite.go:79-95`). `contested` and `failed` are history; the names that were
not read count as failed. The signal to the dashboard is left out.

### Dispatcher

| Code | Actions |
|---|---|
| `fillTaskQueue` (210-228) over `Broker.All` (393-417) | `ScanStart` (clock and length, read once), `ScanVisit` (one index under the lock), `ScanOffer` |
| `Start` (135-155) | `SubscribeMessages`, `Receive`, `TimerFires` |
| `processRetryHeap` (158-184) | `TimerFires` and `Drain` (both `Look` at the top), `Dispatch`, between which the mutex is free and workers schedule retries |
| `worker`, `processMessage`, `handleFailure` | `Take`, then `Deliver`, `Bury`, or `Fail` and `Reschedule`; `Leave` |
| `Reset` | `Reset` |
| the broker and its clients | `Push`, `Announce`, `Pop`, `Return`, `Acknowledge`, `AddTarget` |

The broker is a queue of ids and a set of lent ones; `Broker` shows that a
message is in one place and that the files agree with the memory, so a restart
is an initial state with some messages, their retry counts and what is left of
their waits. The heap is a bag: `heap.Pop` may return any entry with the least
`NextRetry`. Time is relative: waits count down in `Tick`. `processRetryHeap`
compares with a clock it has read once; how old that is, is its `lag`. A timer
that is `Reset` after it has expired does not fire for the old time, as since Go
1.23 (`go.mod` asks for 1.25).

A send is one step that succeeds or fails: which targets are asked, in which
order, through which protocol, with which headers, and whether the network
breaker let the call through, are all one choice. The history variable `missed`
names the ways in which the dispatcher loses sight of a queued message
(`Reasons`): announced to nobody or to a full channel, worker queue full, retry
time in the future at start-up, skipped by an iteration over a moving queue, no
target registered, returned by a consumer. Each is a `default:` branch, an early
return or a missing announcement in the code; `Accounted` says that there are no
others. `exposed` marks messages that may be under way twice: pushed during the
start-up, returned, or marked in a map that `Reset` has replaced.

### Gateway

Handlers push, consumers pop, acknowledge and return; `serving` and `consuming`
say where each is. A push passes the breaker (`Arrive`, or `Turn` if it is
refused), the limit (`Check`), the file (`Save`, `SaveFails`), the queue
(`AppendMsg`), and reports to the breaker with its answer (`Answer`,
`AnswerError`). Producers repeat what they have not seen confirmed, so the queue
may hold an id twice. The breaker's variables are this module's, its actions
those of `CircuitBreaker` with the handlers for callers; all other steps leave
them alone. The broker's steps are coarser than in `Broker`, without crashes. The
dispatcher is off, as with `-no-dispatcher`.

A write is one step. One that fails (`SaveFails`) has three outcomes: the file
could not be opened and is as it was; it was opened, hence emptied, and not
written completely, and is `torn`; or it was written and only closing it failed.
The second destroys the file of an accepted message if the push is a repeated
one. `warned` is history: the producers that were told 500 while the file of
their message was torn.

### Streaming

What is shown is a version number for each of the three parts that
`broadcastStats` reads one after the other: the broker's figures, the two
breakers (read in one step: their six values have no signal of their own), and
the targets.

| Code | Actions |
|---|---|
| every operation of the broker and `AddTarget` | `Change`, then `notify` |
| `MoveToDLQ` after its signal (258-285) | `Count` (`dlqSize++`, no signal), or `MoveFails` |
| `Execute`, `Reset`, `ResetConfig` of a breaker | `ChangeBreaker`, no signal |
| `startTimeoutChecker` (349-366) | `CheckTimeouts`: a signal at every tick, whether or not anything was returned |
| start-up (`main.go:64-94`) | `Merge` (the stored targets, no signal) and `Subscribe`, in any order; a signal before the subscription reaches nobody |
| `StartStreaming` (70-100) | `Receive`, `Expire` (100ms), `TimerFires` |
| `broadcastStats` (102-157) | `TimerFires` or `CopyConns` (copy the connections), `ReadFigures`, `ReadBreakers`, `ReadTargets` (and start the writers), `WriteEnds`, `WriteFails` |
| `handleWS` (300-328) and its client | `Connect`, `Disconnect`, `ReaderEnds` |

The reading is made by the streamer and by a goroutine per new connection. Each
write is a goroutine of its own and ends in any order; a write that starts during
another to the same connection may panic, as gorilla/websocket documents, and end
the process (`Panic`). `promised` is history: what a dashboard may rely on being
shown, which is the state when it connected and at each signal since.

## 3. The runs

All passing runs are exhaustive for their bounds.

| Run | Bounds | What it shows |
|---|---|---|
| `cb_behaviour` | 3 callers, thresholds 0, 1, 3 | types, `CounterMatchesState`, `OneTrialPerPeriod`, `TrialFlagIsHonest`, and under fairness `OpenEnds`, `HalfOpenEnds` |
| `broker_safety` | 2 handlers and the checker, 2 messages, queue limit 1, 1 listener, all faults, 1 crash | types, `OnePlace`, `AckIsFinal`, `DLQSizeIsHonest` |
| `broker_outbox` | the same without listener, renames that fail, storage path that goes bad | `Durable`, `IsOutbox` |
| `broker_order` | 1 handler and the checker, 3 messages, no limit, 1 message listener with a channel of 2, a crash that may cut a rewrite | `FileIsCurrent`, `FeedIsHonest`, `KeepsOrder` |
| `broker_live` | 2 handlers and the checker, 2 messages, queue limit 1, fairness | `CallsReturn`, `LateReturns` |
| `broker_crash` | 1 handler, 1 message | violation: `Durable`; a crash in the middle of `Update` loses an accepted message |
| `registry_behaviour` | 2 names, one from `config.yaml`, 2 configurations, 3 registrations, 1 crash | types, `NothingForgotten`, `SpacedWriteThrough`, and under fairness `SavesLand` |
| `dispatcher_behaviour` | 2 workers, 2 messages that may both be recovered, channels of 1, 1 retry, a pass over the heap of up to 1 tick, 1 pop | types, `Accounted`, `OneCopy`, `TimerIsTimely` |
| `dispatcher_live` | 1 worker, 1 message that may be recovered and 1 that may be pushed during the start-up, fairness | `Accounted`, `NoResurrection`, `SettledInTheEnd` |
| `dispatcher_dropped` | the same | violation: `PickedUp`; what a full worker queue drops is not picked up |
| `gateway` | 2 handlers, 1 consumer, 2 messages, queue limit 1, threshold 1, 1 failed write or lost answer, fairness | types, `AtLeastOnce`, `AnswersAreTrue`, `PushesGetThrough` |
| `streaming` | 1 connection, 2 changes of any kinds, the start-up, fairness | types, `NobodyForgotten`, `ShownInTheEnd` |

*Bounds.* Two handlers and the checker are three actors on one message: enough
for any two calls to meet with the third between their steps. Two messages tell
"this message" from "another"; three are needed where an order is to be
disturbed by a removal. A limit of 1 lets a queue be full, empty and over full.
`MaxRetries` is 1: a retry count is new or old. One crash cuts every pair of
steps, and the state after it is again one from which a run has been explored;
the proofs hold for any number. Three callers give a breaker a trial, a late
result and a call that is refused at once.
Two messages and channels of one slot fill the worker queue, let one retry
overtake another in the heap, and let a scan skip or repeat an index; a tick of
lag makes the clock of `processRetryHeap` stale. In `Gateway` a second handler
pushes the id that the first is pushing, and a limit and a threshold of one let
a full queue open the breaker at once. In `streaming` the streamer's broadcast
and that of the new connection overlap, and their writes to it race; two changes
are a signalled one and a silent one after it, or the merge at start-up. More
connections make the liveness check too long; they meet only in the list, in who
is written to and in a panic, and `NobodyForgotten` is proved for any number.
`TargetRegistry`, `Dispatcher` and `Streaming` may come to rest (registrations,
pushes and changes are bounded and nobody is obliged to make them), so their runs
do not check for deadlock.

*Fairness.* A call goes on: file operations return and the targets' answers have
timeouts (10s and 5s), so that steps of the breaker's callers are weakly fair. A
step that needs `b.mu` is enabled again and again rather than always; a
`sync.RWMutex` lets no waiter starve, hence strong fairness of `Proceed` and of
the ticker. The goroutine of each save is scheduled (weak fairness). Callers of the
breaker keep calling, which `OpenEnds` needs: the breaker has no timer of its
own. In `Dispatcher` the goroutines run, a send ends (its client has a timeout),
a push that has appended goes on to announce, and the clock ticks; no target has
to answer. `Gateway` asks more of the clients: producers repeat an unanswered
push, and consumers keep popping and acknowledge again and again (strong
fairness: a consumer may return messages, but not for ever); without that a full
queue stays full. In `Streaming` goroutines run, the ticker of the timeout checker
ticks, and writes end by their deadline. Every signal restarts the debounce
timer, also one that has expired unnoticed, and the model's ticker may tick at
any time; strong fairness of `TimerFires` says that the timer is received in the
end. In the code changes pause and the ticker leaves 30s for the timer's 100ms.
Nothing else is assumed.

*Seeded defects.* Beside some definitions there is a variant whose comment
begins with "Seeded defect". It is no part of a specification; substituted for
the definition below it, it makes the property it is listed with in
`PROJECT.json` fail, which shows that the property constrains the code.

## 4. Where the code and its documents disagree

Two disagreements are runs that end in a counterexample, measured against a
sentence that `PROJECT.json` quotes:

1. `Update` and `MoveToDLQ` rewrite the only copy of a message in place
   (`broker.go:264, 387`; `broker_crash`).
2. A message that finds the worker queue full is dropped until the next restart;
   the log speaks of a check cycle that does not exist (`dispatcher.go:148`;
   `dispatcher_dropped`).

The models show these as well; the properties above are stated so that they hold
in spite of them, and each can be reproduced by adding the formula given:

3. A push truncates the file of its id before it writes, also if the message is
   already accepted (`broker.go:75, 160`): a repeated push that fails to write
   leaves it without a readable file, and a restart forgets it. In `Gateway`
   `accepted \ acked \subseteq files \ torn` fails, though
   `features/broker_behavior.feature:3` speaks of durability; `AtLeastOnce` says
   what is left: the producer is told 500, and the message stays in the queue.
4. The queue limit is checked and used in different critical sections
   (`broker.go:152-166`), and returned messages do not look at it: in `Gateway`
   `Len(queue) <= MaxQueueSize` fails, though `readme.md:27` speaks of a hard
   limit.
5. `MoveToDLQ` counts the dead letter after its signal, so that a listener is not
   told of that change (`broker.go:256, 282`), though `broker.go:418` promises a
   signal "whenever the broker state changes". In `Streaming`, an open connection
   with nothing `Coming` to it, when `announcing["figures"]` and `burying` are 0,
   may have `shown` other figures than those of `version`. The next signal makes
   up for it, which comes with the ticker of the timeout checker at the latest
   (`ShownInTheEnd`).
6. `Reset` and `ResetConfig` leave `inTrial` set (`cb.go:136-156`): a reset
   during a trial leads to a half-open period that refuses everybody until
   the next reset (`HalfOpenEnds` without `wasReset`), although `changelog.md:85`
   calls the breaker self-healing.
7. The late failure of an earlier call ends a half-open period (`cb.go:107-118`)
   while its trial still runs, and a second trial starts beside it; the comment
   at `cb.go:90` says that only one request may try. `OneTrialPerPeriod` holds.
8. The gauge is set outside the lock (`broker.go:171` and others): with all
   threads idle, `gauge = Len(messages)` fails; `architecture.md:58` has it
   monitored in real time.
9. The write-through of targets is unordered, and the start-up merges old rows
   over newer registrations (`dispatcher.go:70, 112-120`): `SpacedWriteThrough`
   without `contested` fails; the comment at `dispatcher.go:68` says write-through.
10. A read of the targets that breaks off is taken for a complete one
    (`sqlite.go:79-95` does not ask `rows.Err()`): `NothingForgotten` without
    `failed` fails after a restart.
11. Every reason in `Reasons` but "tasks full" is a further way in which a queued
    message is not delivered before the next restart: no target registered yet,
    a retry time in the future at start-up, a push between scan and subscription,
    a returned message, an iteration over a shifting queue. No document says
    otherwise.
12. The push error "queue is full" counts as a failure of the storage
    (`broker.go:142-156`) and opens the breaker; `PushesGetThrough` says that this
    passes.
13. The states and failures of the breakers and the targets merged at start-up
    change without a signal (`cb.go:104-156`, `dispatcher.go:116-120`), and
    signals sent before the streamer has subscribed reach nobody (`main.go:94`,
    `http.go:71-75`). What item 5 says of the figures holds of them as well.
14. Two broadcasts may write to one connection at once (`http.go:144-156`), which
    the websocket library forbids and may answer with a panic; and older
    statistics may be written after newer ones.

## 5. The proofs

They hold for every value of the constants that meets the named assumptions
(`IdsAssumption`, `BoundsAssumption`, ... : finite sets of naturals as ids,
bounds in `Nat`, distinct model values). All are invariance proofs, except
`OrderKept`, which is about steps, and `OutboxImplemented`, a refinement. Two
conditions on the constant `Faults` appear as hypotheses of theorems and are
named with them; a run checks the properties under the same conditions.

* **CircuitBreaker.** `TypeCorrect`, `CounterCorrect`, `TrialUnique`,
  `FlagHonest`. The inductive invariant is their conjunction: that a half-open
  breaker has its flag up follows from the running trial, and that there is but
  one trial from the flag.
* **Broker.** `TypeCorrect`; then `OnePlaceCorrect` and `AckFinal` from
  `PlaceInv`, which adds to the two what a call may assume about its message:
  a push that the message is not yet accepted, an acknowledgement or a burial
  that it is and that nobody is done with it (`Responsible`); an update, which
  keeps the lock, that the message is still queued (`UpdateKeepsLock`); and that
  the file of a message that is done is gone (`GoneFromDisk`). There is a lemma
  per action; `PlaceMove` and `PlaceTake` gather what many of them share. They
  use facts about re-built sequences (`RemoveAllFact`, `EnumerationType`).
* **Broker, files.** `DurableCorrect` assumes `SoundRewrites`: the storage path
  may be redirected to a place where nothing can be written, but a rewrite is
  neither cut short by a crash nor failed by a full disk; without this `Durable`
  is false (run `broker_crash`). `Durable` only says that a message can be read
  from somewhere. `HasFile` says from where: a queued or lent message, and one
  that a call is appending, acknowledging or burying, has its file in the storage
  directory, unless `Update` is rewriting it, and `MoveToDLQ` removes that file
  only when the copy is complete. `DiskInv` is the conjunction with `PlaceInv`,
  which is needed throughout: that nobody else works on a message is the reason
  why nobody else changes its file.
* **Broker implements Outbox.** `OutboxImplemented`, under the same condition. A
  step of `Broker` changes the fate of at most one message (`OutboxStep` and the
  lemmas before it): `PushAppend` is *accept*, a visit to memory that takes a
  message away is *withdraw*, the removal or the move of its file *settles* it,
  `Restart` puts everything stored on offer, and all else stutters. `DiskInv`
  is what excludes the fate `"lost"`.
* **Broker, retry counts.** `FileIsCurrentCorrect` assumes `SoundWrites`: writes
  do not fail, though a crash may cut a rewrite. `CurInv` adds to the property
  what a push has written before it appends, and that an update, which holds the
  lock, is about to write what the queue has (`Written`).
* **Broker, what clients see.** `OrderKept` needs no invariant beyond `PlaceInv`:
  shifting, removing and replacing keep the order of ids (`ShiftAhead`,
  `RemoveAllAhead`). `FeedHonest` from `FeedInv`: a push that has yet to announce
  is the only one with its id, and no channel has it (`AnnouncedOnce`).
  `DLQSizeHonest` from `DeadInv`: where no rename fails, nothing is copied
  (`NeverCopied`), a dead message has left the storage directory
  (`DeadAreGone`), so that the rename creates a file that was not there
  (`RenamesAFile`) and the count and the directory go up together (`Counted`).
* **Dispatcher.** `TypeCorrect`, with a lemma per group of actions; what a tick
  does to the heap, a bag of entries whose waits all change, is `TickHeap`.
  `AccountedCorrect` from the type invariant, `QueueInv` (an id is at one place
  of the queue, or lent, or neither) and `Accounted` itself. A message may be
  in seven kinds of hands (`InHandParts`); a step either keeps every message in
  hand (`KeepStep`), or touches one and records it if that was the last
  (`LoseStep`), or moves the queue under the scan and records what it skips
  (`ShiftStep`). `QueueInv` is needed where a worker settles a message that a
  consumer has taken meanwhile: the message must not be queued as well.
* **Dispatcher, copies.** `CopiesNext` counts the copies of a message place by
  place (channels, workers, heap, `Start`, a push about to announce) and shows
  that no step but a push and a visit of the scan makes one more. It needs
  finitely many workers (`WorkersAssumption`; `worker_count` is an integer), and
  for the tick an injection from the copies in the heap after it to those before
  it (`InHeapTick`). `NothingRevived` follows: a push takes a new id, and the
  scan visits what is queued. `OneCopyCorrect` from `OnceInv`: as long as a
  message is not exposed, who may still make a copy of it, the push that has not
  happened or the scan that has the message before it (`Unvisited`), will make
  the first. `UnvisitedNext` shows that the queue moves no message back before
  the scan without exposing it, and that a visit leaves the message behind.
* **Dispatcher, timer.** `TimerCorrect` from `TimerInv`, whose premise is weaker
  than that of `TimerIsTimely`: no message is twice in the *heap* (`Single`),
  instead of nowhere twice. A worker that is done with the second copy of a
  message makes the premise of the property true in a state about which it said
  nothing before; no step outside `processRetryHeap` does that to `Single`
  (`TimerSchedule`, `TickSingle`). The premise is there because `scheduleRetry`
  compares only the id of the top with that of the new entry. `TimerLook` is
  where `processRetryHeap` ends.
* **TargetRegistry.** `TypeCorrect`, `NoneForgotten` and `SpacedCorrect` from
  `RegistryInv`, which says what holds while a save is under way and while
  `Start` is between reading and merging.
* **Gateway.** `TypeCorrect`, `NoneLost` and `NobodyMisled` from `GatewayInv`.
  The last two need each other (who is told 404 holds a message that is nowhere,
  which by `AtLeastOnce` somebody has acknowledged), and `Promised` says what
  a request relies on between its steps: the file a push has written is there
  when it appends, or an acknowledgement of another copy has taken it. A file may
  be torn; `TornKnown` says of every torn file, also of one whose message is not
  accepted yet, that the producer of a failed push is told or about to be. That is
  all the code can promise: that the file is whole is false (section 4). What
  the steps do to the queue is four facts about `Queued` (`AppendFact`,
  `PrependFact`, `TailFact`, `RemoveFact`).
* **Streaming.** `TypeCorrect` and `NoneForgotten` from `StreamingInv`.
  `NobodyForgotten` only says that something is coming; `Served` adds that it
  brings what the connection was promised, part by part: a signal, a waiting
  timer and a broadcast that has yet to start bring all of it (`CopyBrings`), and
  a broadcast that is reading brings the parts it has read since, and those still
  to be read (`NextReadingBrings`). `NotAhead` (nothing promised is newer than the
  present) is why what is read later is good enough. The silent changes only make
  the present newer than what was promised.

Only model-checked: everything that needs fairness (`OpenEnds`, `HalfOpenEnds`,
`CallsReturn`, `LateReturns`, `SavesLand`, `PushesGetThrough`,
`SettledInTheEnd`, `ShownInTheEnd`), which is beyond the prover. Every invariant
and every action property that a passing run checks is proved.

## 6. What is not modelled

Generated protobuf code (no logic of its own), the dashboard's HTML and
JavaScript, configuration loading and the wiring in `main.go`; the gatekeeper's
rate limit, payload limit and domain policy, which admit or refuse a request and
touch nothing else; handlers that only read; the merging of headers and the
conversion of payloads; telemetry other than the queue's gauge; the overflow of
the backoff, which needs more retries than any configuration has. The network
breaker is not composed with the dispatcher. `Dispatcher` assumes that
`max_retries` and the first wait are at least 1, which `config.go` does not check
(the shipped example has 3 and 1). `Gateway` has no crashes: what a torn file
means after one is that `Recover` skips it, as in `Broker`.

## 7. Plan

1. `Delivery`: the dispatcher's sends inside the network breaker: messages that
   move to the dead letters unsent while the breaker is open
   (`dispatcher.go:255, 401`).
2. Proofs for `Delivery`: that the breaker's refusals use up retries and
   nothing else.
