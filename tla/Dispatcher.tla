----------------------------- MODULE Dispatcher -----------------------------
(***************************************************************************)
(* The dispatcher of pkg/broker/dispatcher.go, which delivers the broker's *)
(* messages to the registered targets: a goroutine (Start) that scans the  *)
(* queue once and then waits for announcements and for the retry timer, a  *)
(* pool of workers behind the channel taskChan, and a heap of retries.     *)
(*                                                                         *)
(* The broker is reduced to what the dispatcher meets: the queue, the lent *)
(* messages, and the announcements a push makes after it has appended its  *)
(* message.  Module Broker has the details, and shows that a message is in *)
(* one place (so that a queue of ids will do) and that files and memory    *)
(* agree (so that a crash keeps every message with its retry count).       *)
(*                                                                         *)
(* Time is relative: a wait is NextRetry - now, or 0 once that has passed, *)
(* and Tick counts every wait down.  A Go timer that has expired and is    *)
(* reset before anybody has received from it does not fire (Go 1.23).      *)
(*                                                                         *)
(* A definition whose comment starts with "Seeded defect" is no part of    *)
(* the specification: it is the definition after it, with a bug the code   *)
(* could have had, and shows that a property notices that bug.             *)
(***************************************************************************)
EXTENDS Integers, Sequences, FiniteSets, Functions

CONSTANTS
    Ids,           \* message ids, in the order of their file names
    Targets,       \* the targets that may be registered
    Workers,       \* the worker pool
    MaxRetries,    \* max_retries
    FirstBackoff,  \* ticks before the first retry: twice base_interval_seconds
    TaskCap,       \* capacity of taskChan, 100 in the code
    FeedCap,       \* capacity of the announcement channel, 100 in the code
    Hour,          \* what the retry timer is first set to, in ticks
    Off,           \* a timer that is not running
    Lag,           \* bound on the ticks during one processRetryHeap
    Stored,        \* bound: the ids Recover may find
    Early,         \* bound: the ids that are pushed before Start gets to its loop
    MaxPops        \* bound on the times a consumer takes a message

\* Exponential backoff, before the rc-th retry: Base * 2^rc.
Backoff(rc) == FirstBackoff * 2^(rc - 1)

\* NextRetry - now, as far as it is told apart.
Waits == (-Lag)..Backoff(MaxRetries)

ASSUME IdsAssumption == Ids \subseteq Nat /\ IsFiniteSet(Ids)
ASSUME WorkersAssumption == IsFiniteSet(Workers)
ASSUME BoundsAssumption ==
    /\ {FeedCap, Hour, Lag, MaxPops} \subseteq Nat
    /\ {MaxRetries, FirstBackoff, TaskCap} \subseteq Nat \ {0}
ASSUME BackoffAssumption ==
    /\ Backoff(MaxRetries) \in Nat
    /\ \A rc \in 1..MaxRetries : Backoff(rc) \in 1..Backoff(MaxRetries)
ASSUME StartAssumption == Stored \subseteq Ids /\ Early \subseteq Ids
ASSUME OffAssumption == Off \notin Int

VARIABLES
    \* the broker
    queue,       \* the ids in b.messages
    lent,        \* the ids in pendingAcks
    saved,       \* the broker's copy of each message: retry count and wait
    pushed,      \* the ids clients have used
    announcing,  \* appended by a Push that has not broadcast yet
    feed,        \* the channel of SubscribeMessages
    \* the dispatcher
    main,        \* what the goroutine of Start is doing
    tasks,       \* taskChan
    work,        \* what each worker is doing
    inProgress,
    retryHeap,   \* how many copies of each entry the heap holds
    timer,       \* what is left of retryTimer
    targets,     \* the registered targets
    \* history
    missed,      \* why the dispatcher has lost sight of a queued message
    exposed,     \* may be under way in the dispatcher twice
    pops         \* number of messages taken by consumers

broker  == <<queue, lent, saved, pushed>>
retries == <<retryHeap, timer>>
history == <<missed, exposed, pops>>
vars == <<broker, announcing, feed, main, tasks, work, inProgress, retries, targets, history>>

Saved == [rc : 0..MaxRetries, wait : 0..Backoff(MaxRetries)]
Copy  == [id : Ids, rc : 0..MaxRetries]
Entry == [id : Ids, rc : 0..MaxRetries, wait : Waits]

\* A worker sends a message to the targets; has failed and is about to put it
\* in the heap; is done with it and about to clear inProgress.
Idle == [at |-> "idle"]
Work == [at : {"sending", "leaving"}, id : Ids, rc : 0..MaxRetries]
        \cup [at : {"rescheduling"}, id : Ids, rc : 0..MaxRetries, wait : Waits]

\* Start: reading the length of the queue; visiting it; with a message in
\* hand; about to subscribe; in the loop; in processRetryHeap, about to look
\* at the heap, and there with a message it has taken.  The time that has
\* passed since processRetryHeap read the clock is its lag.
Main ==
    [at : {"starting", "subscribing", "looping"}]
    \cup [at : {"visiting"}, due : SUBSET Ids, next : Nat \ {0}, count : Nat]
    \cup [at : {"offering"}, due : SUBSET Ids, next : Nat \ {0}, count : Nat, id : Ids, rc : 0..MaxRetries]
    \cup [at : {"draining"}, lag : 0..Lag]
    \cup [at : {"holding"}, lag : 0..Lag, id : Ids, rc : 0..MaxRetries, wait : Waits]

Reasons == {"no", "not announced", "tasks full", "retry later", "skipped", "no target", "returned"}

TypeOK ==
    /\ queue \in Seq(Ids)
    /\ lent \subseteq Ids
    /\ saved \in [Ids -> Saved]
    /\ pushed \subseteq Ids
    /\ announcing \subseteq Ids
    /\ feed \in Seq(Copy)
    /\ main \in Main
    /\ tasks \in Seq(Copy)
    /\ work \in [Workers -> {Idle} \cup Work]
    /\ inProgress \subseteq Ids
    /\ retryHeap \in [Entry -> Nat]
    /\ timer \in Nat \cup {Off}
    /\ targets \subseteq Targets
    /\ missed \in [Ids -> Reasons]
    /\ exposed \subseteq Ids
    /\ pops \in 0..MaxPops

\* What Recover finds is appended in the order of the file names.
InOrder(R) ==
    {f \in Bijection(1..Cardinality(R), R) : \A i, j \in DOMAIN f : i < j => f[i] < f[j]}

\* NewDispatcher and go Start(), beside a broker that has recovered the
\* messages a crash or a stop left, with the retries they had had and the
\* time that was left until the next.
Init ==
    /\ \E R \in SUBSET Stored :
           /\ queue \in InOrder(R)
           /\ pushed = R
           /\ saved \in [Ids -> {s \in Saved : s.rc > 0 => s.wait <= Backoff(s.rc)}]
           /\ \A id \in Ids : id \notin R \/ saved[id].rc = 0 => saved[id].wait = 0
           /\ \A id \in Ids \ R : saved[id].rc = 0
    /\ lent = {}
    /\ announcing = {}
    /\ feed = <<>>
    /\ main = [at |-> "starting"]
    /\ tasks = <<>>
    /\ work = [w \in Workers |-> Idle]
    /\ inProgress = {}
    /\ retryHeap = [e \in Entry |-> 0]
    /\ timer = Hour
    /\ targets = {}
    /\ missed = [id \in Ids |-> "no"]
    /\ exposed = {}
    /\ pops = 0

-----------------------------------------------------------------------------
(* Where a message is. *)

Queued(id) == \E i \in DOMAIN queue : queue[i] = id

Scanning == main.at \in {"visiting", "offering"}

\* The scan will come to this message, unless the queue shifts.
Ahead(id) ==
    \/ main.at = "starting" /\ Queued(id)
    \/ Scanning /\ \E i \in DOMAIN queue \cap (main.next .. main.count) : queue[i] = id

InChannel(ch, id) == \E i \in DOMAIN ch : ch[i].id = id
AtWork(w, id) == work[w].at \notin {"idle", "leaving"} /\ work[w].id = id
Scheduled(id) == \E e \in Entry : e.id = id /\ retryHeap[e] > 0
Carried(id) == main.at \in {"offering", "holding"} /\ main.id = id

\* The dispatcher, or a push, will still do something about this message.
InHand(id) ==
    \/ id \in announcing \/ InChannel(feed, id) \/ InChannel(tasks, id)
    \/ \E w \in Workers : AtWork(w, id)
    \/ Scheduled(id)
    \/ Carried(id)
    \/ Ahead(id)

\* This step is the last the dispatcher saw of the message.
Lose(id, why) ==
    missed' = [i \in Ids |-> IF i = id /\ Queued(i)' /\ ~InHand(i)' THEN why ELSE missed[i]]

\* Messages leave the queue, or enter it in front, while All() visits it by
\* index: what moves out of the reach of the scan is skipped.
Shift ==
    missed' = [id \in Ids |->
                  IF Ahead(id) /\ Queued(id)' /\ ~InHand(id)' THEN "skipped" ELSE missed[id]]

Remove(id) ==
    \E f \in InOrder({i \in DOMAIN queue : queue[i] # id}) :
        queue' = [i \in DOMAIN f |-> queue[f[i]]]

-----------------------------------------------------------------------------
(* The broker and its clients. *)

\* SubscribeMessages has been called.
Subscribed == main.at \in {"looping", "draining", "holding"}

\* doPush up to the append.
Push(id) ==
    /\ id \notin pushed
    /\ pushed' = pushed \cup {id}
    /\ queue' = Append(queue, id)
    /\ announcing' = announcing \cup {id}
    /\ Subscribed \/ id \in Early
    /\ exposed' = IF Subscribed THEN exposed ELSE exposed \cup {id}
    /\ UNCHANGED <<lent, saved, feed, main, tasks, work, inProgress, retries, targets,
                   missed, pops>>

\* broadcast: nobody may be listening, or the channel be full.
Announce(id) ==
    /\ id \in announcing
    /\ announcing' = announcing \ {id}
    /\ feed' = IF Subscribed /\ Len(feed) < FeedCap
               THEN Append(feed, [id |-> id, rc |-> 0]) ELSE feed
    /\ UNCHANGED <<broker, main, tasks, work, inProgress, retries, targets, exposed, pops>>
    /\ Lose(id, "not announced")

\* What a change of the queue leaves alone.
OnlyQueue == UNCHANGED <<saved, pushed, announcing, feed, main, tasks, inProgress, retries,
                         targets>>

\* A consumer takes the first message.
Pop ==
    /\ queue # <<>>
    /\ pops < MaxPops
    /\ pops' = pops + 1
    /\ queue' = Tail(queue)
    /\ lent' = lent \cup {Head(queue)}
    /\ OnlyQueue /\ UNCHANGED <<work, exposed>>
    /\ Shift

\* NegativeAcknowledge or the timeout: back to the front, and no announcement.
Return(id) ==
    /\ id \in lent
    /\ lent' = lent \ {id}
    /\ queue' = <<id>> \o queue
    /\ exposed' = exposed \cup {id} \cup (IF Scanning THEN {i \in Ids : Queued(i)} ELSE {})
    /\ OnlyQueue /\ UNCHANGED <<work, pops>>
    /\ missed' = [i \in Ids |-> IF i = id /\ ~InHand(i)' THEN "returned"
                                ELSE IF Ahead(i) /\ ~InHand(i)' THEN "skipped"
                                ELSE missed[i]]

\* Acknowledge takes the message from the lent ones or from the queue.
Forget(id) ==
    /\ id \in lent \/ Queued(id)
    /\ lent' = lent \ {id}
    /\ IF id \in lent THEN UNCHANGED queue ELSE Remove(id)

\* A consumer acknowledges.
Acknowledge(id) ==
    /\ Forget(id)
    /\ OnlyQueue /\ UNCHANGED <<work, exposed, pops>>
    /\ Shift

AddTarget(t) ==
    /\ t \notin targets
    /\ targets' = targets \cup {t}
    /\ UNCHANGED <<broker, announcing, feed, main, tasks, work, inProgress, retries, history>>

-----------------------------------------------------------------------------
(* Start: the scan (fillTaskQueue), the subscription, the loop. *)

OnlyMain == UNCHANGED <<broker, announcing, work, targets, exposed, pops>>

\* The time and the length of the queue are read once.
ScanStart ==
    /\ main.at = "starting"
    /\ main' = [at |-> "visiting", due |-> {id \in Ids : saved[id].wait = 0},
                next |-> 1, count |-> Len(queue)]
    /\ OnlyMain /\ UNCHANGED <<feed, tasks, inProgress, retries, missed>>

\* The next message, or the end.
ScanVisit ==
    /\ main.at = "visiting"
    /\ IF main.next <= main.count /\ main.next <= Len(queue)
       THEN LET id == queue[main.next]
            IN  /\ main' = IF id \in main.due
                           THEN [at |-> "offering", due |-> main.due, next |-> main.next + 1,
                                 count |-> main.count, id |-> id, rc |-> saved[id].rc]
                           ELSE [main EXCEPT !.next = main.next + 1]
                /\ OnlyMain /\ UNCHANGED <<feed, tasks, inProgress, retries>>
                /\ Lose(id, "retry later")
       ELSE /\ main' = [at |-> "subscribing"]
            /\ OnlyMain /\ UNCHANGED <<feed, tasks, inProgress, retries, missed>>

\* A message that is being processed, or finds the channel full, is passed
\* over.
ScanOffer ==
    /\ main.at = "offering"
    /\ main' = [at |-> "visiting", due |-> main.due, next |-> main.next, count |-> main.count]
    /\ IF main.id \notin inProgress /\ Len(tasks) < TaskCap
       THEN /\ tasks' = Append(tasks, [id |-> main.id, rc |-> main.rc])
            /\ inProgress' = inProgress \cup {main.id}
       ELSE UNCHANGED <<tasks, inProgress>>
    /\ OnlyMain /\ UNCHANGED <<feed, retries>>
    /\ Lose(main.id, "tasks full")

SubscribeMessages ==
    /\ main.at = "subscribing"
    /\ main' = [at |-> "looping"]
    /\ OnlyMain /\ UNCHANGED <<feed, tasks, inProgress, retries, missed>>

\* An announced message goes to the workers, or is dropped if they are busy.
Receive ==
    /\ main.at = "looping"
    /\ feed # <<>>
    /\ feed' = Tail(feed)
    /\ tasks' = IF Len(tasks) < TaskCap THEN Append(tasks, Head(feed)) ELSE tasks
    /\ OnlyMain /\ UNCHANGED <<main, inProgress, retries>>
    /\ Lose(Head(feed).id, "tasks full")

-----------------------------------------------------------------------------
(* The retry heap and its timer. *)

\* What may be on top of a heap: it breaks ties as it pleases.
Tops(h) ==
    {e \in Entry : h[e] > 0 /\ \A d \in Entry : h[d] > 0 => e.wait <= d.wait}

\* What is left of a wait.
Rest(wait) == IF wait < 0 THEN 0 ELSE wait

\* Seeded defect: the timer is set only if it is not running.
scheduleRetryIfOff(e) ==
    /\ retryHeap' = [retryHeap EXCEPT ![e] = @ + 1]
    /\ timer' = IF timer = Off THEN Rest(e.wait) ELSE timer

\* The timer is set anew if the message of the new entry is on top.
scheduleRetry(e) ==
    /\ retryHeap' = [retryHeap EXCEPT ![e] = @ + 1]
    /\ \E top \in Tops(retryHeap') :
           timer' = IF top.id = e.id THEN Rest(e.wait) ELSE timer

\* Seeded defect: the timer is not set for an entry that is not due yet.
LookAndForget(lag, running) ==
    \/ /\ Tops(retryHeap) = {}
       /\ main' = [at |-> "looping"]
       /\ timer' = running
       /\ UNCHANGED retryHeap
    \/ \E top \in Tops(retryHeap) :
          /\ timer' = running
          /\ IF top.wait <= -lag
             THEN /\ retryHeap' = [retryHeap EXCEPT ![top] = @ - 1]
                  /\ main' = [at |-> "holding", lag |-> lag,
                              id |-> top.id, rc |-> top.rc, wait |-> top.wait]
             ELSE main' = [at |-> "looping"] /\ UNCHANGED retryHeap

\* processRetryHeap looks at the top, by the clock it read at first: it takes
\* an entry that was due by then, sets the timer for one that was not, and is
\* done with an empty heap.
Look(lag, running) ==
    \/ /\ Tops(retryHeap) = {}
       /\ main' = [at |-> "looping"]
       /\ timer' = running
       /\ UNCHANGED retryHeap
    \/ \E top \in Tops(retryHeap) :
          IF top.wait <= -lag
          THEN /\ retryHeap' = [retryHeap EXCEPT ![top] = @ - 1]
               /\ main' = [at |-> "holding", lag |-> lag,
                           id |-> top.id, rc |-> top.rc, wait |-> top.wait]
               /\ timer' = running
          ELSE /\ timer' = top.wait + lag
               /\ main' = [at |-> "looping"]
               /\ UNCHANGED retryHeap

TimerFires ==
    /\ main.at = "looping"
    /\ timer = 0
    /\ Look(0, Off)
    /\ OnlyMain /\ UNCHANGED <<feed, tasks, inProgress, missed>>

Drain ==
    /\ main.at = "draining"
    /\ Look(main.lag, timer)
    /\ OnlyMain /\ UNCHANGED <<feed, tasks, inProgress, missed>>

\* Seeded defect: a due message that finds the channel full is dropped.
DispatchOrDrop ==
    /\ main.at = "holding"
    /\ main' = [at |-> "draining", lag |-> main.lag]
    /\ tasks' = IF Len(tasks) < TaskCap
                THEN Append(tasks, [id |-> main.id, rc |-> main.rc]) ELSE tasks
    /\ OnlyMain /\ UNCHANGED <<feed, inProgress, retries, missed>>

\* Seeded defect: a due message goes to the workers and back into the heap.
DispatchTwice ==
    /\ main.at = "holding"
    /\ main' = [at |-> "draining", lag |-> main.lag]
    /\ tasks' = IF Len(tasks) < TaskCap
                THEN Append(tasks, [id |-> main.id, rc |-> main.rc]) ELSE tasks
    /\ scheduleRetry([id |-> main.id, rc |-> main.rc, wait |-> main.wait])
    /\ OnlyMain /\ UNCHANGED <<feed, inProgress, missed>>

\* A due message goes to the workers, or back into the heap.
Dispatch ==
    /\ main.at = "holding"
    /\ main' = [at |-> "draining", lag |-> main.lag]
    /\ IF Len(tasks) < TaskCap
       THEN tasks' = Append(tasks, [id |-> main.id, rc |-> main.rc]) /\ UNCHANGED retries
       ELSE /\ scheduleRetry([id |-> main.id, rc |-> main.rc, wait |-> main.wait])
            /\ UNCHANGED tasks
    /\ OnlyMain /\ UNCHANGED <<feed, inProgress, missed>>

-----------------------------------------------------------------------------
(* The workers: processMessage and handleFailure. *)

OnlyWork == UNCHANGED <<pushed, announcing, feed, targets, pops>>

Step(w, at) == work' = [work EXCEPT ![w] = [at |-> at, id |-> work[w].id, rc |-> work[w].rc]]

\* Without a target there is nothing to do.
Take(w) ==
    /\ work[w] = Idle
    /\ tasks # <<>>
    /\ tasks' = Tail(tasks)
    /\ work' = [work EXCEPT ![w] = [at |-> IF targets = {} THEN "leaving" ELSE "sending",
                                    id |-> Head(tasks).id, rc |-> Head(tasks).rc]]
    /\ OnlyWork /\ UNCHANGED <<queue, lent, saved, main, inProgress, retries, exposed>>
    /\ Lose(Head(tasks).id, "no target")

\* The target the message asks for, or one of all there are, took it, and the
\* worker acknowledges; nobody looks at the result.
Deliver(w) ==
    /\ work[w].at = "sending"
    /\ \/ Forget(work[w].id)
       \/ work[w].id \notin lent /\ ~Queued(work[w].id) /\ UNCHANGED <<queue, lent>>
    /\ Step(w, "leaving")
    /\ OnlyWork /\ UNCHANGED <<saved, main, tasks, inProgress, retries, exposed>>
    /\ Shift

\* Every target failed, lost its answer or was not called by an open breaker,
\* once too often: MoveToDLQ, which does not find a message that is lent or
\* gone.
Bury(w) ==
    /\ work[w].at = "sending"
    /\ work[w].rc >= MaxRetries
    /\ IF Queued(work[w].id) THEN Remove(work[w].id) ELSE UNCHANGED queue
    /\ Step(w, "leaving")
    /\ OnlyWork /\ UNCHANGED <<lent, saved, main, tasks, inProgress, retries, exposed>>
    /\ Shift

\* Seeded defect: the last retry is not the last.
FailOnceMore(w) ==
    /\ work[w].at = "sending"
    /\ work' = [work EXCEPT ![w] = [at |-> "rescheduling", id |-> work[w].id,
                                    rc |-> work[w].rc + 1, wait |-> Backoff(work[w].rc + 1)]]
    /\ OnlyWork
    /\ UNCHANGED <<queue, lent, saved, main, tasks, inProgress, retries, missed, exposed>>

\* Or the retry time is computed and the broker's copy updated, if it is
\* queued.
Fail(w) ==
    /\ work[w].at = "sending"
    /\ work[w].rc < MaxRetries
    /\ LET id == work[w].id
           rc == work[w].rc + 1
       IN  /\ work' = [work EXCEPT ![w] = [at |-> "rescheduling", id |-> id, rc |-> rc,
                                           wait |-> Backoff(rc)]]
           /\ IF Queued(id)
              THEN /\ saved' = [saved EXCEPT ![id] = [rc |-> rc, wait |-> Backoff(rc)]]
                   /\ main' = IF Scanning THEN [main EXCEPT !.due = @ \ {id}] ELSE main
              ELSE UNCHANGED <<saved, main>>
    /\ OnlyWork /\ UNCHANGED <<queue, lent, tasks, inProgress, retries, missed, exposed>>

\* Seeded defect: the retry is left to the broker's copy alone.
RescheduleNot(w) ==
    /\ work[w].at = "rescheduling"
    /\ Step(w, "leaving")
    /\ OnlyWork
    /\ UNCHANGED <<queue, lent, saved, main, tasks, inProgress, retries, missed, exposed>>

Reschedule(w) ==
    /\ work[w].at = "rescheduling"
    /\ scheduleRetry([id |-> work[w].id, rc |-> work[w].rc, wait |-> work[w].wait])
    /\ Step(w, "leaving")
    /\ OnlyWork /\ UNCHANGED <<queue, lent, saved, main, tasks, inProgress, missed, exposed>>

Leave(w) ==
    /\ work[w].at = "leaving"
    /\ work' = [work EXCEPT ![w] = Idle]
    /\ inProgress' = inProgress \ {work[w].id}
    /\ OnlyWork /\ UNCHANGED <<queue, lent, saved, main, tasks, retries, missed, exposed>>

-----------------------------------------------------------------------------
(* The operator and the clock. *)

\* Dispatcher.Reset; module CircuitBreaker has its other half.
Reset ==
    /\ inProgress # {}
    /\ inProgress' = {}
    /\ exposed' = exposed \cup inProgress
    /\ UNCHANGED <<broker, announcing, feed, main, tasks, work, retries, targets,
                   missed, pops>>

\* A wait counts down, as far as it is told apart.
Later(wait) == IF wait > -Lag THEN wait - 1 ELSE wait

Waiting ==
    \/ timer # Off /\ timer > 0
    \/ \E id \in Ids : saved[id].wait > 0
    \/ \E e \in Entry : retryHeap[e] > 0 /\ e.wait > -Lag
    \/ \E w \in Workers : work[w].at = "rescheduling" /\ work[w].wait > -Lag
    \/ main.at \in {"draining", "holding"}

\* A second passes.
Tick ==
    /\ Waiting
    /\ main.at \in {"draining", "holding"} => main.lag < Lag
    /\ timer' = IF timer = Off \/ timer = 0 THEN timer ELSE timer - 1
    /\ saved' = [id \in Ids |-> [saved[id] EXCEPT !.wait = IF @ > 0 THEN @ - 1 ELSE 0]]
    /\ work' = [w \in Workers |-> IF work[w].at = "rescheduling"
                                  THEN [work[w] EXCEPT !.wait = Later(@)] ELSE work[w]]
    /\ retryHeap' = [e \in Entry |->
                        (IF Later(e.wait) = e.wait THEN retryHeap[e] ELSE 0)
                      + (IF e.wait + 1 \in Waits THEN retryHeap[[e EXCEPT !.wait = @ + 1]] ELSE 0)]
    /\ main' = CASE main.at = "draining" -> [main EXCEPT !.lag = @ + 1]
                 [] main.at = "holding"  -> [main EXCEPT !.lag = @ + 1, !.wait = Later(@)]
                 [] OTHER -> main
    /\ UNCHANGED <<queue, lent, pushed, announcing, feed, tasks, inProgress, targets, history>>

-----------------------------------------------------------------------------
Start == ScanStart \/ ScanVisit \/ ScanOffer \/ SubscribeMessages \/ Receive \/ TimerFires
         \/ Drain \/ Dispatch

Worker(w) ==
    Take(w) \/ Deliver(w) \/ Bury(w) \/ Fail(w) \/ Reschedule(w) \/ Leave(w)

Next ==
    \/ \E id \in Ids : Push(id) \/ Announce(id) \/ Return(id) \/ Acknowledge(id)
    \/ Pop
    \/ \E t \in Targets : AddTarget(t)
    \/ Start
    \/ \E w \in Workers : Worker(w)
    \/ Reset
    \/ Tick

Spec == Init /\ [][Next]_vars

(***************************************************************************)
(* The goroutines run, a send ends (its client has a timeout of 10s, or    *)
(* its context of 5s), a push that has appended goes on to broadcast, and  *)
(* the clock runs.  No client has to push, pop or acknowledge, no target   *)
(* to be registered or to answer.                                          *)
(***************************************************************************)
Fairness ==
    /\ WF_vars(Start)
    /\ \A w \in Workers : WF_vars(Worker(w))
    /\ \A id \in Ids : WF_vars(Announce(id))
    /\ WF_vars(Tick)

FairSpec == Spec /\ Fairness

-----------------------------------------------------------------------------
(* Properties. *)

\* A queued message that is in nobody's hands has been lost in one of the
\* ways named in Reasons, and in no other: not between the heap and the
\* channel, not between two workers, not by a failed delivery, and not by a
\* late or early timer (dispatcher.go:135-228, 400-419).
Accounted == \A id \in Ids : Queued(id) /\ missed[id] = "no" => InHand(id)

\* The entries of a message in the heap, each with as many numbers as copies.
Heaped(id) == UNION {{e} \X (1..retryHeap[e]) : e \in {d \in Entry : d.id = id}}

InSeq(ch, id) == {i \in DOMAIN ch : ch[i].id = id}

\* The number of copies of a message under way in the dispatcher.
Copies(id) ==
      Cardinality(InSeq(feed, id))
    + Cardinality(InSeq(tasks, id))
    + Cardinality({w \in Workers : AtWork(w, id)})
    + Cardinality(Heaped(id))
    + (IF Carried(id) THEN 1 ELSE 0)
    + (IF id \in announcing THEN 1 ELSE 0)

\* Workers compete: a message that arrived after the start-up and was not
\* returned by a consumer is never with two of them, nor with one of them
\* and in the heap at once, so that retry counts are not lost and no retry is
\* doubled (dispatcher.go:141-184, 204-207, 417-418).
OneCopy == \A id \in Ids \ exposed : Copies(id) <= 1

\* Whoever waits in the heap is woken in time: outside processRetryHeap the
\* timer runs, and it ends when the first retry is due or later by no more
\* than one pass over the heap took, as long as no message is there twice
\* (dispatcher.go:160-180, 192-199).
TimerIsTimely ==
    LET waiting == {e \in Entry : retryHeap[e] > 0}
    IN  main.at \notin {"draining", "holding"} /\ (\A id \in Ids : Copies(id) <= 1)
            => \A e \in waiting : timer # Off /\ timer <= Rest(e.wait) + Lag

\* After a message has been acknowledged or buried the dispatcher makes no
\* new copy of it: what it still delivers was under way before
\* (dispatcher.go:214-219, 415-418).
NoResurrection ==
    [][\A id \in pushed : ~Queued(id) /\ id \notin lent => Copies(id)' <= Copies(id)]_vars

\* In the end the dispatcher is done with every message: it has delivered it
\* or given it up after its retries, or it has lost sight of it; it neither
\* leaves one waiting in the heap or the channel nor retries one for ever, not
\* even one that was acknowledged during its delivery
\* (dispatcher.go:135-184, 202-208, 400-419).
SettledInTheEnd ==
    \A id \in Ids : <>[](~InHand(id) /\ (Queued(id) => missed[id] # "no"))

\* A message that was dropped because the workers were busy is picked up
\* again (dispatcher.go:148).
PickedUp ==
    \A id \in Ids : missed[id] = "tasks full" ~> missed[id] # "tasks full" \/ InHand(id) \/ ~Queued(id)
=============================================================================
