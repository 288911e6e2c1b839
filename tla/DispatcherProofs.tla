-------------------------- MODULE DispatcherProofs --------------------------
(***************************************************************************)
(* What the dispatcher guarantees for any set of ids, any number of        *)
(* targets and workers, any capacity of its channels, any number of        *)
(* retries and any backoff.                                                *)
(***************************************************************************)
EXTENDS Dispatcher, TLAPS, FiniteSetTheorems, SequenceTheorems

(* What Start and the workers carry with them at each step. *)

Visit == [at : {"visiting"}, due : SUBSET Ids, next : Nat \ {0}, count : Nat]
Offer == [at : {"offering"}, due : SUBSET Ids, next : Nat \ {0}, count : Nat, id : Ids, rc : 0..MaxRetries]
Draining == [at : {"draining"}, lag : 0..Lag]
Holding == [at : {"holding"}, lag : 0..Lag, id : Ids, rc : 0..MaxRetries, wait : Waits]

Sending == [at : {"sending", "leaving"}, id : Ids, rc : 0..MaxRetries]
Rescheduling == [at : {"rescheduling"}, id : Ids, rc : 0..MaxRetries, wait : Waits]

LEMMA MainFields ==
    ASSUME main \in Main
    PROVE  /\ main.at = "visiting" => main \in Visit
           /\ main.at = "offering" => main \in Offer
           /\ main.at = "draining" => main \in Draining
           /\ main.at = "holding" => main \in Holding
           /\ main.at \in {"starting", "subscribing", "looping"} =>
                  main \in [at : {"starting", "subscribing", "looping"}]
           /\ main.at \in {"starting", "subscribing", "looping", "visiting", "offering",
                           "draining", "holding"}
BY DEF Main, Visit, Offer, Draining, Holding

LEMMA MainTypes == Visit \subseteq Main /\ Offer \subseteq Main /\ Draining \subseteq Main
                   /\ Holding \subseteq Main /\ [at : {"starting", "subscribing", "looping"}] \subseteq Main
BY DEF Main, Visit, Offer, Draining, Holding

LEMMA WorkFields ==
    ASSUME work \in [Workers -> {Idle} \cup Work], NEW w \in Workers
    PROVE  /\ work[w].at \in {"sending", "leaving"} => work[w] \in Sending
           /\ work[w].at = "rescheduling" => work[w] \in Rescheduling
           /\ work[w].at \in {"idle", "sending", "leaving", "rescheduling"}
           /\ work[w].at = "idle" => work[w] = Idle
<1>1. work[w] = Idle \/ work[w] \in Sending \/ work[w] \in Rescheduling
  BY DEF Work, Sending, Rescheduling
<1> QED
  BY <1>1 DEF Idle, Sending, Rescheduling

LEMMA WorkTypes == Sending \subseteq Work /\ Rescheduling \subseteq Work
BY DEF Work, Sending, Rescheduling

LEMMA WaitBounds ==
    /\ Lag \in Nat /\ Waits \subseteq Int /\ 0..Backoff(MaxRetries) \subseteq Waits
    /\ \A rc \in 1..MaxRetries : Backoff(rc) \in 0..Backoff(MaxRetries)
    /\ \A d \in Waits : Later(d) \in Waits
BY BoundsAssumption, BackoffAssumption DEF Waits, Later

\* Messages in the order of the queue, or of their files.
LEMMA InOrderType ==
    ASSUME NEW R, IsFiniteSet(R), NEW f \in InOrder(R)
    PROVE  /\ f \in Seq(R) /\ DOMAIN f = 1..Cardinality(R) /\ Cardinality(R) \in Nat
           /\ \A i, j \in DOMAIN f : f[i] = f[j] => i = j
           /\ \A x \in R : \E i \in DOMAIN f : f[i] = x
           /\ \A i \in DOMAIN f : f[i] \in R
<1>1. Cardinality(R) \in Nat
  BY FS_CardinalityType
<1>2. f \in Bijection(1..Cardinality(R), R)
  BY DEF InOrder
<1>3. f \in [1..Cardinality(R) -> R]
  BY <1>2 DEF Bijection, Injection
<1>4. /\ \A i, j \in DOMAIN f : f[i] = f[j] => i = j
      /\ \A x \in R : \E i \in DOMAIN f : f[i] = x
  BY <1>2, <1>3 DEF Bijection, Injection, Surjection, IsInjective
<1> QED
  BY <1>1, <1>3, <1>4, SeqDef

\* Removing a message from the queue.
LEMMA RemoveFact ==
    ASSUME queue \in Seq(Ids), NEW x, Remove(x)
    PROVE  /\ queue' \in Seq(Ids)
           /\ \A id : Queued(id)' <=> Queued(id) /\ id # x
           /\ (\A i, j \in DOMAIN queue : queue[i] = queue[j] => i = j)
                => \A i, j \in DOMAIN queue' : queue'[i] = queue'[j] => i = j
<1> DEFINE kept == {i \in DOMAIN queue : queue[i] # x}
<1>1. DOMAIN queue = 1..Len(queue) /\ Len(queue) \in Nat
  BY LenProperties
<1>2. IsFiniteSet(kept)
  <2>1. IsFiniteSet(DOMAIN queue)
    BY <1>1, FS_Interval
  <2> QED
    BY <2>1, FS_Subset
<1>3. PICK f \in InOrder(kept) : queue' = [i \in DOMAIN f |-> queue[f[i]]]
  BY DEF Remove
<1> HIDE DEF kept
<1>4. /\ DOMAIN f = 1..Cardinality(kept) /\ Cardinality(kept) \in Nat
      /\ \A i, j \in DOMAIN f : f[i] = f[j] => i = j
      /\ \A k \in kept : \E i \in DOMAIN f : f[i] = k
      /\ \A i \in DOMAIN f : f[i] \in kept
  BY <1>2, InOrderType
<1>5. \A i \in DOMAIN f : f[i] \in DOMAIN queue /\ queue[f[i]] # x /\ queue[f[i]] \in Ids
  BY <1>4 DEF kept
<1>6. queue' \in Seq(Ids)
  BY <1>3, <1>4, <1>5, SeqDef
<1>7. \A id : Queued(id)' <=> Queued(id) /\ id # x
  BY <1>3, <1>4, <1>5 DEF Queued, kept
<1>8. (\A i, j \in DOMAIN queue : queue[i] = queue[j] => i = j)
          => \A i, j \in DOMAIN queue' : queue'[i] = queue'[j] => i = j
  BY <1>3, <1>4, <1>5
<1> QED
  BY <1>6, <1>7, <1>8

LEMMA TypeInit == Init => TypeOK
<1> SUFFICES ASSUME Init PROVE TypeOK
  OBVIOUS
<1>1. PICK R \in SUBSET Stored :
          /\ queue \in InOrder(R)
          /\ pushed = R
          /\ saved \in [Ids -> {s \in Saved : s.rc > 0 => s.wait <= Backoff(s.rc)}]
  BY DEF Init
<1>2. R \subseteq Ids /\ IsFiniteSet(R)
  BY StartAssumption, IdsAssumption, FS_Subset
<1>3. queue \in Seq(Ids) /\ pushed \subseteq Ids
  <2>1. queue \in Seq(R)
    BY <1>1, <1>2, InOrderType
  <2> QED
    BY <1>1, <1>2, <2>1
<1>4. saved \in [Ids -> Saved]
  <2>1. {s \in Saved : s.rc > 0 => s.wait <= Backoff(s.rc)} \subseteq Saved
    OBVIOUS
  <2> QED
    BY <1>1, <2>1, Zenon
<1>5. /\ lent = {} /\ announcing = {} /\ inProgress = {} /\ targets = {} /\ exposed = {}
      /\ feed = <<>> /\ tasks = <<>>
  BY DEF Init
<1>6. feed \in Seq(Copy) /\ tasks \in Seq(Copy)
  BY <1>5
<1>7. main \in Main
  <2>1. main = [at |-> "starting"]
    BY DEF Init
  <2> QED
    BY <2>1 DEF Main
<1>8. work \in [Workers -> {Idle} \cup Work]
  BY DEF Init
<1>9. retryHeap \in [Entry -> Nat] /\ timer \in Nat \cup {Off} /\ pops \in 0..MaxPops
  BY BoundsAssumption DEF Init
<1>10. missed \in [Ids -> Reasons]
  BY DEF Init, Reasons
<1> QED
  BY <1>3, <1>4, <1>5, <1>6, <1>7, <1>8, <1>9, <1>10 DEF TypeOK

\* A loss is recorded with its reason.
LEMMA MissedType ==
    ASSUME missed \in [Ids -> Reasons],
           Shift \/ \E id, why : why \in Reasons /\ Lose(id, why)
    PROVE  missed' \in [Ids -> Reasons]
<1>1. CASE Shift
  BY <1>1 DEF Shift, Reasons
<1>2. ASSUME NEW id, NEW why \in Reasons, Lose(id, why) PROVE missed' \in [Ids -> Reasons]
  BY <1>2 DEF Lose
<1> QED
  BY <1>1, <1>2

LEMMA TypeClients ==
    ASSUME TypeOK,
           \/ \E id \in Ids : Push(id) \/ Announce(id) \/ Return(id) \/ Acknowledge(id)
           \/ Pop
           \/ \E t \in Targets : AddTarget(t)
    PROVE  TypeOK'
<1> USE DEF broker, retries, history, OnlyQueue
<1>1. ASSUME NEW id \in Ids, Push(id) PROVE TypeOK'
  <2>1. /\ queue' \in Seq(Ids) /\ pushed' \subseteq Ids /\ announcing' \subseteq Ids
        /\ exposed' \subseteq Ids
    BY <1>1 DEF Push, TypeOK
  <2> QED
    BY <1>1, <2>1 DEF Push, TypeOK
<1>2. ASSUME NEW id \in Ids, Announce(id) PROVE TypeOK'
  <2>1. missed' \in [Ids -> Reasons]
    BY <1>2, MissedType DEF Announce, TypeOK, Reasons
  <2>2. [id |-> id, rc |-> 0] \in Copy
    BY BoundsAssumption DEF Copy
  <2>3. Append(feed, [id |-> id, rc |-> 0]) \in Seq(Copy)
    BY <2>2 DEF TypeOK
  <2>4. feed' \in Seq(Copy)
    <3>1. feed' = Append(feed, [id |-> id, rc |-> 0]) \/ feed' = feed
      BY <1>2 DEF Announce
    <3> QED
      BY <2>3, <3>1 DEF TypeOK
  <2>5. announcing' \subseteq Ids
    BY <1>2 DEF Announce, TypeOK
  <2> QED
    BY <1>2, <2>1, <2>4, <2>5 DEF Announce, TypeOK
<1>3. ASSUME NEW id \in Ids, Return(id) PROVE TypeOK'
  <2>1. queue' \in Seq(Ids) /\ lent' \subseteq Ids /\ exposed' \subseteq Ids
    BY <1>3 DEF Return, TypeOK
  <2>2. missed' \in [Ids -> Reasons]
    <3> DEFINE new(i) == IF i = id /\ ~InHand(i)' THEN "returned"
                         ELSE IF Ahead(i) /\ ~InHand(i)' THEN "skipped" ELSE missed[i]
    <3>1. missed' = [i \in Ids |-> new(i)]
      BY <1>3 DEF Return
    <3>2. \A i \in Ids : new(i) \in Reasons
      BY DEF TypeOK, Reasons
    <3> HIDE DEF new
    <3> QED
      BY <3>1, <3>2
  <2> QED
    BY <1>3, <2>1, <2>2 DEF Return, TypeOK
<1>4. ASSUME NEW id \in Ids, Acknowledge(id) PROVE TypeOK'
  <2>1. missed' \in [Ids -> Reasons]
    BY <1>4, MissedType DEF Acknowledge, TypeOK
  <2>2. queue' \in Seq(Ids) /\ lent' \subseteq Ids
    BY <1>4, RemoveFact DEF Acknowledge, Forget, TypeOK
  <2> QED
    BY <1>4, <2>1, <2>2 DEF Acknowledge, TypeOK
<1>5. CASE Pop
  <2>1. missed' \in [Ids -> Reasons]
    BY <1>5, MissedType DEF Pop, TypeOK
  <2>2. queue' \in Seq(Ids) /\ lent' \subseteq Ids
    BY <1>5 DEF Pop, TypeOK
  <2>3. pops' \in 0..MaxPops
    BY <1>5, BoundsAssumption DEF Pop, TypeOK
  <2> QED
    BY <1>5, <2>1, <2>2, <2>3 DEF Pop, TypeOK
<1>6. ASSUME NEW t \in Targets, AddTarget(t) PROVE TypeOK'
  BY <1>6 DEF AddTarget, TypeOK
<1> QED
  BY <1>1, <1>2, <1>3, <1>4, <1>5, <1>6

\* The timer and the heap stay well formed.
LEMMA ScheduleType ==
    ASSUME retryHeap \in [Entry -> Nat], timer \in Nat \cup {Off}, NEW e \in Entry, scheduleRetry(e)
    PROVE  retryHeap' \in [Entry -> Nat] /\ timer' \in Nat \cup {Off}
<1>1. retryHeap' \in [Entry -> Nat]
  BY DEF scheduleRetry
<1>2. e.wait \in Int
  BY WaitBounds DEF Entry
<1>3. Rest(e.wait) \in Nat
  BY <1>2 DEF Rest
<1>4. timer' \in Nat \cup {Off}
  BY <1>3 DEF scheduleRetry
<1> QED
  BY <1>1, <1>4

LEMMA LookType ==
    ASSUME retryHeap \in [Entry -> Nat], NEW lag \in 0..Lag, NEW running \in Nat \cup {Off},
           Look(lag, running)
    PROVE  retryHeap' \in [Entry -> Nat] /\ timer' \in Nat \cup {Off} /\ main' \in Main
<1>1. [at |-> "looping"] \in Main
  BY DEF Main
<1>2. CASE main' = [at |-> "looping"] /\ timer' = running /\ UNCHANGED retryHeap
  BY <1>1, <1>2
<1>3. ASSUME NEW top \in Tops(retryHeap), top.wait <= -lag,
             retryHeap' = [retryHeap EXCEPT ![top] = @ - 1],
             main' = [at |-> "holding", lag |-> lag, id |-> top.id, rc |-> top.rc, wait |-> top.wait],
             timer' = running
      PROVE  retryHeap' \in [Entry -> Nat] /\ timer' \in Nat \cup {Off} /\ main' \in Main
  <2>1. top \in Entry /\ retryHeap[top] > 0
    BY DEF Tops
  <2>2. main' \in Holding
    BY <1>3, <2>1 DEF Entry, Holding
  <2>3. retryHeap[top] - 1 \in Nat
    BY <2>1
  <2>4. retryHeap' \in [Entry -> Nat]
    BY <1>3, <2>1, <2>3
  <2> QED
    BY <1>3, <2>2, <2>4, MainTypes
<1>4. ASSUME NEW top \in Tops(retryHeap), ~(top.wait <= -lag), timer' = top.wait + lag,
             main' = [at |-> "looping"], UNCHANGED retryHeap
      PROVE  retryHeap' \in [Entry -> Nat] /\ timer' \in Nat \cup {Off} /\ main' \in Main
  <2>1. top.wait \in Int
    BY WaitBounds DEF Tops, Entry
  <2>2. timer' \in Nat
    BY <1>4, <2>1, WaitBounds
  <2> QED
    BY <1>1, <1>4, <2>2
<1> QED
  BY <1>2, <1>3, <1>4 DEF Look

\* Main's records, put together from their fields.
LEMMA MainRecords ==
    ASSUME NEW due \in SUBSET Ids, NEW n \in Nat \ {0}, NEW c \in Nat
    PROVE  /\ [at |-> "visiting", due |-> due, next |-> n, count |-> c] \in Main
           /\ \A id \in Ids, rc \in 0..MaxRetries :
                  [at |-> "offering", due |-> due, next |-> n, count |-> c, id |-> id, rc |-> rc] \in Main
           /\ \A lag \in 0..Lag : [at |-> "draining", lag |-> lag] \in Main
           /\ [at |-> "subscribing"] \in Main /\ [at |-> "looping"] \in Main
<1>1. [at |-> "visiting", due |-> due, next |-> n, count |-> c] \in Visit
  BY DEF Visit
<1>2. ASSUME NEW id \in Ids, NEW rc \in 0..MaxRetries
      PROVE  [at |-> "offering", due |-> due, next |-> n, count |-> c, id |-> id, rc |-> rc] \in Offer
  BY DEF Offer
<1>3. \A lag \in 0..Lag : [at |-> "draining", lag |-> lag] \in Draining
  BY DEF Draining
<1>4. [at |-> "subscribing"] \in Main /\ [at |-> "looping"] \in Main
  BY DEF Main
<1> QED
  BY <1>1, <1>2, <1>3, <1>4, MainTypes

\* A message put into taskChan, if there is room.
LEMMA PutType ==
    ASSUME NEW s \in Seq(Copy), NEW c \in Copy
    PROVE  Append(s, c) \in Seq(Copy)
OBVIOUS

LEMMA TypeScan ==
    ASSUME TypeOK, ScanStart \/ ScanVisit \/ ScanOffer \/ SubscribeMessages
    PROVE  TypeOK'
<1> USE DEF broker, retries, history, OnlyMain
<1>1. CASE ScanStart
  <2>1. Len(queue) \in Nat /\ {id \in Ids : saved[id].wait = 0} \in SUBSET Ids
    BY DEF TypeOK
  <2>2. main' \in Main
    <3>1. PICK due \in SUBSET Ids : due = {id \in Ids : saved[id].wait = 0}
      OBVIOUS
    <3>2. main' = [at |-> "visiting", due |-> due, next |-> 1, count |-> Len(queue)]
      BY <1>1, <3>1 DEF ScanStart
    <3>3. 1 \in Nat \ {0}
      OBVIOUS
    <3> QED
      BY <2>1, <3>2, <3>3, MainRecords
  <2> QED
    BY <1>1, <2>2 DEF ScanStart, TypeOK
<1>2. CASE ScanVisit
  <2>1. main \in Visit
    BY <1>2, MainFields DEF ScanVisit, TypeOK
  <2>2. main.due \in SUBSET Ids /\ main.next \in Nat \ {0} /\ main.next + 1 \in Nat \ {0}
        /\ main.count \in Nat
        /\ main = [at |-> "visiting", due |-> main.due, next |-> main.next, count |-> main.count]
    BY <2>1 DEF Visit
  <2>3. CASE main' = [at |-> "subscribing"] /\ missed' = missed
    <3>1. main' \in Main
      BY <2>2, <2>3, MainRecords
    <3> QED
      BY <1>2, <2>3, <3>1 DEF ScanVisit, TypeOK
  <2>4. CASE main.next <= main.count /\ main.next <= Len(queue)
    <3>1. missed' \in [Ids -> Reasons]
      BY <1>2, <2>4, MissedType DEF ScanVisit, TypeOK, Reasons
    <3>2. ASSUME queue[main.next] \in main.due PROVE main' \in Main
      <4>1. PICK id : id = queue[main.next]
        OBVIOUS
      <4>2. id \in Ids
        BY <2>2, <3>2, <4>1
      <4>3. saved[id].rc \in 0..MaxRetries
        BY <4>2 DEF TypeOK, Saved
      <4>4. main' = [at |-> "offering", due |-> main.due, next |-> main.next + 1,
                     count |-> main.count, id |-> id, rc |-> saved[id].rc]
        BY <1>2, <2>4, <3>2, <4>1 DEF ScanVisit
      <4> QED
        BY <2>2, <4>2, <4>3, <4>4, MainRecords
    <3>3. ASSUME queue[main.next] \notin main.due PROVE main' \in Main
      <4>1. main' = [main EXCEPT !.next = main.next + 1]
        BY <1>2, <2>4, <3>3 DEF ScanVisit
      <4>2. main' = [at |-> "visiting", due |-> main.due, next |-> main.next + 1, count |-> main.count]
        BY <2>2, <4>1
      <4> QED
        BY <2>2, <4>2, MainRecords
    <3> QED
      BY <1>2, <2>4, <3>1, <3>2, <3>3 DEF ScanVisit, TypeOK
  <2> QED
    BY <1>2, <2>3, <2>4 DEF ScanVisit
<1>3. CASE ScanOffer
  <2>1. main \in Offer
    BY <1>3, MainFields DEF ScanOffer, TypeOK
  <2>2. main.due \in SUBSET Ids /\ main.next \in Nat \ {0} /\ main.count \in Nat /\ main.id \in Ids
        /\ main.rc \in 0..MaxRetries
    BY <2>1 DEF Offer
  <2>3. main' \in Main
    BY <1>3, <2>2, MainRecords DEF ScanOffer
  <2>4. Append(tasks, [id |-> main.id, rc |-> main.rc]) \in Seq(Copy)
    <3>1. [id |-> main.id, rc |-> main.rc] \in Copy
      BY <2>2 DEF Copy
    <3> QED
      BY <3>1, PutType DEF TypeOK
  <2>5. tasks' \in Seq(Copy) /\ inProgress' \subseteq Ids
    <3>1. \/ tasks' = Append(tasks, [id |-> main.id, rc |-> main.rc])
             /\ inProgress' = inProgress \cup {main.id}
          \/ tasks' = tasks /\ inProgress' = inProgress
      BY <1>3 DEF ScanOffer
    <3> QED
      BY <2>2, <2>4, <3>1 DEF TypeOK
  <2>6. missed' \in [Ids -> Reasons]
    BY <1>3, MissedType DEF ScanOffer, TypeOK, Reasons
  <2> QED
    BY <1>3, <2>3, <2>5, <2>6 DEF ScanOffer, TypeOK
<1>4. CASE SubscribeMessages
  <2>1. main' \in Main
    BY <1>4 DEF SubscribeMessages, Main
  <2> QED
    BY <1>4, <2>1 DEF SubscribeMessages, TypeOK
<1> QED
  BY <1>1, <1>2, <1>3, <1>4

LEMMA TypeLoop ==
    ASSUME TypeOK, Receive \/ TimerFires \/ Drain \/ Dispatch
    PROVE  TypeOK'
<1> USE DEF broker, retries, history, OnlyMain
<1>1. CASE Receive
  <2>1. Head(feed) \in Copy /\ Tail(feed) \in Seq(Copy)
    <3>1. feed \in Seq(Copy) /\ feed # <<>>
      BY <1>1 DEF Receive, TypeOK
    <3> QED
      BY <3>1, HeadTailProperties
  <2>2. Append(tasks, Head(feed)) \in Seq(Copy)
    BY <2>1, PutType DEF TypeOK
  <2>3. tasks' \in Seq(Copy)
    <3>1. tasks' = Append(tasks, Head(feed)) \/ tasks' = tasks
      BY <1>1 DEF Receive
    <3> QED
      BY <2>2, <3>1 DEF TypeOK
  <2>4. missed' \in [Ids -> Reasons]
    BY <1>1, MissedType DEF Receive, TypeOK, Reasons
  <2> QED
    BY <1>1, <2>1, <2>3, <2>4 DEF Receive, TypeOK
<1>2. CASE TimerFires
  <2>1. 0 \in 0..Lag
    BY BoundsAssumption
  <2>2. retryHeap' \in [Entry -> Nat] /\ timer' \in Nat \cup {Off} /\ main' \in Main
    BY <1>2, <2>1, LookType DEF TimerFires, TypeOK
  <2> QED
    BY <1>2, <2>2 DEF TimerFires, TypeOK
<1>3. CASE Drain
  <2>1. main.lag \in 0..Lag
    BY <1>3, MainFields DEF Drain, TypeOK, Draining
  <2>2. retryHeap' \in [Entry -> Nat] /\ timer' \in Nat \cup {Off} /\ main' \in Main
    BY <1>3, <2>1, LookType DEF Drain, TypeOK
  <2> QED
    BY <1>3, <2>2 DEF Drain, TypeOK
<1>4. CASE Dispatch
  <2>1. main.lag \in 0..Lag /\ main.id \in Ids /\ main.rc \in 0..MaxRetries /\ main.wait \in Waits
    BY <1>4, MainFields DEF Dispatch, TypeOK, Holding
  <2>2. main' \in Main
    <3>1. main' = [at |-> "draining", lag |-> main.lag]
      BY <1>4 DEF Dispatch
    <3>2. main' \in Draining
      BY <2>1, <3>1 DEF Draining
    <3> QED
      BY <3>2, MainTypes
  <2>3. [id |-> main.id, rc |-> main.rc] \in Copy
    BY <2>1 DEF Copy
  <2>4. Append(tasks, [id |-> main.id, rc |-> main.rc]) \in Seq(Copy)
    BY <2>3, PutType DEF TypeOK
  <2>5. PICK e : e = [id |-> main.id, rc |-> main.rc, wait |-> main.wait]
    OBVIOUS
  <2>6. e \in Entry
    BY <2>1, <2>5 DEF Entry
  <2>7. \/ tasks' = Append(tasks, [id |-> main.id, rc |-> main.rc]) /\ retryHeap' = retryHeap
           /\ timer' = timer
        \/ scheduleRetry(e) /\ tasks' = tasks
    BY <1>4, <2>5 DEF Dispatch
  <2>8. retryHeap' \in [Entry -> Nat] /\ timer' \in Nat \cup {Off} /\ tasks' \in Seq(Copy)
    BY <2>4, <2>6, <2>7, ScheduleType DEF TypeOK
  <2> QED
    BY <1>4, <2>2, <2>8 DEF Dispatch, TypeOK
<1> QED
  BY <1>1, <1>2, <1>3, <1>4

LEMMA TypeWorker ==
    ASSUME TypeOK, NEW w \in Workers, Worker(w)
    PROVE  TypeOK'
<1> USE DEF broker, retries, history, OnlyWork
<1>0. /\ work \in [Workers -> {Idle} \cup Work]
      /\ \A v \in Work \cup {Idle} : [work EXCEPT ![w] = v] \in [Workers -> {Idle} \cup Work]
  BY DEF TypeOK
<1>1. ASSUME work[w].at \in {"sending", "leaving"}
      PROVE  /\ work[w].id \in Ids /\ work[w].rc \in 0..MaxRetries
             /\ Step(w, "leaving") => work' \in [Workers -> {Idle} \cup Work]
  <2>1. work[w].id \in Ids /\ work[w].rc \in 0..MaxRetries
    BY <1>0, <1>1, WorkFields DEF Sending
  <2>2. [at |-> "leaving", id |-> work[w].id, rc |-> work[w].rc] \in Sending
    BY <2>1 DEF Sending
  <2> QED
    BY <1>0, <2>1, <2>2, WorkTypes DEF Step
<1>2. CASE Take(w)
  <2>1. tasks \in Seq(Copy) /\ tasks # <<>>
    BY <1>2 DEF Take, TypeOK
  <2>2. Head(tasks) \in Copy /\ Tail(tasks) \in Seq(Copy)
    BY <2>1, HeadTailProperties
  <2>3. Head(tasks).id \in Ids /\ Head(tasks).rc \in 0..MaxRetries
    BY <2>2 DEF Copy
  <2>4. [at |-> IF targets = {} THEN "leaving" ELSE "sending",
         id |-> Head(tasks).id, rc |-> Head(tasks).rc] \in Sending
    BY <2>3 DEF Sending
  <2>5. work' \in [Workers -> {Idle} \cup Work]
    BY <1>0, <1>2, <2>4, WorkTypes DEF Take
  <2>6. missed' \in [Ids -> Reasons]
    BY <1>2, MissedType DEF Take, TypeOK, Reasons
  <2> QED
    BY <1>2, <2>2, <2>5, <2>6 DEF Take, TypeOK
<1>3. CASE Deliver(w)
  <2>1. work' \in [Workers -> {Idle} \cup Work]
    BY <1>1, <1>3 DEF Deliver
  <2>2. missed' \in [Ids -> Reasons]
    BY <1>3, MissedType DEF Deliver, TypeOK
  <2>3. queue' \in Seq(Ids) /\ lent' \subseteq Ids
    BY <1>3, RemoveFact DEF Deliver, Forget, TypeOK
  <2> QED
    BY <1>3, <2>1, <2>2, <2>3 DEF Deliver, TypeOK
<1>4. CASE Bury(w)
  <2>1. work' \in [Workers -> {Idle} \cup Work]
    BY <1>1, <1>4 DEF Bury
  <2>2. missed' \in [Ids -> Reasons]
    BY <1>4, MissedType DEF Bury, TypeOK
  <2>3. queue' \in Seq(Ids)
    BY <1>4, RemoveFact DEF Bury, TypeOK
  <2> QED
    BY <1>4, <2>1, <2>2, <2>3 DEF Bury, TypeOK
<1>5. CASE Fail(w)
  <2>1. PICK id \in Ids, rc \in 0..MaxRetries : work[w].id = id /\ work[w].rc + 1 = rc /\ rc \in 1..MaxRetries
    <3>1. work[w].id \in Ids /\ work[w].rc \in 0..MaxRetries
      BY <1>1, <1>5 DEF Fail
    <3>2. work[w].rc < MaxRetries
      BY <1>5 DEF Fail
    <3>3. work[w].rc + 1 \in 1..MaxRetries
      BY <3>1, <3>2, BoundsAssumption
    <3> QED
      BY <3>1, <3>3
  <2>2. PICK b : b = Backoff(rc)
    OBVIOUS
  <2>3. b \in 0..Backoff(MaxRetries) /\ b \in Waits
    BY <2>1, <2>2, WaitBounds
  <2>4. [at |-> "rescheduling", id |-> id, rc |-> rc, wait |-> b] \in Rescheduling
    BY <2>3 DEF Rescheduling
  <2>5. work' = [work EXCEPT ![w] = [at |-> "rescheduling", id |-> id, rc |-> rc, wait |-> b]]
    BY <1>5, <2>1, <2>2, Zenon DEF Fail
  <2>6. work' \in [Workers -> {Idle} \cup Work]
    BY <1>0, <2>4, <2>5, WorkTypes
  <2>7. \/ /\ saved' = [saved EXCEPT ![id] = [rc |-> rc, wait |-> b]]
           /\ main' = IF Scanning THEN [main EXCEPT !.due = @ \ {id}] ELSE main
        \/ saved' = saved /\ main' = main
    BY <1>5, <2>1, <2>2, Zenon DEF Fail
  <2>8. saved' \in [Ids -> Saved]
    <3>1. [rc |-> rc, wait |-> b] \in Saved
      BY <2>3 DEF Saved
    <3> QED
      BY <2>7, <3>1 DEF TypeOK
  <2>9. main' \in Main
    <3>1. main \in Main
      BY DEF TypeOK
    <3>2. CASE main' = main
      BY <3>1, <3>2
    <3>3. CASE Scanning /\ main' = [main EXCEPT !.due = @ \ {id}]
      <4>1. main \in Visit \/ main \in Offer
        BY <3>1, <3>3, MainFields DEF Scanning
      <4>2. main' \in Visit \/ main' \in Offer
        BY <3>3, <4>1 DEF Visit, Offer
      <4> QED
        BY <4>2, MainTypes
    <3> QED
      BY <2>7, <3>2, <3>3
  <2> QED
    BY <1>5, <2>6, <2>8, <2>9 DEF Fail, TypeOK
<1>6. CASE Reschedule(w)
  <2>1. work[w].id \in Ids /\ work[w].rc \in 0..MaxRetries /\ work[w].wait \in Waits
    BY <1>0, <1>6, WorkFields DEF Reschedule, Rescheduling
  <2>2. [at |-> "leaving", id |-> work[w].id, rc |-> work[w].rc] \in Sending
    BY <2>1 DEF Sending
  <2>3. work' \in [Workers -> {Idle} \cup Work]
    BY <1>0, <1>6, <2>2, WorkTypes DEF Reschedule, Step
  <2>4. PICK e : e = [id |-> work[w].id, rc |-> work[w].rc, wait |-> work[w].wait]
    OBVIOUS
  <2>5. e \in Entry
    BY <2>1, <2>4 DEF Entry
  <2>6. retryHeap' \in [Entry -> Nat] /\ timer' \in Nat \cup {Off}
    <3>1. scheduleRetry(e)
      BY <1>6, <2>4 DEF Reschedule
    <3> QED
      BY <2>5, <3>1, ScheduleType DEF TypeOK
  <2> QED
    BY <1>6, <2>3, <2>6 DEF Reschedule, TypeOK
<1>7. CASE Leave(w)
  <2>1. work' \in [Workers -> {Idle} \cup Work]
    BY <1>0, <1>7 DEF Leave
  <2> QED
    BY <1>7, <2>1 DEF Leave, TypeOK
<1> QED
  BY <1>2, <1>3, <1>4, <1>5, <1>6, <1>7 DEF Worker

\* A tick moves the copies of an entry to the entry with the next lower wait.
LEMMA TickHeap ==
    ASSUME retryHeap \in [Entry -> Nat], Tick
    PROVE  /\ retryHeap' \in [Entry -> Nat]
           /\ \A e \in Entry : retryHeap[e] > 0 =>
                  \E d \in Entry : d.id = e.id /\ d.rc = e.rc /\ d.wait = Later(e.wait) /\ retryHeap'[d] > 0
<1> DEFINE stay(e) == IF Later(e.wait) = e.wait THEN retryHeap[e] ELSE 0
           come(e) == IF e.wait + 1 \in Waits THEN retryHeap[[e EXCEPT !.wait = @ + 1]] ELSE 0
<1>1. retryHeap' = [e \in Entry |-> stay(e) + come(e)]
  BY Zenon DEF Tick
<1>2. ASSUME NEW e \in Entry PROVE stay(e) \in Nat /\ come(e) \in Nat
  <2>1. e.wait + 1 \in Waits => [e EXCEPT !.wait = @ + 1] \in Entry
    BY DEF Entry
  <2> QED
    BY <2>1
<1>3. ASSUME NEW e \in Entry, retryHeap[e] > 0
      PROVE  \E d \in Entry : d.id = e.id /\ d.rc = e.rc /\ d.wait = Later(e.wait) /\ stay(d) + come(d) > 0
  <2>1. e.id \in Ids /\ e.rc \in 0..MaxRetries /\ e.wait \in Waits /\ Later(e.wait) \in Waits
    BY WaitBounds DEF Entry
  <2>2. CASE Later(e.wait) = e.wait
    <3>1. stay(e) = retryHeap[e]
      BY <2>2
    <3>2. stay(e) + come(e) > 0
      BY <1>2, <1>3, <3>1
    <3> QED
      BY <2>2, <3>2
  <2>3. CASE Later(e.wait) # e.wait
    <3>1. Later(e.wait) + 1 = e.wait
      <4>1. e.wait \in Int
        BY <2>1, WaitBounds
      <4>2. Later(e.wait) = e.wait - 1
        BY <2>3 DEF Later
      <4> QED
        BY <4>1, <4>2
    <3>2. PICK d : d = [id |-> e.id, rc |-> e.rc, wait |-> Later(e.wait)]
      OBVIOUS
    <3>3. d \in Entry /\ d.id = e.id /\ d.rc = e.rc /\ d.wait = Later(e.wait)
      BY <2>1, <3>2 DEF Entry
    <3>4. [d EXCEPT !.wait = @ + 1] = e
      <4>1. d.wait + 1 = e.wait
        BY <3>1, <3>3
      <4>2. [d EXCEPT !.wait = d.wait + 1] = [id |-> e.id, rc |-> e.rc, wait |-> e.wait]
        BY <3>2, <4>1
      <4> QED
        BY <4>2 DEF Entry
    <3>5. come(d) = retryHeap[e]
      BY <2>1, <3>1, <3>3, <3>4
    <3>6. stay(d) + come(d) > 0
      BY <1>2, <1>3, <3>3, <3>5
    <3> QED
      BY <3>3, <3>6
  <2> QED
    BY <2>2, <2>3
<1> HIDE DEF stay, come
<1>4. retryHeap' \in [Entry -> Nat]
  BY <1>1, <1>2
<1> QED
  BY <1>1, <1>3, <1>4

LEMMA TypeTick == ASSUME TypeOK, Tick PROVE TypeOK'
<1> USE DEF history
<1>1. retryHeap' \in [Entry -> Nat]
  BY TickHeap DEF TypeOK
<1>2. timer' \in Nat \cup {Off}
  BY DEF Tick, TypeOK
<1>3. saved' \in [Ids -> Saved]
  <2>1. ASSUME NEW id \in Ids
        PROVE  [saved[id] EXCEPT !.wait = IF @ > 0 THEN @ - 1 ELSE 0] \in Saved
    <3>1. saved[id] \in Saved /\ Backoff(MaxRetries) \in Nat
      BY BackoffAssumption DEF TypeOK
    <3> QED
      BY <3>1 DEF Saved
  <2> QED
    BY <2>1 DEF Tick
<1>4. work' \in [Workers -> {Idle} \cup Work]
  <2>1. ASSUME NEW w \in Workers, work[w].at = "rescheduling"
        PROVE  [work[w] EXCEPT !.wait = Later(@)] \in Work
    <3>1. work[w] \in Rescheduling
      BY <2>1, WorkFields DEF TypeOK
    <3>2. Later(work[w].wait) \in Waits
      BY <3>1, WaitBounds DEF Rescheduling
    <3>3. [work[w] EXCEPT !.wait = Later(@)] \in Rescheduling
      BY <3>1, <3>2 DEF Rescheduling
    <3> QED
      BY <3>3, WorkTypes
  <2>2. \A w \in Workers : work[w] \in {Idle} \cup Work
    BY DEF TypeOK
  <2> QED
    BY <2>1, <2>2 DEF Tick
<1>5. main' \in Main
  <2>1. main \in Main
    BY DEF TypeOK
  <2>2. CASE main.at = "draining"
    <3>1. main \in Draining /\ main.lag < Lag
      BY <2>1, <2>2, MainFields DEF Tick
    <3>2. main' = [main EXCEPT !.lag = @ + 1]
      BY <2>2 DEF Tick
    <3>3. main.lag + 1 \in 0..Lag
      BY <3>1, WaitBounds DEF Draining
    <3>4. main' \in Draining
      BY <3>1, <3>2, <3>3 DEF Draining
    <3> QED
      BY <3>4, MainTypes
  <2>3. CASE main.at = "holding"
    <3>1. main \in Holding /\ main.lag < Lag
      BY <2>1, <2>3, MainFields DEF Tick
    <3>2. main' = [main EXCEPT !.lag = @ + 1, !.wait = Later(@)]
      BY <2>3 DEF Tick
    <3>3. main.lag \in 0..Lag /\ main.wait \in Waits
      BY <3>1 DEF Holding
    <3>4. main.lag + 1 \in 0..Lag
      BY <3>1, <3>3, BoundsAssumption
    <3>5. Later(main.wait) \in Waits
      BY <3>3, WaitBounds
    <3>6. main' \in Holding
      BY <3>1, <3>2, <3>4, <3>5 DEF Holding
    <3> QED
      BY <3>6, MainTypes
  <2>4. CASE main.at \notin {"draining", "holding"}
    BY <2>1, <2>4 DEF Tick
  <2> QED
    BY <2>2, <2>3, <2>4
<1> QED
  BY <1>1, <1>2, <1>3, <1>4, <1>5 DEF Tick, TypeOK

LEMMA TypeNext == ASSUME TypeOK, [Next]_vars PROVE TypeOK'
<1>1. CASE Reset
  BY <1>1 DEF Reset, TypeOK, broker, retries
<1>2. CASE UNCHANGED vars
  BY <1>2 DEF TypeOK, vars, broker, retries, history
<1>3. CASE Next
  <2>1. CASE \/ \E id \in Ids : Push(id) \/ Announce(id) \/ Return(id) \/ Acknowledge(id)
             \/ Pop
             \/ \E t \in Targets : AddTarget(t)
    BY <2>1, TypeClients
  <2>2. CASE Start
    BY <2>2, TypeScan, TypeLoop DEF Start
  <2>3. CASE \E w \in Workers : Worker(w)
    BY <2>3, TypeWorker
  <2> QED
    BY <1>1, <1>3, <2>1, <2>2, <2>3, TypeTick DEF Next
<1> QED
  BY <1>2, <1>3

\* What the dispatcher keeps has its type: in particular no retry count passes
\* max_retries, no entry is taken from the heap that is not in it, and no timer
\* is set to a time that has passed (dispatcher.go:135-228, 400-419).
THEOREM TypeCorrect == Spec => []TypeOK
<1>1. TypeOK /\ [Next]_vars => TypeOK'
  BY TypeNext
<1> QED
  BY <1>1, TypeInit, PTL DEF Spec

(* The queue. *)

\* A message is at one place of the queue, or lent, or neither, and no id is
\* used twice (dispatcher.go:142 rests on it; module Broker shows it).
QueueInv ==
    /\ \A i, j \in DOMAIN queue : queue[i] = queue[j] => i = j
    /\ \A id \in Ids : Queued(id) \/ id \in lent => id \in pushed
    /\ \A id \in lent : ~Queued(id)

LEMMA QueueInit == Init => QueueInv
<1> SUFFICES ASSUME Init PROVE QueueInv
  OBVIOUS
<1>1. PICK R \in SUBSET Stored : queue \in InOrder(R) /\ pushed = R
  BY DEF Init
<1>2. IsFiniteSet(R)
  BY StartAssumption, IdsAssumption, FS_Subset
<1>3. /\ \A i, j \in DOMAIN queue : queue[i] = queue[j] => i = j
      /\ \A i \in DOMAIN queue : queue[i] \in R
  BY <1>1, <1>2, InOrderType
<1>4. lent = {}
  BY DEF Init
<1> QED
  BY <1>1, <1>3, <1>4 DEF QueueInv, Queued

\* Forgetting a message, wherever it is.
LEMMA ForgetQueue ==
    ASSUME TypeOK, QueueInv, pushed' = pushed, NEW x \in Ids,
           \/ Forget(x)
           \/ UNCHANGED <<queue, lent>>
           \/ lent' = lent /\ Remove(x)
    PROVE  /\ QueueInv'
           /\ \A id : Queued(id)' => Queued(id)
           /\ Forget(x) \/ Remove(x) => ~Queued(x)'
<1>1. CASE UNCHANGED <<queue, lent>>
  <2>1. \A id : Queued(id)' <=> Queued(id)
    BY <1>1 DEF Queued
  <2>2. QueueInv'
    BY <1>1, <2>1 DEF QueueInv
  <2>3. Remove(x) => ~Queued(x)'
    BY RemoveFact DEF TypeOK
  <2>4. Forget(x) => ~Queued(x)'
    BY <1>1, <2>1, <2>3 DEF Forget, QueueInv
  <2> QED
    BY <2>1, <2>2, <2>3, <2>4
<1>2. CASE Remove(x) /\ lent' \subseteq lent
  <2>1. /\ \A id : Queued(id)' <=> Queued(id) /\ id # x
        /\ \A i, j \in DOMAIN queue' : queue'[i] = queue'[j] => i = j
    BY <1>2, RemoveFact DEF TypeOK, QueueInv
  <2>2. QueueInv'
    BY <1>2, <2>1 DEF QueueInv
  <2> QED
    BY <2>1, <2>2
<1>3. CASE x \in lent /\ lent' = lent \ {x} /\ queue' = queue
  <2>1. \A id : Queued(id)' <=> Queued(id)
    BY <1>3 DEF Queued
  <2>2. QueueInv'
    BY <1>3, <2>1 DEF QueueInv
  <2>3. ~Queued(x)
    BY <1>3 DEF QueueInv
  <2> QED
    BY <2>1, <2>2, <2>3
<1> QED
  BY <1>1, <1>2, <1>3 DEF Forget

LEMMA QueueNext == ASSUME TypeOK, QueueInv, [Next]_vars PROVE QueueInv'
<1> USE DEF broker, retries, history, OnlyQueue, OnlyMain, OnlyWork
<1>0. ASSUME UNCHANGED <<queue, lent, pushed>> PROVE QueueInv'
  <2>1. \A id : Queued(id)' <=> Queued(id)
    BY <1>0 DEF Queued
  <2> QED
    BY <1>0, <2>1 DEF QueueInv
<1>1. ASSUME NEW id \in Ids, Push(id) PROVE QueueInv'
  <2>1. id \notin pushed /\ pushed' = pushed \cup {id} /\ queue' = Append(queue, id) /\ lent' = lent
    BY <1>1 DEF Push
  <2>2. /\ Len(queue) \in Nat /\ DOMAIN queue = 1..Len(queue) /\ DOMAIN queue' = 1..(Len(queue) + 1)
        /\ \A i \in DOMAIN queue : queue'[i] = queue[i]
        /\ queue'[Len(queue) + 1] = id
    BY <2>1, LenProperties, AppendProperties DEF TypeOK
  <2>3. \A x : Queued(x)' <=> Queued(x) \/ x = id
    BY <2>2 DEF Queued
  <2>4. ~Queued(id) /\ id \notin lent
    BY <2>1 DEF QueueInv
  <2>5. \A i, j \in DOMAIN queue' : queue'[i] = queue'[j] => i = j
    <3>1. \A i \in DOMAIN queue : queue[i] # id
      BY <2>4 DEF Queued
    <3> QED
      BY <2>2, <3>1 DEF QueueInv
  <2> QED
    BY <2>1, <2>3, <2>4, <2>5 DEF QueueInv
<1>2. ASSUME NEW id \in Ids, Announce(id) PROVE QueueInv'
  BY <1>0, <1>2 DEF Announce
<1>3. ASSUME NEW id \in Ids, Return(id) PROVE QueueInv'
  <2>1. id \in lent /\ lent' = lent \ {id} /\ queue' = <<id>> \o queue /\ pushed' = pushed
    BY <1>3 DEF Return
  <2>2. /\ Len(queue) \in Nat /\ DOMAIN queue = 1..Len(queue) /\ DOMAIN queue' = 1..(Len(queue) + 1)
        /\ queue'[1] = id
        /\ \A i \in DOMAIN queue' : i # 1 => i - 1 \in DOMAIN queue /\ queue'[i] = queue[i - 1]
    BY <2>1, LenProperties, ConcatProperties DEF TypeOK
  <2>3. \A x : Queued(x)' <=> Queued(x) \/ x = id
    <3>1. \A i \in DOMAIN queue : i + 1 \in DOMAIN queue' /\ queue'[i + 1] = queue[i]
      BY <2>2
    <3>2. 1 \in DOMAIN queue'
      BY <2>2
    <3> QED
      BY <2>2, <3>1, <3>2 DEF Queued
  <2>4. ~Queued(id) /\ id \in pushed
    BY <2>1 DEF QueueInv
  <2>5. \A i, j \in DOMAIN queue' : queue'[i] = queue'[j] => i = j
    <3>1. \A i \in DOMAIN queue : queue[i] # id
      BY <2>4 DEF Queued
    <3> QED
      BY <2>2, <3>1 DEF QueueInv
  <2> QED
    BY <2>1, <2>3, <2>4, <2>5 DEF QueueInv
<1>4. ASSUME NEW id \in Ids, Acknowledge(id) PROVE QueueInv'
  BY <1>4, ForgetQueue DEF Acknowledge
<1>5. CASE Pop
  <2>1. queue # <<>> /\ queue' = Tail(queue) /\ lent' = lent \cup {Head(queue)} /\ pushed' = pushed
    BY <1>5 DEF Pop
  <2>2. /\ Len(queue) \in Nat /\ DOMAIN queue = 1..Len(queue) /\ DOMAIN queue' = 1..(Len(queue) - 1)
        /\ 1 \in DOMAIN queue /\ Head(queue) = queue[1]
        /\ \A i \in DOMAIN queue' : i + 1 \in DOMAIN queue /\ i + 1 # 1 /\ queue'[i] = queue[i + 1]
    BY <2>1, LenProperties, HeadTailProperties DEF TypeOK
  <2>3. \A x : Queued(x)' <=> Queued(x) /\ x # Head(queue)
    <3>1. \A i \in DOMAIN queue : i # 1 => i - 1 \in DOMAIN queue' /\ queue'[i - 1] = queue[i]
      BY <2>2
    <3>2. \A i \in DOMAIN queue : queue[i] = queue[1] => i = 1
      BY <2>2 DEF QueueInv
    <3> QED
      BY <2>2, <3>1, <3>2 DEF Queued
  <2>4. \A i, j \in DOMAIN queue' : queue'[i] = queue'[j] => i = j
    <3>1. \A i, j \in DOMAIN queue : queue[i] = queue[j] => i = j
      BY DEF QueueInv
    <3> QED
      BY <2>2, <3>1
  <2>5. Queued(Head(queue))
    BY <2>2 DEF Queued
  <2> QED
    BY <2>1, <2>3, <2>4, <2>5 DEF QueueInv
<1>6. ASSUME NEW t \in Targets, AddTarget(t) PROVE QueueInv'
  BY <1>0, <1>6 DEF AddTarget
<1>7. CASE Start
  <2>1. UNCHANGED <<queue, lent, pushed>>
    BY <1>7 DEF Start, ScanStart, ScanVisit, ScanOffer, SubscribeMessages, Receive, TimerFires,
                Drain, Dispatch
  <2> QED
    BY <1>0, <2>1
<1>8. ASSUME NEW w \in Workers, Worker(w) PROVE QueueInv'
  <2>1. CASE Take(w) \/ Fail(w) \/ Reschedule(w) \/ Leave(w)
    BY <1>0, <2>1 DEF Take, Fail, Reschedule, Leave
  <2>2. CASE Deliver(w) \/ Bury(w)
    <3>1. work[w].id \in Ids
      BY <2>2, WorkFields DEF Deliver, Bury, TypeOK, Sending
    <3>2. pushed' = pushed
      BY <2>2 DEF Deliver, Bury
    <3>3. PICK x \in Ids : x = work[w].id
      BY <3>1
    <3>4. \/ Forget(x)
          \/ UNCHANGED <<queue, lent>>
          \/ lent' = lent /\ Remove(x)
      BY <2>2, <3>3 DEF Deliver, Bury
    <3> QED
      BY <3>2, <3>4, ForgetQueue
  <2> QED
    BY <1>8, <2>1, <2>2 DEF Worker
<1>9. CASE Reset \/ Tick \/ UNCHANGED vars
  BY <1>0, <1>9 DEF Reset, Tick, vars
<1> QED
  BY <1>1, <1>2, <1>3, <1>4, <1>5, <1>6, <1>7, <1>8, <1>9 DEF Next

(* Where a message is. *)

Working(id) == \E w \in Workers : AtWork(w, id)

LEMMA InHandParts ==
    ASSUME NEW id
    PROVE  /\ InHand(id) <=> \/ id \in announcing \/ InChannel(feed, id) \/ InChannel(tasks, id)
                             \/ Working(id) \/ Scheduled(id) \/ Carried(id) \/ Ahead(id)
           /\ InHand(id)' <=> \/ id \in announcing' \/ InChannel(feed, id)' \/ InChannel(tasks, id)'
                              \/ Working(id)' \/ Scheduled(id)' \/ Carried(id)' \/ Ahead(id)'
BY DEF InHand, Working

\* What a step leaves alone keeps the messages it holds.
LEMMA Same ==
    ASSUME NEW id
    PROVE  /\ feed' = feed => (InChannel(feed, id)' <=> InChannel(feed, id))
           /\ tasks' = tasks => (InChannel(tasks, id)' <=> InChannel(tasks, id))
           /\ work' = work => (Working(id)' <=> Working(id))
           /\ retryHeap' = retryHeap => (Scheduled(id)' <=> Scheduled(id))
           /\ main' = main => (Carried(id)' <=> Carried(id))
           /\ queue' = queue => (Queued(id)' <=> Queued(id))
           /\ main' = main /\ queue' = queue => (Ahead(id)' <=> Ahead(id))
<1>1. feed' = feed => (InChannel(feed, id)' <=> InChannel(feed, id))
  BY DEF InChannel
<1>2. tasks' = tasks => (InChannel(tasks, id)' <=> InChannel(tasks, id))
  BY DEF InChannel
<1>3. work' = work => (Working(id)' <=> Working(id))
  BY DEF Working, AtWork
<1>4. retryHeap' = retryHeap => (Scheduled(id)' <=> Scheduled(id))
  BY DEF Scheduled
<1>5. main' = main => (Carried(id)' <=> Carried(id))
  BY DEF Carried
<1>6. queue' = queue => (Queued(id)' <=> Queued(id))
  BY DEF Queued
<1>7. main' = main /\ queue' = queue => (Ahead(id)' <=> Ahead(id))
  BY DEF Ahead, Queued, Scanning
<1> QED
  BY <1>1, <1>2, <1>3, <1>4, <1>5, <1>6, <1>7

\* A message at the end of a channel, and one taken from its head.
LEMMA ChannelFact ==
    ASSUME NEW ch \in Seq(Copy)
    PROVE  /\ \A c, id : InChannel(Append(ch, c), id) <=> InChannel(ch, id) \/ id = c.id
           /\ ch # <<>> => \A id : InChannel(ch, id) => InChannel(Tail(ch), id) \/ id = Head(ch).id
<1>1. Len(ch) \in Nat /\ DOMAIN ch = 1..Len(ch)
  BY LenProperties
<1>2. ASSUME NEW c, NEW id PROVE InChannel(Append(ch, c), id) <=> InChannel(ch, id) \/ id = c.id
  <2>1. /\ DOMAIN Append(ch, c) = 1..(Len(ch) + 1)
        /\ \A i \in DOMAIN ch : Append(ch, c)[i] = ch[i]
        /\ Append(ch, c)[Len(ch) + 1] = c
    BY <1>1
  <2>2. ASSUME InChannel(ch, id) \/ id = c.id PROVE InChannel(Append(ch, c), id)
    BY <1>1, <2>1, <2>2 DEF InChannel
  <2>3. ASSUME InChannel(Append(ch, c), id) PROVE InChannel(ch, id) \/ id = c.id
    BY <1>1, <2>1, <2>3 DEF InChannel
  <2> QED
    BY <2>2, <2>3
<1>3. ASSUME ch # <<>>, NEW id, InChannel(ch, id) PROVE InChannel(Tail(ch), id) \/ id = Head(ch).id
  <2>1. PICK i \in DOMAIN ch : ch[i].id = id
    BY <1>3 DEF InChannel
  <2>2. /\ Head(ch) = ch[1] /\ DOMAIN Tail(ch) = 1..(Len(ch) - 1)
        /\ \A j \in DOMAIN Tail(ch) : Tail(ch)[j] = ch[j + 1]
    BY <1>1, <1>3, HeadTailProperties, LenProperties
  <2>3. CASE i # 1
    <3>1. i - 1 \in DOMAIN Tail(ch) /\ (i - 1) + 1 = i
      BY <1>1, <2>1, <2>2, <2>3
    <3>2. Tail(ch)[i - 1].id = id
      BY <2>1, <2>2, <3>1
    <3> QED
      BY <3>1, <3>2 DEF InChannel
  <2> QED
    BY <2>1, <2>2, <2>3
<1> QED
  BY <1>2, <1>3

(* Three ways a step keeps account of the queued messages. *)

\* It keeps them all in hand.
LEMMA KeepStep ==
    ASSUME TypeOK, Accounted, missed' = missed,
           \A id \in Ids : Queued(id)' /\ ~Queued(id) => InHand(id)',
           \A id \in Ids : Queued(id)' /\ InHand(id) => InHand(id)'
    PROVE  Accounted'
BY DEF Accounted

\* It records the loss of the one it touches.
LEMMA LoseStep ==
    ASSUME TypeOK, Accounted, NEW x, NEW why, why # "no", Lose(x, why),
           \A id \in Ids : Queued(id)' => Queued(id),
           \A id \in Ids : id # x /\ InHand(id) => InHand(id)'
    PROVE  Accounted'
<1> SUFFICES ASSUME NEW id \in Ids, Queued(id)', missed'[id] = "no" PROVE InHand(id)'
  BY DEF Accounted
<1>1. missed'[id] = IF id = x /\ Queued(id)' /\ ~InHand(id)' THEN why ELSE missed[id]
  BY DEF Lose
<1>2. CASE id = x
  BY <1>1, <1>2
<1>3. CASE id # x
  <2>1. missed[id] = "no" /\ Queued(id)
    BY <1>1, <1>3
  <2> QED
    BY <1>3, <2>1 DEF Accounted
<1> QED
  BY <1>2, <1>3

\* It records what is skipped.
LEMMA ShiftStep ==
    ASSUME TypeOK, Accounted, Shift,
           \A id \in Ids : Queued(id)' => Queued(id),
           \A id \in Ids : Queued(id)' /\ InHand(id) /\ ~Ahead(id) => InHand(id)'
    PROVE  Accounted'
<1> SUFFICES ASSUME NEW id \in Ids, Queued(id)', missed'[id] = "no" PROVE InHand(id)'
  BY DEF Accounted
<1>1. missed'[id] = IF Ahead(id) /\ Queued(id)' /\ ~InHand(id)' THEN "skipped" ELSE missed[id]
  BY DEF Shift
<1>2. CASE Ahead(id)
  BY <1>1, <1>2
<1>3. CASE ~Ahead(id)
  <2>1. missed[id] = "no" /\ Queued(id)
    BY <1>1, <1>3
  <2> QED
    BY <1>3, <2>1 DEF Accounted
<1> QED
  BY <1>2, <1>3

LEMMA AccountedClients ==
    ASSUME TypeOK, QueueInv, Accounted,
           \/ \E id \in Ids : Push(id) \/ Announce(id) \/ Return(id) \/ Acknowledge(id)
           \/ Pop
           \/ \E t \in Targets : AddTarget(t)
    PROVE  Accounted'
<1> USE DEF broker, retries, history, OnlyQueue
<1>1. ASSUME NEW id \in Ids, Push(id) PROVE Accounted'
  <2>1. /\ queue' = Append(queue, id) /\ announcing' = announcing \cup {id}
        /\ UNCHANGED <<feed, tasks, work, retryHeap, main, missed>>
    BY <1>1 DEF Push
  <2>2. /\ Len(queue) \in Nat /\ DOMAIN queue = 1..Len(queue) /\ DOMAIN queue' = 1..(Len(queue) + 1)
        /\ \A i \in DOMAIN queue : queue'[i] = queue[i]
        /\ queue'[Len(queue) + 1] = id
    BY <2>1, LenProperties, AppendProperties DEF TypeOK
  <2>3. \A x : Queued(x)' <=> Queued(x) \/ x = id
    BY <2>2 DEF Queued
  <2>4. \A x : Ahead(x) => Ahead(x)'
    <3>1. \A i \in DOMAIN queue : i \in DOMAIN queue'
      BY <2>2
    <3> QED
      BY <2>1, <2>2, <2>3, <3>1 DEF Ahead, Scanning
  <2>5. \A x \in Ids : InHand(x) => InHand(x)'
    BY <2>1, <2>4, Same, InHandParts
  <2>6. InHand(id)'
    BY <2>1, InHandParts
  <2> QED
    BY <2>1, <2>3, <2>5, <2>6, KeepStep
<1>2. ASSUME NEW id \in Ids, Announce(id) PROVE Accounted'
  <2>1. /\ announcing' = announcing \ {id} /\ UNCHANGED <<queue, tasks, work, retryHeap, main>>
        /\ Lose(id, "not announced")
        /\ feed' = feed \/ feed' = Append(feed, [id |-> id, rc |-> 0])
    BY <1>2 DEF Announce
  <2>2. \A x : InChannel(feed, x) => InChannel(feed, x)'
    BY <2>1, Same, ChannelFact DEF TypeOK
  <2>3. \A x \in Ids : x # id /\ InHand(x) => InHand(x)'
    BY <2>1, <2>2, Same, InHandParts
  <2> QED
    BY <2>1, <2>3, Same, LoseStep
<1>3. ASSUME NEW id \in Ids, Return(id) PROVE Accounted'
  <2>1. /\ queue' = <<id>> \o queue
        /\ UNCHANGED <<announcing, feed, tasks, work, retryHeap, main>>
        /\ missed' = [i \in Ids |-> IF i = id /\ ~InHand(i)' THEN "returned"
                                    ELSE IF Ahead(i) /\ ~InHand(i)' THEN "skipped"
                                    ELSE missed[i]]
    BY <1>3 DEF Return
  <2>2. /\ Len(queue) \in Nat /\ DOMAIN queue = 1..Len(queue) /\ DOMAIN queue' = 1..(Len(queue) + 1)
        /\ queue'[1] = id
        /\ \A i \in DOMAIN queue' : i # 1 => i - 1 \in DOMAIN queue /\ queue'[i] = queue[i - 1]
    BY <2>1, LenProperties, ConcatProperties DEF TypeOK
  <2>3. \A x : Queued(x)' => Queued(x) \/ x = id
    BY <2>2 DEF Queued
  <2>4. \A x \in Ids : InHand(x) /\ ~Ahead(x) => InHand(x)'
    BY <2>1, Same, InHandParts
  <2> SUFFICES ASSUME NEW x \in Ids, Queued(x)', missed'[x] = "no", ~InHand(x)' PROVE FALSE
    BY DEF Accounted
  <2>5. x # id /\ ~Ahead(x) /\ missed[x] = "no"
    BY <2>1
  <2>6. InHand(x)
    BY <2>3, <2>5 DEF Accounted
  <2> QED
    BY <2>4, <2>5, <2>6
<1>4. ASSUME NEW id \in Ids, Acknowledge(id) PROVE Accounted'
  <2>1. \A x : Queued(x)' => Queued(x)
    BY <1>4, ForgetQueue DEF Acknowledge
  <2>2. \A x \in Ids : InHand(x) /\ ~Ahead(x) => InHand(x)'
    BY <1>4, Same, InHandParts DEF Acknowledge
  <2> QED
    BY <1>4, <2>1, <2>2, ShiftStep DEF Acknowledge
<1>5. CASE Pop
  <2>1. queue # <<>> /\ queue' = Tail(queue)
    BY <1>5 DEF Pop
  <2>2. \A i \in DOMAIN queue' : i + 1 \in DOMAIN queue /\ queue'[i] = queue[i + 1]
    BY <2>1, LenProperties, HeadTailProperties DEF TypeOK
  <2>3. \A x : Queued(x)' => Queued(x)
    BY <2>2 DEF Queued
  <2>4. \A x \in Ids : InHand(x) /\ ~Ahead(x) => InHand(x)'
    BY <1>5, Same, InHandParts DEF Pop
  <2> QED
    BY <1>5, <2>3, <2>4, ShiftStep DEF Pop
<1>6. ASSUME NEW t \in Targets, AddTarget(t) PROVE Accounted'
  <2>1. \A x \in Ids : (InHand(x) => InHand(x)') /\ (Queued(x)' <=> Queued(x))
    BY <1>6, Same, InHandParts DEF AddTarget
  <2> QED
    BY <1>6, <2>1, KeepStep DEF AddTarget
<1> QED
  BY <1>1, <1>2, <1>3, <1>4, <1>5, <1>6

LEMMA AccountedScan ==
    ASSUME TypeOK, Accounted, ScanStart \/ ScanVisit \/ ScanOffer \/ SubscribeMessages
    PROVE  Accounted'
<1> USE DEF broker, retries, history, OnlyMain
<1>a. queue' = queue /\ announcing' = announcing /\ work' = work
      /\ feed' = feed /\ retryHeap' = retryHeap
  BY DEF ScanStart, ScanVisit, ScanOffer, SubscribeMessages
<1>b. \A id : Queued(id)' <=> Queued(id)
  BY <1>a, Same
<1>1. CASE ScanStart
  <2>1. /\ main.at = "starting" /\ main'.at = "visiting" /\ main'.next = 1 /\ main'.count = Len(queue)
        /\ tasks' = tasks /\ missed' = missed
    BY <1>1 DEF ScanStart
  <2>2. \A id : ~Carried(id)
    BY <2>1 DEF Carried
  <2>3. ASSUME NEW id, Queued(id) PROVE Ahead(id)'
    <3>1. PICK i \in DOMAIN queue : queue[i] = id
      BY <2>3 DEF Queued
    <3>2. i \in 1..Len(queue)
      BY LenProperties DEF TypeOK
    <3> QED
      BY <1>a, <2>1, <3>1, <3>2 DEF Ahead, Scanning
  <2>4. \A id : Ahead(id) => Queued(id)
    BY DEF Ahead, Queued
  <2>5. \A id \in Ids : InHand(id) => InHand(id)'
    BY <1>a, <2>1, <2>2, <2>3, <2>4, Same, InHandParts
  <2> QED
    BY <1>b, <2>1, <2>5, KeepStep
<1>2. CASE ScanVisit
  <2>1. main.at = "visiting" /\ main \in Visit
    BY <1>2, MainFields DEF ScanVisit, TypeOK
  <2>2. main.next \in Nat /\ main.count \in Nat /\ tasks' = tasks
    BY <1>2, <2>1 DEF Visit, ScanVisit
  <2>3. \A id : ~Carried(id)
    BY <2>1 DEF Carried
  <2>4. CASE main.next <= main.count /\ main.next <= Len(queue)
    <3>1. PICK x : x = queue[main.next]
      OBVIOUS
    <3>2. Lose(x, "retry later")
      BY <1>2, <2>4, <3>1 DEF ScanVisit
    <3>3. main'.at \in {"visiting", "offering"} /\ main'.next = main.next + 1
          /\ main'.count = main.count
      <4>1. \/ main' = [main EXCEPT !.next = main.next + 1]
            \/ main' = [at |-> "offering", due |-> main.due, next |-> main.next + 1,
                        count |-> main.count, id |-> queue[main.next],
                        rc |-> saved[queue[main.next]].rc]
        BY <1>2, <2>4 DEF ScanVisit
      <4> QED
        BY <2>1, <4>1 DEF Visit
    <3>4. ASSUME NEW id, id # x, Ahead(id) PROVE Ahead(id)'
      <4>1. PICK i \in DOMAIN queue \cap (main.next .. main.count) : queue[i] = id
        BY <2>1, <3>4 DEF Ahead
      <4>2. i # main.next
        BY <3>1, <3>4, <4>1
      <4>3. i \in Nat
        BY <4>1, LenProperties DEF TypeOK
      <4>4. i \in (main.next + 1) .. main.count
        BY <2>2, <4>1, <4>2, <4>3
      <4>5. i \in DOMAIN queue' \cap (main'.next .. main'.count) /\ queue'[i] = id
        BY <1>a, <3>3, <4>1, <4>4
      <4> QED
        BY <3>3, <4>5 DEF Ahead, Scanning
    <3>5. \A id \in Ids : id # x /\ InHand(id) => InHand(id)'
      BY <1>a, <2>2, <2>3, <3>4, Same, InHandParts
    <3> QED
      BY <1>b, <3>2, <3>5, LoseStep
  <2>5. CASE ~(main.next <= main.count /\ main.next <= Len(queue))
    <3>1. missed' = missed
      BY <1>2, <2>5 DEF ScanVisit
    <3>2. ASSUME NEW id, Ahead(id) PROVE FALSE
      <4>1. PICK i \in DOMAIN queue \cap (main.next .. main.count) : queue[i] = id
        BY <2>1, <3>2 DEF Ahead
      <4>2. i \in 1..Len(queue) /\ Len(queue) \in Nat
        BY <4>1, LenProperties DEF TypeOK
      <4> QED
        BY <2>2, <2>5, <4>1, <4>2
    <3>3. \A id \in Ids : InHand(id) => InHand(id)'
      BY <1>a, <2>2, <2>3, <3>2, Same, InHandParts
    <3> QED
      BY <1>b, <3>1, <3>3, KeepStep
  <2> QED
    BY <2>4, <2>5
<1>3. CASE ScanOffer
  <2>1. /\ main.at = "offering"
        /\ main' = [at |-> "visiting", due |-> main.due, next |-> main.next, count |-> main.count]
        /\ tasks' = tasks \/ tasks' = Append(tasks, [id |-> main.id, rc |-> main.rc])
        /\ Lose(main.id, "tasks full")
    BY <1>3 DEF ScanOffer
  <2>2. main'.at = "visiting" /\ main'.next = main.next /\ main'.count = main.count
    BY <2>1
  <2>3. \A id : Ahead(id) => Ahead(id)'
    BY <1>a, <2>1, <2>2 DEF Ahead, Scanning
  <2>4. \A id : Carried(id) => id = main.id
    BY DEF Carried
  <2>5. \A id : InChannel(tasks, id) => InChannel(tasks, id)'
    BY <2>1, Same, ChannelFact DEF TypeOK
  <2>6. \A id \in Ids : id # main.id /\ InHand(id) => InHand(id)'
    BY <1>a, <2>3, <2>4, <2>5, Same, InHandParts
  <2> QED
    BY <1>b, <2>1, <2>6, LoseStep
<1>4. CASE SubscribeMessages
  <2>1. main.at = "subscribing" /\ tasks' = tasks /\ missed' = missed
    BY <1>4 DEF SubscribeMessages
  <2>2. \A id : ~Carried(id) /\ ~Ahead(id)
    BY <2>1 DEF Carried, Ahead, Scanning
  <2>3. \A id \in Ids : InHand(id) => InHand(id)'
    BY <1>a, <2>1, <2>2, Same, InHandParts
  <2> QED
    BY <1>b, <2>1, <2>3, KeepStep
<1> QED
  BY <1>1, <1>2, <1>3, <1>4

\* An entry put into the heap is there, and the others still are.
LEMMA ScheduleKeeps ==
    ASSUME retryHeap \in [Entry -> Nat], NEW e \in Entry, scheduleRetry(e)
    PROVE  /\ Scheduled(e.id)'
           /\ \A id : Scheduled(id) => Scheduled(id)'
<1>1. \A d \in Entry : retryHeap[d] > 0 => retryHeap'[d] > 0
  BY DEF scheduleRetry
<1>2. retryHeap'[e] > 0
  BY DEF scheduleRetry
<1> QED
  BY <1>1, <1>2 DEF Scheduled

\* processRetryHeap keeps what it takes.
LEMMA LookKeeps ==
    ASSUME retryHeap \in [Entry -> Nat], NEW lag \in 0..Lag, NEW running, Look(lag, running)
    PROVE  \A id : Scheduled(id) => Scheduled(id)' \/ Carried(id)'
<1>1. CASE UNCHANGED retryHeap
  BY <1>1, Same
<1>2. ASSUME NEW top \in Tops(retryHeap),
             retryHeap' = [retryHeap EXCEPT ![top] = @ - 1],
             main' = [at |-> "holding", lag |-> lag, id |-> top.id, rc |-> top.rc, wait |-> top.wait]
      PROVE  \A id : Scheduled(id) => Scheduled(id)' \/ Carried(id)'
  <2>1. Carried(top.id)'
    BY <1>2 DEF Carried
  <2>2. \A d \in Entry : d # top => retryHeap'[d] = retryHeap[d]
    BY <1>2
  <2> QED
    BY <2>1, <2>2 DEF Scheduled
<1> QED
  BY <1>1, <1>2 DEF Look

LEMMA AccountedLoop ==
    ASSUME TypeOK, Accounted, Receive \/ TimerFires \/ Drain \/ Dispatch
    PROVE  Accounted'
<1> USE DEF broker, retries, history, OnlyMain
<1>a. queue' = queue /\ announcing' = announcing /\ work' = work
  BY DEF Receive, TimerFires, Drain, Dispatch
<1>b. \A id : Queued(id)' <=> Queued(id)
  BY <1>a, Same
<1>1. CASE Receive
  <2>1. /\ feed # <<>> /\ feed' = Tail(feed) /\ main' = main /\ retryHeap' = retryHeap
        /\ tasks' = tasks \/ tasks' = Append(tasks, Head(feed))
        /\ Lose(Head(feed).id, "tasks full")
    BY <1>1 DEF Receive
  <2>2. \A id : InChannel(tasks, id) => InChannel(tasks, id)'
    BY <2>1, Same, ChannelFact DEF TypeOK
  <2>3. \A id : InChannel(feed, id) => InChannel(feed, id)' \/ id = Head(feed).id
    BY <2>1, ChannelFact DEF TypeOK
  <2>4. \A id \in Ids : id # Head(feed).id /\ InHand(id) => InHand(id)'
    BY <1>a, <2>1, <2>2, <2>3, Same, InHandParts
  <2> QED
    BY <1>b, <2>1, <2>4, LoseStep
<1>2. CASE TimerFires \/ Drain
  <2>1. main.at \in {"looping", "draining"} /\ feed' = feed /\ tasks' = tasks /\ missed' = missed
    BY <1>2 DEF TimerFires, Drain
  <2>2. \A id : ~Carried(id) /\ ~Ahead(id)
    BY <2>1 DEF Carried, Ahead, Scanning
  <2>3. \A id : Scheduled(id) => Scheduled(id)' \/ Carried(id)'
    <3>1. 0 \in 0..Lag /\ (main.at = "draining" => main.lag \in 0..Lag)
      BY BoundsAssumption, MainFields DEF TypeOK, Draining
    <3> QED
      BY <1>2, <3>1, LookKeeps DEF TimerFires, Drain, TypeOK
  <2>4. \A id \in Ids : InHand(id) => InHand(id)'
    BY <1>a, <2>1, <2>2, <2>3, Same, InHandParts
  <2> QED
    BY <1>b, <2>1, <2>4, KeepStep
<1>3. CASE Dispatch
  <2>1. main.at = "holding" /\ feed' = feed /\ missed' = missed
    BY <1>3 DEF Dispatch
  <2>2. \A id : (Carried(id) => id = main.id) /\ ~Ahead(id)
    BY <2>1 DEF Carried, Ahead, Scanning
  <2>3. main.id \in Ids /\ main.rc \in 0..MaxRetries /\ main.wait \in Waits
    BY <2>1, MainFields DEF TypeOK, Holding
  <2>4. PICK e : e = [id |-> main.id, rc |-> main.rc, wait |-> main.wait]
    OBVIOUS
  <2>5. e \in Entry /\ e.id = main.id
    BY <2>3, <2>4 DEF Entry
  <2>6. CASE tasks' = Append(tasks, [id |-> main.id, rc |-> main.rc]) /\ retryHeap' = retryHeap
    <3>1. \A id : InChannel(tasks, id) \/ id = main.id => InChannel(tasks, id)'
      BY <2>6, ChannelFact DEF TypeOK
    <3>2. \A id \in Ids : InHand(id) => InHand(id)'
      BY <1>a, <2>1, <2>2, <2>6, <3>1, Same, InHandParts
    <3> QED
      BY <1>b, <2>1, <3>2, KeepStep
  <2>7. CASE scheduleRetry(e) /\ tasks' = tasks
    <3>1. \A id : Scheduled(id) \/ id = main.id => Scheduled(id)'
      BY <2>5, <2>7, ScheduleKeeps DEF TypeOK
    <3>2. \A id \in Ids : InHand(id) => InHand(id)'
      BY <1>a, <2>1, <2>2, <2>7, <3>1, Same, InHandParts
    <3> QED
      BY <1>b, <2>1, <3>2, KeepStep
  <2> QED
    BY <1>3, <2>4, <2>6, <2>7 DEF Dispatch
<1> QED
  BY <1>1, <1>2, <1>3

\* What a worker's step does to the others.
LEMMA WorkKeeps ==
    ASSUME TypeOK, NEW w \in Workers, NEW v, work' = [work EXCEPT ![w] = v]
    PROVE  \A id : Working(id) => Working(id)' \/ AtWork(w, id)
<1>1. \A u \in Workers : u # w => work'[u] = work[u]
  BY DEF TypeOK
<1> QED
  BY <1>1 DEF Working, AtWork

LEMMA AccountedWorker ==
    ASSUME TypeOK, QueueInv, Accounted, NEW w \in Workers, Worker(w)
    PROVE  Accounted'
<1> USE DEF broker, retries, history, OnlyWork
<1>0. announcing' = announcing /\ feed' = feed
  BY DEF Worker, Take, Deliver, Bury, Fail, Reschedule, Leave
<1>1. CASE Take(w)
  <2>1. /\ tasks # <<>> /\ tasks' = Tail(tasks) /\ queue' = queue /\ main' = main
        /\ retryHeap' = retryHeap /\ work[w] = Idle
        /\ Lose(Head(tasks).id, "no target")
    BY <1>1 DEF Take
  <2>2. \A id : InChannel(tasks, id) => InChannel(tasks, id)' \/ id = Head(tasks).id
    BY <2>1, ChannelFact DEF TypeOK
  <2>3. \A id : Working(id) => Working(id)'
    <3>1. \A id : ~AtWork(w, id)
      <4>0. work[w] = Idle
        BY <2>1
      <4>1. work[w].at = "idle"
        BY <4>0 DEF Idle
      <4> QED
        BY <4>1 DEF AtWork
    <3> QED
      BY <1>1, <3>1, WorkKeeps DEF Take
  <2>4. \A id \in Ids : id # Head(tasks).id /\ InHand(id) => InHand(id)'
    BY <1>0, <2>1, <2>2, <2>3, Same, InHandParts
  <2> QED
    BY <2>1, <2>4, Same, LoseStep
<1>2. CASE Deliver(w) \/ Bury(w)
  <2>1. /\ work[w].at = "sending" /\ Shift
        /\ UNCHANGED <<main, tasks, retryHeap, pushed>>
        /\ Step(w, "leaving")
    BY <1>2 DEF Deliver, Bury
  <2>2. PICK x : x = work[w].id
    OBVIOUS
  <2>3. x \in Ids
    BY <2>1, <2>2, WorkFields DEF TypeOK, Sending
  <2>4. \/ Forget(x)
        \/ UNCHANGED <<queue, lent>> /\ ~Queued(x)
        \/ lent' = lent /\ Remove(x)
    BY <1>2, <2>2 DEF Deliver, Bury
  <2>5. (\A id : Queued(id)' => Queued(id)) /\ ~Queued(x)'
    BY <2>1, <2>3, <2>4, ForgetQueue
  <2>6. \A id : AtWork(w, id) => id = x
    BY <2>2 DEF AtWork
  <2>7. \A id : Working(id) => Working(id)' \/ id = x
    BY <2>1, <2>6, WorkKeeps DEF Step
  <2>8. \A id \in Ids : Queued(id)' /\ InHand(id) /\ ~Ahead(id) => InHand(id)'
    BY <1>0, <2>1, <2>5, <2>7, Same, InHandParts
  <2> QED
    BY <2>1, <2>5, <2>8, ShiftStep
<1>3. CASE Fail(w)
  <2>1. UNCHANGED <<queue, tasks, retryHeap, missed>>
    BY <1>3 DEF Fail
  <2>2. PICK m : m = [main EXCEPT !.due = @ \ {work[w].id}]
    OBVIOUS
  <2>3. (Scanning /\ main' = m) \/ main' = main
    <3>1. main' = (IF Scanning THEN m ELSE main) \/ main' = main
      BY <1>3, <2>2, Zenon DEF Fail
    <3> QED
      BY <3>1
  <2>4. \A id : (Carried(id) => Carried(id)') /\ (Ahead(id) => Ahead(id)')
    <3>1. CASE main' = main
      BY <2>1, <3>1, Same
    <3>2. CASE Scanning /\ main' = m
      <4>1. main \in Visit \/ main \in Offer
        BY <3>2, MainFields DEF TypeOK, Scanning
      <4>2. /\ main'.at = main.at /\ main'.next = main.next /\ main'.count = main.count
            /\ main.at = "offering" => main'.id = main.id
        BY <2>2, <3>2, <4>1 DEF Visit, Offer
      <4>3. main.at # "holding" /\ main.at # "starting"
        BY <3>2 DEF Scanning
      <4>4. \A id : Carried(id) => Carried(id)'
        BY <4>2, <4>3 DEF Carried
      <4>5. \A id : Ahead(id) => Ahead(id)'
        BY <2>1, <4>2, <4>3 DEF Ahead, Scanning
      <4> QED
        BY <4>4, <4>5
    <3> QED
      BY <2>3, <3>1, <3>2
  <2>5. \A id : Working(id) => Working(id)'
    <3>1. \A id : AtWork(w, id) => AtWork(w, id)'
      <4>1. work'[w].at = "rescheduling" /\ work'[w].id = work[w].id
        BY <1>3, Zenon DEF Fail, TypeOK
      <4> QED
        BY <4>1 DEF AtWork
    <3>2. PICK v : work' = [work EXCEPT ![w] = v]
      BY <1>3, Zenon DEF Fail
    <3> QED
      BY <3>1, <3>2, WorkKeeps DEF Working
  <2>6. \A id \in Ids : InHand(id) => InHand(id)'
    BY <1>0, <2>1, <2>4, <2>5, Same, InHandParts
  <2> QED
    BY <2>1, <2>6, Same, KeepStep
<1>4. CASE Reschedule(w)
  <2>1. UNCHANGED <<queue, main, tasks, missed>> /\ Step(w, "leaving")
    BY <1>4 DEF Reschedule
  <2>2. work[w].id \in Ids /\ work[w].rc \in 0..MaxRetries /\ work[w].wait \in Waits
    BY <1>4, WorkFields DEF Reschedule, Rescheduling, TypeOK
  <2>3. PICK e : e = [id |-> work[w].id, rc |-> work[w].rc, wait |-> work[w].wait]
    OBVIOUS
  <2>4. e \in Entry /\ e.id = work[w].id
    BY <2>2, <2>3 DEF Entry
  <2>5. scheduleRetry(e)
    BY <1>4, <2>3 DEF Reschedule
  <2>6. \A id : Scheduled(id) \/ id = work[w].id => Scheduled(id)'
    BY <2>4, <2>5, ScheduleKeeps DEF TypeOK
  <2>7. \A id : Working(id) => Working(id)' \/ id = work[w].id
    <3>1. \A id : AtWork(w, id) => id = work[w].id
      BY DEF AtWork
    <3> QED
      BY <2>1, <3>1, WorkKeeps DEF Step
  <2>8. \A id \in Ids : InHand(id) => InHand(id)'
    BY <1>0, <2>1, <2>6, <2>7, Same, InHandParts
  <2> QED
    BY <2>1, <2>8, Same, KeepStep
<1>5. CASE Leave(w)
  <2>1. UNCHANGED <<queue, main, tasks, retryHeap, missed>> /\ work[w].at = "leaving"
        /\ work' = [work EXCEPT ![w] = Idle]
    BY <1>5 DEF Leave
  <2>2. \A id : Working(id) => Working(id)'
    <3>1. \A id : ~AtWork(w, id)
      BY <2>1 DEF AtWork
    <3> QED
      BY <2>1, <3>1, WorkKeeps
  <2>3. \A id \in Ids : InHand(id) => InHand(id)'
    BY <1>0, <2>1, <2>2, Same, InHandParts
  <2> QED
    BY <2>1, <2>3, Same, KeepStep
<1> QED
  BY <1>1, <1>2, <1>3, <1>4, <1>5 DEF Worker

LEMMA AccountedTick == ASSUME TypeOK, Accounted, Tick PROVE Accounted'
<1> USE DEF history
<1>1. UNCHANGED <<queue, announcing, feed, tasks, missed>>
  BY DEF Tick
<1>2. \A id : Scheduled(id) => Scheduled(id)'
  <2>1. \A e \in Entry : retryHeap[e] > 0 => \E d \in Entry : d.id = e.id /\ retryHeap'[d] > 0
    BY TickHeap DEF TypeOK
  <2> QED
    BY <2>1 DEF Scheduled
<1>3. \A id : Working(id) => Working(id)'
  <2>1. ASSUME NEW w \in Workers, NEW id, AtWork(w, id) PROVE AtWork(w, id)'
    <3>1. work'[w] = IF work[w].at = "rescheduling" THEN [work[w] EXCEPT !.wait = Later(@)] ELSE work[w]
      BY DEF Tick
    <3>2. work[w].at = "rescheduling" => work[w] \in Rescheduling
      BY WorkFields DEF TypeOK
    <3>3. work'[w].at = work[w].at /\ (work[w].at = "rescheduling" => work'[w].id = work[w].id)
          /\ (work[w].at # "rescheduling" => work'[w] = work[w])
      BY <3>1, <3>2 DEF Rescheduling
    <3> QED
      BY <2>1, <3>3 DEF AtWork
  <2> QED
    BY <2>1 DEF Working
<1>4. \A id : (Carried(id) => Carried(id)') /\ (Ahead(id) => Ahead(id)')
  <2>1. CASE main.at = "draining"
    BY <2>1 DEF Carried, Ahead, Scanning
  <2>2. CASE main.at = "holding"
    <3>1. main \in Holding
      BY <2>2, MainFields DEF TypeOK
    <3>2. main' = [main EXCEPT !.lag = @ + 1, !.wait = Later(@)]
      BY <2>2 DEF Tick
    <3>3. main'.at = "holding" /\ main'.id = main.id
      BY <2>2, <3>1, <3>2 DEF Holding
    <3> QED
      BY <2>2, <3>3 DEF Carried, Ahead, Scanning
  <2>3. CASE main.at \notin {"draining", "holding"}
    <3>1. main' = main
      BY <2>3 DEF Tick
    <3> QED
      BY <1>1, <3>1, Same
  <2> QED
    BY <2>1, <2>2, <2>3
<1>5. \A id \in Ids : InHand(id) => InHand(id)'
  BY <1>1, <1>2, <1>3, <1>4, Same, InHandParts
<1> QED
  BY <1>1, <1>5, Same, KeepStep

LEMMA AccountedNext == ASSUME TypeOK, QueueInv, Accounted, [Next]_vars PROVE Accounted'
<1>1. CASE Reset \/ UNCHANGED vars
  <2>1. UNCHANGED <<queue, announcing, feed, tasks, work, retryHeap, main, missed>>
    BY <1>1 DEF Reset, vars, broker, retries, history
  <2>2. \A id \in Ids : InHand(id) => InHand(id)'
    BY <2>1, Same, InHandParts
  <2> QED
    BY <2>1, <2>2, Same, KeepStep
<1>2. CASE Next
  <2>1. CASE \/ \E id \in Ids : Push(id) \/ Announce(id) \/ Return(id) \/ Acknowledge(id)
             \/ Pop
             \/ \E t \in Targets : AddTarget(t)
    BY <2>1, AccountedClients
  <2>2. CASE Start
    BY <2>2, AccountedScan, AccountedLoop DEF Start
  <2>3. CASE \E w \in Workers : Worker(w)
    BY <2>3, AccountedWorker
  <2> QED
    BY <1>1, <1>2, <2>1, <2>2, <2>3, AccountedTick DEF Next
<1> QED
  BY <1>1, <1>2

\* At the start the scan has the whole queue before it.
LEMMA AccountedInit == Init => Accounted
<1> SUFFICES ASSUME Init, NEW id \in Ids, Queued(id) PROVE InHand(id)
  BY DEF Accounted
<1>1. main.at = "starting"
  BY DEF Init
<1>2. Ahead(id)
  BY <1>1 DEF Ahead
<1> QED
  BY <1>2, InHandParts

\* No queued message slips from the dispatcher but in the ways it is known to:
\* with any number of workers, and a retry that falls due while the channel is
\* full, a delivery that fails, a consumer that takes, returns or acknowledges
\* the message meanwhile, a message is in the feed, in taskChan, with a worker,
\* in the heap or before the scan, or its loss is one of Reasons
\* (dispatcher.go:135-228, 400-419).
THEOREM AccountedCorrect == Spec => []Accounted
<1> DEFINE Inv == TypeOK /\ QueueInv /\ Accounted
<1>1. Init => Inv
  BY TypeInit, QueueInit, AccountedInit
<1>2. Inv /\ [Next]_vars => Inv'
  BY TypeNext, QueueNext, AccountedNext
<1>3. Inv => Accounted
  OBVIOUS
<1> HIDE DEF Inv
<1> QED
  BY <1>1, <1>2, <1>3, PTL DEF Spec

(* Counting the copies of a message. *)

InFeed(id) == Cardinality(InSeq(feed, id))
InTasks(id) == Cardinality(InSeq(tasks, id))
InWork(id) == Cardinality({w \in Workers : AtWork(w, id)})
InHeap(id) == Cardinality(Heaped(id))
InMain(id) == IF Carried(id) THEN 1 ELSE 0
InPush(id) == IF id \in announcing THEN 1 ELSE 0

LEMMA CopiesParts ==
    ASSUME NEW id
    PROVE  /\ Copies(id) = InFeed(id) + InTasks(id) + InWork(id) + InHeap(id) + InMain(id) + InPush(id)
           /\ Copies(id)' = InFeed(id)' + InTasks(id)' + InWork(id)' + InHeap(id)' + InMain(id)' + InPush(id)'
BY DEF Copies, InFeed, InTasks, InWork, InHeap, InMain, InPush

LEMMA InSeqFinite ==
    ASSUME NEW ch \in Seq(Copy), NEW id
    PROVE  /\ IsFiniteSet(InSeq(ch, id)) /\ Cardinality(InSeq(ch, id)) \in Nat
           /\ DOMAIN ch = 1..Len(ch) /\ Len(ch) \in Nat
<1>1. DOMAIN ch = 1..Len(ch) /\ Len(ch) \in Nat
  BY LenProperties
<1>2. IsFiniteSet(DOMAIN ch)
  BY <1>1, FS_Interval
<1>3. InSeq(ch, id) \subseteq DOMAIN ch
  BY DEF InSeq
<1> QED
  BY <1>1, <1>2, <1>3, FS_Subset, FS_CardinalityType

LEMMA InSeqAppend ==
    ASSUME NEW ch \in Seq(Copy), NEW c, NEW id
    PROVE  Cardinality(InSeq(Append(ch, c), id))
               = Cardinality(InSeq(ch, id)) + (IF id = c.id THEN 1 ELSE 0)
<1>1. /\ IsFiniteSet(InSeq(ch, id)) /\ Cardinality(InSeq(ch, id)) \in Nat
      /\ DOMAIN ch = 1..Len(ch) /\ Len(ch) \in Nat
  BY InSeqFinite
<1>2. /\ DOMAIN Append(ch, c) = 1..(Len(ch) + 1)
      /\ \A i \in DOMAIN ch : Append(ch, c)[i] = ch[i]
      /\ Append(ch, c)[Len(ch) + 1] = c
  BY <1>1
<1>3. DOMAIN Append(ch, c) = DOMAIN ch \cup {Len(ch) + 1} /\ Len(ch) + 1 \notin DOMAIN ch
  BY <1>1, <1>2
<1>4. CASE id = c.id
  <2>1. InSeq(Append(ch, c), id) = InSeq(ch, id) \cup {Len(ch) + 1}
    BY <1>2, <1>3, <1>4 DEF InSeq
  <2>2. Len(ch) + 1 \notin InSeq(ch, id)
    BY <1>3 DEF InSeq
  <2> QED
    BY <1>1, <1>4, <2>1, <2>2, FS_AddElement
<1>5. CASE id # c.id
  <2>1. InSeq(Append(ch, c), id) = InSeq(ch, id)
    BY <1>2, <1>3, <1>5 DEF InSeq
  <2> QED
    BY <1>1, <1>5, <2>1
<1> QED
  BY <1>4, <1>5

LEMMA InSeqTail ==
    ASSUME NEW ch \in Seq(Copy), ch # <<>>, NEW id
    PROVE  Cardinality(InSeq(Tail(ch), id))
               <= Cardinality(InSeq(ch, id)) - (IF id = Head(ch).id THEN 1 ELSE 0)
<1>1. /\ IsFiniteSet(InSeq(ch, id)) /\ Cardinality(InSeq(ch, id)) \in Nat
      /\ DOMAIN ch = 1..Len(ch) /\ Len(ch) \in Nat
  BY InSeqFinite
<1>2. /\ Head(ch) = ch[1] /\ DOMAIN Tail(ch) = 1..(Len(ch) - 1) /\ 1 \in DOMAIN ch
      /\ \A j \in DOMAIN Tail(ch) : Tail(ch)[j] = ch[j + 1]
  BY <1>1, HeadTailProperties, LenProperties
<1> DEFINE f == [j \in InSeq(Tail(ch), id) |-> j + 1]
<1>3. \A j \in InSeq(Tail(ch), id) : j \in Int /\ j + 1 \in InSeq(ch, id) \ {1}
  BY <1>1, <1>2 DEF InSeq
<1>4. f \in Injection(InSeq(Tail(ch), id), InSeq(ch, id) \ {1})
  BY <1>3 DEF Injection, IsInjective
<1>5. IsFiniteSet(InSeq(ch, id) \ {1})
  BY <1>1, FS_RemoveElement
<1>6. Cardinality(InSeq(Tail(ch), id)) <= Cardinality(InSeq(ch, id) \ {1})
  <2> HIDE DEF f
  <2> QED
    BY <1>4, <1>5, FS_Injection
<1>7. IsFiniteSet(InSeq(Tail(ch), id))
  <2> HIDE DEF f
  <2> QED
    BY <1>4, <1>5, FS_Injection
<1>8. Cardinality(InSeq(Tail(ch), id)) \in Nat
  BY <1>7, FS_CardinalityType
<1>9. Cardinality(InSeq(ch, id) \ {1})
          = IF 1 \in InSeq(ch, id) THEN Cardinality(InSeq(ch, id)) - 1 ELSE Cardinality(InSeq(ch, id))
  BY <1>1, FS_RemoveElement
<1>10. 1 \in InSeq(ch, id) <=> id = Head(ch).id
  BY <1>2 DEF InSeq
<1> QED
  BY <1>1, <1>6, <1>8, <1>9, <1>10

LEMMA EntryFinite == IsFiniteSet(Entry)
<1>1. IsFiniteSet(0..MaxRetries) /\ IsFiniteSet(Waits) /\ IsFiniteSet(Ids)
  <2>1. MaxRetries \in Int /\ -Lag \in Int /\ Backoff(MaxRetries) \in Int
    BY BoundsAssumption, BackoffAssumption
  <2> QED
    BY <2>1, FS_Interval, IdsAssumption DEF Waits
<1> DEFINE P == (Ids \X (0..MaxRetries)) \X Waits
           f == [p \in P |-> [id |-> p[1][1], rc |-> p[1][2], wait |-> p[2]]]
<1>2. IsFiniteSet(P)
  <2>1. IsFiniteSet(Ids \X (0..MaxRetries))
    BY <1>1, FS_Product
  <2> QED
    BY <1>1, <2>1, FS_Product
<1>3. f \in Surjection(P, Entry)
  <2>1. \A p \in P : f[p] \in Entry
    BY DEF Entry
  <2>2. ASSUME NEW e \in Entry PROVE \E p \in P : f[p] = e
    <3>1. <<<<e.id, e.rc>>, e.wait>> \in P
      BY DEF Entry
    <3>2. f[<<<<e.id, e.rc>>, e.wait>>] = e
      BY <3>1 DEF Entry
    <3> QED
      BY <3>1, <3>2
  <2>3. f \in [P -> Entry]
    BY <2>1
  <2> HIDE DEF f, P
  <2> QED
    BY <2>2, <2>3 DEF Surjection
<1> HIDE DEF f, P
<1> QED
  BY <1>2, <1>3, FS_Surjection

LEMMA HeapedFinite ==
    ASSUME retryHeap \in [Entry -> Nat], NEW id
    PROVE  IsFiniteSet(Heaped(id)) /\ InHeap(id) \in Nat
<1> DEFINE E == {d \in Entry : d.id = id}
           U == {{e} \X (1..retryHeap[e]) : e \in E}
           f == [e \in E |-> {e} \X (1..retryHeap[e])]
<1>1. IsFiniteSet(E)
  BY EntryFinite, FS_Subset
<1>2. f \in Surjection(E, U)
  BY DEF Surjection
<1>3. \A T \in U : IsFiniteSet(T)
  <2>1. ASSUME NEW e \in E PROVE IsFiniteSet({e} \X (1..retryHeap[e]))
    <3>1. IsFiniteSet({e})
      BY FS_Singleton
    <3>2. IsFiniteSet(1..retryHeap[e])
      BY FS_Interval
    <3> QED
      BY <3>1, <3>2, FS_Product
  <2> QED
    BY <2>1
<1>4. IsFiniteSet(U)
  <2> HIDE DEF f, U, E
  <2> QED
    BY <1>1, <1>2, FS_Surjection
<1>5. Heaped(id) = UNION U
  BY DEF Heaped
<1>6. IsFiniteSet(Heaped(id))
  <2> HIDE DEF U
  <2> QED
    BY <1>3, <1>4, <1>5, FS_UNION
<1> QED
  BY <1>6, FS_CardinalityType DEF InHeap

LEMMA HeapedIs ==
    ASSUME NEW h \in [Entry -> Nat], NEW id
    PROVE  UNION {{e} \X (1..h[e]) : e \in {d \in Entry : d.id = id}}
               = {x \in Entry \X (Nat \ {0}) : x[1].id = id /\ x[2] <= h[x[1]]}
<1> DEFINE S == {x \in Entry \X (Nat \ {0}) : x[1].id = id /\ x[2] <= h[x[1]]}
           E == {d \in Entry : d.id = id}
<1>1. ASSUME NEW e \in E, NEW x \in {e} \X (1..h[e]) PROVE x \in S
  <2>1. x = <<e, x[2]>> /\ x[1] = e /\ x[2] \in 1..h[e] /\ h[e] \in Nat
    OBVIOUS
  <2>2. x[2] \in Nat \ {0} /\ x[2] <= h[e]
    BY <2>1
  <2> QED
    BY <2>1, <2>2
<1>2. ASSUME NEW x \in S PROVE x[1] \in E /\ x \in {x[1]} \X (1..h[x[1]])
  <2>1. x = <<x[1], x[2]>> /\ x[1] \in Entry /\ x[2] \in Nat \ {0} /\ x[1].id = id /\ x[2] <= h[x[1]]
    OBVIOUS
  <2>2. x[2] \in 1..h[x[1]]
    BY <2>1
  <2> QED
    BY <2>1, <2>2
<1> HIDE DEF S, E
<1>3. UNION {{e} \X (1..h[e]) : e \in E} = S
  BY <1>1, <1>2
<1> QED
  BY <1>3 DEF S, E

\* One more copy of an entry.
LEMMA InHeapAdd ==
    ASSUME retryHeap \in [Entry -> Nat], NEW e \in Entry,
           retryHeap' = [retryHeap EXCEPT ![e] = @ + 1], NEW id
    PROVE  InHeap(id)' = InHeap(id) + (IF id = e.id THEN 1 ELSE 0)
<1>1. retryHeap' \in [Entry -> Nat] /\ retryHeap[e] \in Nat
  OBVIOUS
<1>2. /\ Heaped(id) = {x \in Entry \X (Nat \ {0}) : x[1].id = id /\ x[2] <= retryHeap[x[1]]}
      /\ Heaped(id)' = {x \in Entry \X (Nat \ {0}) : x[1].id = id /\ x[2] <= retryHeap'[x[1]]}
  BY <1>1, HeapedIs DEF Heaped
<1>3. PICK n : n = retryHeap[e] + 1
  OBVIOUS
<1>4. n \in Nat \ {0} /\ <<e, n>> \in Entry \X (Nat \ {0})
  BY <1>1, <1>3
<1>5. <<e, n>> \notin Heaped(id)
  BY <1>1, <1>2, <1>3
<1>6. IsFiniteSet(Heaped(id)) /\ InHeap(id) \in Nat
  BY HeapedFinite
<1>7. ASSUME NEW x \in Entry \X (Nat \ {0})
      PROVE  x[2] <= retryHeap'[x[1]] <=> x[2] <= retryHeap[x[1]] \/ x = <<e, n>>
  <2>1. x = <<x[1], x[2]>> /\ x[1] \in Entry /\ x[2] \in Nat
    OBVIOUS
  <2>2. CASE x[1] = e
    <3>1. retryHeap'[x[1]] = n
      BY <1>3, <2>2
    <3>2. x = <<e, n>> <=> x[2] = n
      BY <2>1, <2>2
    <3> QED
      BY <1>1, <1>3, <2>1, <2>2, <3>1, <3>2
  <2>3. CASE x[1] # e
    BY <2>1, <2>3
  <2> QED
    BY <2>2, <2>3
<1>8. CASE id = e.id
  <2>1. Heaped(id)' = Heaped(id) \cup {<<e, n>>}
    BY <1>2, <1>4, <1>7, <1>8
  <2> QED
    BY <1>5, <1>6, <1>8, <2>1, FS_AddElement DEF InHeap
<1>9. CASE id # e.id
  <2>1. Heaped(id)' = Heaped(id)
    BY <1>2, <1>7, <1>9
  <2> QED
    BY <1>6, <1>9, <2>1 DEF InHeap
<1> QED
  BY <1>8, <1>9

\* One copy less.
LEMMA InHeapTake ==
    ASSUME retryHeap \in [Entry -> Nat], NEW e \in Entry, retryHeap[e] > 0,
           retryHeap' = [retryHeap EXCEPT ![e] = @ - 1], NEW id
    PROVE  InHeap(id)' = InHeap(id) - (IF id = e.id THEN 1 ELSE 0)
<1>1. retryHeap' \in [Entry -> Nat] /\ retryHeap[e] \in Nat
  OBVIOUS
<1>2. /\ Heaped(id) = {x \in Entry \X (Nat \ {0}) : x[1].id = id /\ x[2] <= retryHeap[x[1]]}
      /\ Heaped(id)' = {x \in Entry \X (Nat \ {0}) : x[1].id = id /\ x[2] <= retryHeap'[x[1]]}
  BY <1>1, HeapedIs DEF Heaped
<1>3. PICK n : n = retryHeap[e]
  OBVIOUS
<1>4. n \in Nat \ {0} /\ <<e, n>> \in Entry \X (Nat \ {0})
  BY <1>1, <1>3
<1>5. IsFiniteSet(Heaped(id)) /\ InHeap(id) \in Nat
  BY HeapedFinite
<1>6. ASSUME NEW x \in Entry \X (Nat \ {0})
      PROVE  x[2] <= retryHeap'[x[1]] <=> x[2] <= retryHeap[x[1]] /\ x # <<e, n>>
  <2>1. x = <<x[1], x[2]>> /\ x[1] \in Entry /\ x[2] \in Nat
    OBVIOUS
  <2>2. CASE x[1] = e
    <3>1. retryHeap'[x[1]] = n - 1
      BY <1>3, <2>2
    <3>2. x = <<e, n>> <=> x[2] = n
      BY <2>1, <2>2
    <3> QED
      BY <1>1, <1>3, <2>1, <2>2, <3>1, <3>2
  <2>3. CASE x[1] # e
    BY <2>1, <2>3
  <2> QED
    BY <2>2, <2>3
<1>7. CASE id = e.id
  <2>1. Heaped(id)' = Heaped(id) \ {<<e, n>>}
    BY <1>2, <1>4, <1>6, <1>7
  <2>2. <<e, n>> \in Heaped(id)
    BY <1>2, <1>3, <1>4, <1>7
  <2> QED
    BY <1>5, <1>7, <2>1, <2>2, FS_RemoveElement DEF InHeap
<1>8. CASE id # e.id
  <2>1. Heaped(id)' = Heaped(id)
    BY <1>2, <1>6, <1>8
  <2> QED
    BY <1>5, <1>8, <2>1 DEF InHeap
<1> QED
  BY <1>7, <1>8

\* A tick makes no copies.
LEMMA InHeapTick ==
    ASSUME retryHeap \in [Entry -> Nat], Tick, NEW id
    PROVE  InHeap(id)' <= InHeap(id)
<1> DEFINE stay(e) == IF Later(e.wait) = e.wait THEN retryHeap[e] ELSE 0
           up(e) == [e EXCEPT !.wait = @ + 1]
           come(e) == IF e.wait + 1 \in Waits THEN retryHeap[up(e)] ELSE 0
           f == [x \in Heaped(id)' |-> IF x[2] <= stay(x[1]) THEN x
                                       ELSE <<up(x[1]), x[2] - stay(x[1])>>]
<1>1. retryHeap' = [e \in Entry |-> stay(e) + come(e)]
  BY Zenon DEF Tick
<1>2. retryHeap' \in [Entry -> Nat]
  BY TickHeap
<1>3. /\ Heaped(id) = {x \in Entry \X (Nat \ {0}) : x[1].id = id /\ x[2] <= retryHeap[x[1]]}
      /\ Heaped(id)' = {x \in Entry \X (Nat \ {0}) : x[1].id = id /\ x[2] <= retryHeap'[x[1]]}
  BY <1>2, HeapedIs DEF Heaped
<1>4. ASSUME NEW e \in Entry
      PROVE  /\ e.wait \in Int
             /\ stay(e) \in Nat /\ (stay(e) > 0 => stay(e) = retryHeap[e] /\ e.wait = -Lag)
             /\ come(e) \in Nat
             /\ come(e) > 0 => /\ up(e) \in Entry /\ up(e).id = e.id /\ come(e) = retryHeap[up(e)]
                               /\ up(e).wait = e.wait + 1 /\ e.wait + 1 # -Lag
  <2>1. e.wait \in Waits /\ e.wait \in Int /\ e.wait >= -Lag /\ -Lag \in Int
    BY BoundsAssumption DEF Entry, Waits
  <2>2. Later(e.wait) = e.wait => e.wait = -Lag
    BY <2>1 DEF Later
  <2>3. ASSUME e.wait + 1 \in Waits
        PROVE  up(e) \in Entry /\ up(e).id = e.id /\ up(e).wait = e.wait + 1
    BY <2>3 DEF Entry
  <2>4. e.wait + 1 # -Lag
    BY <2>1
  <2> QED
    BY <2>1, <2>2, <2>3, <2>4
<1>5. \A e, d \in Entry : up(e) = up(d) => e = d
  <2> SUFFICES ASSUME NEW e \in Entry, NEW d \in Entry, up(e) = up(d) PROVE e = d
    OBVIOUS
  <2>1. e = [id |-> e.id, rc |-> e.rc, wait |-> e.wait] /\ d = [id |-> d.id, rc |-> d.rc, wait |-> d.wait]
    BY DEF Entry
  <2>2. up(e) = [id |-> e.id, rc |-> e.rc, wait |-> e.wait + 1]
        /\ up(d) = [id |-> d.id, rc |-> d.rc, wait |-> d.wait + 1]
    BY DEF Entry
  <2>3. e.id = d.id /\ e.rc = d.rc /\ e.wait + 1 = d.wait + 1
    BY <2>2
  <2>4. e.wait = d.wait
    <3>1. e.wait \in Int /\ d.wait \in Int
      BY <1>4
    <3> QED
      BY <2>3, <3>1
  <2> QED
    BY <2>1, <2>3, <2>4
<1>6. ASSUME NEW x \in Heaped(id)'
      PROVE  /\ x[1] \in Entry /\ x[2] \in Nat \ {0} /\ x = <<x[1], x[2]>> /\ x[1].id = id
             /\ x[2] <= stay(x[1]) + come(x[1])
  <2>1. x \in Entry \X (Nat \ {0}) /\ x[1].id = id /\ x[2] <= retryHeap'[x[1]]
    BY <1>3
  <2> QED
    BY <1>1, <2>1
<1> HIDE DEF stay, come, up
<1>7. ASSUME NEW x \in Heaped(id)'
      PROVE  /\ f[x] \in Heaped(id)
             /\ x[2] <= stay(x[1]) => f[x] = x /\ f[x][1].wait = -Lag
             /\ x[2] > stay(x[1]) => /\ f[x] = <<up(x[1]), x[2] - stay(x[1])>>
                                     /\ f[x][1].wait # -Lag
  <2>1. /\ x[1] \in Entry /\ x[2] \in Nat \ {0} /\ x = <<x[1], x[2]>> /\ x[1].id = id
        /\ x[2] <= stay(x[1]) + come(x[1]) /\ stay(x[1]) \in Nat /\ come(x[1]) \in Nat
    BY <1>4, <1>6
  <2>2. CASE x[2] <= stay(x[1])
    <3>1. f[x] = x
      BY <2>2
    <3>2. stay(x[1]) > 0
      BY <2>1, <2>2
    <3>3. stay(x[1]) = retryHeap[x[1]] /\ x[1].wait = -Lag
      BY <1>4, <2>1, <3>2
    <3>4. x \in Heaped(id)
      BY <1>3, <2>1, <2>2, <3>3
    <3> QED
      BY <2>1, <2>2, <3>1, <3>3, <3>4
  <2>3. CASE x[2] > stay(x[1])
    <3>1. f[x] = <<up(x[1]), x[2] - stay(x[1])>>
      BY <2>1, <2>3
    <3>2. come(x[1]) > 0 /\ x[2] - stay(x[1]) \in Nat \ {0} /\ x[2] - stay(x[1]) <= come(x[1])
      BY <2>1, <2>3
    <3>3. /\ up(x[1]) \in Entry /\ up(x[1]).id = id /\ come(x[1]) = retryHeap[up(x[1])]
          /\ up(x[1]).wait # -Lag
      BY <1>4, <2>1, <3>2
    <3>4. f[x] \in Heaped(id)
      BY <1>3, <3>1, <3>2, <3>3
    <3> QED
      BY <2>1, <2>3, <3>1, <3>3, <3>4
  <2> QED
    BY <2>1, <2>2, <2>3
<1>8. ASSUME NEW x \in Heaped(id)', NEW y \in Heaped(id)', f[x] = f[y] PROVE x = y
  <2>1. /\ x[1] \in Entry /\ x[2] \in Nat /\ x = <<x[1], x[2]>> /\ stay(x[1]) \in Nat
        /\ y[1] \in Entry /\ y[2] \in Nat /\ y = <<y[1], y[2]>> /\ stay(y[1]) \in Nat
    BY <1>4, <1>6
  <2>2. CASE x[2] <= stay(x[1])
    <3>1. y[2] <= stay(y[1])
      <4>1. f[x][1].wait = -Lag
        BY <1>7, <2>2
      <4>2. y[2] > stay(y[1]) => f[y][1].wait # -Lag
        BY <1>7
      <4> QED
        BY <1>8, <2>1, <4>1, <4>2
    <3> QED
      BY <1>7, <1>8, <2>2, <3>1
  <2>3. CASE x[2] > stay(x[1])
    <3>1. y[2] > stay(y[1])
      BY <1>7, <1>8, <2>1, <2>3
    <3>2. <<up(x[1]), x[2] - stay(x[1])>> = <<up(y[1]), y[2] - stay(y[1])>>
      BY <1>7, <1>8, <2>3, <3>1
    <3>3. x[1] = y[1]
      BY <1>5, <2>1, <3>2
    <3>4. x[2] - stay(x[1]) = y[2] - stay(x[1])
      BY <3>2, <3>3
    <3>5. x[2] = y[2]
      BY <2>1, <3>4
    <3> QED
      BY <2>1, <3>3, <3>5
  <2> QED
    BY <2>1, <2>2, <2>3
<1>9. f \in Injection(Heaped(id)', Heaped(id))
  <2>1. f \in [Heaped(id)' -> Heaped(id)]
    BY <1>7
  <2> HIDE DEF f
  <2> QED
    BY <1>8, <2>1 DEF Injection, IsInjective
<1> HIDE DEF f
<1>10. IsFiniteSet(Heaped(id))
  BY HeapedFinite
<1> QED
  BY <1>9, <1>10, FS_Injection DEF InHeap

LEMMA InWorkNat == ASSUME NEW id PROVE IsFiniteSet({w \in Workers : AtWork(w, id)}) /\ InWork(id) \in Nat
<1>1. IsFiniteSet({w \in Workers : AtWork(w, id)})
  BY WorkersAssumption, FS_Subset
<1> QED
  BY <1>1, FS_CardinalityType DEF InWork

\* One worker changes hands.
LEMMA InWorkSet ==
    ASSUME TypeOK, NEW w \in Workers, NEW v, work' = [work EXCEPT ![w] = v], NEW id
    PROVE  InWork(id)' = InWork(id) - (IF AtWork(w, id) THEN 1 ELSE 0)
                                    + (IF AtWork(w, id)' THEN 1 ELSE 0)
<1> DEFINE S == {u \in Workers : AtWork(u, id)}
           T == {u \in Workers : AtWork(u, id)'}
<1>1. IsFiniteSet(S) /\ IsFiniteSet(T) /\ Cardinality(S) \in Nat /\ Cardinality(T) \in Nat
  BY WorkersAssumption, FS_Subset, FS_CardinalityType
<1>2. \A u \in Workers : u # w => (AtWork(u, id)' <=> AtWork(u, id))
  BY DEF TypeOK, AtWork
<1>3. S \ {w} = T \ {w}
  BY <1>2
<1>4. InWork(id) = Cardinality(S) /\ InWork(id)' = Cardinality(T)
  BY DEF InWork
<1>5. w \in S <=> AtWork(w, id)
  OBVIOUS
<1>6. w \in T <=> AtWork(w, id)'
  OBVIOUS
<1> HIDE DEF S, T
<1>7. /\ Cardinality(S \ {w}) = IF w \in S THEN Cardinality(S) - 1 ELSE Cardinality(S)
      /\ Cardinality(T \ {w}) = IF w \in T THEN Cardinality(T) - 1 ELSE Cardinality(T)
  BY <1>1, FS_RemoveElement
<1>8. PICK a \in Nat, b \in Nat : Cardinality(S) = a /\ Cardinality(T) = b
  BY <1>1
<1>9. (IF w \in S THEN a - 1 ELSE a) = (IF w \in T THEN b - 1 ELSE b)
  BY <1>3, <1>7, <1>8
<1>10. b = a - (IF w \in S THEN 1 ELSE 0) + (IF w \in T THEN 1 ELSE 0)
  BY <1>9
<1> QED
  BY <1>4, <1>5, <1>6, <1>8, <1>10

\* The numbers are numbers.
LEMMA CountsNat ==
    ASSUME TypeOK, NEW id
    PROVE  /\ InFeed(id) \in Nat /\ InTasks(id) \in Nat /\ InWork(id) \in Nat /\ InHeap(id) \in Nat
           /\ InMain(id) \in {0, 1} /\ InPush(id) \in {0, 1} /\ Copies(id) \in Nat
<1>1. InFeed(id) \in Nat /\ InTasks(id) \in Nat
  BY InSeqFinite DEF TypeOK, InFeed, InTasks
<1>2. InWork(id) \in Nat
  BY InWorkNat
<1>3. InHeap(id) \in Nat
  BY HeapedFinite DEF TypeOK
<1>4. InMain(id) \in {0, 1} /\ InPush(id) \in {0, 1}
  BY DEF InMain, InPush
<1> QED
  BY <1>1, <1>2, <1>3, <1>4, CopiesParts

\* What a step leaves alone holds as many copies as before.
LEMMA SameCount ==
    ASSUME NEW id
    PROVE  /\ feed' = feed => InFeed(id)' = InFeed(id)
           /\ tasks' = tasks => InTasks(id)' = InTasks(id)
           /\ work' = work => InWork(id)' = InWork(id)
           /\ retryHeap' = retryHeap => InHeap(id)' = InHeap(id)
           /\ (Carried(id)' <=> Carried(id)) => InMain(id)' = InMain(id)
           /\ announcing' = announcing => InPush(id)' = InPush(id)
<1>1. feed' = feed => InFeed(id)' = InFeed(id)
  BY DEF InFeed, InSeq
<1>2. tasks' = tasks => InTasks(id)' = InTasks(id)
  BY DEF InTasks, InSeq
<1>3. work' = work => InWork(id)' = InWork(id)
  BY DEF InWork, AtWork
<1>4. retryHeap' = retryHeap => InHeap(id)' = InHeap(id)
  BY DEF InHeap, Heaped
<1>5. /\ (Carried(id)' <=> Carried(id)) => InMain(id)' = InMain(id)
      /\ announcing' = announcing => InPush(id)' = InPush(id)
  BY DEF InMain, InPush
<1> QED
  BY <1>1, <1>2, <1>3, <1>4, <1>5

\* A step of the clients: only a push makes a copy.
LEMMA CopiesClients ==
    ASSUME TypeOK, NEW id,
           \/ \E x \in Ids : Push(x) /\ x # id
           \/ \E x \in Ids : Announce(x) \/ Return(x) \/ Acknowledge(x)
           \/ Pop
           \/ \E t \in Targets : AddTarget(t)
           \/ Reset
           \/ UNCHANGED vars
    PROVE  Copies(id)' <= Copies(id)
<1> USE DEF broker, retries, history, OnlyQueue
<1>1. ASSUME UNCHANGED <<tasks, work, retryHeap, main>>,
             \/ feed' = feed /\ (id \in announcing' => id \in announcing)
             \/ /\ feed' = Append(feed, [id |-> id, rc |-> 0])
                /\ id \in announcing /\ announcing' = announcing \ {id}
      PROVE  Copies(id)' <= Copies(id)
  <2>1. /\ InTasks(id)' = InTasks(id) /\ InWork(id)' = InWork(id) /\ InHeap(id)' = InHeap(id)
        /\ InMain(id)' = InMain(id)
    BY <1>1, Same, SameCount
  <2>2. InFeed(id)' + InPush(id)' <= InFeed(id) + InPush(id)
    <3>1. InFeed(id) \in Nat /\ InPush(id) \in {0, 1}
      BY CountsNat
    <3>2. CASE feed' = feed /\ (id \in announcing' => id \in announcing)
      BY <3>1, <3>2, SameCount DEF InPush
    <3>3. CASE /\ feed' = Append(feed, [id |-> id, rc |-> 0])
               /\ id \in announcing /\ announcing' = announcing \ {id}
      <4>1. InFeed(id)' = InFeed(id) + 1
        BY <3>3, InSeqAppend DEF TypeOK, InFeed
      <4>2. InPush(id) = 1 /\ InPush(id)' = 0
        BY <3>3 DEF InPush
      <4> QED
        BY <3>1, <4>1, <4>2
    <3> QED
      BY <1>1, <3>2, <3>3
  <2>3. InFeed(id)' \in Nat /\ InPush(id)' \in {0, 1}
    <3>1. feed' \in Seq(Copy)
      <4>1. id \in announcing => [id |-> id, rc |-> 0] \in Copy
        BY BoundsAssumption DEF TypeOK, Copy
      <4> QED
        BY <1>1, <4>1, PutType DEF TypeOK
    <3> QED
      BY <3>1, InSeqFinite DEF InFeed, InPush
  <2> QED
    BY <2>1, <2>2, <2>3, CountsNat, CopiesParts
<1>2. ASSUME NEW x \in Ids, Announce(x) PROVE Copies(id)' <= Copies(id)
  <2>1. /\ UNCHANGED <<tasks, work, retryHeap, main>> /\ x \in announcing
        /\ announcing' = announcing \ {x}
        /\ feed' = feed \/ feed' = Append(feed, [id |-> x, rc |-> 0])
    BY <1>2 DEF Announce
  <2>2. CASE feed' = feed \/ x = id
    BY <1>1, <2>1, <2>2
  <2>3. CASE feed' = Append(feed, [id |-> x, rc |-> 0]) /\ x # id
    <3>1. InFeed(id)' = InFeed(id)
      <4>1. InFeed(id)' = InFeed(id) + 0
        BY <2>3, InSeqAppend DEF TypeOK, InFeed
      <4> QED
        BY <4>1, CountsNat
    <3>2. InPush(id)' = InPush(id)
      BY <2>1, <2>3 DEF InPush
    <3>3. Copies(id)' = Copies(id)
      BY <2>1, <3>1, <3>2, Same, SameCount, CopiesParts
    <3> QED
      BY <3>3, CountsNat
  <2> QED
    BY <2>1, <2>2, <2>3
<1>3. CASE \/ \E x \in Ids : Push(x) /\ x # id
           \/ \E x \in Ids : Return(x) \/ Acknowledge(x)
           \/ Pop
           \/ \E t \in Targets : AddTarget(t)
           \/ Reset
           \/ UNCHANGED vars
  <2>1. UNCHANGED <<tasks, work, retryHeap, main, feed>> /\ (id \in announcing' => id \in announcing)
    BY <1>3 DEF Push, Return, Acknowledge, Pop, AddTarget, Reset, vars
  <2> QED
    BY <1>1, <2>1
<1> QED
  BY <1>2, <1>3

LEMMA InTasksPut ==
    ASSUME TypeOK, NEW id, NEW c, tasks' = Append(tasks, c)
    PROVE  InTasks(id)' = InTasks(id) + (IF id = c.id THEN 1 ELSE 0)
<1>1. tasks \in Seq(Copy)
  BY DEF TypeOK
<1> QED
  BY <1>1, InSeqAppend DEF InTasks

\* A step of Start: only the scan makes a copy, of the message it comes to.
LEMMA CopiesStart ==
    ASSUME TypeOK, NEW id, Start,
           ~(ScanVisit /\ main.next <= main.count /\ main.next <= Len(queue) /\ id = queue[main.next])
    PROVE  Copies(id)' <= Copies(id)
<1> USE DEF broker, retries, history, OnlyMain
<1>1. announcing' = announcing /\ work' = work
  BY DEF Start, ScanStart, ScanVisit, ScanOffer, SubscribeMessages, Receive, TimerFires, Drain,
         Dispatch
<1>2. InWork(id)' = InWork(id) /\ InPush(id)' = InPush(id)
  BY <1>1, SameCount
<1>3. InTasks(id) \in Nat /\ InHeap(id) \in Nat /\ InMain(id) \in {0, 1} /\ InWork(id) \in Nat
      /\ InPush(id) \in {0, 1} /\ InFeed(id) \in Nat
  BY CountsNat
\* The copy the goroutine carries goes where there is one more.
<1>4. ASSUME feed' = feed, main.at \in {"offering", "holding"}, main'.at \notin {"offering", "holding"},
             \/ InTasks(id)' = InTasks(id) /\ InHeap(id)' = InHeap(id)
             \/ InTasks(id)' = InTasks(id) + (IF id = main.id THEN 1 ELSE 0) /\ InHeap(id)' = InHeap(id)
             \/ InHeap(id)' = InHeap(id) + (IF id = main.id THEN 1 ELSE 0) /\ InTasks(id)' = InTasks(id)
      PROVE  Copies(id)' <= Copies(id)
  <2>1. InMain(id)' = 0
    BY <1>4 DEF InMain, Carried
  <2>2. InMain(id) = IF id = main.id THEN 1 ELSE 0
    BY <1>4 DEF InMain, Carried
  <2>3. InFeed(id)' = InFeed(id)
    BY <1>4, SameCount
  <2>4. InTasks(id)' + InHeap(id)' + InMain(id)' <= InTasks(id) + InHeap(id) + InMain(id)
        /\ InTasks(id)' \in Nat /\ InHeap(id)' \in Nat
    BY <1>3, <1>4, <2>1, <2>2
  <2> QED
    BY <1>2, <1>3, <2>1, <2>3, <2>4, CopiesParts
<1>5. CASE ScanStart \/ SubscribeMessages
  <2>1. UNCHANGED <<feed, tasks, retryHeap>>
    BY <1>5 DEF ScanStart, SubscribeMessages
  <2>2. ~Carried(id)' /\ ~Carried(id)
    BY <1>5 DEF ScanStart, SubscribeMessages, Carried
  <2>3. Copies(id)' = Copies(id)
    BY <1>1, <2>1, <2>2, SameCount, CopiesParts
  <2> QED
    BY <2>3, CountsNat
<1>6. CASE ScanVisit
  <2>1. UNCHANGED <<feed, tasks, retryHeap>> /\ main.at = "visiting" /\ main \in Visit
    BY <1>6, MainFields DEF ScanVisit, TypeOK
  <2>2. ~Carried(id)
    BY <2>1 DEF Carried
  <2>3. ~Carried(id)'
    <3>1. \/ main' = [main EXCEPT !.next = main.next + 1]
          \/ /\ main' = [at |-> "offering", due |-> main.due, next |-> main.next + 1,
                         count |-> main.count, id |-> queue[main.next], rc |-> saved[queue[main.next]].rc]
             /\ main.next <= main.count /\ main.next <= Len(queue)
          \/ main' = [at |-> "subscribing"]
      BY <1>6 DEF ScanVisit
    <3>2. CASE main' = [main EXCEPT !.next = main.next + 1] \/ main' = [at |-> "subscribing"]
      <4>1. main'.at \in {"visiting", "subscribing"}
        BY <2>1, <3>2 DEF Visit
      <4> QED
        BY <4>1 DEF Carried
    <3>3. CASE /\ main' = [at |-> "offering", due |-> main.due, next |-> main.next + 1,
                           count |-> main.count, id |-> queue[main.next],
                           rc |-> saved[queue[main.next]].rc]
               /\ main.next <= main.count /\ main.next <= Len(queue)
      <4>1. main'.id = queue[main.next] /\ id # queue[main.next]
        BY <1>6, <3>3
      <4> QED
        BY <4>1 DEF Carried
    <3> QED
      BY <3>1, <3>2, <3>3
  <2>4. Copies(id)' = Copies(id)
    BY <1>1, <2>1, <2>2, <2>3, SameCount, CopiesParts
  <2> QED
    BY <2>4, CountsNat
<1>7. CASE ScanOffer
  <2>1. /\ main.at = "offering" /\ feed' = feed /\ retryHeap' = retryHeap
        /\ main' = [at |-> "visiting", due |-> main.due, next |-> main.next, count |-> main.count]
        /\ tasks' = tasks \/ tasks' = Append(tasks, [id |-> main.id, rc |-> main.rc])
    BY <1>7 DEF ScanOffer
  <2>2. main'.at = "visiting"
    BY <2>1
  <2>3. InHeap(id)' = InHeap(id)
    BY <2>1, SameCount
  <2>4. \/ InTasks(id)' = InTasks(id)
        \/ InTasks(id)' = InTasks(id) + (IF id = main.id THEN 1 ELSE 0)
    <3>1. CASE tasks' = tasks
      BY <3>1, SameCount
    <3>2. CASE tasks' = Append(tasks, [id |-> main.id, rc |-> main.rc])
      BY <3>2, InTasksPut
    <3> QED
      BY <2>1, <3>1, <3>2
  <2> QED
    BY <1>4, <2>1, <2>2, <2>3, <2>4
<1>8. CASE Receive
  <2>1. /\ feed # <<>> /\ feed' = Tail(feed) /\ main' = main /\ retryHeap' = retryHeap
        /\ tasks' = tasks \/ tasks' = Append(tasks, Head(feed))
    BY <1>8 DEF Receive
  <2>2. InFeed(id)' <= InFeed(id) - (IF id = Head(feed).id THEN 1 ELSE 0) /\ InFeed(id)' \in Nat
    <3>1. feed \in Seq(Copy)
      BY DEF TypeOK
    <3>2. Tail(feed) \in Seq(Copy)
      BY <2>1, <3>1, HeadTailProperties
    <3> QED
      BY <2>1, <3>1, <3>2, InSeqTail, InSeqFinite DEF InFeed
  <2>3. \/ InTasks(id)' = InTasks(id)
        \/ InTasks(id)' = InTasks(id) + (IF id = Head(feed).id THEN 1 ELSE 0)
    <3>1. CASE tasks' = tasks
      BY <3>1, SameCount
    <3>2. CASE tasks' = Append(tasks, Head(feed))
      BY <3>2, InTasksPut
    <3> QED
      BY <2>1, <3>1, <3>2
  <2>4. InHeap(id)' = InHeap(id) /\ InMain(id)' = InMain(id)
    BY <2>1, Same, SameCount
  <2>5. InFeed(id)' + InTasks(id)' <= InFeed(id) + InTasks(id) /\ InTasks(id)' \in Nat
    BY <1>3, <2>2, <2>3
  <2> QED
    BY <1>2, <1>3, <2>2, <2>4, <2>5, CopiesParts
<1>9. CASE TimerFires \/ Drain
  <2>1. main.at \in {"looping", "draining"} /\ feed' = feed /\ tasks' = tasks
    BY <1>9 DEF TimerFires, Drain
  <2>2. InMain(id) = 0 /\ InFeed(id)' = InFeed(id) /\ InTasks(id)' = InTasks(id)
    BY <2>1, SameCount DEF InMain, Carried
  <2>3. \/ main' = [at |-> "looping"] /\ retryHeap' = retryHeap
        \/ \E lag : \E top \in Tops(retryHeap) :
               /\ retryHeap' = [retryHeap EXCEPT ![top] = @ - 1]
               /\ main' = [at |-> "holding", lag |-> lag, id |-> top.id, rc |-> top.rc, wait |-> top.wait]
    BY <1>9 DEF TimerFires, Drain, Look
  <2>4. CASE main' = [at |-> "looping"] /\ retryHeap' = retryHeap
    <3>1. InMain(id)' = 0 /\ InHeap(id)' = InHeap(id)
      BY <2>4, SameCount DEF InMain, Carried
    <3> QED
      BY <1>2, <1>3, <2>2, <3>1, CopiesParts
  <2>5. ASSUME NEW lag, NEW top \in Tops(retryHeap),
               retryHeap' = [retryHeap EXCEPT ![top] = @ - 1],
               main' = [at |-> "holding", lag |-> lag, id |-> top.id, rc |-> top.rc, wait |-> top.wait]
        PROVE  Copies(id)' <= Copies(id)
    <3>1. InMain(id)' = IF id = top.id THEN 1 ELSE 0
      BY <2>5 DEF InMain, Carried
    <3>2. InHeap(id)' = InHeap(id) - (IF id = top.id THEN 1 ELSE 0)
      BY <2>5, InHeapTake DEF Tops, TypeOK
    <3>3. InHeap(id)' + InMain(id)' = InHeap(id) + InMain(id) /\ InHeap(id)' \in Int
      BY <1>3, <2>2, <3>1, <3>2
    <3> QED
      BY <1>2, <1>3, <2>2, <3>1, <3>3, CopiesParts
  <2> QED
    BY <2>3, <2>4, <2>5
<1>10. CASE Dispatch
  <2>1. main.at = "holding" /\ feed' = feed /\ main' = [at |-> "draining", lag |-> main.lag]
    BY <1>10 DEF Dispatch
  <2>2. main'.at = "draining"
    BY <2>1
  <2>3. main.id \in Ids /\ main.rc \in 0..MaxRetries /\ main.wait \in Waits
    BY <2>1, MainFields DEF TypeOK, Holding
  <2>4. PICK e : e = [id |-> main.id, rc |-> main.rc, wait |-> main.wait]
    OBVIOUS
  <2>5. e \in Entry /\ e.id = main.id
    BY <2>3, <2>4 DEF Entry
  <2>6. \/ tasks' = Append(tasks, [id |-> main.id, rc |-> main.rc]) /\ retryHeap' = retryHeap
        \/ scheduleRetry(e) /\ tasks' = tasks
    BY <1>10, <2>4 DEF Dispatch
  <2>7. CASE tasks' = Append(tasks, [id |-> main.id, rc |-> main.rc]) /\ retryHeap' = retryHeap
    <3>1. InTasks(id)' = InTasks(id) + (IF id = main.id THEN 1 ELSE 0) /\ InHeap(id)' = InHeap(id)
      BY <2>7, SameCount, InSeqAppend DEF TypeOK, InTasks
    <3> QED
      BY <1>4, <2>1, <2>2, <3>1
  <2>8. CASE scheduleRetry(e) /\ tasks' = tasks
    <3>1. InHeap(id)' = InHeap(id) + (IF id = main.id THEN 1 ELSE 0) /\ InTasks(id)' = InTasks(id)
      BY <2>5, <2>8, SameCount, InHeapAdd DEF TypeOK, scheduleRetry
    <3> QED
      BY <1>4, <2>1, <2>2, <3>1
  <2> QED
    BY <2>6, <2>7, <2>8
<1> QED
  BY <1>5, <1>6, <1>7, <1>8, <1>9, <1>10 DEF Start

\* A worker makes no copies.
LEMMA CopiesWorker ==
    ASSUME TypeOK, NEW id, NEW w \in Workers, Worker(w)
    PROVE  Copies(id)' <= Copies(id)
<1> USE DEF broker, retries, history, OnlyWork
<1>1. announcing' = announcing /\ feed' = feed
  BY DEF Worker, Take, Deliver, Bury, Fail, Reschedule, Leave
<1>2. InFeed(id)' = InFeed(id) /\ InPush(id)' = InPush(id)
  BY <1>1, SameCount
<1>3. InTasks(id) \in Nat /\ InHeap(id) \in Nat /\ InMain(id) \in {0, 1} /\ InWork(id) \in Nat
      /\ InPush(id) \in {0, 1} /\ InFeed(id) \in Nat
  BY CountsNat
<1>4. PICK v : work' = [work EXCEPT ![w] = v]
  BY Zenon DEF Worker, Take, Deliver, Bury, Fail, Reschedule, Leave, Step
<1>5. /\ InWork(id)' = InWork(id) - (IF AtWork(w, id) THEN 1 ELSE 0) + (IF AtWork(w, id)' THEN 1 ELSE 0)
      /\ work'[w] = v
  BY <1>4, InWorkSet DEF TypeOK
<1>6. ASSUME Carried(id)' <=> Carried(id), tasks' = tasks, retryHeap' = retryHeap,
             AtWork(w, id)' => AtWork(w, id)
      PROVE  Copies(id)' <= Copies(id)
  <2>1. InWork(id)' <= InWork(id) /\ InWork(id)' \in Int
    BY <1>3, <1>5, <1>6
  <2>2. InTasks(id)' = InTasks(id) /\ InHeap(id)' = InHeap(id) /\ InMain(id)' = InMain(id)
    BY <1>6, SameCount
  <2> QED
    BY <1>2, <1>3, <2>1, <2>2, CopiesParts
<1>7. CASE Take(w)
  <2>1. /\ tasks # <<>> /\ tasks' = Tail(tasks) /\ main' = main /\ retryHeap' = retryHeap
        /\ work[w] = Idle
    BY <1>7 DEF Take
  <2>2. ~AtWork(w, id)
    <3>1. work[w].at = "idle"
      <4>1. work[w] = Idle
        BY <2>1
      <4> QED
        BY <4>1 DEF Idle
    <3> QED
      BY <3>1 DEF AtWork
  <2>3. AtWork(w, id)' => id = Head(tasks).id
    <3>1. work'[w].id = Head(tasks).id
      BY <1>7 DEF Take, TypeOK
    <3> QED
      BY <3>1 DEF AtWork
  <2>4. InTasks(id)' <= InTasks(id) - (IF id = Head(tasks).id THEN 1 ELSE 0) /\ InTasks(id)' \in Nat
    <3>1. tasks \in Seq(Copy)
      BY DEF TypeOK
    <3>2. Tail(tasks) \in Seq(Copy)
      BY <2>1, <3>1, HeadTailProperties
    <3> QED
      BY <2>1, <3>1, <3>2, InSeqTail, InSeqFinite DEF InTasks
  <2>5. InWork(id)' + InTasks(id)' <= InWork(id) + InTasks(id) /\ InWork(id)' \in Nat
    BY <1>3, <1>5, <2>2, <2>3, <2>4
  <2>6. InHeap(id)' = InHeap(id) /\ InMain(id)' = InMain(id)
    BY <2>1, Same, SameCount
  <2> QED
    BY <1>2, <1>3, <2>4, <2>5, <2>6, CopiesParts
<1>8. CASE Deliver(w) \/ Bury(w) \/ Leave(w)
  <2>1. UNCHANGED <<tasks, retryHeap, main>>
    BY <1>8 DEF Deliver, Bury, Leave
  <2>2. work'[w].at \in {"leaving", "idle"}
    BY <1>8 DEF Deliver, Bury, Leave, Step, TypeOK, Idle
  <2>3. ~AtWork(w, id)'
    BY <2>2 DEF AtWork
  <2> QED
    BY <1>6, <2>1, <2>3, Same
<1>9. CASE Fail(w)
  <2>1. UNCHANGED <<tasks, retryHeap>> /\ work[w].at = "sending"
    BY <1>9 DEF Fail
  <2>2. PICK m : m = [main EXCEPT !.due = @ \ {work[w].id}]
    OBVIOUS
  <2>3. (Scanning /\ main' = m) \/ main' = main
    <3>1. main' = (IF Scanning THEN m ELSE main) \/ main' = main
      BY <1>9, <2>2, Zenon DEF Fail
    <3> QED
      BY <3>1
  <2>4. Carried(id)' <=> Carried(id)
    <3>1. CASE main' = main
      BY <3>1, Same
    <3>2. CASE Scanning /\ main' = m
      <4>1. main \in Visit \/ main \in Offer
        BY <3>2, MainFields DEF TypeOK, Scanning
      <4>2. main'.at = main.at /\ (main.at = "offering" => main'.id = main.id)
        BY <2>2, <3>2, <4>1 DEF Visit, Offer
      <4>3. main.at # "holding"
        BY <3>2 DEF Scanning
      <4> QED
        BY <4>2, <4>3 DEF Carried
    <3> QED
      BY <2>3, <3>1, <3>2
  <2>5. AtWork(w, id)' => AtWork(w, id)
    <3>1. work'[w].id = work[w].id
      BY <1>9, Zenon DEF Fail, TypeOK
    <3> QED
      BY <2>1, <3>1 DEF AtWork
  <2> QED
    BY <1>6, <2>1, <2>4, <2>5
<1>10. CASE Reschedule(w)
  <2>1. UNCHANGED <<main, tasks>> /\ Step(w, "leaving") /\ work[w].at = "rescheduling"
    BY <1>10 DEF Reschedule
  <2>2. work[w].id \in Ids /\ work[w].rc \in 0..MaxRetries /\ work[w].wait \in Waits
    BY <2>1, WorkFields DEF Rescheduling, TypeOK
  <2>3. PICK e : e = [id |-> work[w].id, rc |-> work[w].rc, wait |-> work[w].wait]
    OBVIOUS
  <2>4. e \in Entry /\ e.id = work[w].id
    BY <2>2, <2>3 DEF Entry
  <2>5. scheduleRetry(e)
    BY <1>10, <2>3 DEF Reschedule
  <2>6. InHeap(id)' = InHeap(id) + (IF id = work[w].id THEN 1 ELSE 0)
    BY <2>4, <2>5, InHeapAdd DEF TypeOK, scheduleRetry
  <2>7. ~AtWork(w, id)'
    <3>1. work'[w].at = "leaving"
      BY <2>1 DEF Step, TypeOK
    <3> QED
      BY <3>1 DEF AtWork
  <2>8. AtWork(w, id) <=> id = work[w].id
    BY <2>1 DEF AtWork
  <2>9. InWork(id)' + InHeap(id)' = InWork(id) + InHeap(id) /\ InWork(id)' \in Int /\ InHeap(id)' \in Int
    BY <1>3, <1>5, <2>6, <2>7, <2>8
  <2>10. InTasks(id)' = InTasks(id) /\ InMain(id)' = InMain(id)
    BY <2>1, Same, SameCount
  <2> QED
    BY <1>2, <1>3, <2>9, <2>10, CopiesParts
<1> QED
  BY <1>7, <1>8, <1>9, <1>10 DEF Worker

\* Removing a message moves the others towards the front of the queue.
LEMMA RemovePlaces ==
    ASSUME queue \in Seq(Ids), NEW x, Remove(x)
    PROVE  \A i \in DOMAIN queue' : \E j \in DOMAIN queue : j >= i /\ queue[j] = queue'[i]
<1> DEFINE kept == {i \in DOMAIN queue : queue[i] # x}
<1>1. DOMAIN queue = 1..Len(queue) /\ Len(queue) \in Nat
  BY LenProperties
<1>2. IsFiniteSet(kept)
  <2>1. IsFiniteSet(DOMAIN queue)
    BY <1>1, FS_Interval
  <2> QED
    BY <2>1, FS_Subset
<1>3. PICK f \in InOrder(kept) : queue' = [i \in DOMAIN f |-> queue[f[i]]]
  BY DEF Remove
<1> HIDE DEF kept
<1>4. /\ DOMAIN f = 1..Cardinality(kept) /\ Cardinality(kept) \in Nat
      /\ \A i \in DOMAIN f : f[i] \in kept
      /\ \A i, j \in DOMAIN f : f[i] = f[j] => i = j
  BY <1>2, InOrderType
<1>5. \A i, j \in DOMAIN f : i < j => f[i] < f[j]
  BY DEF InOrder
<1>6. ASSUME NEW i \in DOMAIN f PROVE f[i] >= i
  <2>1. i \in Nat \ {0} /\ 1..i \subseteq DOMAIN f
    BY <1>4
  <2>2. \A j \in DOMAIN f : f[j] \in Nat \ {0}
    BY <1>1, <1>4 DEF kept
  <2> DEFINE g == [j \in 1..i |-> f[j]]
  <2>3. \A j \in 1..i : f[j] \in 1..f[i]
    <3>1. ASSUME NEW j \in 1..i PROVE f[j] <= f[i]
      <4>1. j = i \/ j < i
        BY <2>1
      <4>2. j \in DOMAIN f
        BY <2>1
      <4>3. j < i => f[j] < f[i]
        BY <1>5, <4>2
      <4> QED
        BY <2>2, <4>1, <4>2, <4>3
    <3> QED
      BY <2>1, <2>2, <3>1
  <2>4. g \in Injection(1..i, 1..f[i])
    BY <1>4, <2>1, <2>3 DEF Injection, IsInjective
  <2>5. f[i] \in Nat
    BY <2>2
  <2>6. IsFiniteSet(1..f[i]) /\ Cardinality(1..f[i]) = f[i] /\ Cardinality(1..i) = i
    <3>1. \A n \in Nat \ {0} : IsFiniteSet(1..n) /\ Cardinality(1..n) = n
      <4> SUFFICES ASSUME NEW n \in Nat \ {0} PROVE IsFiniteSet(1..n) /\ Cardinality(1..n) = n
        OBVIOUS
      <4>1. IsFiniteSet(1..n) /\ Cardinality(1..n) = IF 1 > n THEN 0 ELSE n - 1 + 1
        BY FS_Interval
      <4> QED
        BY <4>1
    <3> QED
      BY <2>1, <2>2, <3>1
  <2> HIDE DEF g
  <2>7. Cardinality(1..i) <= Cardinality(1..f[i])
    BY <2>4, <2>6, FS_Injection
  <2> QED
    BY <2>1, <2>5, <2>6, <2>7
<1>7. ASSUME NEW i \in DOMAIN queue' PROVE \E j \in DOMAIN queue : j >= i /\ queue[j] = queue'[i]
  <2>1. i \in DOMAIN f /\ queue'[i] = queue[f[i]]
    BY <1>3
  <2>2. f[i] \in DOMAIN queue /\ f[i] >= i
    BY <1>4, <1>6, <2>1 DEF kept
  <2> QED
    BY <2>1, <2>2
<1> QED
  BY <1>7

LEMMA CopiesTick == ASSUME TypeOK, NEW id, Tick PROVE Copies(id)' <= Copies(id)
<1> USE DEF history
<1>1. UNCHANGED <<announcing, feed, tasks>>
  BY DEF Tick
<1>2. InFeed(id)' = InFeed(id) /\ InTasks(id)' = InTasks(id) /\ InPush(id)' = InPush(id)
  BY <1>1, SameCount
<1>3. InHeap(id)' <= InHeap(id)
  BY InHeapTick DEF TypeOK
<1>4. \A w \in Workers : AtWork(w, id)' <=> AtWork(w, id)
  <2> SUFFICES ASSUME NEW w \in Workers PROVE AtWork(w, id)' <=> AtWork(w, id)
    OBVIOUS
  <2>1. work'[w] = IF work[w].at = "rescheduling" THEN [work[w] EXCEPT !.wait = Later(@)] ELSE work[w]
    BY DEF Tick
  <2>2. work[w].at = "rescheduling" => work[w] \in Rescheduling
    BY WorkFields DEF TypeOK
  <2>3. work'[w].at = work[w].at /\ (work[w].at = "rescheduling" => work'[w].id = work[w].id)
        /\ (work[w].at # "rescheduling" => work'[w] = work[w])
    BY <2>1, <2>2 DEF Rescheduling
  <2> QED
    BY <2>3 DEF AtWork
<1>5. InWork(id)' = InWork(id)
  BY <1>4 DEF InWork
<1>6. Carried(id)' <=> Carried(id)
  <2>1. CASE main.at = "draining"
    <3>1. main \in Draining
      BY <2>1, MainFields DEF TypeOK
    <3>2. main' = [main EXCEPT !.lag = @ + 1]
      BY <2>1 DEF Tick
    <3>3. main'.at = "draining"
      BY <2>1, <3>1, <3>2 DEF Draining
    <3> QED
      BY <2>1, <3>3 DEF Carried
  <2>2. CASE main.at = "holding"
    <3>1. main \in Holding
      BY <2>2, MainFields DEF TypeOK
    <3>2. main' = [main EXCEPT !.lag = @ + 1, !.wait = Later(@)]
      BY <2>2 DEF Tick
    <3>3. main'.at = "holding" /\ main'.id = main.id
      BY <2>2, <3>1, <3>2 DEF Holding
    <3> QED
      BY <2>2, <3>3 DEF Carried
  <2>3. CASE main.at \notin {"draining", "holding"}
    <3>1. main' = main
      BY <2>3 DEF Tick
    <3> QED
      BY <3>1, Same
  <2> QED
    BY <2>1, <2>2, <2>3
<1>7. InMain(id)' = InMain(id)
  BY <1>6, SameCount
<1>8. InHeap(id)' \in Nat
  <2>1. retryHeap' \in [Entry -> Nat]
    BY TickHeap DEF TypeOK
  <2>2. TypeOK'
    BY TypeTick
  <2>3. (TypeOK => InHeap(id) \in Nat)'
    BY CountsNat, PTL
  <2> QED
    BY <2>2, <2>3
<1> QED
  BY <1>2, <1>3, <1>5, <1>7, <1>8, CountsNat, CopiesParts

\* What makes a copy: a push, and the scan.
Visits(id) == ScanVisit /\ main.next <= main.count /\ main.next <= Len(queue) /\ id = queue[main.next]

LEMMA CopiesNext ==
    ASSUME TypeOK, [Next]_vars, NEW id, ~Visits(id), ~(id \in Ids /\ Push(id))
    PROVE  Copies(id)' <= Copies(id)
<1>1. CASE Start
  BY <1>1, CopiesStart DEF Visits
<1>2. CASE \E w \in Workers : Worker(w)
  BY <1>2, CopiesWorker
<1>3. CASE Tick
  BY <1>3, CopiesTick
<1>4. CASE \/ \E x \in Ids : Push(x) \/ Announce(x) \/ Return(x) \/ Acknowledge(x)
           \/ Pop
           \/ \E t \in Targets : AddTarget(t)
           \/ Reset
           \/ UNCHANGED vars
  <2>1. ASSUME NEW x \in Ids, Push(x) PROVE Copies(id)' <= Copies(id)
    <3>1. x # id
      BY <2>1
    <3> QED
      BY <2>1, <3>1, CopiesClients
  <2> QED
    BY <1>4, <2>1, CopiesClients
<1> QED
  BY <1>1, <1>2, <1>3, <1>4 DEF Next

\* They make one.
LEMMA CopiesMore ==
    ASSUME TypeOK, NEW id, Visits(id) \/ Push(id)
    PROVE  Copies(id)' <= Copies(id) + 1
<1> USE DEF broker, retries, history, OnlyMain
<1>1. UNCHANGED <<feed, tasks, work, retryHeap>>
  BY DEF Visits, ScanVisit, Push
<1>2. InFeed(id)' = InFeed(id) /\ InTasks(id)' = InTasks(id) /\ InWork(id)' = InWork(id)
      /\ InHeap(id)' = InHeap(id)
  BY <1>1, SameCount
<1>3. \/ InPush(id)' = InPush(id) /\ InMain(id) = 0
      \/ InMain(id)' = InMain(id) /\ InPush(id)' = 1
  <2>1. CASE Visits(id)
    <3>1. announcing' = announcing /\ main.at = "visiting"
      BY <2>1 DEF Visits, ScanVisit
    <3> QED
      BY <3>1, SameCount DEF InMain, Carried
  <2>2. CASE Push(id)
    <3>1. main' = main /\ id \in announcing'
      BY <2>2 DEF Push
    <3> QED
      BY <3>1, Same, SameCount DEF InPush
  <2> QED
    BY <2>1, <2>2
<1>4. InMain(id)' \in {0, 1} /\ InPush(id)' \in {0, 1}
  BY DEF InMain, InPush
<1> QED
  BY <1>2, <1>3, <1>4, CountsNat, CopiesParts

\* After a message has been acknowledged or buried, no step makes a copy of it:
\* not a retry, not the scan, not an announcement that comes late
\* (dispatcher.go:214-219, 415-418).
THEOREM NothingRevived == Spec => NoResurrection
<1>1. TypeOK /\ [Next]_vars
          => [\A id \in pushed : ~Queued(id) /\ id \notin lent => Copies(id)' <= Copies(id)]_vars
  <2> SUFFICES ASSUME TypeOK, [Next]_vars, NEW id \in pushed, ~Queued(id)
               PROVE  Copies(id)' <= Copies(id)
    OBVIOUS
  <2>1. ~(id \in Ids /\ Push(id))
    BY DEF Push
  <2>2. ASSUME Visits(id) PROVE FALSE
    <3>1. main \in Visit
      BY <2>2, MainFields DEF Visits, ScanVisit, TypeOK
    <3>2. main.next \in Nat \ {0}
      BY <3>1 DEF Visit
    <3>3. main.next \in DOMAIN queue
      BY <2>2, <3>2, LenProperties DEF Visits, TypeOK
    <3> QED
      BY <2>2, <3>3 DEF Visits, Queued
  <2> QED
    BY <2>1, <2>2, CopiesNext
<1> QED
  BY <1>1, TypeCorrect, PTL DEF Spec, NoResurrection

(* One copy at a time. *)

\* The scan has this message before it, if it gets that far.
Unvisited(id) ==
    \/ main.at = "starting" /\ Queued(id)
    \/ Scanning /\ \E i \in DOMAIN queue : i >= main.next /\ queue[i] = id

\* Whatever is about to make a copy of a message, a push or the scan, makes the
\* first.
OnceInv ==
    \A id \in Ids \ exposed :
        /\ id \notin pushed \/ Unvisited(id) => Copies(id) = 0
        /\ Copies(id) <= 1

LEMMA OnceInit == Init => OnceInv
<1> SUFFICES ASSUME Init, NEW id \in Ids PROVE Copies(id) = 0
  BY DEF OnceInv
<1>1. feed = <<>> /\ tasks = <<>> /\ announcing = {} /\ main.at = "starting"
      /\ (\A w \in Workers : work[w] = Idle) /\ retryHeap = [e \in Entry |-> 0]
  BY DEF Init
<1>2. InSeq(feed, id) = {} /\ InSeq(tasks, id) = {}
  BY <1>1 DEF InSeq
<1>3. {w \in Workers : AtWork(w, id)} = {}
  <2>1. \A w \in Workers : work[w].at = "idle"
    <3>1. \A w \in Workers : work[w] = Idle
      BY <1>1
    <3> QED
      BY <3>1 DEF Idle
  <2> QED
    BY <2>1 DEF AtWork
<1>4. Heaped(id) = {}
  BY <1>1 DEF Heaped
<1>5. InMain(id) = 0 /\ InPush(id) = 0
  BY <1>1 DEF InMain, InPush, Carried
<1>6. Cardinality({}) = 0
  BY FS_EmptySet
<1>7. InFeed(id) = 0 /\ InTasks(id) = 0
  BY <1>2, <1>6 DEF InFeed, InTasks
<1>8. InWork(id) = 0 /\ InHeap(id) = 0
  BY <1>3, <1>4, <1>6 DEF InWork, InHeap
<1> QED
  BY <1>5, <1>7, <1>8, CopiesParts

\* A step brings no message before the scan without exposing it.
LEMMA UnvisitedNext ==
    ASSUME TypeOK, QueueInv, [Next]_vars, NEW id \in Ids, id \notin exposed', Unvisited(id)'
    PROVE  Unvisited(id) /\ ~Visits(id)
<1> USE DEF broker, retries, history, OnlyQueue, OnlyMain, OnlyWork
<1>1. Scanning => main.next \in Nat \ {0}
  BY MainFields DEF TypeOK, Visit, Offer, Scanning
<1>2. /\ \A i \in DOMAIN queue : i \in Nat
      /\ Len(queue) \in Nat /\ DOMAIN queue = 1..Len(queue)
  BY LenProperties DEF TypeOK
<1>3. main'.at \in {"starting", "visiting", "offering"}
  BY DEF Unvisited, Scanning
\* The queue has moved forward, if at all.
<1>4. ASSUME \A i \in DOMAIN queue' : i \in Nat /\ \E j \in DOMAIN queue : j >= i /\ queue[j] = queue'[i],
             main' = main
      PROVE  Unvisited(id)
  <2>1. Queued(id)' => Queued(id)
    BY <1>4 DEF Queued
  <2>2. CASE Scanning
    <3>1. PICK i \in DOMAIN queue' : i >= main.next /\ queue'[i] = id
      BY <1>4, <2>2 DEF Unvisited, Scanning
    <3>2. PICK j \in DOMAIN queue : j >= i /\ queue[j] = id
      BY <1>4, <3>1
    <3>3. j >= main.next
      BY <1>1, <1>2, <1>4, <2>2, <3>1, <3>2
    <3> QED
      BY <2>2, <3>2, <3>3 DEF Unvisited
  <2> QED
    BY <1>4, <2>1, <2>2 DEF Unvisited, Scanning
<1>5. ASSUME queue' = queue, Scanning, main'.at # "starting", main'.next \in Nat, main'.next >= main.next
      PROVE  Unvisited(id)
  <2>1. PICK i \in DOMAIN queue : i >= main'.next /\ queue[i] = id
    BY <1>5 DEF Unvisited, Scanning
  <2>2. i >= main.next
    BY <1>1, <1>2, <1>5, <2>1
  <2> QED
    BY <1>5, <2>1, <2>2 DEF Unvisited
<1>6. ASSUME UNCHANGED <<queue, main>> PROVE Unvisited(id)
  BY <1>6, Same DEF Unvisited, Scanning
<1>7. ASSUME NEW x \in Ids, Forget(x) \/ UNCHANGED <<queue, lent>> \/ (lent' = lent /\ Remove(x)), main' = main
      PROVE  Unvisited(id)
  <2>1. CASE queue' = queue
    BY <1>6, <1>7, <2>1
  <2>2. CASE Remove(x)
    <3>1. \A i \in DOMAIN queue' : \E j \in DOMAIN queue : j >= i /\ queue[j] = queue'[i]
      BY <2>2, RemovePlaces DEF TypeOK
    <3>2. \A i \in DOMAIN queue' : i \in Nat
      <4>1. queue' \in Seq(Ids)
        BY <2>2, RemoveFact DEF TypeOK
      <4> QED
        BY <4>1, LenProperties
    <3> QED
      BY <1>4, <1>7, <3>1, <3>2
  <2> QED
    BY <1>7, <2>1, <2>2 DEF Forget
<1>8. ASSUME NEW x \in Ids, Push(x) PROVE Unvisited(id)
  <2>1. /\ queue' = Append(queue, x) /\ main' = main
        /\ exposed' = IF Subscribed THEN exposed ELSE exposed \cup {x}
    BY <1>8 DEF Push
  <2>2. ~Subscribed
    BY <1>3, <2>1 DEF Subscribed
  <2>3. x # id
    BY <2>1, <2>2
  <2>4. DOMAIN queue' = 1..(Len(queue) + 1) /\ queue'[Len(queue) + 1] = x
        /\ \A i \in DOMAIN queue : queue'[i] = queue[i]
    BY <1>2, <2>1, AppendProperties DEF TypeOK
  <2>5. \A i \in DOMAIN queue' : queue'[i] = id => i \in DOMAIN queue /\ queue[i] = id
    BY <1>2, <2>3, <2>4
  <2> QED
    BY <2>1, <2>5 DEF Unvisited, Scanning, Queued
<1>9. ASSUME NEW x \in Ids, Return(x) PROVE Unvisited(id)
  <2>1. /\ queue' = <<x>> \o queue /\ main' = main
        /\ exposed' = exposed \cup {x} \cup (IF Scanning THEN {i \in Ids : Queued(i)} ELSE {})
    BY <1>9 DEF Return
  <2>2. /\ DOMAIN queue' = 1..(Len(queue) + 1) /\ queue'[1] = x
        /\ \A i \in DOMAIN queue' : i # 1 => i - 1 \in DOMAIN queue /\ queue'[i] = queue[i - 1]
    BY <1>2, <2>1, LenProperties, ConcatProperties DEF TypeOK
  <2>3. Queued(id)' => Queued(id)
    BY <2>1, <2>2 DEF Queued
  <2>4. Unvisited(id)' => Queued(id)'
    BY DEF Unvisited, Queued
  <2>5. ~Scanning
    BY <2>1, <2>3, <2>4
  <2> QED
    BY <2>1, <2>3, <2>4, <2>5 DEF Unvisited, Scanning
<1>10. ASSUME Pop PROVE Unvisited(id)
  <2>1. queue # <<>> /\ queue' = Tail(queue) /\ main' = main
    BY <1>10 DEF Pop
  <2>2. DOMAIN queue' = 1..(Len(queue) - 1)
        /\ \A i \in DOMAIN queue' : i + 1 \in DOMAIN queue /\ queue'[i] = queue[i + 1]
    BY <1>2, <2>1, LenProperties, HeadTailProperties DEF TypeOK
  <2>3. ASSUME NEW i \in DOMAIN queue'
        PROVE  i \in Nat /\ \E j \in DOMAIN queue : j >= i /\ queue[j] = queue'[i]
    <3>1. i \in Nat /\ i + 1 >= i
      BY <1>2, <2>2
    <3> QED
      BY <2>2, <3>1
  <2> QED
    BY <1>4, <2>1, <2>3
<1>11. ASSUME Start PROVE Unvisited(id)
  <2>1. queue' = queue
    BY <1>11 DEF Start, ScanStart, ScanVisit, ScanOffer, SubscribeMessages, Receive, TimerFires,
                 Drain, Dispatch
  <2>2. CASE ScanStart
    <3>1. main.at = "starting"
      BY <2>2 DEF ScanStart
    <3>2. Queued(id)
      BY <2>1 DEF Unvisited, Queued
    <3> QED
      BY <3>1, <3>2 DEF Unvisited
  <2>3. CASE ScanVisit
    <3>1. Scanning /\ main \in Visit
      BY <2>3, MainFields DEF ScanVisit, TypeOK, Scanning
    <3>2. \/ main' = [main EXCEPT !.next = main.next + 1]
          \/ main' = [at |-> "offering", due |-> main.due, next |-> main.next + 1,
                      count |-> main.count, id |-> queue[main.next], rc |-> saved[queue[main.next]].rc]
          \/ main' = [at |-> "subscribing"]
      BY <2>3 DEF ScanVisit
    <3>3. CASE main' = [at |-> "subscribing"]
      BY <1>3, <3>3
    <3>4. CASE main' # [at |-> "subscribing"]
      <4>1. main'.next = main.next + 1 /\ main'.at \in {"visiting", "offering"}
        BY <3>1, <3>2, <3>4 DEF Visit
      <4> QED
        BY <1>1, <1>5, <2>1, <3>1, <4>1
    <3> QED
      BY <3>3, <3>4
  <2>4. CASE ScanOffer
    <3>1. Scanning /\ main'.at = "visiting" /\ main'.next = main.next
      BY <2>4 DEF ScanOffer, Scanning
    <3> QED
      BY <1>1, <1>5, <2>1, <3>1
  <2>5. CASE Receive
    BY <1>6, <2>1, <2>5 DEF Receive
  <2>6. CASE SubscribeMessages \/ TimerFires \/ Drain \/ Dispatch
    <3>1. main'.at \in {"looping", "holding", "draining"}
      BY <2>6 DEF SubscribeMessages, TimerFires, Drain, Look, Dispatch
    <3> QED
      BY <1>3, <3>1
  <2> QED
    BY <1>11, <2>2, <2>3, <2>4, <2>5, <2>6 DEF Start
<1>12. ASSUME NEW w \in Workers, Worker(w) PROVE Unvisited(id)
  <2>1. CASE Take(w) \/ Reschedule(w) \/ Leave(w)
    BY <1>6, <2>1 DEF Take, Reschedule, Leave
  <2>2. CASE Deliver(w) \/ Bury(w)
    <3>1. work[w].id \in Ids
      BY <2>2, WorkFields DEF Deliver, Bury, TypeOK, Sending
    <3>2. PICK x \in Ids : x = work[w].id
      BY <3>1
    <3>3. main' = main /\ (Forget(x) \/ UNCHANGED <<queue, lent>> \/ (lent' = lent /\ Remove(x)))
      BY <2>2, <3>2 DEF Deliver, Bury
    <3> QED
      BY <1>7, <3>3
  <2>3. CASE Fail(w)
    <3>1. queue' = queue
      BY <2>3 DEF Fail
    <3>2. PICK m : m = [main EXCEPT !.due = @ \ {work[w].id}]
      OBVIOUS
    <3>3. (Scanning /\ main' = m) \/ main' = main
      <4>1. main' = (IF Scanning THEN m ELSE main) \/ main' = main
        BY <2>3, <3>2, Zenon DEF Fail
      <4> QED
        BY <4>1
    <3>4. CASE main' = main
      BY <1>6, <3>1, <3>4
    <3>5. CASE Scanning /\ main' = m
      <4>1. main \in Visit \/ main \in Offer
        BY <3>5, MainFields DEF TypeOK, Scanning
      <4>2. main'.at = main.at /\ main'.next = main.next
        BY <3>2, <3>5, <4>1 DEF Visit, Offer
      <4>3. main'.at # "starting"
        BY <3>5, <4>2 DEF Scanning
      <4> QED
        BY <1>1, <1>5, <3>1, <3>5, <4>2, <4>3
    <3> QED
      BY <3>3, <3>4, <3>5
  <2> QED
    BY <1>12, <2>1, <2>2, <2>3 DEF Worker
<1>13. ASSUME Tick PROVE Unvisited(id)
  <2>1. queue' = queue
    BY <1>13 DEF Tick
  <2>2. main' = main \/ main.at \in {"draining", "holding"}
    BY <1>13 DEF Tick
  <2>3. CASE main.at \in {"draining", "holding"}
    <3>1. main \in Draining \/ main \in Holding
      BY <2>3, MainFields DEF TypeOK
    <3>2. main'.at = main.at
      BY <1>13, <3>1 DEF Tick, Draining, Holding
    <3> QED
      BY <1>3, <2>3, <3>2
  <2> QED
    BY <1>6, <2>1, <2>2, <2>3
<1>14. ASSUME Visits(id) PROVE FALSE
  <2>1. /\ main \in Visit /\ Scanning /\ queue' = queue
        /\ main.next <= main.count /\ main.next <= Len(queue) /\ id = queue[main.next]
    BY <1>14, MainFields DEF Visits, ScanVisit, TypeOK, Scanning
  <2>2. \/ main' = [main EXCEPT !.next = main.next + 1]
        \/ main' = [at |-> "offering", due |-> main.due, next |-> main.next + 1,
                    count |-> main.count, id |-> queue[main.next], rc |-> saved[queue[main.next]].rc]
    BY <1>14 DEF Visits, ScanVisit
  <2>3. main'.next = main.next + 1 /\ main'.at # "starting"
    BY <2>1, <2>2 DEF Visit
  <2>4. PICK i \in DOMAIN queue : i >= main.next + 1 /\ queue[i] = id
    BY <2>1, <2>3 DEF Unvisited
  <2>5. main.next \in DOMAIN queue /\ i # main.next
    BY <1>1, <1>2, <2>1, <2>4
  <2> QED
    BY <2>1, <2>4, <2>5 DEF QueueInv
<1>15. ASSUME NEW t \in Targets, AddTarget(t) PROVE Unvisited(id)
  BY <1>6, <1>15 DEF AddTarget
<1>16. ASSUME NEW x \in Ids, Acknowledge(x) PROVE Unvisited(id)
  BY <1>7, <1>16 DEF Acknowledge
<1>17. ASSUME NEW x \in Ids, Announce(x) PROVE Unvisited(id)
  BY <1>6, <1>17 DEF Announce
<1>18. ASSUME Reset \/ UNCHANGED vars PROVE Unvisited(id)
  BY <1>6, <1>18 DEF Reset, vars
<1> QED
  BY <1>8, <1>9, <1>10, <1>11, <1>12, <1>13, <1>14, <1>15, <1>16, <1>17, <1>18 DEF Next

\* Once used, or once exposed, always so.
LEMMA HistoryGrows == ASSUME [Next]_vars PROVE exposed \subseteq exposed' /\ pushed \subseteq pushed'
<1> USE DEF broker, retries, history, OnlyQueue, OnlyMain, OnlyWork
<1>1. ASSUME NEW id \in Ids, Push(id) \/ Announce(id) \/ Return(id) \/ Acknowledge(id)
      PROVE  exposed \subseteq exposed' /\ pushed \subseteq pushed'
  BY <1>1 DEF Push, Announce, Return, Acknowledge
<1>2. CASE Pop
  BY <1>2 DEF Pop
<1>3. ASSUME NEW t \in Targets, AddTarget(t) PROVE exposed' = exposed /\ pushed' = pushed
  BY <1>3 DEF AddTarget
<1>4. CASE Start
  <2>1. OnlyMain
    BY <1>4 DEF Start, ScanStart, ScanVisit, ScanOffer, SubscribeMessages, Receive, TimerFires,
                Drain, Dispatch
  <2> QED
    BY <2>1
<1>5. ASSUME NEW w \in Workers, Worker(w) PROVE exposed' = exposed /\ pushed' = pushed
  BY <1>5 DEF Worker, Take, Deliver, Bury, Fail, Reschedule, Leave
<1>6. CASE Reset \/ Tick \/ UNCHANGED vars
  BY <1>6 DEF Reset, Tick, vars
<1> QED
  BY <1>1, <1>2, <1>3, <1>4, <1>5, <1>6 DEF Next

LEMMA OnceNext == ASSUME TypeOK, QueueInv, OnceInv, [Next]_vars PROVE OnceInv'
<1> SUFFICES ASSUME NEW id \in Ids, id \notin exposed'
             PROVE  /\ id \notin pushed' \/ Unvisited(id)' => Copies(id)' = 0
                    /\ Copies(id)' <= 1
  BY DEF OnceInv
<1>1. id \notin exposed /\ (id \notin pushed' => id \notin pushed)
  BY HistoryGrows
<1>2. /\ id \notin pushed \/ Unvisited(id) => Copies(id) = 0
      /\ Copies(id) <= 1 /\ Copies(id) \in Nat
  BY <1>1, CountsNat DEF OnceInv
<1>3. Unvisited(id)' => Unvisited(id) /\ ~Visits(id)
  BY UnvisitedNext
<1>4. Unvisited(id) => id \in pushed
  BY DEF Unvisited, Queued, QueueInv
<1>5. Copies(id)' \in Nat
  <2>1. TypeOK'
    BY TypeNext
  <2>2. (TypeOK => Copies(id) \in Nat)'
    BY CountsNat, PTL
  <2> QED
    BY <2>1, <2>2
<1>6. CASE Push(id)
  <2>1. id \notin pushed /\ id \in pushed'
    BY <1>6 DEF Push
  <2>2. ~Unvisited(id)'
    BY <1>3, <1>4, <2>1
  <2>3. Copies(id)' <= Copies(id) + 1
    BY <1>6, CopiesMore
  <2> QED
    BY <1>2, <1>5, <2>1, <2>2, <2>3
<1>7. CASE Visits(id)
  <2>1. Unvisited(id)
    <3>1. main \in Visit /\ main.at = "visiting"
      BY <1>7, MainFields DEF Visits, ScanVisit, TypeOK
    <3>2. main.next \in Nat \ {0}
      BY <3>1 DEF Visit
    <3>3. main.next \in DOMAIN queue /\ main.next >= main.next
      BY <1>7, <3>2, LenProperties DEF Visits, TypeOK
    <3> QED
      BY <1>7, <3>1, <3>3 DEF Visits, Unvisited, Scanning
  <2>2. id \in pushed'
    BY <1>1, <1>4, <2>1
  <2>3. ~Unvisited(id)'
    BY <1>3, <1>7
  <2>4. Copies(id)' <= Copies(id) + 1
    BY <1>7, CopiesMore
  <2> QED
    BY <1>2, <1>5, <2>1, <2>2, <2>3, <2>4
<1>8. CASE ~Push(id) /\ ~Visits(id)
  <2>1. Copies(id)' <= Copies(id)
    BY <1>8, CopiesNext
  <2> QED
    BY <1>1, <1>2, <1>3, <1>5, <2>1
<1> QED
  BY <1>6, <1>7, <1>8

\* A message that arrived after the start-up, was not returned by a consumer
\* and was not under way when the dispatcher was reset is with one worker, or
\* in one channel, or in the heap once: the broadcast, the scan, the retry heap
\* and the workers hand it on and never copy it, in whatever order they run
\* (dispatcher.go:141-184, 204-207, 417-418).
THEOREM OneCopyCorrect == Spec => []OneCopy
<1> DEFINE Inv == TypeOK /\ QueueInv /\ OnceInv
<1>1. Init => Inv
  BY TypeInit, QueueInit, OnceInit
<1>2. Inv /\ [Next]_vars => Inv'
  BY TypeNext, QueueNext, OnceNext
<1>3. Inv => OneCopy
  BY DEF OnceInv, OneCopy
<1> HIDE DEF Inv
<1> QED
  BY <1>1, <1>2, <1>3, PTL DEF Spec

(* The timer of the heap. *)

\* No message is in the heap twice.
Single ==
    /\ \A e, d \in Entry : retryHeap[e] > 0 /\ retryHeap[d] > 0 /\ e.id = d.id => e = d
    /\ \A e \in Entry : retryHeap[e] <= 1

Timed == \A e \in Entry : retryHeap[e] > 0 => timer # Off /\ timer <= Rest(e.wait) + Lag

\* Where else the message may be does not matter: this is stronger than
\* TimerIsTimely, whose premise a step to a worker can restore.
TimerInv == Single /\ main.at \notin {"draining", "holding"} => Timed

LEMMA HeapPair ==
    ASSUME TypeOK, NEW id, NEW x \in Heaped(id), NEW y \in Heaped(id), x # y
    PROVE  Copies(id) >= 2
<1>1. IsFiniteSet(Heaped(id))
  BY HeapedFinite DEF TypeOK
<1>2. Cardinality({x}) = 1 /\ IsFiniteSet({x})
  BY FS_Singleton
<1>3. Cardinality({x} \cup {y}) = 2
  BY <1>2, FS_AddElement
<1>4. {x} \cup {y} \subseteq Heaped(id)
  OBVIOUS
<1>5. InHeap(id) >= 2
  BY <1>1, <1>3, <1>4, FS_Subset DEF InHeap
<1> QED
  BY <1>5, CountsNat, CopiesParts

LEMMA SingleCopies == ASSUME TypeOK, \A id \in Ids : Copies(id) <= 1 PROVE Single
<1>1. ASSUME NEW e \in Entry, NEW n \in Nat \ {0}, n <= retryHeap[e] PROVE <<e, n>> \in Heaped(e.id)
  <2>1. Heaped(e.id) = {x \in Entry \X (Nat \ {0}) : x[1].id = e.id /\ x[2] <= retryHeap[x[1]]}
    BY HeapedIs DEF Heaped, TypeOK
  <2> QED
    BY <1>1, <2>1
<1>2. ASSUME NEW e \in Entry PROVE e.id \in Ids /\ retryHeap[e] \in Nat
  BY DEF Entry, TypeOK
<1>3. ASSUME NEW id \in Ids, NEW x \in Heaped(id), NEW y \in Heaped(id) PROVE x = y
  <2> SUFFICES ASSUME x # y PROVE FALSE
    OBVIOUS
  <2>1. Copies(id) >= 2 /\ Copies(id) \in Nat
    BY HeapPair, CountsNat
  <2> QED
    BY <2>1
<1>4. ASSUME NEW e \in Entry, NEW d \in Entry, retryHeap[e] > 0, retryHeap[d] > 0, e.id = d.id
      PROVE  e = d
  <2>1. 1 <= retryHeap[e] /\ 1 <= retryHeap[d]
    BY <1>2, <1>4
  <2>2. <<e, 1>> \in Heaped(e.id) /\ <<d, 1>> \in Heaped(e.id)
    BY <1>1, <1>4, <2>1
  <2>3. <<e, 1>> = <<d, 1>>
    BY <1>2, <1>3, <2>2
  <2> QED
    BY <2>3
<1>5. ASSUME NEW e \in Entry PROVE retryHeap[e] <= 1
  <2> SUFFICES ASSUME ~(retryHeap[e] <= 1) PROVE FALSE
    OBVIOUS
  <2>1. 1 <= retryHeap[e] /\ 2 <= retryHeap[e]
    BY <1>2
  <2>2. <<e, 1>> \in Heaped(e.id) /\ <<e, 2>> \in Heaped(e.id)
    BY <1>1, <2>1
  <2>3. <<e, 1>> = <<e, 2>>
    BY <1>2, <1>3, <2>2
  <2> QED
    BY <2>3
<1> QED
  BY <1>4, <1>5 DEF Single

\* Tick moves the copies of an entry to the entry that is later, and none
\* elsewhere.
LEMMA TickMoves ==
    ASSUME retryHeap \in [Entry -> Nat], Tick
    PROVE  \A d \in Entry :
               retryHeap'[d] > 0 => \E e \in Entry : retryHeap[e] > 0 /\ d.wait = Later(e.wait)
<1> DEFINE stay(e) == IF Later(e.wait) = e.wait THEN retryHeap[e] ELSE 0
           come(e) == IF e.wait + 1 \in Waits THEN retryHeap[[e EXCEPT !.wait = @ + 1]] ELSE 0
<1>1. retryHeap' = [e \in Entry |-> stay(e) + come(e)]
  BY Zenon DEF Tick
<1> SUFFICES ASSUME NEW d \in Entry, retryHeap'[d] > 0
             PROVE  \E e \in Entry : retryHeap[e] > 0 /\ d.wait = Later(e.wait)
  OBVIOUS
<1>2. stay(d) + come(d) > 0
  BY <1>1
<1>3. d.wait \in Int /\ d.wait >= -Lag /\ Lag \in Nat
  BY BoundsAssumption, WaitBounds DEF Entry, Waits
<1>4. CASE Later(d.wait) = d.wait /\ retryHeap[d] > 0
  BY <1>4
<1>5. CASE d.wait + 1 \in Waits /\ retryHeap[[d EXCEPT !.wait = @ + 1]] > 0
  <2>1. PICK e : e = [d EXCEPT !.wait = @ + 1]
    OBVIOUS
  <2>2. e \in Entry /\ e.wait = d.wait + 1
    BY <1>5, <2>1 DEF Entry
  <2>3. Later(e.wait) = d.wait
    BY <1>3, <2>2 DEF Later
  <2> QED
    BY <1>5, <2>1, <2>2, <2>3
<1>6. retryHeap[d] \in Nat
  OBVIOUS
<1>7. d.wait + 1 \in Waits => retryHeap[[d EXCEPT !.wait = @ + 1]] \in Nat
  BY DEF Entry
<1> QED
  BY <1>2, <1>4, <1>5, <1>6, <1>7

\* Tick may put two entries of a message together, and never takes two apart.
LEMMA TickSingle == ASSUME retryHeap \in [Entry -> Nat], Tick, Single' PROVE Single
<1> DEFINE stay(e) == IF Later(e.wait) = e.wait THEN retryHeap[e] ELSE 0
           come(e) == IF e.wait + 1 \in Waits THEN retryHeap[[e EXCEPT !.wait = @ + 1]] ELSE 0
           late(e) == [id |-> e.id, rc |-> e.rc, wait |-> Later(e.wait)]
<1>1. retryHeap' = [e \in Entry |-> stay(e) + come(e)]
  BY Zenon DEF Tick
<1>2. ASSUME NEW e \in Entry PROVE stay(e) \in Nat /\ come(e) \in Nat
  <2>1. e.wait + 1 \in Waits => [e EXCEPT !.wait = @ + 1] \in Entry
    BY DEF Entry
  <2> QED
    BY <2>1
<1>3. ASSUME NEW e \in Entry
      PROVE  /\ late(e) \in Entry /\ late(e).id = e.id
             /\ \/ Later(e.wait) = e.wait /\ late(e) = e /\ stay(late(e)) = retryHeap[e]
                \/ Later(e.wait) = e.wait - 1 /\ come(late(e)) = retryHeap[e]
             /\ e.wait \in Int
  <2>1. e.id \in Ids /\ e.rc \in 0..MaxRetries /\ e.wait \in Waits /\ Later(e.wait) \in Waits
        /\ e.wait \in Int
    BY WaitBounds DEF Entry
  <2>2. e = [id |-> e.id, rc |-> e.rc, wait |-> e.wait]
    BY DEF Entry
  <2>3. late(e) \in Entry /\ late(e).id = e.id /\ late(e).wait = Later(e.wait)
    BY <2>1 DEF Entry
  <2>4. CASE Later(e.wait) = e.wait
    BY <2>1, <2>2, <2>3, <2>4
  <2>5. CASE Later(e.wait) # e.wait
    <3>1. Later(e.wait) = e.wait - 1
      BY <2>5 DEF Later
    <3>2. Later(e.wait) + 1 = e.wait
      BY <2>1, <3>1
    <3>3. [late(e) EXCEPT !.wait = @ + 1] = e
      BY <2>2, <3>2
    <3>4. come(late(e)) = retryHeap[e]
      BY <2>1, <2>3, <3>2, <3>3
    <3> QED
      BY <2>1, <2>3, <3>1, <3>4
  <2> QED
    BY <2>4, <2>5
<1>4. ASSUME NEW e \in Entry, NEW d \in Entry, late(e) = late(d), Later(e.wait) = Later(d.wait)
      PROVE  \/ e = d
             \/ retryHeap[e] + retryHeap[d] <= stay(late(e)) + come(late(e))
  <2>1. CASE late(e) = e /\ late(d) = d
    BY <1>4, <2>1
  <2>2. CASE Later(e.wait) = e.wait - 1 /\ Later(d.wait) = d.wait - 1
    <3>1. e.wait = d.wait
      <4>1. e.wait \in Int /\ d.wait \in Int
        BY <1>3
      <4>2. e.wait - 1 = d.wait - 1
        <5> HIDE DEF stay, come, late
        <5> QED
          BY <1>4, <2>2
      <4> HIDE DEF stay, come, late
      <4> QED
        BY <4>1, <4>2
    <3>2. e.id = d.id /\ e.rc = d.rc
      BY <1>4
    <3> QED
      BY <3>1, <3>2 DEF Entry
  <2>3. CASE stay(late(e)) = retryHeap[e] /\ come(late(d)) = retryHeap[d]
    <3>1. come(late(e)) = retryHeap[d]
      BY <1>4, <2>3
    <3> QED
      BY <2>3, <3>1, <1>2, <1>3
  <2>4. CASE stay(late(d)) = retryHeap[d] /\ come(late(e)) = retryHeap[e]
    <3>1. stay(late(e)) = retryHeap[d]
      BY <1>4, <2>4
    <3> QED
      BY <2>4, <3>1
  <2> HIDE DEF stay, come, late
  <2> QED
    BY <1>3, <2>1, <2>2, <2>3, <2>4
<1>5. ASSUME NEW e \in Entry
      PROVE  retryHeap[e] <= retryHeap'[late(e)] /\ retryHeap'[late(e)] = stay(late(e)) + come(late(e))
  <2> HIDE DEF stay, come, late
  <2>1. late(e) \in Entry /\ (stay(late(e)) = retryHeap[e] \/ come(late(e)) = retryHeap[e])
    BY <1>3
  <2>2. retryHeap'[late(e)] = stay(late(e)) + come(late(e))
    BY <1>1, <2>1
  <2>3. stay(late(e)) \in Nat /\ come(late(e)) \in Nat
    BY <1>2, <2>1
  <2> QED
    BY <2>1, <2>2, <2>3
<1>6. /\ \A e, d \in Entry : retryHeap'[e] > 0 /\ retryHeap'[d] > 0 /\ e.id = d.id => e = d
      /\ \A e \in Entry : retryHeap'[e] <= 1
  BY DEF Single
<1>7. ASSUME NEW e \in Entry PROVE late(e).wait = Later(e.wait)
  OBVIOUS
<1> HIDE DEF stay, come, late
<1>8. \A e \in Entry : retryHeap[e] \in Nat /\ retryHeap[e] <= 1 /\ late(e) \in Entry /\ late(e).id = e.id
  <2> SUFFICES ASSUME NEW e \in Entry PROVE retryHeap[e] <= 1
    BY <1>3
  <2>1. late(e) \in Entry
    BY <1>3
  <2>2. retryHeap'[late(e)] <= 1
    BY <1>6, <2>1
  <2>3. stay(late(e)) \in Nat /\ come(late(e)) \in Nat /\ retryHeap[e] \in Nat
    BY <1>2, <2>1
  <2> QED
    BY <1>5, <2>2, <2>3
<1>9. ASSUME NEW e \in Entry, NEW d \in Entry, retryHeap[e] > 0, retryHeap[d] > 0, e.id = d.id
      PROVE  e = d
  <2>1. stay(late(e)) \in Nat /\ come(late(e)) \in Nat /\ stay(late(d)) \in Nat /\ come(late(d)) \in Nat
    BY <1>2, <1>8
  <2>2. retryHeap'[late(e)] > 0 /\ retryHeap'[late(d)] > 0
    BY <1>5, <1>8, <1>9, <2>1
  <2>3. late(e) = late(d)
    BY <1>6, <1>8, <1>9, <2>2
  <2>4. Later(e.wait) = Later(d.wait)
    BY <1>7, <2>3
  <2>5. retryHeap'[late(e)] <= 1
    BY <1>6, <1>8
  <2>6. ~(retryHeap[e] + retryHeap[d] <= stay(late(e)) + come(late(e)))
    <3>1. retryHeap[e] + retryHeap[d] >= 2
      BY <1>8, <1>9
    <3>2. stay(late(e)) + come(late(e)) <= 1
      BY <1>5, <2>5
    <3> QED
      BY <1>8, <2>1, <3>1, <3>2
  <2> QED
    BY <1>4, <2>3, <2>4, <2>6
<1> QED
  BY <1>8, <1>9 DEF Single

LEMMA TimerTick == ASSUME TypeOK, TimerInv, Tick PROVE TimerInv'
<1> SUFFICES ASSUME Single', main'.at \notin {"draining", "holding"} PROVE Timed'
  BY DEF TimerInv
<1>1. Single
  BY TickSingle DEF TypeOK
<1>2. main.at \notin {"draining", "holding"}
  <2> SUFFICES ASSUME main.at \in {"draining", "holding"} PROVE FALSE
    OBVIOUS
  <2>1. main \in Draining \/ main \in Holding
    BY MainFields DEF TypeOK
  <2>2. main'.at = main.at
    BY <2>1 DEF Tick, Draining, Holding
  <2> QED
    BY <2>2
<1>3. ASSUME NEW d \in Entry, retryHeap'[d] > 0 PROVE timer' # Off /\ timer' <= Rest(d.wait) + Lag
  <2>1. PICK e \in Entry : retryHeap[e] > 0 /\ d.wait = Later(e.wait)
    BY <1>3, TickMoves DEF TypeOK
  <2>2. timer # Off /\ timer <= Rest(e.wait) + Lag
    BY <1>1, <1>2, <2>1 DEF TimerInv, Timed
  <2>3. timer \in Nat
    BY <2>2 DEF TypeOK
  <2>4. timer' = IF timer = 0 THEN timer ELSE timer - 1
    BY <2>2 DEF Tick
  <2>5. e.wait \in Int /\ Lag \in Nat
    BY WaitBounds DEF Entry
  <2>6. timer' \in Nat
    BY <2>3, <2>4
  <2>7. timer' # Off
    BY <2>6, OffAssumption
  <2>8. timer' <= Rest(d.wait) + Lag
    BY <2>1, <2>2, <2>3, <2>4, <2>5 DEF Rest, Later
  <2> QED
    BY <2>7, <2>8
<1> QED
  BY <1>3 DEF Timed

LEMMA TimerSchedule ==
    ASSUME TypeOK, NEW e \in Entry, scheduleRetry(e), Single => Timed, Single'
    PROVE  Timed'
<1>1. retryHeap \in [Entry -> Nat] /\ timer \in Nat \cup {Off} /\ Lag \in Nat /\ Waits \subseteq Int
  BY WaitBounds DEF TypeOK
<1>2. retryHeap' = [retryHeap EXCEPT ![e] = @ + 1]
  BY DEF scheduleRetry
<1>3. /\ retryHeap'[e] = retryHeap[e] + 1 /\ retryHeap'[e] > 0
      /\ \A d \in Entry : d # e => retryHeap'[d] = retryHeap[d]
      /\ \A d \in Entry : retryHeap[d] \in Nat /\ retryHeap[d] <= retryHeap'[d]
  BY <1>1, <1>2
<1>4. /\ \A c, d \in Entry : retryHeap'[c] > 0 /\ retryHeap'[d] > 0 /\ c.id = d.id => c = d
      /\ \A d \in Entry : retryHeap'[d] <= 1
  BY DEF Single
<1>5. Single
  <2>1. \A d \in Entry : retryHeap[d] > 0 => retryHeap'[d] > 0
    BY <1>1, <1>3
  <2>2. \A d \in Entry : retryHeap[d] <= 1
    <3> SUFFICES ASSUME NEW d \in Entry PROVE retryHeap[d] <= 1
      OBVIOUS
    <3>1. retryHeap[d] \in Nat /\ retryHeap[d] <= retryHeap'[d] /\ retryHeap'[d] <= 1
          /\ retryHeap'[d] \in Nat
      BY <1>1, <1>2, <1>3, <1>4
    <3> QED
      BY <3>1
  <2> QED
    BY <1>4, <2>1, <2>2 DEF Single
<1>6. \A d \in Entry : retryHeap[d] > 0 => timer # Off /\ timer <= Rest(d.wait) + Lag
  BY <1>5 DEF Timed
<1>7. PICK top \in Tops(retryHeap') : timer' = IF top.id = e.id THEN Rest(e.wait) ELSE timer
  BY DEF scheduleRetry
<1>8. top \in Entry /\ retryHeap'[top] > 0 /\ \A d \in Entry : retryHeap'[d] > 0 => top.wait <= d.wait
  BY <1>7 DEF Tops
<1>9. \A d \in Entry : d.wait \in Int
  BY <1>1 DEF Entry
<1>10. ASSUME NEW d \in Entry, retryHeap'[d] > 0 PROVE timer' # Off /\ timer' <= Rest(d.wait) + Lag
  <2>1. top.wait <= d.wait /\ top.wait \in Int /\ d.wait \in Int
    BY <1>8, <1>9, <1>10
  <2>2. CASE top.id = e.id
    <3>1. top = e
      BY <1>3, <1>4, <1>8, <2>2
    <3>2. timer' = Rest(top.wait)
      BY <1>7, <2>2, <3>1
    <3>3. timer' \in Nat /\ timer' <= Rest(d.wait) + Lag
      BY <1>1, <2>1, <3>2 DEF Rest
    <3> QED
      BY <3>3, OffAssumption
  <2>3. CASE top.id # e.id
    <3>1. timer' = timer /\ retryHeap[top] > 0
      BY <1>3, <1>7, <1>8, <2>3
    <3>2. timer # Off /\ timer <= Rest(top.wait) + Lag
      BY <1>6, <1>8, <3>1
    <3>3. timer \in Nat
      BY <1>1, <3>2
    <3> QED
      BY <1>1, <2>1, <3>1, <3>2, <3>3 DEF Rest
  <2> QED
    BY <2>2, <2>3
<1> QED
  BY <1>10 DEF Timed

\* A set of numbers has a least one.
LEMMA LeastNat == ASSUME NEW W, W \subseteq Nat, W # {} PROVE \E n \in W : \A m \in W : n <= m
<1> DEFINE R == {ss \in Nat \X Nat : ss[1] < ss[2]}
<1>1. IsWellFoundedOn(R, Nat)
  BY NatLessThanWellFounded DEF OpToRel
<1>2. PICK n \in W : \A m \in W : ~(<<m, n>> \in R)
  <2> HIDE DEF R
  <2> QED
    BY <1>1, WFMin
<1>3. ASSUME NEW m \in W PROVE n <= m
  <2>1. m \in Nat /\ n \in Nat
    OBVIOUS
  <2>2. ~(m < n)
    <3>1. m < n => <<m, n>> \in R
      BY <2>1
    <3> HIDE DEF R
    <3> QED
      BY <1>2, <3>1
  <2> QED
    BY <2>1, <2>2
<1> QED
  BY <1>3

\* processRetryHeap ends with an empty heap or with the timer set for its top.
LEMMA TimerLook ==
    ASSUME TypeOK, NEW lag \in 0..Lag, NEW running, Look(lag, running)
    PROVE  TimerInv'
<1> SUFFICES ASSUME main'.at \notin {"draining", "holding"} PROVE Timed'
  BY DEF TimerInv
<1>1. Lag \in Nat /\ lag \in Nat /\ lag <= Lag /\ \A d \in Entry : d.wait \in Int
  <2>1. Lag \in Nat /\ Waits \subseteq Int
    BY WaitBounds
  <2>2. lag \in Nat /\ lag <= Lag
    BY <2>1
  <2> QED
    BY <2>1, <2>2 DEF Entry
<1>2. \A d \in Entry : retryHeap[d] \in Nat
  BY DEF TypeOK
<1>3. CASE Tops(retryHeap) = {} /\ UNCHANGED retryHeap
  <2>1. ASSUME NEW d \in Entry, retryHeap[d] > 0 PROVE FALSE
    <3> DEFINE W == {c.wait + Lag : c \in {c \in Entry : retryHeap[c] > 0}}
    <3>1. \A e \in Entry : e.wait >= -Lag
      BY <1>1 DEF Entry, Waits
    <3>2. W \subseteq Nat /\ W # {}
      BY <1>1, <2>1, <3>1
    <3>3. PICK n \in W : \A m \in W : n <= m
      <4> HIDE DEF W
      <4> QED
        BY <3>2, LeastNat
    <3>4. PICK e \in Entry : retryHeap[e] > 0 /\ n = e.wait + Lag
      OBVIOUS
    <3>5. ASSUME NEW c \in Entry, retryHeap[c] > 0 PROVE e.wait <= c.wait
      <4>1. e.wait + Lag <= c.wait + Lag
        BY <3>3, <3>4, <3>5
      <4> QED
        BY <1>1, <4>1
    <3> QED
      BY <1>3, <3>4, <3>5 DEF Tops
  <2> QED
    BY <1>3, <2>1 DEF Timed
<1>4. ASSUME NEW top \in Tops(retryHeap), ~(top.wait <= -lag), timer' = top.wait + lag,
             UNCHANGED retryHeap
      PROVE  Timed'
  <2>1. top \in Entry /\ \A d \in Entry : retryHeap[d] > 0 => top.wait <= d.wait
    BY DEF Tops
  <2>2. top.wait \in Int /\ timer' \in Nat
    BY <1>1, <1>4, <2>1
  <2>3. ASSUME NEW d \in Entry, retryHeap[d] > 0 PROVE timer' # Off /\ timer' <= Rest(d.wait) + Lag
    <3>1. top.wait <= d.wait /\ d.wait \in Int
      BY <1>1, <2>1, <2>3
    <3>2. timer' <= Rest(d.wait) + Lag
      BY <1>1, <1>4, <2>2, <3>1 DEF Rest
    <3> QED
      BY <2>2, <3>2, OffAssumption
  <2> QED
    BY <1>4, <2>3 DEF Timed
<1>5. \/ Tops(retryHeap) = {} /\ UNCHANGED retryHeap
      \/ \E top \in Tops(retryHeap) :
            ~(top.wait <= -lag) /\ timer' = top.wait + lag /\ UNCHANGED retryHeap
  BY DEF Look
<1> QED
  BY <1>3, <1>4, <1>5

LEMMA TimerInit == Init => TimerInv
<1> SUFFICES ASSUME Init, NEW e \in Entry, retryHeap[e] > 0 PROVE FALSE
  BY DEF TimerInv, Timed
<1>1. retryHeap[e] = 0
  BY DEF Init
<1> QED
  BY <1>1

LEMMA TimerNext == ASSUME TypeOK, TimerInv, [Next]_vars PROVE TimerInv'
<1> USE DEF broker, retries, history, OnlyQueue, OnlyMain, OnlyWork
\* The heap and the timer are left alone, and nobody comes out of
\* processRetryHeap.
<1>1. ASSUME UNCHANGED <<retryHeap, timer>>,
             main'.at \notin {"draining", "holding"} => main.at \notin {"draining", "holding"}
      PROVE  TimerInv'
  BY <1>1 DEF TimerInv, Single, Timed
<1>2. ASSUME UNCHANGED <<retryHeap, timer, main>> PROVE TimerInv'
  BY <1>1, <1>2
<1>3. ASSUME main'.at \in {"draining", "holding"} PROVE TimerInv'
  BY <1>3 DEF TimerInv
<1>4. ASSUME NEW id \in Ids, Push(id) \/ Announce(id) \/ Return(id) \/ Acknowledge(id)
      PROVE  TimerInv'
  <2>1. UNCHANGED <<retryHeap, timer, main>>
    BY <1>4 DEF Push, Announce, Return, Acknowledge
  <2> QED
    BY <1>2, <2>1
<1>5. ASSUME NEW t \in Targets, AddTarget(t) PROVE TimerInv'
  <2>1. UNCHANGED <<retryHeap, timer, main>>
    BY <1>5 DEF AddTarget
  <2> QED
    BY <1>2, <2>1
<1>6. CASE Pop \/ Reset \/ UNCHANGED vars
  <2>1. UNCHANGED <<retryHeap, timer, main>>
    BY <1>6 DEF Pop, Reset, vars
  <2> QED
    BY <1>2, <2>1
<1>7. CASE Start
  <2>1. CASE ScanStart \/ ScanVisit \/ ScanOffer \/ SubscribeMessages \/ Receive
    <3>1. UNCHANGED <<retryHeap, timer>>
      BY <2>1 DEF ScanStart, ScanVisit, ScanOffer, SubscribeMessages, Receive
    <3>2. main.at \notin {"draining", "holding"}
      BY <2>1 DEF ScanStart, ScanVisit, ScanOffer, SubscribeMessages, Receive
    <3> QED
      BY <1>1, <3>1, <3>2
  <2>2. CASE TimerFires
    <3>1. Look(0, Off) /\ 0 \in 0..Lag
      BY <2>2, WaitBounds DEF TimerFires
    <3> QED
      BY <3>1, TimerLook
  <2>3. CASE Drain
    <3>1. main \in Draining /\ Look(main.lag, timer)
      BY <2>3, MainFields DEF Drain, TypeOK
    <3>2. main.lag \in 0..Lag
      BY <3>1 DEF Draining
    <3> QED
      BY <3>1, <3>2, TimerLook
  <2>4. CASE Dispatch
    <3>1. main'.at = "draining"
      BY <2>4 DEF Dispatch
    <3> QED
      BY <1>3, <3>1
  <2> QED
    BY <1>7, <2>1, <2>2, <2>3, <2>4 DEF Start
<1>8. ASSUME NEW w \in Workers, Worker(w) PROVE TimerInv'
  <2>1. CASE Take(w) \/ Deliver(w) \/ Bury(w) \/ Leave(w)
    <3>1. UNCHANGED <<retryHeap, timer, main>>
      BY <2>1 DEF Take, Deliver, Bury, Leave
    <3> QED
      BY <1>2, <3>1
  <2>2. CASE Fail(w)
    <3>1. UNCHANGED <<retryHeap, timer>>
      BY <2>2 DEF Fail
    <3>2. main.at \in {"draining", "holding"} => main' = main
      BY <2>2 DEF Fail, Scanning
    <3>3. main'.at \notin {"draining", "holding"} => main.at \notin {"draining", "holding"}
      BY <3>2
    <3> QED
      BY <1>1, <3>1, <3>3
  <2>3. CASE Reschedule(w)
    <3>1. PICK e : e = [id |-> work[w].id, rc |-> work[w].rc, wait |-> work[w].wait]
      OBVIOUS
    <3>2. work[w] \in Rescheduling
      BY <2>3, WorkFields DEF Reschedule, TypeOK
    <3>3. e \in Entry
      BY <3>1, <3>2 DEF Rescheduling, Entry
    <3>4. scheduleRetry(e) /\ main' = main
      BY <2>3, <3>1 DEF Reschedule
    <3> SUFFICES ASSUME Single', main'.at \notin {"draining", "holding"} PROVE Timed'
      BY DEF TimerInv
    <3>5. Single => Timed
      BY <3>4 DEF TimerInv
    <3> QED
      BY <3>3, <3>4, <3>5, TimerSchedule
  <2> QED
    BY <1>8, <2>1, <2>2, <2>3 DEF Worker
<1>9. CASE Tick
  BY <1>9, TimerTick
<1> QED
  BY <1>4, <1>5, <1>6, <1>7, <1>8, <1>9 DEF Next

\* Outside processRetryHeap whoever waits in the heap has a running timer that
\* ends when the first retry is due, or later by no more than one pass over the
\* heap took: whichever worker set it last, however the waits have counted down
\* since and whatever order the heap gives to retries due at the same time
\* (dispatcher.go:160-180, 192-199).
THEOREM TimerCorrect == Spec => []TimerIsTimely
<1> DEFINE Inv == TypeOK /\ TimerInv
<1>1. Init => Inv
  BY TypeInit, TimerInit
<1>2. Inv /\ [Next]_vars => Inv'
  BY TypeNext, TimerNext
<1>3. Inv => TimerIsTimely
  <2> SUFFICES ASSUME TypeOK, TimerInv, main.at \notin {"draining", "holding"},
                      \A id \in Ids : Copies(id) <= 1,
                      NEW e \in Entry, retryHeap[e] > 0
               PROVE  timer # Off /\ timer <= Rest(e.wait) + Lag
    BY DEF TimerIsTimely
  <2>1. Single
    BY SingleCopies
  <2> QED
    BY <2>1 DEF TimerInv, Timed
<1> HIDE DEF Inv
<1> QED
  BY <1>1, <1>2, <1>3, PTL DEF Spec
=============================================================================
