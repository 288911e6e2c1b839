-------------------------- MODULE BrokerViewProofs --------------------------
(***************************************************************************)
(* What the broker shows its clients, for any set of ids, any number of    *)
(* threads, listeners and restarts, and whatever goes wrong: the order of  *)
(* the queue, the announcements on the message channels, and the count of  *)
(* dead letters.                                                           *)
(***************************************************************************)
EXTENDS BrokerDiskProofs

(* The order of the queue. *)

\* The queue is moved along by n places: ids keep their order.
LEMMA ShiftAhead ==
    ASSUME TypeOK, NEW n \in Nat,
           \A i \in DOMAIN messages : i + n \in DOMAIN messages' /\ messages'[i + n].id = messages[i].id
    PROVE  \A a, b : Ahead(a, b) => Ahead(a, b)'
<1>1. \A i \in DOMAIN messages : i \in Nat
  BY DEF TypeOK
<1>2. ASSUME NEW a, NEW b, Ahead(a, b) PROVE Ahead(a, b)'
  <2>1. PICK i, j \in DOMAIN messages : i < j /\ messages[i].id = a /\ messages[j].id = b
    BY <1>2 DEF Ahead
  <2>2. i + n < j + n
    BY <1>1, <2>1
  <2> QED
    BY <2>1, <2>2 DEF Ahead
<1> QED
  BY <1>2

\* Removing a message closes the gap, and no more.
LEMMA RemoveAllAhead ==
    ASSUME TypeOK, NEW x, RemoveAll(x), NEW a, NEW b, a # x, b # x, Ahead(a, b)
    PROVE  Ahead(a, b)'
<1> DEFINE kept == {i \in DOMAIN messages : messages[i].id # x}
           n == Cardinality(kept)
<1>1. PICK f \in Bijection(1..n, kept) :
          /\ \A i, j \in DOMAIN f : i < j => f[i] < f[j]
          /\ messages' = [i \in DOMAIN f |-> messages[f[i]]]
  BY DEF RemoveAll
<1> HIDE DEF n
<1>2. /\ f \in [1..n -> kept]
      /\ \A k \in kept : \E i \in 1..n : f[i] = k
  BY DEF Bijection, Injection, Surjection
<1>3. PICK i, j \in DOMAIN messages : i < j /\ messages[i].id = a /\ messages[j].id = b
  BY DEF Ahead
<1>4. PICK k, l \in 1..n : f[k] = i /\ f[l] = j
  BY <1>2, <1>3
<1>5. i \in Nat /\ j \in Nat
  BY <1>3 DEF TypeOK
<1>6. k < l
  BY <1>1, <1>2, <1>3, <1>4, <1>5
<1>7. /\ k \in DOMAIN messages' /\ l \in DOMAIN messages'
      /\ messages'[k].id = a /\ messages'[l].id = b
  BY <1>1, <1>2, <1>3, <1>4
<1> QED
  BY <1>6, <1>7 DEF Ahead

LEMMA OrderStep ==
    ASSUME PlaceInv, [Next]_vars, restarts' = restarts,
           NEW a, NEW b, Ahead(a, b), Queued(a)', Queued(b)'
    PROVE  Ahead(a, b)'
<1> USE DEF memory, files, settled, OnlyMemory, OnlyFiles, OnlySignals
<1>1. TypeOK /\ messages \in Seq(Message)
      /\ DOMAIN messages = 1..Len(messages) /\ Len(messages) \in Nat
  BY DEF PlaceInv, TypeOK
<1>2. CASE UNCHANGED messages
  BY <1>2 DEF Ahead
<1>3. ASSUME NEW x, RemoveAll(x) PROVE Ahead(a, b)'
  BY <1>1, <1>3, RemoveAllQueued, RemoveAllAhead
<1>4. ASSUME NEW p, Pop(p) PROVE Ahead(a, b)'
  <2>1. messages' = Tail(messages) /\ messages # <<>>
    BY <1>4 DEF Pop
  <2>2. /\ \A i \in DOMAIN messages : i # 1 => i - 1 \in DOMAIN messages' /\ messages'[i - 1] = messages[i]
        /\ \A i \in DOMAIN messages' : i + 1 \in DOMAIN messages /\ messages'[i] = messages[i + 1] /\ i \in Nat \ {0}
    BY <1>1, <2>1
  <2>3. PICK i, j \in DOMAIN messages : i < j /\ messages[i].id = a /\ messages[j].id = b
    BY DEF Ahead
  <2>4. PICK k \in DOMAIN messages' : messages'[k].id = a
    BY DEF Queued
  <2>5. i = k + 1
    BY <2>2, <2>3, <2>4 DEF PlaceInv, OnePlace
  <2>6. i # 1 /\ j # 1 /\ i - 1 < j - 1
    BY <1>1, <2>2, <2>3, <2>4, <2>5
  <2> QED
    BY <2>2, <2>3, <2>6 DEF Ahead
<1>5. ASSUME NEW p, PushAppend(p) PROVE Ahead(a, b)'
  <2>1. messages' = Append(messages, Msg(p))
    BY <1>5 DEF PushAppend
  <2>2. \A i \in DOMAIN messages : i + 0 \in DOMAIN messages' /\ messages'[i + 0] = messages[i]
    BY <1>1, <2>1
  <2> QED
    BY <1>1, <2>2, ShiftAhead
<1>6. ASSUME NEW p, NEW x, NegativeAcknowledge(p, x) PROVE Ahead(a, b)'
  <2>1. messages' = <<pendingAcks[x]>> \o messages
    BY <1>6 DEF NegativeAcknowledge
  <2>2. \A i \in DOMAIN messages : i + 1 \in DOMAIN messages' /\ messages'[i + 1] = messages[i]
    BY <1>1, <2>1
  <2> QED
    BY <1>1, <2>2, ShiftAhead
<1>7. CASE CheckTimeouts
  <2>1. IsFiniteSet(late) /\ \A id \in late : pendingAcks[id] \in Message
    BY <1>1, IdsAssumption, FS_Subset DEF TypeOK
  <2>2. PICK f \in Bijection(1..Cardinality(late), late) :
            messages' = [i \in DOMAIN f |-> pendingAcks[f[i]]] \o messages
    BY <1>7 DEF CheckTimeouts
  <2> DEFINE front == [i \in DOMAIN f |-> pendingAcks[f[i]]]
  <2>3. front \in Seq(Message)
    BY <2>1, EnumerationType
  <2>4. messages' = front \o messages
    BY <2>2
  <2> HIDE DEF front
  <2>5. /\ Len(front) \in Nat
        /\ \A i \in DOMAIN messages : i + Len(front) \in DOMAIN messages' /\ messages'[i + Len(front)] = messages[i]
    BY <1>1, <2>3, <2>4
  <2> QED
    BY <1>1, <2>5, ShiftAhead
<1>8. ASSUME NEW p, NEW m, UpdateMemory(p, m) PROVE Ahead(a, b)'
  <2>1. PICK k \in DOMAIN messages :
            messages[k].id = m.id /\ messages' = [messages EXCEPT ![k] = m]
    BY <1>8 DEF UpdateMemory, First
  <2>2. \A i \in DOMAIN messages : i + 0 \in DOMAIN messages' /\ messages'[i + 0].id = messages[i].id
    BY <1>1, <2>1
  <2> QED
    BY <1>1, <2>2, ShiftAhead
<1>9. ASSUME NEW p, NEW x, AckTake(p, x) \/ DLQTake(p, x) PROVE Ahead(a, b)'
  BY <1>2, <1>3, <1>9 DEF AckTake, DLQTake
<1>10. ASSUME NEW p \in Procs, Begin(p) PROVE Ahead(a, b)'
  BY <1>2, <1>4, <1>6, <1>8, <1>9, <1>10 DEF Begin, PushCheck
<1>11. ASSUME NEW t \in Threads, Proceed(t) PROVE Ahead(a, b)'
  <2>1. PushAppend(t) \/ UNCHANGED messages
    BY <1>11 DEF Proceed, PushOpen, PushWrite, PushAnnounce, AckReport, AckUnlink, UpdateWrite,
                 DLQReport, DLQTruncate, DLQSave, DLQRename, DLQCopy, DLQRemove, DLQCount, FinishReport
  <2> QED
    BY <1>2, <1>5, <2>1
<1>12. ~Restart
  <2>1. Restart => restarts' = restarts + 1
    BY Zenon DEF Restart
  <2>2. restarts \in Int
    BY <1>1 DEF TypeOK
  <2> QED
    BY <2>1, <2>2
<1> QED
  BY <1>2, <1>7, <1>10, <1>11, <1>12
     DEF Next, vars, Age, Subscribe, ReceiveSignal, ReceiveMessage, SetStoragePath

\* Whatever is pushed, lent, returned, replaced, acknowledged or buried around
\* them, two messages that stay in the queue keep their order for as long as
\* the process runs (broker.go:166, 199, 245-251, 307-313, 339, 357, 376).
THEOREM OrderKept == Spec => KeepsOrder
<1>1. PlaceInv /\ [Next]_vars
          => [restarts' = restarts =>
                \A a, b \in Ids : Ahead(a, b) /\ Queued(a)' /\ Queued(b)' => Ahead(a, b)']_vars
  BY OrderStep
<1> QED
  BY <1>1, PlaceCorrect, PTL DEF Spec, KeepsOrder

-----------------------------------------------------------------------------
(***************************************************************************)
(* The announcements.  A message is announced once because it is accepted  *)
(* once: between the two no channel holds it and no other call announces   *)
(* it.                                                                     *)
(***************************************************************************)

Announcing(t, id) == Handles(t, id, {"announcing"})

InFeeds(id) == \E l \in MsgListeners : \E i \in DOMAIN feed[l] : feed[l][i].id = id

AnnouncedOnce ==
    \A t \in Threads, id \in Ids : Announcing(t, id) =>
        /\ id \in accepted
        /\ ~InFeeds(id)
        /\ \A u \in Threads : Announcing(u, id) => u = t

FeedInv == PlaceInv /\ FeedIsHonest /\ AnnouncedOnce

LEMMA FeedInit == Init => FeedInv
<1> SUFFICES ASSUME Init PROVE FeedInv
  OBVIOUS
<1>1. PlaceInv
  BY PlaceInit
<1>2. \A t \in Threads : call[t].at = "idle"
  BY DEF Init, Idle
<1>3. \A l \in MsgListeners : DOMAIN feed[l] = {}
  BY DEF Init
<1> QED
  BY <1>1, <1>2, <1>3 DEF FeedInv, FeedIsHonest, AnnouncedOnce, Announcing, Handles

\* A step that starts no announcement and puts nothing into a channel.
LEMMA FeedQuiet ==
    ASSUME FeedInv, accepted \subseteq accepted',
           \A t \in Threads, id \in Ids : Announcing(t, id)' => Announcing(t, id),
           \A id : InFeeds(id)' => InFeeds(id),
           \A l \in MsgListeners : \A i, j \in DOMAIN feed'[l] :
               feed'[l][i].id = feed'[l][j].id => i = j
    PROVE  FeedIsHonest' /\ AnnouncedOnce'
<1>1. \A id : InFeeds(id) => id \in accepted
  BY DEF FeedInv, FeedIsHonest, InFeeds
<1>2. \A id : InFeeds(id)' => id \in accepted'
  BY <1>1
<1>3. FeedIsHonest'
  BY <1>2 DEF FeedIsHonest, InFeeds
<1>4. AnnouncedOnce'
  BY DEF FeedInv, AnnouncedOnce
<1> QED
  BY <1>3, <1>4

LEMMA FeedAppend ==
    ASSUME FeedInv, NEW t \in Threads, PushAppend(t)
    PROVE  FeedIsHonest' /\ AnnouncedOnce'
<1>1. TypeOK /\ call[t].at = "appending" /\ call[t].at \in Steps
  BY DEF FeedInv, PlaceInv, PushAppend, At, Steps, PushSteps
<1>2. PICK x \in Ids : call[t].id = x /\ Msg(t).id = x
  BY <1>1, OwnMessage DEF Msg
<1>3. x \notin accepted
  BY <1>1, <1>2 DEF FeedInv, PlaceInv, Responsible, Handles, Accepting
<1>4. /\ \A u \in Threads : u # t => call'[u] = call[u]
      /\ call'[t].at = "announcing" /\ call'[t].id = x
  BY <1>1, <1>2, OwnCall DEF PushAppend
<1>5. feed' = feed /\ accepted' = accepted \cup {x}
  BY <1>2 DEF PushAppend, channels
<1>6. /\ \A id : InFeeds(id)' <=> InFeeds(id)
      /\ ~InFeeds(x)
  BY <1>3, <1>5 DEF InFeeds, FeedInv, FeedIsHonest
<1>7. \A u \in Threads, id \in Ids :
          Announcing(u, id)' <=> IF u = t THEN id = x ELSE Announcing(u, id)
  BY <1>4 DEF Announcing, Handles
<1>8. \A u \in Threads : ~Announcing(u, x)
  BY <1>3 DEF FeedInv, AnnouncedOnce
<1>9. FeedIsHonest'
  BY <1>5 DEF FeedInv, FeedIsHonest
<1>10. AnnouncedOnce'
  <2> SUFFICES ASSUME NEW u \in Threads, NEW id \in Ids, Announcing(u, id)'
               PROVE  id \in accepted' /\ ~InFeeds(id)' /\ \A v \in Threads : Announcing(v, id)' => v = u
    BY DEF AnnouncedOnce
  <2>1. CASE id = x
    BY <1>5, <1>6, <1>7, <1>8, <2>1
  <2>2. CASE id # x
    BY <1>5, <1>6, <1>7, <2>2 DEF FeedInv, AnnouncedOnce
  <2> QED
    BY <2>1, <2>2
<1> QED
  BY <1>9, <1>10

LEMMA FeedAnnounce ==
    ASSUME FeedInv, NEW t \in Threads, PushAnnounce(t)
    PROVE  FeedIsHonest' /\ AnnouncedOnce'
<1>1. TypeOK /\ call[t].at = "announcing" /\ call[t].at \in Steps
  BY DEF FeedInv, PlaceInv, PushAnnounce, At, Steps, PushSteps
<1>2. PICK x \in Ids : call[t].id = x /\ Msg(t).id = x
  BY <1>1, OwnMessage DEF Msg
<1>3. (\A u \in Threads : u # t => call'[u] = call[u]) /\ call'[t].at = "idle"
  BY <1>1, OwnCall DEF PushAnnounce
<1>4. accepted' = accepted
  BY DEF PushAnnounce, settled
<1>5. Announcing(t, x)
  BY <1>1, <1>2 DEF Announcing, Handles
<1>6. /\ x \in accepted /\ ~InFeeds(x)
      /\ \A u \in Threads : Announcing(u, x) => u = t
  BY <1>5 DEF FeedInv, AnnouncedOnce
<1>7. \A u \in Threads, id \in Ids : Announcing(u, id)' => Announcing(u, id) /\ id # x
  BY <1>3, <1>6 DEF Announcing, Handles
<1>8. ASSUME NEW l \in MsgListeners
      PROVE  /\ feed[l] \in Seq(Message)
             /\ feed'[l] = feed[l] \/ feed'[l] = Append(feed[l], Msg(t))
  BY <1>1 DEF PushAnnounce, TypeOK
<1>9. ASSUME NEW l \in MsgListeners
      PROVE  \A i \in DOMAIN feed'[l] :
                 \/ i \in DOMAIN feed[l] /\ feed'[l][i] = feed[l][i]
                 \/ i = Len(feed[l]) + 1 /\ feed'[l][i] = Msg(t)
  BY <1>8
<1>10. \A id : InFeeds(id)' => InFeeds(id) \/ id = x
  BY <1>2, <1>9 DEF InFeeds
<1>11. FeedIsHonest'
  <2>1. ASSUME NEW l \in MsgListeners, NEW i \in DOMAIN feed'[l], NEW j \in DOMAIN feed'[l],
               feed'[l][i].id = feed'[l][j].id
        PROVE  i = j
    BY <1>2, <1>6, <1>9, <2>1 DEF InFeeds, FeedInv, FeedIsHonest
  <2>2. \A id : InFeeds(id)' => id \in accepted'
    BY <1>4, <1>6, <1>10 DEF InFeeds, FeedInv, FeedIsHonest
  <2> QED
    BY <2>1, <2>2 DEF FeedIsHonest, InFeeds
<1>12. AnnouncedOnce'
  BY <1>4, <1>7, <1>10 DEF FeedInv, AnnouncedOnce
<1> QED
  BY <1>11, <1>12

LEMMA FeedReceive ==
    ASSUME FeedInv, NEW k \in MsgListeners, ReceiveMessage(k)
    PROVE  FeedIsHonest' /\ AnnouncedOnce'
<1>1. /\ TypeOK /\ feed[k] \in Seq(Message) /\ feed[k] # <<>>
      /\ UNCHANGED <<call, accepted>>
      /\ feed' = [feed EXCEPT ![k] = Tail(feed[k])]
  BY DEF FeedInv, PlaceInv, TypeOK, ReceiveMessage, settled
<1>2. ASSUME NEW l \in MsgListeners
      PROVE  feed'[l] = IF l = k THEN Tail(feed[k]) ELSE feed[l]
  BY <1>1 DEF TypeOK
<1>3. \A i \in DOMAIN Tail(feed[k]) : i \in Nat /\ i + 1 \in DOMAIN feed[k] /\ Tail(feed[k])[i] = feed[k][i + 1]
  BY <1>1
<1>4. \A id : InFeeds(id)' => InFeeds(id)
  BY <1>2, <1>3 DEF InFeeds
<1>5. \A l \in MsgListeners : \A i, j \in DOMAIN feed'[l] :
          feed'[l][i].id = feed'[l][j].id => i = j
  <2>1. \A i, j \in DOMAIN Tail(feed[k]) : Tail(feed[k])[i].id = Tail(feed[k])[j].id => i + 1 = j + 1
    BY <1>3 DEF FeedInv, FeedIsHonest
  <2>2. \A i, j \in DOMAIN Tail(feed[k]) : Tail(feed[k])[i].id = Tail(feed[k])[j].id => i = j
    BY <1>3, <2>1
  <2>3. ASSUME NEW l \in MsgListeners
        PROVE  \A i, j \in DOMAIN feed'[l] : feed'[l][i].id = feed'[l][j].id => i = j
    <3>1. CASE l = k
      <4>1. feed'[l] = Tail(feed[k])
        BY <1>2, <3>1
      <4> QED
        BY <2>2, <4>1
    <3>2. CASE l # k
      BY <1>2, <3>2 DEF FeedInv, FeedIsHonest
    <3> QED
      BY <3>1, <3>2
  <2> QED
    BY <2>3
<1>6. \A t \in Threads, id \in Ids : Announcing(t, id)' => Announcing(t, id)
  BY <1>1 DEF Announcing, Handles
<1> QED
  BY <1>1, <1>4, <1>5, <1>6, FeedQuiet

\* The other steps.
LEMMA FeedElsewhere ==
    ASSUME FeedInv, feed' = feed, accepted' = accepted,
           call' = call \/ \E t \in Threads :
                              /\ \A u \in Threads : u # t => call'[u] = call[u]
                              /\ call'[t].at # "announcing"
    PROVE  FeedIsHonest' /\ AnnouncedOnce'
<1>1. \A t \in Threads, id \in Ids : Announcing(t, id)' => Announcing(t, id)
  BY DEF Announcing, Handles
<1>2. \A id : InFeeds(id)' => InFeeds(id)
  BY DEF InFeeds
<1> QED
  BY <1>1, <1>2, FeedQuiet DEF FeedInv, FeedIsHonest

LEMMA FeedRestart ==
    ASSUME FeedInv, Restart
    PROVE  FeedIsHonest' /\ AnnouncedOnce'
<1>1. feed' = [l \in MsgListeners |-> <<>>]
  BY Zenon DEF Restart
<1>2. \A l \in MsgListeners : DOMAIN feed'[l] = {}
  BY <1>1
<1>3. \A t \in Threads, id \in Ids : ~Announcing(t, id)'
  BY RestartQueue DEF Announcing, Handles
<1> QED
  BY <1>2, <1>3 DEF FeedIsHonest, AnnouncedOnce

\* Which call a step moves, and where to: every step but three starts no
\* announcement.
LEMMA QuietSteps ==
    ASSUME TypeOK, Next,
           ~Restart, \A t \in Threads : ~PushAppend(t) /\ ~PushAnnounce(t),
           \A l \in MsgListeners : ~ReceiveMessage(l)
    PROVE  /\ feed' = feed /\ accepted' = accepted
           /\ call' = call \/ \E t \in Threads :
                                 /\ \A u \in Threads : u # t => call'[u] = call[u]
                                 /\ call'[t].at # "announcing"
<1> USE DEF memory, files, channels, settled, OnlyMemory, OnlyFiles, OnlySignals
<1> DEFINE Moves(t) == (\A u \in Threads : u # t => call'[u] = call[u]) /\ call'[t].at # "announcing"
<1>1. ASSUME NEW p \in Procs, Begin(p)
      PROVE  feed' = feed /\ accepted' = accepted /\ (call' = call \/ \E t \in Threads : Moves(t))
  <2>1. p \in Threads
    BY DEF Threads
  <2>2. feed' = feed /\ accepted' = accepted
    BY <1>1 DEF Begin, Pop, PushCheck, NegativeAcknowledge, AckTake, DLQTake, UpdateMemory
  <2>3. \/ call' = call
        \/ \E size : LeaveReport(p, size)
        \/ \E step \in {"opening", "acking", "burying", "rewriting"} : \E m, size : GoTo(p, step, m, size)
    BY <1>1 DEF Begin, Pop, PushCheck, NegativeAcknowledge, AckTake, DLQTake, UpdateMemory
  <2>4. call' = call \/ Moves(p)
    BY <2>1, <2>3, OwnCall
  <2> QED
    BY <2>1, <2>2, <2>4
<1>2. ASSUME NEW t \in Threads, Proceed(t)
      PROVE  feed' = feed /\ accepted' = accepted /\ Moves(t)
  <2>1. feed' = feed /\ accepted' = accepted
    BY <1>2 DEF Proceed, PushOpen, PushWrite, AckReport, AckUnlink, UpdateWrite, DLQReport,
                DLQTruncate, DLQSave, DLQRename, DLQCopy, DLQRemove, DLQCount, FinishReport
  <2>2. \/ Return(t)
        \/ /\ call[t].at \in Steps
           /\ \E step \in Steps \ {"announcing"} : Continue(t, step)
    BY <1>2 DEF Proceed, PushOpen, Truncate, PushWrite, AckReport, AckUnlink, UpdateWrite, DLQReport,
                DLQTruncate, DLQSave, DLQRename, DLQCopy, DLQRemove, DLQCount, FinishReport, At,
                Steps, PushSteps, AckSteps, DLQSteps
  <2> QED
    BY <2>1, <2>2, OwnCall
<1>3. CASE CheckTimeouts
  <2>1. feed' = feed /\ accepted' = accepted /\ \E size : LeaveReport(Checker, size)
    BY <1>3 DEF CheckTimeouts
  <2>2. Checker \in Threads
    BY DEF Threads
  <2>3. Moves(Checker)
    BY <2>1, <2>2, OwnCall
  <2> QED
    BY <2>1, <2>2, <2>3
<1>4. ASSUME \/ \E id \in Ids : Age(id)
             \/ \E l \in Listeners \cup MsgListeners : Subscribe(l)
             \/ \E l \in Listeners : ReceiveSignal(l)
             \/ SetStoragePath
      PROVE  feed' = feed /\ accepted' = accepted /\ call' = call
  BY <1>4 DEF Age, Subscribe, ReceiveSignal, SetStoragePath
<1> QED
  BY <1>1, <1>2, <1>3, <1>4 DEF Next

LEMMA FeedNext == FeedInv /\ [Next]_vars => FeedInv'
<1> SUFFICES ASSUME FeedInv, [Next]_vars PROVE FeedInv'
  OBVIOUS
<1>1. PlaceInv' /\ TypeOK
  BY PlaceNext DEF FeedInv, PlaceInv
<1> SUFFICES FeedIsHonest' /\ AnnouncedOnce'
  BY <1>1 DEF FeedInv
<1>2. CASE UNCHANGED vars
  BY <1>2, FeedElsewhere DEF vars, channels, settled
<1>3. CASE Restart
  BY <1>3, FeedRestart
<1>4. ASSUME NEW t \in Threads, PushAppend(t) \/ PushAnnounce(t)
      PROVE  FeedIsHonest' /\ AnnouncedOnce'
  BY <1>4, FeedAppend, FeedAnnounce
<1>5. ASSUME NEW l \in MsgListeners, ReceiveMessage(l) PROVE FeedIsHonest' /\ AnnouncedOnce'
  BY <1>5, FeedReceive
<1> QED
  BY <1>1, <1>2, <1>3, <1>4, <1>5, QuietSteps, FeedElsewhere

\* A message channel never announces a message twice, nor one the broker has
\* not accepted, though the broadcast happens after b.mu is released and pushes
\* overtake one another there (broker.go:160-186).
THEOREM FeedHonest == Spec => []FeedIsHonest
<1>1. FeedInv => FeedIsHonest
  BY DEF FeedInv
<1> QED
  BY <1>1, FeedInit, FeedNext, PTL DEF Spec

-----------------------------------------------------------------------------
(***************************************************************************)
(* The count of dead letters, where the dead-letter directory is on the    *)
(* same device.  Each move adds a file that was not there: a message with  *)
(* a dead letter is nowhere else, and no call but the one about to count   *)
(* it has it in hand.                                                      *)
(***************************************************************************)

Counting == {t \in Threads : At(t, "counting")}
DeadIds  == {id \in Ids : dead[id] # Absent}

\* The steps of a call whose message may still come to the dead letters.
Undecided == Hands \ {"counting"}

NeverCopied == \A t \in Threads : call[t].at \notin {"copying", "removing"}

DeadAreGone ==
    \A id \in DeadIds :
        /\ disk[id] = Absent
        /\ id \in accepted /\ ~OnOffer(id)
        /\ \A t \in Threads : ~Handles(t, id, Undecided)

RenamesAFile == \A t \in Threads, id \in Ids : Handles(t, id, {"renaming"}) => disk[id] # Absent

Counted ==
    /\ IsFiniteSet(Counting)
    /\ dlqSize + Cardinality(Counting) = Cardinality(DeadIds)

DeadParts == NeverCopied /\ DeadAreGone /\ RenamesAFile /\ Counted

DeadInv == PlaceInv /\ DeadParts

LEMMA DeadInit == Init => DeadInv
<1> SUFFICES ASSUME Init PROVE DeadInv
  OBVIOUS
<1>1. PlaceInv
  BY PlaceInit
<1>2. \A t \in Threads : call[t].at = "idle"
  BY DEF Init, Idle
<1>3. Counting = {} /\ DeadIds = {}
  BY <1>2 DEF Counting, At, DeadIds, Init
<1>4. Counted
  BY <1>3, FS_EmptySet DEF Counted, Init
<1> QED
  BY <1>1, <1>2, <1>3, <1>4 DEF DeadInv, DeadParts, NeverCopied, DeadAreGone, RenamesAFile, Handles

\* A visit to memory: thread t moves on, and neither the queue, the loans nor
\* t get hold of a message with a dead letter.
LEMMA DeadVisit ==
    ASSUME DeadInv, NEW t \in Threads, UNCHANGED <<disk, dead, dlqSize>>,
           accepted \subseteq accepted',
           \A u \in Threads : u # t => call'[u] = call[u],
           call[t].at # "counting",
           call'[t].at \notin {"copying", "removing", "renaming", "counting"},
           \A id \in DeadIds : ~OnOffer(id)' /\ ~Handles(t, id, Undecided)'
    PROVE  DeadParts'
<1>1. DeadIds' = DeadIds /\ Counting' = Counting
  BY DEF DeadIds, Counting, At
<1>2. Counted'
  BY <1>1 DEF DeadInv, DeadParts, Counted
<1>3. NeverCopied' /\ RenamesAFile'
  BY DEF DeadInv, DeadParts, NeverCopied, RenamesAFile, Handles
<1>4. \A u \in Threads, id \in DeadIds : ~Handles(u, id, Undecided)'
  BY DEF DeadInv, DeadParts, DeadAreGone, Handles
<1>5. DeadAreGone'
  BY <1>1, <1>4 DEF DeadInv, DeadParts, DeadAreGone
<1> QED
  BY <1>2, <1>3, <1>5 DEF DeadParts

\* A file operation other than the move itself: the message has no dead letter.
LEMMA DeadFile ==
    ASSUME DeadInv, NEW t \in Threads, NEW x \in Ids,
           call[t].at \in Steps \ {"announcing", "counting"}, call[t].id = x,
           UNCHANGED <<messages, pendingAcks, accepted, dead, dlqSize>>,
           \A u \in Threads : u # t => call'[u] = call[u],
           call'[t].at \notin {"copying", "removing", "counting"},
           call'[t].at = "idle" \/ call'[t].id = x,
           \A id \in Ids : id # x => disk'[id] = disk[id],
           call'[t].at = "renaming" => disk'[x] # Absent
    PROVE  DeadParts'
<1>1. DeadIds' = DeadIds /\ Counting' = Counting
  BY DEF DeadIds, Counting, At
<1>2. Counted'
  BY <1>1 DEF DeadInv, DeadParts, Counted
<1>3. x \notin DeadIds
  <2>1. CASE call[t].at = "rewriting"
    BY <2>1 DEF DeadInv, DeadParts, DeadAreGone, PlaceInv, UpdateKeepsLock, At, OnOffer
  <2>2. CASE call[t].at # "rewriting"
    <3>1. Handles(t, x, Undecided)
      BY <2>2 DEF Handles, Undecided, Hands, Steps
    <3> QED
      BY <3>1 DEF DeadInv, DeadParts, DeadAreGone
  <2> QED
    BY <2>1, <2>2
<1>4. \A u \in Threads : u # t => ~Handles(u, x, {"renaming"})
  <2>1. CASE call[t].at = "rewriting"
    <3>1. Queued(x)
      BY <2>1 DEF DeadInv, PlaceInv, UpdateKeepsLock, At
    <3> QED
      BY <3>1 DEF DeadInv, PlaceInv, OnePlace, Handles, Hands, DLQSteps
  <2>2. CASE call[t].at # "rewriting"
    <3>1. Handles(t, x, Hands)
      BY <2>2 DEF Handles, Hands, Steps
    <3> QED
      BY <3>1 DEF DeadInv, PlaceInv, OnePlace, Handles, Hands, DLQSteps
  <2> QED
    BY <2>1, <2>2
<1>5. NeverCopied'
  BY DEF DeadInv, DeadParts, NeverCopied
<1>6. RenamesAFile'
  BY <1>4 DEF DeadInv, DeadParts, RenamesAFile, Handles
<1>7. \A id : OnOffer(id)' <=> OnOffer(id)
  BY DEF OnOffer, Queued, Lent
<1>8. \A u \in Threads, id \in DeadIds : ~Handles(u, id, Undecided)'
  <2>1. \A id \in DeadIds : id \in Ids /\ id # x
    BY <1>3 DEF DeadIds
  <2> QED
    BY <2>1 DEF DeadInv, DeadParts, DeadAreGone, Handles, Undecided, Hands, PushSteps, AckSteps, DLQSteps
<1>9. DeadAreGone'
  BY <1>1, <1>3, <1>7, <1>8 DEF DeadInv, DeadParts, DeadAreGone, DeadIds
<1> QED
  BY <1>2, <1>5, <1>6, <1>9 DEF DeadParts

\* The move: one more dead letter, one more call about to count it.
LEMMA DeadRename ==
    ASSUME ~CrossDevice, DeadInv, NEW t \in Threads, DLQRename(t)
    PROVE  DeadParts'
<1>1. /\ TypeOK /\ call[t].at = "renaming" /\ call[t].at \in Steps
      /\ UNCHANGED <<messages, pendingAcks, accepted, dlqSize>>
  BY DEF DLQRename, OnlyFiles, memory, settled, At, DeadInv, PlaceInv, Steps, DLQSteps
<1>2. PICK x \in Ids : call[t].id = x
  BY <1>1, OwnMessage
<1>3. /\ dead' = [dead EXCEPT ![x] = disk[x]] /\ disk' = [disk EXCEPT ![x] = Absent]
      /\ Continue(t, "counting")
  BY <1>2 DEF DLQRename
<1>4. /\ \A u \in Threads : u # t => call'[u] = call[u]
      /\ call'[t].at = "counting"
  BY <1>1, <1>3, OwnCall
<1>5. /\ dead'[x] = disk[x] /\ disk'[x] = Absent
      /\ \A id \in Ids : id # x => dead'[id] = dead[id] /\ disk'[id] = disk[id]
  BY <1>1, <1>3, OneFile DEF TypeOK
<1>6. /\ Handles(t, x, Undecided) /\ Handles(t, x, Hands) /\ Handles(t, x, {"renaming"})
      /\ Handles(t, x, Settling)
  BY <1>1, <1>2 DEF Handles, Undecided, Hands, Settling, DLQSteps
<1>7. disk[x] # Absent /\ x \notin DeadIds /\ x \in accepted /\ ~OnOffer(x)
  BY <1>6 DEF DeadInv, DeadParts, RenamesAFile, DeadAreGone, PlaceInv, Responsible, OnePlace, OnOffer, Lent
<1>8. DeadIds' = DeadIds \cup {x}
  BY <1>5, <1>7 DEF DeadIds
<1>9. Counting' = Counting \cup {t} /\ t \notin Counting
  BY <1>1, <1>4 DEF Counting, At
<1>10. Counted'
  <2>1. IsFiniteSet(DeadIds)
    BY IdsAssumption, FS_Subset DEF DeadIds
  <2>2. IsFiniteSet(Counting) /\ dlqSize + Cardinality(Counting) = Cardinality(DeadIds)
    BY DEF DeadInv, DeadParts, Counted
  <2>3. /\ IsFiniteSet(Counting \cup {t}) /\ Cardinality(Counting \cup {t}) = Cardinality(Counting) + 1
    BY <1>9, <2>2, FS_AddElement
  <2>4. Cardinality(DeadIds \cup {x}) = Cardinality(DeadIds) + 1
    BY <1>7, <2>1, FS_AddElement
  <2>5. Cardinality(Counting) \in Nat /\ Cardinality(DeadIds) \in Nat /\ dlqSize \in Nat
    BY <1>1, <2>1, <2>2, FS_CardinalityType DEF TypeOK
  <2>6. dlqSize + (Cardinality(Counting) + 1) = Cardinality(DeadIds) + 1
    BY <2>2, <2>5
  <2> QED
    BY <1>1, <1>8, <1>9, <2>3, <2>4, <2>6 DEF Counted
<1>11. NeverCopied'
  BY <1>4 DEF DeadInv, DeadParts, NeverCopied
<1>12. \A u \in Threads : u # t => ~Handles(u, x, Hands)
  BY <1>6 DEF DeadInv, PlaceInv, OnePlace
<1>13. RenamesAFile'
  <2>1. ASSUME NEW u \in Threads, NEW id \in Ids, Handles(u, id, {"renaming"})' PROVE disk'[id] # Absent
    <3>1. u # t /\ Handles(u, id, {"renaming"}) /\ Handles(u, id, Hands)
      BY <1>4, <2>1 DEF Handles, Hands, DLQSteps
    <3> QED
      BY <1>5, <1>12, <3>1 DEF DeadInv, DeadParts, RenamesAFile
  <2> QED
    BY <2>1 DEF RenamesAFile
<1>14. \A id : OnOffer(id)' <=> OnOffer(id)
  BY <1>1 DEF OnOffer, Queued, Lent
<1>15. \A u \in Threads : \A id : Handles(u, id, Undecided)' => u # t /\ Handles(u, id, Undecided)
  BY <1>4 DEF Handles, Undecided
<1>16. DeadAreGone'
  <2> SUFFICES ASSUME NEW id \in DeadIds \cup {x}
               PROVE  /\ disk'[id] = Absent /\ id \in accepted' /\ ~OnOffer(id)'
                      /\ \A u \in Threads : ~Handles(u, id, Undecided)'
    BY <1>8 DEF DeadAreGone
  <2>1. CASE id = x
    BY <1>1, <1>5, <1>7, <1>12, <1>14, <1>15, <2>1 DEF Handles, Undecided
  <2>2. CASE id # x
    BY <1>1, <1>5, <1>14, <1>15, <2>2 DEF DeadInv, DeadParts, DeadAreGone, DeadIds
  <2> QED
    BY <2>1, <2>2
<1> QED
  BY <1>10, <1>11, <1>13, <1>16 DEF DeadParts

\* The count catches up.
LEMMA DeadCount ==
    ASSUME DeadInv, NEW t \in Threads, DLQCount(t)
    PROVE  DeadParts'
<1>1. /\ TypeOK /\ call[t].at = "counting" /\ Return(t) /\ dlqSize' = dlqSize + 1
      /\ UNCHANGED <<messages, pendingAcks, accepted, disk, dead>>
  BY DEF DLQCount, memory, files, settled, At, DeadInv, PlaceInv
<1>2. (\A u \in Threads : u # t => call'[u] = call[u]) /\ call'[t].at = "idle"
  BY <1>1, OwnCall
<1>3. DeadIds' = DeadIds /\ Counting' = Counting \ {t} /\ t \in Counting
  BY <1>1, <1>2 DEF DeadIds, Counting, At
<1>4. Counted'
  <2>1. IsFiniteSet(Counting) /\ dlqSize + Cardinality(Counting) = Cardinality(DeadIds)
    BY DEF DeadInv, DeadParts, Counted
  <2>2. IsFiniteSet(Counting \ {t}) /\ Cardinality(Counting \ {t}) = Cardinality(Counting) - 1
    BY <1>3, <2>1, FS_RemoveElement
  <2>3. Cardinality(Counting) \in Nat /\ dlqSize \in Nat
    BY <1>1, <2>1, FS_CardinalityType DEF TypeOK
  <2>4. (dlqSize + 1) + (Cardinality(Counting) - 1) = Cardinality(DeadIds)
    BY <2>1, <2>3
  <2> QED
    BY <1>1, <1>3, <2>2, <2>4 DEF Counted
<1>5. NeverCopied' /\ RenamesAFile'
  BY <1>1, <1>2 DEF DeadInv, DeadParts, NeverCopied, RenamesAFile, Handles
<1>6. \A id : OnOffer(id)' <=> OnOffer(id)
  BY <1>1 DEF OnOffer, Queued, Lent
<1>7. \A u \in Threads, id \in DeadIds : ~Handles(u, id, Undecided)'
  BY <1>2 DEF DeadInv, DeadParts, DeadAreGone, Handles, Undecided, Hands, PushSteps, AckSteps, DLQSteps
<1>8. DeadAreGone'
  BY <1>1, <1>3, <1>6, <1>7 DEF DeadInv, DeadParts, DeadAreGone
<1> QED
  BY <1>4, <1>5, <1>8 DEF DeadParts

\* Memory brings no message back to the offer that was not there.
LEMMA HoldsOnOffer ==
    ASSUME PlaceInv, PlaceInv', \A m : Holds(m)' => Holds(m)
    PROVE  \A id : OnOffer(id)' => OnOffer(id)
<1>1. ASSUME NEW id, OnOffer(id)' PROVE \E m : Holds(m)' /\ m.id = id
  BY <1>1 DEF OnOffer, Queued, Lent, Holds, PlaceInv, OnePlace
<1>2. ASSUME NEW m, Holds(m) PROVE OnOffer(m.id)
  BY <1>2 DEF OnOffer, Queued, Lent, Holds, PlaceInv, OnePlace
<1> QED
  BY <1>1, <1>2

LEMMA DeadBegin ==
    ASSUME DeadInv, PlaceInv', NEW p \in Threads,
           \/ Pop(p)
           \/ \E id \in Ids : PushCheck(p, id) \/ NegativeAcknowledge(p, id)
                              \/ AckTake(p, id) \/ DLQTake(p, id)
    PROVE  DeadParts'
<1> USE DEF memory, files, settled, OnlyMemory
<1>1. /\ UNCHANGED <<disk, dead, dlqSize, accepted>>
      /\ call[p].at = "idle" /\ TypeOK
  BY DEF Pop, PushCheck, NegativeAcknowledge, AckTake, DLQTake, At, DeadInv, PlaceInv
<1>2. \A id : OnOffer(id)' => OnOffer(id)
  BY <1>1, BeginHolds, HoldsOnOffer DEF DeadInv
<1>3. /\ \A u \in Threads : u # p => call'[u] = call[u]
      /\ \/ call'[p].at = "reporting"
         \/ \E x \in Ids : /\ call'[p].at \in {"opening", "acking", "burying"} /\ call'[p].id = x
                           /\ x \notin accepted \/ OnOffer(x)
  <2>1. ASSUME NEW step \in {"opening", "acking", "burying"}, NEW x \in Ids, NEW m, NEW size,
               GoTo(p, step, m, size), m.id = x, x \notin accepted \/ OnOffer(x)
        PROVE  /\ \A u \in Threads : u # p => call'[u] = call[u]
               /\ call'[p].at \in {"opening", "acking", "burying"} /\ call'[p].id = x
               /\ x \notin accepted \/ OnOffer(x)
    BY <1>1, <2>1, OwnCall
  <2>2. ASSUME NEW x \in Ids, PushCheck(p, x) \/ AckTake(p, x) \/ DLQTake(p, x)
        PROVE  \E step \in {"opening", "acking", "burying"} : \E m, size :
                   GoTo(p, step, m, size) /\ m.id = x /\ (x \notin accepted \/ OnOffer(x))
    <3>1. [id |-> x, rc |-> 0].id = x
      OBVIOUS
    <3>2. CASE PushCheck(p, x)
      BY <3>1, <3>2 DEF PushCheck, Fresh
    <3>3. CASE AckTake(p, x)
      BY <3>1, <3>3 DEF AckTake, OnOffer, Lent
    <3>4. CASE DLQTake(p, x)
      BY <3>4 DEF DLQTake, First, OnOffer, Queued
    <3> QED
      BY <2>2, <3>2, <3>3, <3>4
  <2>3. ASSUME NEW x \in Ids, PushCheck(p, x) \/ AckTake(p, x) \/ DLQTake(p, x)
        PROVE  /\ \A u \in Threads : u # p => call'[u] = call[u]
               /\ call'[p].at \in {"opening", "acking", "burying"} /\ call'[p].id = x
               /\ x \notin accepted \/ OnOffer(x)
    BY <2>1, <2>2, <2>3
  <2>4. CASE Pop(p) \/ \E x \in Ids : NegativeAcknowledge(p, x)
    BY <1>1, <2>4, OwnCall DEF Pop, NegativeAcknowledge
  <2> QED
    BY <2>3, <2>4
<1>4. \A id \in DeadIds : ~OnOffer(id)' /\ ~Handles(p, id, Undecided)'
  BY <1>2, <1>3 DEF DeadInv, DeadParts, DeadAreGone, Handles, Undecided, Hands, PushSteps, AckSteps, DLQSteps
<1> QED
  BY <1>1, <1>3, <1>4, DeadVisit

LEMMA DeadUpdateMemory ==
    ASSUME DeadInv, PlaceInv', NEW p \in Threads, NEW m \in Message, UpdateMemory(p, m)
    PROVE  DeadParts'
<1>1. PICK k \in DOMAIN messages :
          messages[k].id = m.id /\ messages' = [messages EXCEPT ![k] = m]
  BY DEF UpdateMemory, First
<1>2. PICK x \in Ids : m.id = x
  BY DEF Message
<1>3. /\ TypeOK /\ call[p].at = "idle" /\ disk \in [Ids -> File]
      /\ UNCHANGED <<pendingAcks, dead, dlqSize, accepted>>
      /\ disk' = disk \/ disk' = [disk EXCEPT ![x] = Torn]
      /\ call' = call \/ GoTo(p, "rewriting", m, 0)
  BY <1>2 DEF UpdateMemory, settled, At, DeadInv, PlaceInv, TypeOK
<1>4. (\A id : OnOffer(id)' <=> OnOffer(id)) /\ OnOffer(x)
  <2>1. /\ DOMAIN messages' = DOMAIN messages
        /\ \A i \in DOMAIN messages : messages'[i].id = messages[i].id
    BY <1>1, <1>3 DEF TypeOK
  <2> QED
    BY <1>1, <1>2, <1>3, <2>1 DEF OnOffer, Queued, Lent
<1>5. /\ \A u \in Threads : u # p => call'[u] = call[u]
      /\ call'[p].at \in {"idle", "rewriting"}
  BY <1>3, OwnCall
<1>6. \A id \in Ids : id # x => disk'[id] = disk[id]
  BY <1>3, OneFile
<1>7. \A u \in Threads : \A id : /\ Handles(u, id, Undecided)' => Handles(u, id, Undecided)
                                 /\ Handles(u, id, {"renaming"})' => Handles(u, id, {"renaming"})
  BY <1>5 DEF Handles, Undecided, Hands, PushSteps, AckSteps, DLQSteps
<1>8. DeadIds' = DeadIds /\ Counting' = Counting /\ x \notin DeadIds
  BY <1>3, <1>4, <1>5 DEF DeadIds, Counting, At, DeadInv, DeadParts, DeadAreGone
<1>9. \A u \in Threads : ~Handles(u, x, {"renaming"})
  BY <1>4 DEF DeadInv, PlaceInv, OnePlace, OnOffer, Lent, Handles, Hands, DLQSteps
<1>10. Counted' /\ NeverCopied'
  BY <1>3, <1>5, <1>8 DEF DeadInv, DeadParts, Counted, NeverCopied
<1>11. RenamesAFile'
  BY <1>6, <1>7, <1>9 DEF DeadInv, DeadParts, RenamesAFile
<1>12. DeadAreGone'
  BY <1>3, <1>4, <1>6, <1>7, <1>8 DEF DeadInv, DeadParts, DeadAreGone, DeadIds
<1> QED
  BY <1>10, <1>11, <1>12 DEF DeadParts

LEMMA DeadTimeouts ==
    ASSUME DeadInv, CheckTimeouts
    PROVE  DeadParts'
<1>1. /\ UNCHANGED <<disk, dead, dlqSize, accepted>>
      /\ Checker \in Threads /\ call[Checker].at = "idle"
  BY DEF CheckTimeouts, OnlyMemory, files, settled, At, Threads
<1>2. (\A u \in Threads : u # Checker => call'[u] = call[u]) /\ call'[Checker].at = "reporting"
  BY <1>1, OwnCall DEF CheckTimeouts, DeadInv, PlaceInv
<1>3. \A id \in DeadIds : ~OnOffer(id)'
  BY TimeoutsQueued DEF DeadInv, DeadParts, DeadAreGone, DeadIds, OnOffer
<1>4. \A id : ~Handles(Checker, id, Undecided)'
  BY <1>2 DEF Handles, Undecided, Hands, PushSteps, AckSteps, DLQSteps
<1> QED
  BY <1>1, <1>2, <1>3, <1>4, DeadVisit

\* The steps of a call that touch no file, but for the count.
LEMMA DeadProceed ==
    ASSUME DeadInv, NEW t \in Threads,
           PushAppend(t) \/ PushAnnounce(t) \/ FinishReport(t) \/ AckReport(t) \/ DLQReport(t)
    PROVE  DeadParts'
<1> USE DEF memory, files, settled, OnlySignals
<1>1. /\ UNCHANGED <<disk, dead, dlqSize, pendingAcks>> /\ TypeOK /\ accepted \subseteq accepted'
      /\ call[t].at \in {"appending", "announcing", "reporting", "acking", "burying"}
  BY DEF PushAppend, PushAnnounce, FinishReport, AckReport, DLQReport, At, DeadInv, PlaceInv
<1>2. /\ \A u \in Threads : u # t => call'[u] = call[u]
      /\ \/ call'[t].at \in {"announcing", "idle"}
         \/ /\ call[t].at \in {"acking", "burying"}
            /\ call'[t].at \in {"unlinking", "truncating"} /\ call'[t].id = call[t].id
  <2>1. call[t].at = "reporting" \/ call[t].at \in Steps
    BY <1>1 DEF Steps, PushSteps, AckSteps, DLQSteps
  <2> QED
    BY <1>1, <2>1, OwnCall DEF PushAppend, PushAnnounce, FinishReport, AckReport, DLQReport, At
<1>3. \A id \in DeadIds : ~Handles(t, id, Undecided)'
  <2>1. \A id : Handles(t, id, Undecided)' => Handles(t, id, Undecided)
    BY <1>2 DEF Handles, Undecided, Hands, PushSteps, AckSteps, DLQSteps
  <2> QED
    BY <2>1 DEF DeadInv, DeadParts, DeadAreGone
<1>4. \A id \in DeadIds : ~OnOffer(id)'
  <2>1. CASE PushAppend(t)
    <3>1. messages \in Seq(Message) /\ messages' = Append(messages, Msg(t)) /\ Msg(t).id = call[t].id
      BY <1>1, <2>1 DEF PushAppend, TypeOK, Msg
    <3>2. \A i \in DOMAIN messages' : messages'[i] = Msg(t) \/ \E j \in DOMAIN messages : messages'[i] = messages[j]
      BY <3>1
    <3>3. \A id : OnOffer(id)' => OnOffer(id) \/ id = call[t].id
      BY <1>1, <3>1, <3>2 DEF OnOffer, Queued, Lent
    <3>4. \A id : id = call[t].id => Handles(t, id, Undecided)
      BY <2>1 DEF PushAppend, At, Handles, Undecided, Hands, PushSteps
    <3> QED
      BY <3>3, <3>4 DEF DeadInv, DeadParts, DeadAreGone
  <2>2. CASE UNCHANGED messages
    BY <1>1, <2>2 DEF OnOffer, Queued, Lent, DeadInv, DeadParts, DeadAreGone
  <2> QED
    BY <2>1, <2>2 DEF PushAnnounce, FinishReport, AckReport, DLQReport
<1> QED
  BY <1>1, <1>2, <1>3, <1>4, DeadVisit

\* The file operations before the move.
LEMMA DeadFiles ==
    ASSUME ~CrossDevice, DeadInv, NEW t \in Threads,
           \/ PushOpen(t) \/ PushWrite(t) \/ AckUnlink(t) \/ UpdateWrite(t)
           \/ DLQTruncate(t) \/ DLQSave(t) \/ DLQCopy(t) \/ DLQRemove(t)
    PROVE  DeadParts'
<1> USE DEF memory, files, settled, OnlyFiles
<1>1. ~DLQCopy(t) /\ ~DLQRemove(t)
  BY DEF DeadInv, DeadParts, NeverCopied, DLQCopy, DLQRemove, At
<1>2. /\ TypeOK /\ UNCHANGED <<messages, pendingAcks, accepted, dead, dlqSize>> /\ disk \in [Ids -> File]
      /\ call[t].at \in Steps \ {"announcing", "counting"}
  BY <1>1 DEF PushOpen, PushWrite, AckUnlink, UpdateWrite, DLQTruncate, DLQSave, At, DeadInv, PlaceInv,
              TypeOK, Steps, PushSteps, AckSteps, DLQSteps
<1>3. PICK x \in Ids : call[t].id = x /\ Msg(t) \in [id : {x}, rc : 0..MaxRetries]
  BY <1>2, OwnMessage
<1>4. \/ Return(t)
      \/ \E step \in {"writing", "appending", "saving"} : Continue(t, step)
      \/ DLQSave(t) /\ Continue(t, "renaming")
  BY <1>1 DEF PushOpen, Truncate, PushWrite, AckUnlink, UpdateWrite, DLQTruncate, DLQSave
<1>5. /\ \A u \in Threads : u # t => call'[u] = call[u]
      /\ call'[t].at \notin {"copying", "removing", "counting"}
      /\ call'[t].at = "idle" \/ call'[t].id = x
      /\ call'[t].at = "renaming" => DLQSave(t)
  BY <1>2, <1>3, <1>4, OwnCall
<1>6. disk' = disk \/ \E c : disk' = [disk EXCEPT ![x] = c]
  BY <1>1, <1>3 DEF PushOpen, Truncate, PushWrite, AckUnlink, UpdateWrite, DLQTruncate, DLQSave, WriteFails
<1>7. \A id \in Ids : id # x => disk'[id] = disk[id]
  BY <1>2, <1>6, OneFile
<1>8. ASSUME DLQSave(t) PROVE disk'[x] # Absent
  <2>1. \E c \in {Msg(t), Torn} : disk' = [disk EXCEPT ![x] = c]
    BY <1>3, <1>8 DEF DLQSave, WriteFails
  <2>2. Msg(t) # Absent /\ Torn # Absent
    BY <1>3, FileAssumption DEF Message
  <2> QED
    BY <1>2, <2>1, <2>2
<1> QED
  BY <1>2, <1>3, <1>5, <1>7, <1>8, DeadFile

\* The new process counts what it finds.
LEMMA DeadRestart ==
    ASSUME DeadInv, Restart
    PROVE  DeadParts'
<1>1. dlqSize' = Cardinality(DeadIds) /\ DeadIds' = DeadIds
  <2>1. dlqSize' = Cardinality({id \in Ids : dead[id] # Absent})
    BY Zenon DEF Restart
  <2> QED
    BY <2>1, RestartQueue DEF DeadIds
<1>2. Counting' = {}
  BY RestartQueue DEF Counting, At
<1>3. Cardinality(DeadIds) \in Nat
  BY IdsAssumption, FS_Subset, FS_CardinalityType DEF DeadIds
<1>4. Counted'
  BY <1>1, <1>2, <1>3, FS_EmptySet DEF Counted
<1>5. NeverCopied' /\ RenamesAFile'
  BY RestartQueue DEF NeverCopied, RenamesAFile, Handles
<1>6. \A id \in DeadIds : ~Readable(disk, id)
  <2>1. \A id \in Ids : Absent \notin [id : {id}, rc : 0..MaxRetries]
    BY FileAssumption DEF Message
  <2> QED
    BY <2>1 DEF Readable, DeadInv, DeadParts, DeadAreGone, DeadIds
<1>7. DeadAreGone'
  BY <1>1, <1>6, RestartQueue
     DEF DeadInv, DeadParts, DeadAreGone, OnOffer, Handles, Undecided, Hands, PushSteps, AckSteps, DLQSteps
<1> QED
  BY <1>4, <1>5, <1>7 DEF DeadParts

LEMMA DeadOthers ==
    ASSUME DeadInv, UNCHANGED <<messages, pendingAcks, call, disk, dead, dlqSize, accepted>>
    PROVE  DeadParts'
<1>1. DeadIds' = DeadIds /\ Counting' = Counting
  BY DEF DeadIds, Counting, At
<1>2. \A id : OnOffer(id)' <=> OnOffer(id)
  BY DEF OnOffer, Queued, Lent
<1>3. \A t, id, steps : Handles(t, id, steps)' <=> Handles(t, id, steps)
  BY DEF Handles
<1>4. DeadAreGone' /\ RenamesAFile'
  BY <1>1, <1>2, <1>3 DEF DeadInv, DeadParts, DeadAreGone, RenamesAFile, Undecided, Hands
<1> QED
  BY <1>1, <1>4 DEF DeadInv, DeadParts, NeverCopied, Counted

LEMMA DeadNext == ASSUME ~CrossDevice PROVE DeadInv /\ [Next]_vars => DeadInv'
<1> SUFFICES ASSUME DeadInv, [Next]_vars PROVE DeadInv'
  OBVIOUS
<1> USE DEF memory, files, settled, OnlyMemory
<1>1. PlaceInv'
  BY PlaceNext DEF DeadInv
<1> SUFFICES DeadParts'
  BY <1>1 DEF DeadInv
<1>2. ASSUME NEW p \in Procs, Begin(p) PROVE DeadParts'
  <2>1. p \in Threads
    BY DEF Threads
  <2> QED
    BY <1>1, <1>2, <2>1, DeadBegin, DeadUpdateMemory DEF Begin
<1>3. ASSUME NEW t \in Threads, Proceed(t) PROVE DeadParts'
  BY <1>3, DeadProceed, DeadFiles, DeadRename, DeadCount DEF Proceed
<1>4. CASE CheckTimeouts
  BY <1>4, DeadTimeouts
<1>5. CASE Restart
  BY <1>5, DeadRestart
<1>6. CASE UNCHANGED vars
  BY <1>6, DeadOthers DEF vars
<1>7. ASSUME NEW id \in Ids, Age(id) PROVE DeadParts'
  BY <1>7, DeadOthers DEF Age
<1>8. ASSUME NEW l, Subscribe(l) \/ ReceiveSignal(l) \/ ReceiveMessage(l) PROVE DeadParts'
  BY <1>8, DeadOthers DEF Subscribe, ReceiveSignal, ReceiveMessage
<1>9. CASE SetStoragePath
  BY <1>9, DeadOthers DEF SetStoragePath
<1> QED
  BY <1>2, <1>3, <1>4, <1>5, <1>6, <1>7, <1>8, <1>9 DEF Next

\* Where the dead-letter directory is on the same device, the broker's count of
\* dead letters is the number of files there, short only of the moves about to
\* be counted: no message is counted twice, none is missed, and a restart agrees
\* with the count it replaces (broker.go:130-137, 263-283).
THEOREM DLQSizeHonest == Spec => []DLQSizeIsHonest
<1>1. CASE CrossDevice
  <2>1. DLQSizeIsHonest
    BY <1>1 DEF DLQSizeIsHonest
  <2> QED
    BY <2>1, PTL
<1>2. CASE ~CrossDevice
  <2>1. DeadInv /\ [Next]_vars => DeadInv'
    BY <1>2, DeadNext
  <2>2. DeadInv => DLQSizeIsHonest
    BY DEF DeadInv, DeadParts, Counted, Counting, DeadIds, DLQSizeIsHonest
  <2> QED
    BY <2>1, <2>2, DeadInit, PTL DEF Spec
<1> QED
  BY <1>1, <1>2
=============================================================================
