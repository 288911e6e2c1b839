-------------------------- MODULE BrokerDiskProofs --------------------------
(***************************************************************************)
(* What the broker's files are worth: for any set of ids, any number of    *)
(* threads and of restarts.                                                *)
(*                                                                         *)
(* Durable says that a message can be read from somewhere.  To keep it so, *)
(* a step has to know where: a message that is queued or lent, or that a   *)
(* call is settling, has a complete file in the storage directory, except  *)
(* while that file is rewritten; and the file is only removed when there   *)
(* is a complete one among the dead letters.                               *)
(***************************************************************************)
EXTENDS BrokerProofs

\* The steps of a call at which its message has a complete file.
Filed == {"appending", "acking", "unlinking", "burying", "truncating",
          "renaming", "copying", "removing"}

Updating(t, id) == Handles(t, id, {"rewriting"})

HasFile ==
    /\ \A id \in Ids : Queued(id) \/ Lent(id) =>
           Readable(disk, id) \/ \E t \in Threads : Updating(t, id)
    /\ \A t \in Threads, id \in Ids :
           /\ Handles(t, id, Filed) => Readable(disk, id)
           /\ Handles(t, id, {"removing", "counting"}) => Readable(dead, id)

DiskInv == PlaceInv /\ HasFile /\ Durable

\* The files that are rewritten are written completely.
SoundRewrites == Faults \subseteq {"bad path"}

LEMMA DiskInit == Init => DiskInv
<1> SUFFICES ASSUME Init PROVE DiskInv
  OBVIOUS
<1>1. PlaceInv
  BY PlaceInit
<1>2. \A t \in Threads : call[t].at = "idle"
  BY DEF Init, Idle
<1>3. DOMAIN messages = {} /\ DOMAIN pendingAcks = {} /\ accepted = {}
  BY DEF Init
<1>4. HasFile
  BY <1>2, <1>3 DEF HasFile, Queued, Lent, Handles, Filed
<1> QED
  BY <1>1, <1>3, <1>4 DEF DiskInv, Durable

\* A visit to memory: thread t moves on, and whatever is new in the queue, in
\* the hands of t or among the accepted messages has its file.
LEMMA DiskVisit ==
    ASSUME DiskInv, NEW t \in Threads,
           UNCHANGED <<disk, dead, done>>,
           \A u \in Threads : u # t => call'[u] = call[u],
           call[t].at \notin {"rewriting", "saving"},
           \A id \in Ids : /\ Queued(id)' \/ Lent(id)' => Queued(id) \/ Lent(id) \/ Readable(disk, id)
                           /\ Handles(t, id, Filed)' => Readable(disk, id)
                           /\ Handles(t, id, {"removing", "counting"})' => Readable(dead, id)
                           /\ id \in accepted' => id \in accepted \/ Readable(disk, id),
           accepted' \subseteq Ids
    PROVE  HasFile' /\ Durable'
<1>1. \A id \in Ids : /\ Readable(disk, id)' <=> Readable(disk, id)
                      /\ Readable(dead, id)' <=> Readable(dead, id)
  BY DEF Readable
<1>2. \A u \in Threads, id \in Ids :
          /\ Updating(u, id) => Updating(u, id)'
          /\ Rewriting(u, id) => Rewriting(u, id)'
  BY DEF Updating, Rewriting, Handles
<1>3. \A u \in Threads, id \in Ids : u # t =>
          /\ Handles(u, id, Filed)' => Handles(u, id, Filed)
          /\ Handles(u, id, {"removing", "counting"})' => Handles(u, id, {"removing", "counting"})
  BY DEF Handles
<1>4. HasFile'
  <2>1. ASSUME NEW id \in Ids, Queued(id)' \/ Lent(id)'
        PROVE  Readable(disk, id)' \/ \E u \in Threads : Updating(u, id)'
    BY <1>1, <1>2, <2>1 DEF DiskInv, HasFile
  <2>2. ASSUME NEW u \in Threads, NEW id \in Ids
        PROVE  /\ Handles(u, id, Filed)' => Readable(disk, id)'
               /\ Handles(u, id, {"removing", "counting"})' => Readable(dead, id)'
    BY <1>1, <1>3 DEF DiskInv, HasFile
  <2> QED
    BY <2>1, <2>2 DEF HasFile
<1>5. Durable'
  <2> SUFFICES ASSUME NEW id \in accepted' \ done'
               PROVE  Readable(disk, id)' \/ Readable(dead, id)' \/ \E u \in Threads : Rewriting(u, id)'
    BY DEF Durable
  <2>1. id \in Ids /\ id \notin done
    OBVIOUS
  <2> QED
    BY <1>1, <1>2, <2>1 DEF DiskInv, Durable
<1> QED
  BY <1>4, <1>5

\* A file operation: thread t changes the files of its message, x.
LEMMA DiskChange ==
    ASSUME DiskInv, NEW t \in Threads, NEW x \in Ids,
           call[t].at \in Steps \ {"announcing"}, call[t].id = x,
           UNCHANGED <<messages, pendingAcks, accepted>>,
           \A u \in Threads : u # t => call'[u] = call[u],
           call'[t].at = "idle" \/ (call'[t].at \in Steps /\ call'[t].id = x),
           \A id \in Ids : id # x => /\ disk'[id] = disk[id] /\ dead'[id] = dead[id]
                                     /\ id \in done' <=> id \in done,
           Handles(t, x, Filed)' => Readable(disk, x)',
           Handles(t, x, {"removing", "counting"})' => Readable(dead, x)',
           x \in accepted \ done' => \/ Readable(disk, x)' \/ Readable(dead, x)'
                                     \/ Rewriting(t, x)',
           Queued(x) \/ Lent(x) => Readable(disk, x)'
    PROVE  HasFile' /\ Durable'
<1>1. \A id \in Ids : id # x => /\ Readable(disk, id)' <=> Readable(disk, id)
                                /\ Readable(dead, id)' <=> Readable(dead, id)
  BY DEF Readable
<1>2. \A u \in Threads, id \in Ids : id # x =>
          /\ Updating(u, id) => Updating(u, id)'
          /\ Rewriting(u, id) => Rewriting(u, id)'
          /\ Handles(u, id, Filed)' => Handles(u, id, Filed)
          /\ Handles(u, id, {"removing", "counting"})' => Handles(u, id, {"removing", "counting"})
  BY DEF Updating, Rewriting, Handles, Filed
<1>3. \A u \in Threads : u # t => ~Handles(u, x, Filed)' /\ ~Handles(u, x, {"removing", "counting"})'
  <2>1. CASE call[t].at = "rewriting"
    <3>1. Queued(x)
      BY <2>1 DEF DiskInv, PlaceInv, UpdateKeepsLock, At
    <3>2. \A u \in Threads : ~Handles(u, x, Hands)
      BY <3>1 DEF DiskInv, PlaceInv, OnePlace
    <3> QED
      BY <3>2 DEF Handles, Hands, Filed, PushSteps, AckSteps, DLQSteps
  <2>2. CASE call[t].at # "rewriting"
    <3>1. Handles(t, x, Hands)
      BY <2>2 DEF Handles, Hands, Steps
    <3>2. \A u \in Threads : u # t => ~Handles(u, x, Hands)
      BY <3>1 DEF DiskInv, PlaceInv, OnePlace
    <3> QED
      BY <3>2 DEF Handles, Hands, Filed, PushSteps, AckSteps, DLQSteps
  <2> QED
    BY <2>1, <2>2
<1>4. \A id : /\ Queued(id)' <=> Queued(id)
              /\ Lent(id)' <=> Lent(id)
  BY DEF Queued, Lent
<1>5. HasFile'
  <2>1. ASSUME NEW id \in Ids, Queued(id)' \/ Lent(id)'
        PROVE  Readable(disk, id)' \/ \E u \in Threads : Updating(u, id)'
    BY <1>1, <1>2, <1>4, <2>1 DEF DiskInv, HasFile
  <2>2. ASSUME NEW u \in Threads, NEW id \in Ids
        PROVE  /\ Handles(u, id, Filed)' => Readable(disk, id)'
               /\ Handles(u, id, {"removing", "counting"})' => Readable(dead, id)'
    BY <1>1, <1>2, <1>3 DEF DiskInv, HasFile
  <2> QED
    BY <2>1, <2>2 DEF HasFile
<1>6. Durable'
  <2> SUFFICES ASSUME NEW id \in accepted' \ done'
               PROVE  Readable(disk, id)' \/ Readable(dead, id)' \/ \E u \in Threads : Rewriting(u, id)'
    BY DEF Durable
  <2>1. id \in Ids
    BY DEF DiskInv, PlaceInv, TypeOK
  <2> QED
    BY <1>1, <1>2, <2>1 DEF DiskInv, Durable
<1> QED
  BY <1>5, <1>6

\* With b.mu free no file of a queued or lent message is being rewritten.
LEMMA UnlockedFile ==
    ASSUME DiskInv, Unlocked, NEW id \in Ids, Queued(id) \/ Lent(id)
    PROVE  Readable(disk, id)
BY DEF DiskInv, HasFile, Updating, Handles, Unlocked, At

\* The visits to memory that begin a call.
LEMMA DiskBegin ==
    ASSUME DiskInv, TypeOK', NEW p \in Threads,
           \/ Pop(p)
           \/ \E id \in Ids : PushCheck(p, id) \/ NegativeAcknowledge(p, id)
                              \/ AckTake(p, id) \/ DLQTake(p, id)
    PROVE  HasFile' /\ Durable'
<1> USE DEF memory, files, settled, OnlyMemory
<1>1. /\ UNCHANGED <<disk, dead, done, accepted>> /\ Unlocked
      /\ call[p].at \notin {"rewriting", "saving"}
  BY DEF Pop, PushCheck, NegativeAcknowledge, AckTake, DLQTake, At
<1>2. TypeOK /\ accepted \subseteq Ids
  BY DEF DiskInv, PlaceInv, TypeOK
<1>3. CASE Pop(p)
  <2>1. /\ messages \in Seq(Message) /\ messages # <<>>
        /\ messages' = Tail(messages)
        /\ DOMAIN pendingAcks' = DOMAIN pendingAcks \cup {Head(messages).id}
    BY <1>2, <1>3 DEF Pop, TypeOK
  <2>2. \A id \in Ids : Queued(id)' \/ Lent(id)' => Queued(id) \/ Lent(id)
    BY <2>1 DEF Queued, Lent
  <2>3. (\A u \in Threads : u # p => call'[u] = call[u]) /\ call'[p].at = "reporting"
    BY <1>2, <1>3, OwnCall DEF Pop
  <2> QED
    BY <1>1, <1>2, <2>2, <2>3, DiskVisit DEF Handles, Filed
<1>4. ASSUME NEW x \in Ids, PushCheck(p, x) PROVE HasFile' /\ Durable'
  <2>1. (\A u \in Threads : u # p => call'[u] = call[u]) /\ call'[p].at = "opening"
    BY <1>2, <1>4, OwnCall DEF PushCheck
  <2>2. \A id \in Ids : Queued(id)' \/ Lent(id)' => Queued(id) \/ Lent(id)
    BY <1>4 DEF PushCheck, Queued, Lent
  <2> QED
    BY <1>1, <1>2, <2>1, <2>2, DiskVisit DEF Handles, Filed
<1>5. ASSUME NEW x \in Ids, NegativeAcknowledge(p, x) PROVE HasFile' /\ Durable'
  <2>1. (\A u \in Threads : u # p => call'[u] = call[u]) /\ call'[p].at = "reporting"
    BY <1>2, <1>5, OwnCall DEF NegativeAcknowledge
  <2>2. /\ messages \in Seq(Message) /\ x \in DOMAIN pendingAcks /\ pendingAcks[x] \in Message
        /\ messages' = <<pendingAcks[x]>> \o messages
        /\ DOMAIN pendingAcks' = DOMAIN pendingAcks \ {x}
        /\ pendingAcks[x].id = x
    BY <1>2, <1>5 DEF NegativeAcknowledge, TakeBack, TypeOK, DiskInv, PlaceInv, OnePlace
  <2>3. \A i \in DOMAIN messages' : messages'[i] = pendingAcks[x] \/ \E j \in DOMAIN messages : messages'[i] = messages[j]
    BY <2>2
  <2>4. \A id \in Ids : Queued(id)' \/ Lent(id)' => Queued(id) \/ Lent(id)
    BY <2>2, <2>3 DEF Queued, Lent
  <2> QED
    BY <1>1, <1>2, <2>1, <2>4, DiskVisit DEF Handles, Filed
<1>6. ASSUME NEW x \in Ids, AckTake(p, x) PROVE HasFile' /\ Durable'
  <2>1. /\ \A u \in Threads : u # p => call'[u] = call[u]
        /\ call'[p].at = "acking" /\ call'[p].id = x
    <3>1. GoTo(p, "acking", [id |-> x, rc |-> 0], Len(messages')) /\ [id |-> x, rc |-> 0].id = x
      BY <1>6 DEF AckTake
    <3> QED
      BY <1>2, <3>1, OwnCall
  <2>2. \A id \in Ids : Queued(id)' \/ Lent(id)' => Queued(id) \/ Lent(id)
    BY <1>2, <1>6, RemoveAllQueued DEF AckTake, TakeBack, Queued, Lent
  <2>3. Readable(disk, x)
    BY <1>1, <1>6, UnlockedFile DEF AckTake, Lent
  <2> QED
    BY <1>1, <1>2, <2>1, <2>2, <2>3, DiskVisit DEF Handles, Filed
<1>7. ASSUME NEW x \in Ids, DLQTake(p, x) PROVE HasFile' /\ Durable'
  <2>1. PICK i \in DOMAIN messages :
            messages[i].id = x /\ GoTo(p, "burying", messages[i], Len(messages'))
    BY <1>7 DEF DLQTake, First
  <2>2. /\ \A u \in Threads : u # p => call'[u] = call[u]
        /\ call'[p].at = "burying" /\ call'[p].id = x
    BY <1>2, <2>1, OwnCall
  <2>3. \A id \in Ids : Queued(id)' \/ Lent(id)' => Queued(id) \/ Lent(id)
    BY <1>2, <1>7, RemoveAllQueued DEF DLQTake, Lent
  <2>4. Readable(disk, x)
    BY <1>1, <2>1, UnlockedFile DEF Queued
  <2> QED
    BY <1>1, <1>2, <2>2, <2>3, <2>4, DiskVisit DEF Handles, Filed
<1> QED
  BY <1>3, <1>4, <1>5, <1>6, <1>7

\* What the queue and the loans hold after overdue messages were returned.
LEMMA TimeoutsQueued ==
    ASSUME PlaceInv, CheckTimeouts
    PROVE  \A id \in Ids : Queued(id)' \/ Lent(id)' <=> Queued(id) \/ Lent(id)
<1>1. TypeOK /\ IsFiniteSet(late) /\ late \subseteq DOMAIN pendingAcks
  BY IdsAssumption, FS_Subset DEF PlaceInv, TypeOK
<1>2. PICK f \in Bijection(1..Cardinality(late), late) :
          messages' = [i \in DOMAIN f |-> pendingAcks[f[i]]] \o messages
  BY DEF CheckTimeouts
<1> DEFINE front == [i \in DOMAIN f |-> pendingAcks[f[i]]]
<1>3. front \in Seq(Message) /\ DOMAIN f = 1..Cardinality(late) /\ Cardinality(late) \in Nat
  <2>1. \A id \in late : pendingAcks[id] \in Message
    BY <1>1 DEF TypeOK
  <2> QED
    BY <1>1, <2>1, EnumerationType
<1>4. /\ \A i \in DOMAIN f : f[i] \in late
      /\ \A id \in late : \E i \in DOMAIN f : f[i] = id
  BY <1>3 DEF Bijection, Injection, Surjection
<1>5. \A id \in late : pendingAcks[id].id = id
  BY <1>1 DEF PlaceInv, OnePlace
<1>6. /\ \A i \in DOMAIN front : front[i].id \in late
      /\ \A id \in late : \E i \in DOMAIN front : front[i].id = id
  BY <1>4, <1>5
<1> HIDE DEF front
<1>7. messages \in Seq(Message) /\ messages' = front \o messages
  BY <1>1, <1>2 DEF TypeOK, front
<1>8. \A id : Queued(id)' <=> Queued(id) \/ \E i \in DOMAIN front : front[i].id = id
  <2>1. DOMAIN messages' = 1..(Len(front) + Len(messages)) /\ Len(front) \in Nat /\ Len(messages) \in Nat
        /\ DOMAIN front = 1..Len(front) /\ DOMAIN messages = 1..Len(messages)
    BY <1>3, <1>7 DEF front
  <2>2. \A i \in DOMAIN front : i \in DOMAIN messages' /\ messages'[i] = front[i]
    BY <1>3, <1>7, <2>1 DEF front
  <2>3. \A i \in DOMAIN messages : Len(front) + i \in DOMAIN messages' /\ messages'[Len(front) + i] = messages[i]
    BY <1>3, <1>7, <2>1 DEF front
  <2>4. \A i \in DOMAIN messages' : i \in DOMAIN front \/ \E j \in DOMAIN messages : i = Len(front) + j
    <3> SUFFICES ASSUME NEW i \in DOMAIN messages', i \notin DOMAIN front
                 PROVE  \E j \in DOMAIN messages : i = Len(front) + j
      OBVIOUS
    <3>1. i - Len(front) \in DOMAIN messages /\ i = Len(front) + (i - Len(front))
      BY <2>1
    <3> QED
      BY <3>1
  <2> QED
    BY <2>2, <2>3, <2>4 DEF Queued
<1>9. \A id : Lent(id)' <=> Lent(id) /\ id \notin late
  BY DEF CheckTimeouts, TakeBack, Lent
<1> QED
  BY <1>1, <1>6, <1>8, <1>9 DEF Lent

LEMMA DiskTimeouts ==
    ASSUME DiskInv, CheckTimeouts
    PROVE  HasFile' /\ Durable'
<1>1. /\ UNCHANGED <<disk, dead, done, accepted>>
      /\ Checker \in Threads /\ call[Checker].at = "idle"
  BY DEF CheckTimeouts, OnlyMemory, files, settled, At, Threads
<1>2. (\A u \in Threads : u # Checker => call'[u] = call[u]) /\ call'[Checker].at = "reporting"
  BY <1>1, OwnCall DEF CheckTimeouts, DiskInv, PlaceInv
<1>3. \A id \in Ids : Queued(id)' \/ Lent(id)' => Queued(id) \/ Lent(id)
  BY TimeoutsQueued DEF DiskInv
<1>4. accepted \subseteq Ids
  BY DEF DiskInv, PlaceInv, TypeOK
<1> QED
  BY <1>1, <1>2, <1>3, <1>4, DiskVisit DEF Handles, Filed

\* The steps of a call that touch no file.
LEMMA DiskProceed ==
    ASSUME DiskInv, TypeOK', NEW t \in Threads,
           \/ PushAppend(t) \/ PushAnnounce(t) \/ FinishReport(t)
           \/ AckReport(t) \/ DLQReport(t) \/ DLQCount(t)
    PROVE  HasFile' /\ Durable'
<1> USE DEF memory, files, settled, OnlySignals
<1>1. /\ UNCHANGED <<disk, dead, done>>
      /\ call[t].at \notin {"rewriting", "saving"}
      /\ TypeOK
  BY DEF PushAppend, PushAnnounce, FinishReport, AckReport, DLQReport, DLQCount, At, DiskInv, PlaceInv
<1>2. accepted' \subseteq Ids
  BY DEF TypeOK
<1>3. CASE PushAnnounce(t) \/ FinishReport(t) \/ DLQCount(t)
  <2>1. UNCHANGED <<messages, pendingAcks, accepted>> /\ Return(t)
    BY <1>3 DEF PushAnnounce, FinishReport, DLQCount
  <2>2. (\A u \in Threads : u # t => call'[u] = call[u]) /\ call'[t].at = "idle"
    BY <1>1, <2>1, OwnCall
  <2>3. \A id \in Ids : Queued(id)' \/ Lent(id)' => Queued(id) \/ Lent(id)
    BY <2>1 DEF Queued, Lent
  <2> QED
    BY <1>1, <1>2, <2>1, <2>2, <2>3, DiskVisit DEF Handles, Filed
<1>4. CASE AckReport(t) \/ DLQReport(t)
  <2>1. /\ UNCHANGED <<messages, pendingAcks, accepted>>
        /\ call[t].at \in Filed /\ \E step \in {"unlinking", "truncating"} : Continue(t, step)
    BY <1>4 DEF AckReport, DLQReport, At, Filed
  <2>2. /\ \A u \in Threads : u # t => call'[u] = call[u]
        /\ call'[t].at \in {"unlinking", "truncating"} /\ call'[t].id = call[t].id
    BY <1>1, <2>1, OwnCall DEF Filed, Steps, AckSteps, DLQSteps, PushSteps
  <2>3. \A id \in Ids : Queued(id)' \/ Lent(id)' => Queued(id) \/ Lent(id)
    BY <2>1 DEF Queued, Lent
  <2>4. \A id \in Ids : Handles(t, id, Filed)' => Readable(disk, id)
    BY <2>1, <2>2 DEF Handles, DiskInv, HasFile
  <2> QED
    BY <1>1, <1>2, <2>1, <2>2, <2>3, <2>4, DiskVisit DEF Handles
<1>5. CASE PushAppend(t)
  <2> DEFINE x == call[t].id
  <2>1. x \in Ids /\ call[t].at = "appending"
    BY <1>1, <1>5, CallFields DEF PushAppend, At, MessageCall, Steps, PushSteps
  <2>2. Readable(disk, x)
    BY <2>1 DEF Handles, Filed, DiskInv, HasFile
  <2>3. (\A u \in Threads : u # t => call'[u] = call[u]) /\ call'[t].at = "announcing"
    BY <1>1, <1>5, OwnCall DEF PushAppend
  <2>4. /\ messages \in Seq(Message) /\ messages' = Append(messages, Msg(t)) /\ Msg(t).id = x
        /\ pendingAcks' = pendingAcks /\ accepted' = accepted \cup {x}
    BY <1>1, <1>5 DEF PushAppend, TypeOK, Msg
  <2>5. \A id \in Ids : Queued(id)' \/ Lent(id)' => Queued(id) \/ Lent(id) \/ id = x
    BY <2>4 DEF Queued, Lent
  <2> HIDE DEF x
  <2> QED
    BY <1>1, <1>2, <2>2, <2>3, <2>4, <2>5, DiskVisit DEF Handles, Filed
<1> QED
  BY <1>3, <1>4, <1>5

\* A step about a message: its id, and what the call would write.
LEMMA OwnMessage ==
    ASSUME TypeOK, NEW t \in Threads, call[t].at \in Steps
    PROVE  \E x \in Ids : /\ call[t].id = x
                          /\ Msg(t) \in [id : {x}, rc : 0..MaxRetries]
<1>1. call[t].id \in Ids /\ call[t].rc \in 0..MaxRetries
  BY CallFields DEF MessageCall
<1> QED
  BY <1>1 DEF Msg

\* Writing one file of a directory.
LEMMA OneFile ==
    ASSUME NEW file \in [Ids -> File], NEW x \in Ids, NEW c
    PROVE  /\ [file EXCEPT ![x] = c][x] = c
           /\ \A id \in Ids : id # x => [file EXCEPT ![x] = c][id] = file[id]
OBVIOUS

\* The file operations of a push, an acknowledgement and an update.
LEMMA DiskPushAck ==
    ASSUME SoundRewrites, DiskInv, NEW t \in Threads,
           PushOpen(t) \/ PushWrite(t) \/ AckUnlink(t) \/ UpdateWrite(t)
    PROVE  HasFile' /\ Durable'
<1> USE DEF memory, files, settled, OnlyFiles
<1>1. /\ TypeOK /\ UNCHANGED <<messages, pendingAcks, accepted>>
      /\ call[t].at \in {"opening", "writing", "unlinking", "rewriting"}
  BY DEF PushOpen, PushWrite, AckUnlink, UpdateWrite, At, DiskInv, PlaceInv
<1>2. call[t].at \in Steps \ {"announcing"}
  BY <1>1 DEF Steps, PushSteps, AckSteps
<1>3. PICK x \in Ids : call[t].id = x /\ Msg(t) \in [id : {x}, rc : 0..MaxRetries]
  BY <1>1, <1>2, OwnMessage
<1>4. disk \in [Ids -> File]
  BY <1>1 DEF TypeOK
<1>5. CASE PushOpen(t) \/ PushWrite(t)
  <2>1. Handles(t, x, Accepting) /\ Handles(t, x, Hands)
    BY <1>3, <1>5 DEF PushOpen, PushWrite, At, Handles, Accepting, Hands, PushSteps
  <2>2. x \notin accepted /\ ~Queued(x) /\ ~Lent(x)
    BY <1>3, <2>1 DEF DiskInv, PlaceInv, Responsible, OnePlace, Lent
  <2>3. \/ call'[t].at = "idle"
        \/ call'[t].at = "writing" /\ call'[t].id = x
        \/ call'[t].at = "appending" /\ call'[t].id = x /\ disk' = [disk EXCEPT ![x] = Msg(t)]
    BY <1>1, <1>2, <1>3, <1>5, OwnCall DEF PushOpen, PushWrite, Truncate
  <2>4. \A u \in Threads : u # t => call'[u] = call[u]
    BY <1>1, <1>5, OwnCall DEF PushOpen, PushWrite, Truncate
  <2>5. /\ disk' = disk \/ \E c : disk' = [disk EXCEPT ![x] = c]
        /\ UNCHANGED <<dead, done>>
    BY <1>3, <1>5 DEF PushOpen, PushWrite, Truncate, WriteFails
  <2>6. \A id \in Ids : id # x => disk'[id] = disk[id]
    BY <1>4, <2>5, OneFile
  <2>7. Handles(t, x, Filed)' => Readable(disk, x)'
    BY <1>3, <1>4, <2>3 DEF Handles, Filed, Readable
  <2>8. ~Handles(t, x, {"removing", "counting"})'
    BY <2>3 DEF Handles
  <2>9. call'[t].at = "idle" \/ (call'[t].at \in Steps /\ call'[t].id = x)
    BY <2>3 DEF Steps, PushSteps
  <2> QED
    BY <1>1, <1>2, <1>3, <2>2, <2>4, <2>5, <2>6, <2>7, <2>8, <2>9, DiskChange
<1>6. CASE AckUnlink(t)
  <2>1. Handles(t, x, Filed) /\ Handles(t, x, Hands)
    BY <1>3, <1>6 DEF AckUnlink, At, Handles, Filed, Hands, AckSteps
  <2>2. ~Queued(x) /\ ~Lent(x) /\ Readable(disk, x)
    BY <1>3, <2>1 DEF DiskInv, PlaceInv, HasFile, OnePlace, Lent
  <2>3. (\A u \in Threads : u # t => call'[u] = call[u]) /\ call'[t].at = "idle"
    BY <1>1, <1>6, OwnCall DEF AckUnlink
  <2>4. \/ disk' = [disk EXCEPT ![x] = Absent] /\ done' = done \cup {x}
        \/ UNCHANGED <<disk, done>>
    BY <1>3, <1>6 DEF AckUnlink
  <2>5. dead' = dead
    BY <1>6 DEF AckUnlink
  <2>6. \A id \in Ids : id # x => disk'[id] = disk[id] /\ (id \in done' <=> id \in done)
    BY <1>4, <2>4, OneFile
  <2>7. x \notin done' => Readable(disk, x)'
    BY <2>2, <2>4 DEF Readable
  <2>8. ~Handles(t, x, {"removing", "counting"})' /\ ~Handles(t, x, Filed)'
    BY <2>3 DEF Handles, Filed
  <2> QED
    BY <1>1, <1>2, <1>3, <2>2, <2>3, <2>5, <2>6, <2>7, <2>8, DiskChange
<1>7. CASE UpdateWrite(t)
  <2>1. disk' = [disk EXCEPT ![x] = Msg(t)] /\ UNCHANGED <<dead, done>>
    BY <1>3, <1>7 DEF UpdateWrite, SoundRewrites
  <2>2. (\A u \in Threads : u # t => call'[u] = call[u]) /\ call'[t].at = "idle"
    BY <1>1, <1>7, OwnCall DEF UpdateWrite
  <2>3. disk'[x] = Msg(t) /\ \A id \in Ids : id # x => disk'[id] = disk[id]
    BY <1>4, <2>1, OneFile
  <2>4. Readable(disk, x)'
    BY <1>3, <2>3 DEF Readable
  <2>5. ~Handles(t, x, {"removing", "counting"})' /\ ~Handles(t, x, Filed)'
    BY <2>2 DEF Handles, Filed
  <2> QED
    BY <1>1, <1>2, <1>3, <2>1, <2>2, <2>3, <2>4, <2>5, DiskChange
<1> QED
  BY <1>5, <1>6, <1>7

\* The file operations of a burial: at each step there is a complete file in
\* one of the directories, or it is being rewritten.
LEMMA DiskBury ==
    ASSUME SoundRewrites, DiskInv, NEW t \in Threads,
           DLQTruncate(t) \/ DLQSave(t) \/ DLQRename(t) \/ DLQCopy(t) \/ DLQRemove(t)
    PROVE  HasFile' /\ Durable'
<1> USE DEF memory, files, settled, OnlyFiles
<1>1. /\ TypeOK /\ UNCHANGED <<messages, pendingAcks, accepted, done>>
      /\ call[t].at \in {"truncating", "saving", "renaming", "copying", "removing"}
  BY DEF DLQTruncate, DLQSave, DLQRename, DLQCopy, DLQRemove, At, DiskInv, PlaceInv
<1>2. call[t].at \in Steps \ {"announcing"}
  BY <1>1 DEF Steps, PushSteps, DLQSteps
<1>3. PICK x \in Ids : call[t].id = x /\ Msg(t) \in [id : {x}, rc : 0..MaxRetries]
  BY <1>1, <1>2, OwnMessage
<1>4. disk \in [Ids -> File] /\ dead \in [Ids -> File]
  BY <1>1 DEF TypeOK
<1>5. ~Queued(x) /\ ~Lent(x)
  <2>1. Handles(t, x, Hands)
    BY <1>1, <1>3 DEF Handles, Hands, DLQSteps
  <2> QED
    BY <1>3, <2>1 DEF DiskInv, PlaceInv, OnePlace, Lent
<1>6. /\ call[t].at # "saving" => Readable(disk, x)
      /\ call[t].at = "removing" => Readable(dead, x)
  BY <1>1, <1>3 DEF DiskInv, HasFile, Handles, Filed
<1>7. \A u \in Threads : u # t => call'[u] = call[u]
  BY <1>1, OwnCall DEF DLQTruncate, Truncate, DLQSave, DLQRename, DLQCopy, DLQRemove
<1>8. \A id \in Ids : id # x => disk'[id] = disk[id] /\ dead'[id] = dead[id]
  <2>1. disk' = disk \/ \E c : disk' = [disk EXCEPT ![x] = c]
    BY <1>3 DEF DLQTruncate, Truncate, DLQSave, DLQRename, DLQCopy, DLQRemove, WriteFails
  <2>2. dead' = dead \/ \E c : dead' = [dead EXCEPT ![x] = c]
    BY <1>3 DEF DLQTruncate, DLQSave, DLQRename, DLQCopy, DLQRemove, WriteFails
  <2> QED
    BY <1>4, <2>1, <2>2, OneFile
<1>9. \/ call'[t].at = "idle" /\ Readable(disk, x)'
      \/ call'[t].at = "saving" /\ call'[t].id = x
      \/ call'[t].at \in {"renaming", "copying"} /\ call'[t].id = x /\ Readable(disk, x)'
      \/ call'[t].at = "removing" /\ call'[t].id = x /\ Readable(disk, x)' /\ Readable(dead, x)'
      \/ call'[t].at = "counting" /\ call'[t].id = x /\ Readable(dead, x)'
  <2>1. CASE DLQTruncate(t)
    <3>1. CASE Continue(t, "saving")
      BY <1>1, <1>2, <1>3, <3>1, OwnCall
    <3>2. CASE Return(t) /\ UNCHANGED disk
      BY <1>1, <1>6, <2>1, <3>2, OwnCall DEF DLQTruncate, Readable, At
    <3> QED
      BY <2>1, <3>1, <3>2 DEF DLQTruncate, Truncate
  <2>2. CASE DLQSave(t)
    <3>1. disk' = [disk EXCEPT ![x] = Msg(t)] /\ Continue(t, "renaming")
      BY <1>3, <2>2 DEF DLQSave, SoundRewrites
    <3>2. disk'[x] = Msg(t)
      BY <1>4, <3>1
    <3> QED
      BY <1>1, <1>2, <1>3, <3>1, <3>2, OwnCall DEF Readable
  <2>3. CASE DLQRename(t)
    <3>1. CASE dead' = [dead EXCEPT ![x] = disk[x]] /\ Continue(t, "counting")
      <4>1. dead'[x] = disk[x]
        BY <1>4, <3>1
      <4> QED
        BY <1>1, <1>2, <1>3, <1>6, <2>3, <3>1, <4>1, OwnCall DEF DLQRename, Readable, At
    <3>2. CASE Continue(t, "copying") /\ UNCHANGED disk
      BY <1>1, <1>2, <1>3, <1>6, <2>3, <3>2, OwnCall DEF DLQRename, Readable, At
    <3>3. CASE Return(t) /\ UNCHANGED disk
      BY <1>1, <1>6, <2>3, <3>3, OwnCall DEF DLQRename, Readable, At
    <3> QED
      BY <1>3, <2>3, <3>1, <3>2, <3>3 DEF DLQRename
  <2>4. CASE DLQCopy(t)
    <3>1. UNCHANGED disk /\ Readable(disk, x)
      BY <1>6, <2>4 DEF DLQCopy, At
    <3>2. CASE dead' = [dead EXCEPT ![x] = disk[x]] /\ Continue(t, "removing")
      <4>1. dead'[x] = disk[x]
        BY <1>4, <3>2
      <4> QED
        BY <1>1, <1>2, <1>3, <3>1, <3>2, <4>1, OwnCall DEF Readable
    <3>3. CASE Return(t)
      BY <1>1, <3>1, <3>3, OwnCall DEF Readable
    <3> QED
      BY <1>3, <2>4, <3>2, <3>3 DEF DLQCopy
  <2>5. CASE DLQRemove(t)
    BY <1>1, <1>2, <1>3, <1>6, <2>5, OwnCall DEF DLQRemove, Readable, At
  <2> QED
    BY <2>1, <2>2, <2>3, <2>4, <2>5
<1>10. /\ Handles(t, x, Filed)' => Readable(disk, x)'
       /\ Handles(t, x, {"removing", "counting"})' => Readable(dead, x)'
       /\ Readable(disk, x)' \/ Readable(dead, x)' \/ Rewriting(t, x)'
       /\ call'[t].at = "idle" \/ (call'[t].at \in Steps /\ call'[t].id = x)
  BY <1>9 DEF Handles, Filed, Rewriting, Steps, DLQSteps
<1> QED
  BY <1>1, <1>2, <1>3, <1>5, <1>7, <1>8, <1>10, DiskChange

\* Update replaces a queued message, and keeps b.mu while its file is torn.
LEMMA DiskUpdateMemory ==
    ASSUME DiskInv, NEW p \in Threads, NEW m \in Message, UpdateMemory(p, m)
    PROVE  HasFile' /\ Durable'
<1>1. PICK k \in DOMAIN messages :
          messages[k].id = m.id /\ messages' = [messages EXCEPT ![k] = m]
  BY DEF UpdateMemory, First
<1>2. PICK x \in Ids : m.id = x
  BY DEF Message
<1>3. /\ TypeOK /\ Unlocked /\ call[p].at = "idle"
      /\ UNCHANGED <<pendingAcks, dead, accepted, done>>
  BY DEF UpdateMemory, settled, At, DiskInv, PlaceInv
<1>4. /\ \A id : Queued(id)' <=> Queued(id)
      /\ \A id : Lent(id)' <=> Lent(id)
      /\ Queued(x)
  <2>1. /\ DOMAIN messages' = DOMAIN messages
        /\ \A i \in DOMAIN messages : messages'[i].id = messages[i].id
    BY <1>1, <1>3 DEF TypeOK
  <2> QED
    BY <1>1, <1>2, <1>3, <2>1 DEF Queued, Lent
<1>5. CASE UNCHANGED <<disk, call>>
  <2>1. accepted \subseteq Ids
    BY <1>3 DEF TypeOK
  <2> QED
    BY <1>3, <1>4, <1>5, <2>1, DiskVisit DEF Handles, Filed
<1>6. CASE disk' = [disk EXCEPT ![x] = Torn] /\ GoTo(p, "rewriting", m, 0)
  <2>1. /\ \A u \in Threads : u # p => call'[u] = call[u]
        /\ call'[p].at = "rewriting" /\ call'[p].id = x
    BY <1>2, <1>3, <1>6, OwnCall
  <2>2. \A id \in Ids : id # x => disk'[id] = disk[id]
    BY <1>3, <1>6 DEF TypeOK
  <2>3. \A id \in Ids : /\ id # x => (Readable(disk, id)' <=> Readable(disk, id))
                        /\ Readable(dead, id)' <=> Readable(dead, id)
    BY <1>3, <2>2 DEF Readable
  <2>4. Updating(p, x)' /\ Rewriting(p, x)'
    BY <2>1 DEF Updating, Rewriting, Handles
  <2>5. \A u \in Threads, id \in Ids : Rewriting(u, id) => Rewriting(u, id)'
    BY <1>3, <2>1 DEF Rewriting, Handles
  <2>6. \A u \in Threads : ~Handles(u, x, Hands)
    BY <1>4 DEF DiskInv, PlaceInv, OnePlace
  <2>7. \A u \in Threads, id \in Ids :
            /\ Handles(u, id, Filed)' => Handles(u, id, Filed) /\ id # x
            /\ Handles(u, id, {"removing", "counting"})' =>
                   Handles(u, id, {"removing", "counting"}) /\ id # x
    BY <2>1, <2>6 DEF Handles, Filed, Hands, PushSteps, AckSteps, DLQSteps
  <2>8. \A id \in Ids : Queued(id)' \/ Lent(id)' =>
            Readable(disk, id)' \/ \E u \in Threads : Updating(u, id)'
    BY <1>3, <1>4, <2>3, <2>4, UnlockedFile
  <2>9. HasFile'
    BY <2>3, <2>7, <2>8 DEF HasFile, DiskInv
  <2>10. Durable'
    <3> SUFFICES ASSUME NEW id \in accepted' \ done'
                 PROVE  Readable(disk, id)' \/ Readable(dead, id)' \/ \E u \in Threads : Rewriting(u, id)'
      BY DEF Durable
    <3>1. id \in Ids /\ id \in accepted \ done
      BY <1>3 DEF TypeOK
    <3> QED
      BY <2>3, <2>4, <2>5, <3>1 DEF DiskInv, Durable
  <2> QED
    BY <2>9, <2>10
<1> QED
  BY <1>2, <1>5, <1>6 DEF UpdateMemory

\* After a restart memory holds what was read from the files.
LEMMA RestartQueue ==
    ASSUME Restart
    PROVE  /\ \A id : Queued(id)' <=> id \in Ids /\ Readable(disk, id)
           /\ \A id : ~Lent(id)'
           /\ \A t \in Threads : call'[t].at = "idle"
           /\ accepted' = accepted \cup {id \in Ids : Readable(disk, id)}
           /\ UNCHANGED <<disk, dead, done>>
<1> DEFINE saved == {id \in Ids : Readable(disk, id)}
<1>1. PICK f \in Bijection(1..Cardinality(saved), saved) :
          messages' = [i \in DOMAIN f |-> disk[f[i]]]
  BY DEF Restart
<1>2. /\ accepted' = accepted \cup saved
      /\ pendingAcks' = <<>>
      /\ call' = [t \in Threads |-> Idle]
      /\ UNCHANGED <<files, done>>
  BY Zenon DEF Restart
<1>3. /\ \A i \in DOMAIN f : f[i] \in saved
      /\ \A id \in saved : \E i \in DOMAIN f : f[i] = id
  BY DEF Bijection, Injection, Surjection
<1>4. \A id \in saved : disk[id].id = id
  BY DEF Readable
<1>5. DOMAIN messages' = DOMAIN f /\ \A i \in DOMAIN f : messages'[i].id = f[i]
  BY <1>1, <1>3, <1>4
<1>6. \A id : Queued(id)' <=> id \in saved
  BY <1>3, <1>5 DEF Queued
<1>7. \A id : ~Lent(id)'
  BY <1>2 DEF Lent
<1>8. \A t \in Threads : call'[t].at = "idle"
  BY <1>2 DEF Idle
<1> QED
  BY <1>2, <1>6, <1>7, <1>8 DEF files

LEMMA DiskRestart ==
    ASSUME SoundRewrites, DiskInv, Restart
    PROVE  HasFile' /\ Durable'
<1>1. \A id \in Ids : /\ Readable(disk, id)' <=> Readable(disk, id)
                      /\ Readable(dead, id)' <=> Readable(dead, id)
  BY RestartQueue DEF Readable
<1>2. HasFile'
  BY <1>1, RestartQueue DEF HasFile, Handles, Filed
<1>3. \A t \in Threads, id \in Ids : ~Rewriting(t, id)
  BY DEF Restart, SoundRewrites
<1>4. Durable'
  <2> SUFFICES ASSUME NEW id \in accepted' \ done'
               PROVE  Readable(disk, id)' \/ Readable(dead, id)'
    BY DEF Durable
  <2>1. id \in Ids /\ id \notin done /\ (id \in accepted \/ Readable(disk, id))
    BY RestartQueue DEF DiskInv, PlaceInv, TypeOK
  <2> QED
    BY <1>1, <1>3, <2>1 DEF DiskInv, Durable
<1> QED
  BY <1>2, <1>4

\* The steps of listeners, the clock and the operator.
LEMMA DiskOthers ==
    ASSUME DiskInv, UNCHANGED <<messages, pendingAcks, call, disk, dead, accepted, done>>
    PROVE  HasFile' /\ Durable'
<1>1. /\ \A id : Queued(id)' <=> Queued(id)
      /\ \A id : Lent(id)' <=> Lent(id)
      /\ \A id : Readable(disk, id)' <=> Readable(disk, id)
      /\ \A id : Readable(dead, id)' <=> Readable(dead, id)
  BY DEF Queued, Lent, Readable
<1>2. \A t, id, steps : Handles(t, id, steps)' <=> Handles(t, id, steps)
  BY DEF Handles
<1>3. HasFile'
  BY <1>1, <1>2 DEF DiskInv, HasFile, Updating, Filed
<1>4. Durable'
  BY <1>1, <1>2 DEF DiskInv, Durable, Rewriting
<1> QED
  BY <1>3, <1>4

LEMMA DiskNext == ASSUME SoundRewrites PROVE DiskInv /\ [Next]_vars => DiskInv'
<1> SUFFICES ASSUME DiskInv, [Next]_vars PROVE DiskInv'
  OBVIOUS
<1>1. PlaceInv' /\ TypeOK'
  BY PlaceNext DEF DiskInv, PlaceInv
<1> SUFFICES HasFile' /\ Durable'
  BY <1>1 DEF DiskInv
<1>2. ASSUME NEW p \in Procs, Begin(p) PROVE HasFile' /\ Durable'
  <2>1. p \in Threads
    BY DEF Threads
  <2> QED
    BY <1>1, <1>2, <2>1, DiskBegin, DiskUpdateMemory DEF Begin
<1>3. ASSUME NEW t \in Threads, Proceed(t) PROVE HasFile' /\ Durable'
  BY <1>1, <1>3, DiskProceed, DiskPushAck, DiskBury DEF Proceed
<1>4. CASE CheckTimeouts
  BY <1>4, DiskTimeouts
<1>5. CASE Restart
  BY <1>5, DiskRestart
<1>6. CASE UNCHANGED vars
  BY <1>6, DiskOthers DEF vars, memory, files, settled
<1>7. ASSUME NEW id \in Ids, Age(id) PROVE HasFile' /\ Durable'
  BY <1>7, DiskOthers DEF Age, OnlyMemory, files, settled
<1>8. ASSUME NEW l, Subscribe(l) \/ ReceiveSignal(l) \/ ReceiveMessage(l) PROVE HasFile' /\ Durable'
  BY <1>8, DiskOthers DEF Subscribe, ReceiveSignal, ReceiveMessage, memory, files, settled
<1>9. CASE SetStoragePath
  BY <1>9, DiskOthers DEF SetStoragePath, memory, files, settled
<1> QED
  BY <1>2, <1>3, <1>4, <1>5, <1>6, <1>7, <1>8, <1>9 DEF Next

LEMMA DiskCorrect == ASSUME SoundRewrites PROVE Spec => []DiskInv
<1>1. DiskInv /\ [Next]_vars => DiskInv'
  BY DiskNext
<1> QED
  BY <1>1, DiskInit, PTL DEF Spec

\* While the rewrites of a message's only file succeed, an accepted message
\* that nobody has acknowledged can be read from disk at every moment: no
\* interleaving of calls, failing pushes, moves across devices, bad paths and
\* crashes loses it (broker.go:160, 264-277, 324, 387).
THEOREM DurableCorrect == ASSUME SoundRewrites PROVE Spec => []Durable
<1>1. DiskInv => Durable
  BY DEF DiskInv
<1> QED
  BY <1>1, DiskCorrect, PTL

-----------------------------------------------------------------------------
(***************************************************************************)
(* The refinement of Outbox.  Where Durable holds, the fate of a message   *)
(* is settled by three facts: whether it is done, whether it is accepted,  *)
(* and whether its storage file is there, complete or being rewritten.     *)
(***************************************************************************)

Held(id) == Readable(disk, id) \/ \E t \in Threads : Rewriting(t, id)

Fate(id) ==
    IF id \in done THEN "done"
    ELSE IF id \notin accepted THEN "unsent"
    ELSE IF Held(id) THEN "stored" ELSE "dead"

OnOffer(id) == Queued(id) \/ Lent(id)

LEMMA FateFact == DiskInv => fate = [id \in Ids |-> Fate(id)]
<1> SUFFICES ASSUME DiskInv PROVE fate = [id \in Ids |-> Fate(id)]
  OBVIOUS
<1>1. \A id \in Ids : fate[id] = Fate(id)
  BY DEF fate, Fate, Held, DiskInv, Durable
<1> QED
  BY <1>1 DEF fate

\* Nothing happens to any message.
LEMMA FateKept ==
    ASSUME DiskInv, DiskInv', UNCHANGED <<accepted, done>>,
           \A id \in accepted \ done : Held(id)' <=> Held(id)
    PROVE  fate' = fate
<1>1. (fate = [id \in Ids |-> Fate(id)])' /\ fate = [id \in Ids |-> Fate(id)]
  BY FateFact, PTL
<1>2. \A id \in Ids : Fate(id)' = Fate(id)
  BY DEF Fate
<1> QED
  BY <1>1, <1>2

\* Something happens to message x only.
LEMMA FateSet ==
    ASSUME DiskInv, DiskInv', NEW x \in Ids, NEW v,
           \A id \in Ids : id # x => /\ id \in accepted' <=> id \in accepted
                                     /\ id \in done' <=> id \in done
                                     /\ Held(id)' <=> Held(id),
           Fate(x)' = v
    PROVE  fate' = [fate EXCEPT ![x] = v]
<1>1. (fate = [id \in Ids |-> Fate(id)])' /\ fate = [id \in Ids |-> Fate(id)]
  BY FateFact, PTL
<1>2. \A id \in Ids : id # x => Fate(id)' = Fate(id)
  BY DEF Fate
<1> QED
  BY <1>1, <1>2

LEMMA OfferedKept ==
    ASSUME \A id \in Ids : OnOffer(id)' <=> OnOffer(id)
    PROVE  offered' = offered
BY DEF offered, OnOffer, Lent

\* A step without files leaves every file as it was.
LEMMA HeldVisit ==
    ASSUME NEW t \in Threads, UNCHANGED disk,
           \A u \in Threads : u # t => call'[u] = call[u],
           call[t].at \notin {"rewriting", "saving"}, call'[t].at \notin {"rewriting", "saving"}
    PROVE  \A id : Held(id)' <=> Held(id)
<1>1. \A id : Readable(disk, id)' <=> Readable(disk, id)
  BY DEF Readable
<1>2. \A u \in Threads : \A id : Rewriting(u, id)' <=> Rewriting(u, id)
  BY DEF Rewriting, Handles
<1> QED
  BY <1>1, <1>2 DEF Held

\* A step on the files of x leaves the others.
LEMMA HeldElsewhere ==
    ASSUME NEW t \in Threads, NEW x \in Ids,
           \A u \in Threads : u # t => call'[u] = call[u],
           call[t].at = "idle" \/ call[t].id = x, call'[t].at = "idle" \/ call'[t].id = x,
           \A id \in Ids : id # x => disk'[id] = disk[id]
    PROVE  \A id \in Ids : id # x => (Held(id)' <=> Held(id))
<1>1. \A id \in Ids : id # x => (Readable(disk, id)' <=> Readable(disk, id))
  BY DEF Readable
<1>2. \A u \in Threads, id \in Ids : id # x => (Rewriting(u, id)' <=> Rewriting(u, id))
  BY DEF Rewriting, Handles
<1> QED
  BY <1>1, <1>2 DEF Held

OutboxStep == O!Next \/ UNCHANGED <<fate, offered>>

\* A message leaves the offer.
LEMMA OutboxWithdraw ==
    ASSUME NEW x \in Ids, OnOffer(x), fate' = fate,
           \A id \in Ids : OnOffer(id)' <=> OnOffer(id) /\ id # x
    PROVE  OutboxStep
<1>1. x \in offered /\ offered' = offered \ {x}
  BY DEF offered, OnOffer, Lent
<1> QED
  BY <1>1 DEF OutboxStep, O!Next, O!Withdraw

\* A message that is no longer on offer reaches its end.
LEMMA OutboxSettle ==
    ASSUME NEW x \in Ids, NEW end \in {"done", "dead"}, ~OnOffer(x), offered' = offered,
           fate[x] = "stored", fate' = [fate EXCEPT ![x] = end]
    PROVE  OutboxStep
<1>1. x \in O!Stored \ offered
  BY DEF O!Stored, offered, OnOffer, Lent
<1> QED
  BY <1>1 DEF OutboxStep, O!Next, O!Settle

\* The calls that begin: an acknowledgement or a burial withdraws its message,
\* the others change no promise.
LEMMA OutboxBegin ==
    ASSUME DiskInv, DiskInv', NEW p \in Threads,
           \/ Pop(p)
           \/ \E id \in Ids : PushCheck(p, id) \/ NegativeAcknowledge(p, id)
                              \/ AckTake(p, id) \/ DLQTake(p, id)
    PROVE  OutboxStep
<1> USE DEF memory, files, settled, OnlyMemory
<1>1. /\ UNCHANGED <<disk, done, accepted>>
      /\ call[p].at \notin {"rewriting", "saving"}
      /\ TypeOK /\ messages \in Seq(Message)
  BY DEF Pop, PushCheck, NegativeAcknowledge, AckTake, DLQTake, At, DiskInv, PlaceInv, TypeOK
<1>2. /\ \A u \in Threads : u # p => call'[u] = call[u]
      /\ call'[p].at \in {"reporting", "opening", "acking", "burying"}
  BY <1>1, OwnCall DEF Pop, PushCheck, NegativeAcknowledge, AckTake, DLQTake
<1>3. fate' = fate
  BY <1>1, <1>2, HeldVisit, FateKept
<1>4. CASE Pop(p)
  <2>1. /\ messages # <<>> /\ messages' = Tail(messages)
        /\ DOMAIN pendingAcks' = DOMAIN pendingAcks \cup {Head(messages).id}
    BY <1>4 DEF Pop
  <2>2. \A id \in Ids : Queued(id)' \/ id = Head(messages).id <=> Queued(id)
    <3>1. Len(messages) \in Nat \ {0} /\ DOMAIN messages = 1..Len(messages)
          /\ Head(messages) = messages[1]
      BY <1>1, <2>1
    <3>2. /\ DOMAIN messages' = 1..(Len(messages) - 1)
          /\ \A i \in 1..(Len(messages) - 1) : messages'[i] = messages[i + 1]
      BY <1>1, <2>1
    <3>3. \A i \in DOMAIN messages : i # 1 => i - 1 \in DOMAIN messages' /\ messages'[i - 1] = messages[i]
      BY <3>1, <3>2
    <3>4. \A i \in DOMAIN messages' : i + 1 \in DOMAIN messages /\ messages'[i] = messages[i + 1]
      BY <3>1, <3>2
    <3> QED
      BY <3>1, <3>3, <3>4 DEF Queued
  <2> QED
    BY <1>3, <2>1, <2>2, OfferedKept DEF OnOffer, Lent, OutboxStep
<1>5. ASSUME NEW x \in Ids, PushCheck(p, x) PROVE OutboxStep
  BY <1>3, <1>5, OfferedKept DEF PushCheck, OnOffer, Queued, Lent, OutboxStep
<1>6. ASSUME NEW x \in Ids, NegativeAcknowledge(p, x) PROVE OutboxStep
  <2>1. /\ x \in DOMAIN pendingAcks /\ pendingAcks[x] \in Message /\ pendingAcks[x].id = x
        /\ messages' = <<pendingAcks[x]>> \o messages
        /\ DOMAIN pendingAcks' = DOMAIN pendingAcks \ {x}
    BY <1>1, <1>6 DEF NegativeAcknowledge, TakeBack, TypeOK, DiskInv, PlaceInv, OnePlace
  <2>2. Len(messages) \in Nat /\ DOMAIN messages = 1..Len(messages)
        /\ DOMAIN messages' = 1..(Len(messages) + 1) /\ messages'[1] = pendingAcks[x]
        /\ \A i \in 2..(Len(messages) + 1) : messages'[i] = messages[i - 1]
    BY <1>1, <2>1
  <2>3. /\ \A i \in DOMAIN messages : i + 1 \in DOMAIN messages' /\ messages'[i + 1] = messages[i]
        /\ \A i \in DOMAIN messages' : i = 1 \/ (i - 1 \in DOMAIN messages /\ messages'[i] = messages[i - 1])
        /\ 1 \in DOMAIN messages'
    BY <2>2
  <2>4. \A id \in Ids : Queued(id)' <=> Queued(id) \/ id = x
    BY <2>1, <2>2, <2>3 DEF Queued
  <2> QED
    BY <1>3, <2>1, <2>4, OfferedKept DEF OnOffer, Lent, OutboxStep
<1>7. ASSUME NEW x \in Ids, AckTake(p, x) PROVE OutboxStep
  <2>1. CASE x \in DOMAIN pendingAcks /\ TakeBack({x}) /\ UNCHANGED messages
    <3>1. /\ DOMAIN pendingAcks' = DOMAIN pendingAcks \ {x} /\ ~Queued(x)
          /\ \A id : Queued(id)' <=> Queued(id)
      BY <2>1 DEF TakeBack, DiskInv, PlaceInv, OnePlace, Queued
    <3> QED
      BY <1>3, <2>1, <3>1, OutboxWithdraw DEF OnOffer, Lent
  <2>2. CASE x \notin DOMAIN pendingAcks /\ Queued(x) /\ RemoveAll(x) /\ UNCHANGED pendingAcks
    <3>1. \A id \in Ids : Queued(id)' <=> Queued(id) /\ id # x
      BY <1>1, <2>2, RemoveAllFact DEF Queued
    <3> QED
      BY <1>3, <2>2, <3>1, OutboxWithdraw DEF OnOffer, Lent
  <2> QED
    BY <1>7, <2>1, <2>2 DEF AckTake
<1>8. ASSUME NEW x \in Ids, DLQTake(p, x) PROVE OutboxStep
  <2>1. RemoveAll(x) /\ Queued(x) /\ UNCHANGED pendingAcks
    BY <1>8 DEF DLQTake, First, Queued
  <2>2. \A id \in Ids : Queued(id)' <=> Queued(id) /\ id # x
    BY <1>1, <2>1, RemoveAllFact DEF Queued
  <2>3. ~Lent(x)
    BY <2>1 DEF DiskInv, PlaceInv, OnePlace, Lent
  <2> QED
    BY <1>3, <2>1, <2>2, <2>3, OutboxWithdraw DEF OnOffer, Lent
<1> QED
  BY <1>4, <1>5, <1>6, <1>7, <1>8

\* An update replaces the copy on offer; its file goes from complete to being
\* rewritten.
LEMMA OutboxUpdateMemory ==
    ASSUME DiskInv, DiskInv', NEW p \in Threads, NEW m \in Message, UpdateMemory(p, m)
    PROVE  OutboxStep
<1>1. PICK k \in DOMAIN messages :
          messages[k].id = m.id /\ messages' = [messages EXCEPT ![k] = m]
  BY DEF UpdateMemory, First
<1>2. PICK x \in Ids : m.id = x
  BY DEF Message
<1>3. /\ TypeOK /\ Unlocked /\ call[p].at = "idle" /\ disk \in [Ids -> File]
      /\ UNCHANGED <<pendingAcks, accepted, done>>
  BY DEF UpdateMemory, settled, At, DiskInv, PlaceInv, TypeOK
<1>4. (\A id : Queued(id)' <=> Queued(id)) /\ Queued(x)
  <2>1. /\ DOMAIN messages' = DOMAIN messages
        /\ \A i \in DOMAIN messages : messages'[i].id = messages[i].id
    BY <1>1, <1>3 DEF TypeOK
  <2> QED
    BY <1>1, <1>2, <2>1 DEF Queued
<1>5. offered' = offered
  BY <1>3, <1>4, OfferedKept DEF OnOffer, Lent
<1>6. CASE UNCHANGED <<disk, call>>
  BY <1>3, <1>5, <1>6, HeldVisit, FateKept DEF OutboxStep
<1>7. CASE disk' = [disk EXCEPT ![x] = Torn] /\ GoTo(p, "rewriting", m, 0)
  <2>1. /\ \A u \in Threads : u # p => call'[u] = call[u]
        /\ call'[p].at = "rewriting" /\ call'[p].id = x
    BY <1>2, <1>3, <1>7, OwnCall
  <2>2. \A id \in Ids : id # x => (Held(id)' <=> Held(id))
    BY <1>3, <1>7, <2>1, OneFile, HeldElsewhere
  <2>3. Held(x)
    BY <1>3, <1>4, UnlockedFile DEF Held
  <2>4. Held(x)'
    BY <2>1 DEF Held, Rewriting, Handles
  <2>5. accepted \subseteq Ids
    BY <1>3 DEF TypeOK
  <2> QED
    BY <1>3, <1>5, <2>2, <2>3, <2>4, <2>5, FateKept DEF OutboxStep
<1> QED
  BY <1>2, <1>6, <1>7 DEF UpdateMemory

\* The steps of a call that touch no file: a message is accepted when it enters
\* the queue.
LEMMA OutboxProceed ==
    ASSUME DiskInv, DiskInv', NEW t \in Threads,
           \/ PushAppend(t) \/ PushAnnounce(t) \/ FinishReport(t)
           \/ AckReport(t) \/ DLQReport(t) \/ DLQCount(t)
    PROVE  OutboxStep
<1> USE DEF memory, files, settled, OnlySignals
<1>1. /\ UNCHANGED <<disk, done, pendingAcks>> /\ TypeOK
      /\ call[t].at \in {"appending", "announcing", "reporting", "acking", "burying", "counting"}
  BY DEF PushAppend, PushAnnounce, FinishReport, AckReport, DLQReport, DLQCount, At, DiskInv, PlaceInv
<1>2. /\ \A u \in Threads : u # t => call'[u] = call[u]
      /\ call'[t].at \in {"announcing", "idle", "unlinking", "truncating"}
  <2>1. call[t].at = "reporting" \/ call[t].at \in Steps
    BY <1>1 DEF Steps, PushSteps, AckSteps, DLQSteps
  <2> QED
    BY <1>1, <2>1, OwnCall
       DEF PushAppend, PushAnnounce, FinishReport, AckReport, DLQReport, DLQCount, At
<1>3. \A id : Held(id)' <=> Held(id)
  BY <1>1, <1>2, HeldVisit
<1>4. CASE PushAppend(t)
  <2>1. call[t].at = "appending" /\ call[t].at \in Steps
    BY <1>4 DEF PushAppend, At, Steps, PushSteps
  <2>2. PICK x \in Ids : call[t].id = x /\ Msg(t).id = x
    BY <1>1, <2>1, OwnMessage DEF Msg
  <2>3. Handles(t, x, Filed) /\ Handles(t, x, Accepting)
    BY <2>1, <2>2 DEF Handles, Filed, Accepting
  <2>4. Held(x) /\ x \notin accepted /\ x \notin done
    BY <2>3 DEF DiskInv, PlaceInv, HasFile, Responsible, Held
  <2>5. messages' = Append(messages, Msg(t)) /\ accepted' = accepted \cup {x} /\ messages \in Seq(Message)
    BY <1>1, <1>4, <2>2 DEF PushAppend, TypeOK
  <2>6. \A id \in Ids : Queued(id)' <=> Queued(id) \/ id = x
    <3>1. /\ DOMAIN messages = 1..Len(messages) /\ Len(messages) \in Nat
          /\ DOMAIN messages' = 1..(Len(messages) + 1)
          /\ messages'[Len(messages) + 1] = Msg(t)
          /\ \A i \in DOMAIN messages : messages'[i] = messages[i]
      BY <2>5
    <3>2. /\ \A i \in DOMAIN messages' : i \in DOMAIN messages \/ i = Len(messages) + 1
          /\ Len(messages) + 1 \in DOMAIN messages'
          /\ \A i \in DOMAIN messages : i \in DOMAIN messages'
      BY <3>1
    <3> QED
      BY <2>2, <3>1, <3>2 DEF Queued
  <2>7. offered' = offered \cup {x}
    BY <1>1, <2>6 DEF offered, Lent
  <2>8. Fate(x)' = "stored"
    BY <1>1, <1>3, <2>4, <2>5 DEF Fate
  <2>9. fate' = [fate EXCEPT ![x] = "stored"]
    BY <1>1, <1>3, <2>5, <2>8, FateSet
  <2>10. fate[x] = "unsent"
    BY <2>4, FateFact DEF Fate
  <2> QED
    BY <2>7, <2>9, <2>10 DEF OutboxStep, O!Next, O!Accept
<1>5. CASE UNCHANGED <<messages, accepted>>
  <2>1. fate' = fate
    BY <1>1, <1>3, <1>5, FateKept
  <2>2. offered' = offered
    BY <1>1, <1>5, OfferedKept DEF OnOffer, Queued, Lent
  <2> QED
    BY <2>1, <2>2 DEF OutboxStep
<1> QED
  BY <1>4, <1>5 DEF PushAnnounce, FinishReport, AckReport, DLQReport, DLQCount

\* What every file operation has in common.
LEMMA FileStep ==
    ASSUME DiskInv, NEW t \in Threads,
           \/ PushOpen(t) \/ PushWrite(t) \/ AckUnlink(t) \/ UpdateWrite(t)
           \/ DLQTruncate(t) \/ DLQSave(t) \/ DLQRename(t) \/ DLQCopy(t) \/ DLQRemove(t)
    PROVE  \E x \in Ids :
              /\ call[t].at \in Steps \ {"announcing"} /\ call[t].id = x
              /\ \A u \in Threads : u # t => call'[u] = call[u]
              /\ call'[t].at = "idle" \/ call'[t].id = x
              /\ \A id \in Ids : id # x => (Held(id)' <=> Held(id))
              /\ offered' = offered /\ accepted' = accepted
<1> USE DEF memory, files, settled, OnlyFiles
<1>1. /\ TypeOK /\ UNCHANGED <<messages, pendingAcks, accepted>>
      /\ call[t].at \in Steps \ {"announcing"}
  BY DEF PushOpen, PushWrite, AckUnlink, UpdateWrite, DLQTruncate, DLQSave, DLQRename,
         DLQCopy, DLQRemove, At, DiskInv, PlaceInv, Steps, PushSteps, AckSteps, DLQSteps
<1>2. PICK x \in Ids : call[t].id = x
  BY <1>1, OwnMessage
<1>3. /\ \A u \in Threads : u # t => call'[u] = call[u]
      /\ call'[t].at = "idle" \/ call'[t].id = x
  BY <1>1, <1>2, OwnCall
     DEF PushOpen, Truncate, PushWrite, AckUnlink, UpdateWrite, DLQTruncate, DLQSave,
         DLQRename, DLQCopy, DLQRemove
<1>4. disk' = disk \/ \E c : disk' = [disk EXCEPT ![x] = c]
  BY <1>2 DEF PushOpen, Truncate, PushWrite, AckUnlink, UpdateWrite, DLQTruncate, DLQSave,
              DLQRename, DLQCopy, DLQRemove, WriteFails
<1>5. \A id \in Ids : id # x => disk'[id] = disk[id]
  BY <1>1, <1>4, OneFile DEF TypeOK
<1>6. \A id \in Ids : id # x => (Held(id)' <=> Held(id))
  BY <1>2, <1>3, <1>5, HeldElsewhere
<1>7. offered' = offered
  BY <1>1, OfferedKept DEF OnOffer, Queued, Lent
<1> QED
  BY <1>1, <1>2, <1>3, <1>6, <1>7

\* A file that is gone is held by nobody when its message is in the hands of
\* thread t, and t is not writing it.
LEMMA NotHeld ==
    ASSUME DiskInv, NEW t \in Threads, NEW x \in Ids, Handles(t, x, Hands),
           \A u \in Threads : u # t => call'[u] = call[u],
           call'[t].at \notin {"rewriting", "saving"},
           disk'[x] = Absent
    PROVE  ~Held(x)'
<1>1. ~Readable(disk, x)'
  <2>1. Absent \notin [id : {x}, rc : 0..MaxRetries]
    BY FileAssumption DEF Message
  <2> QED
    BY <2>1 DEF Readable
<1>2. ASSUME NEW u \in Threads, Rewriting(u, x)' PROVE FALSE
  <2>1. u # t /\ call[u].at \in {"rewriting", "saving"} /\ call[u].id = x
    BY <1>2 DEF Rewriting, Handles
  <2>2. ~Handles(u, x, Hands) /\ ~Queued(x)
    BY <2>1 DEF DiskInv, PlaceInv, OnePlace
  <2>3. call[u].at = "rewriting"
    BY <2>1, <2>2 DEF Handles, Hands, DLQSteps
  <2> QED
    BY <2>1, <2>2, <2>3 DEF DiskInv, PlaceInv, UpdateKeepsLock, At
<1> QED
  BY <1>1, <1>2 DEF Held

\* The file operations: a message is settled at the moment its storage file
\* goes.
LEMMA OutboxFile ==
    ASSUME SoundRewrites, DiskInv, DiskInv', NEW t \in Threads,
           \/ PushOpen(t) \/ PushWrite(t) \/ AckUnlink(t) \/ UpdateWrite(t)
           \/ DLQTruncate(t) \/ DLQSave(t) \/ DLQRename(t) \/ DLQCopy(t) \/ DLQRemove(t)
    PROVE  OutboxStep
<1> USE DEF settled, OnlyFiles
<1>1. PICK x \in Ids :
          /\ call[t].at \in Steps \ {"announcing"} /\ call[t].id = x
          /\ \A u \in Threads : u # t => call'[u] = call[u]
          /\ call'[t].at = "idle" \/ call'[t].id = x
          /\ \A id \in Ids : id # x => (Held(id)' <=> Held(id))
          /\ offered' = offered /\ accepted' = accepted
  BY FileStep
<1>2. TypeOK /\ accepted \subseteq Ids /\ disk \in [Ids -> File]
  BY DEF DiskInv, PlaceInv, TypeOK
<1>3. CASE PushOpen(t) \/ PushWrite(t)
  <2>1. Handles(t, x, Accepting) /\ done' = done
    BY <1>1, <1>3 DEF PushOpen, PushWrite, At, Handles, Accepting
  <2>2. x \notin accepted
    BY <2>1 DEF DiskInv, PlaceInv, Responsible
  <2> QED
    BY <1>1, <1>2, <2>1, <2>2, FateKept DEF OutboxStep
<1>4. ASSUME done' = done, Held(x), Held(x)' PROVE OutboxStep
  BY <1>1, <1>2, <1>4, FateKept DEF OutboxStep
<1>5. CASE UpdateWrite(t)
  <2>1. Held(x)
    BY <1>1, <1>5 DEF UpdateWrite, At, Held, Rewriting, Handles
  <2>2. disk' = [disk EXCEPT ![x] = Msg(t)] /\ done' = done
    BY <1>1, <1>5 DEF UpdateWrite, SoundRewrites
  <2>3. Msg(t) \in [id : {x}, rc : 0..MaxRetries]
    BY <1>1, <1>2, OwnMessage
  <2>4. Readable(disk, x)'
    BY <1>2, <2>2, <2>3 DEF Readable
  <2> QED
    BY <1>4, <2>1, <2>2, <2>4 DEF Held
<1>6. ASSUME call[t].at \in Settling
      PROVE  /\ Handles(t, x, Hands) /\ x \in accepted \ done /\ ~OnOffer(x)
             /\ fate[x] = "stored" <=> Held(x)
  <2>1. Handles(t, x, Settling) /\ Handles(t, x, Hands)
    BY <1>1, <1>6, HandsFact DEF Handles
  <2>2. x \in accepted \ done /\ ~OnOffer(x)
    BY <2>1 DEF DiskInv, PlaceInv, Responsible, OnePlace, OnOffer, Lent
  <2>3. fate[x] = Fate(x)
    BY FateFact
  <2> QED
    BY <2>1, <2>2, <2>3 DEF Fate
<1>7. CASE AckUnlink(t)
  <2>1. call[t].at \in Settling /\ call[t].at \in Filed
    BY <1>7 DEF AckUnlink, At, Settling, AckSteps, Filed
  <2>2. Held(x)
    BY <1>1, <2>1 DEF DiskInv, HasFile, Handles, Held
  <2>3. CASE UNCHANGED <<disk, done>>
    <3>1. Readable(disk, x)
      BY <1>1, <2>1 DEF DiskInv, HasFile, Handles
    <3> QED
      BY <1>4, <2>2, <2>3, <3>1 DEF Held, Readable
  <2>4. CASE done' = done \cup {x}
    <3>1. Fate(x)' = "done"
      BY <2>4 DEF Fate
    <3>2. fate' = [fate EXCEPT ![x] = "done"]
      BY <1>1, <2>4, <3>1, FateSet
    <3> QED
      BY <1>1, <1>6, <2>1, <2>2, <3>2, OutboxSettle
  <2> QED
    BY <1>1, <1>7, <2>3, <2>4 DEF AckUnlink
<1>8. ASSUME call[t].at \in Settling, Held(x), done' = done,
             disk'[x] = Absent, call'[t].at \notin {"rewriting", "saving"}
      PROVE  OutboxStep
  <2>1. ~Held(x)'
    BY <1>1, <1>6, <1>8, NotHeld
  <2>2. Fate(x)' = "dead"
    BY <1>1, <1>6, <1>8, <2>1 DEF Fate
  <2>3. fate' = [fate EXCEPT ![x] = "dead"]
    BY <1>1, <1>8, <2>2, FateSet
  <2> QED
    BY <1>1, <1>6, <1>8, <2>3, OutboxSettle
<1>9. ASSUME call[t].at \in DLQSteps,
             DLQTruncate(t) \/ DLQSave(t) \/ DLQRename(t) \/ DLQCopy(t) \/ DLQRemove(t)
      PROVE  OutboxStep
  <2>1. call[t].at \in Settling /\ done' = done
    BY <1>9 DEF Settling, DLQTruncate, DLQSave, DLQRename, DLQCopy, DLQRemove
  <2>2. Held(x)
    BY <1>1, <1>9
       DEF DLQTruncate, DLQSave, DLQRename, DLQCopy, DLQRemove, At,
           DiskInv, HasFile, Handles, Filed, Held, Rewriting
  <2>3. CASE disk' = [disk EXCEPT ![x] = Absent] /\ Continue(t, "counting")
    <3>1. disk'[x] = Absent /\ call'[t].at = "counting"
      BY <1>1, <1>2, <2>3, OwnCall
    <3> QED
      BY <1>8, <2>1, <2>2, <3>1
  <2>4. CASE disk' = disk /\ call[t].at # "saving"
    <3>1. Readable(disk, x) 
      BY <1>1, <1>9, <2>4
         DEF DLQTruncate, DLQSave, DLQRename, DLQCopy, DLQRemove, At,
             DiskInv, HasFile, Handles, Filed
    <3>2. Readable(disk, x)'
      BY <2>4, <3>1 DEF Readable
    <3> QED
      BY <1>4, <2>1, <2>2, <3>2 DEF Held
  <2>5. CASE Continue(t, "saving")
    <3>1. call'[t].at = "saving" /\ call'[t].id = x
      BY <1>1, <1>2, <2>5, OwnCall
    <3>2. Held(x)'
      BY <3>1 DEF Held, Rewriting, Handles
    <3> QED
      BY <1>4, <2>1, <2>2, <3>2
  <2>6. CASE disk' = [disk EXCEPT ![x] = Msg(t)]
    <3>1. Msg(t) \in [id : {x}, rc : 0..MaxRetries]
      BY <1>1, <1>2, OwnMessage
    <3>2. Readable(disk, x)'
      BY <1>2, <2>6, <3>1 DEF Readable
    <3> QED
      BY <1>4, <2>1, <2>2, <3>2 DEF Held
  <2> QED
    BY <1>1, <1>9, <2>3, <2>4, <2>5, <2>6
       DEF DLQTruncate, Truncate, DLQSave, DLQRename, DLQCopy, DLQRemove, SoundRewrites, At
<1> QED
  BY <1>3, <1>5, <1>7, <1>9
     DEF DLQTruncate, DLQSave, DLQRename, DLQCopy, DLQRemove, At, DLQSteps

\* A crash: what the new process finds on disk is what it offers.
LEMMA OutboxRestart ==
    ASSUME SoundRewrites, DiskInv, DiskInv', Restart
    PROVE  OutboxStep
<1> DEFINE saved == {id \in Ids : Readable(disk, id)}
           found == saved \ accepted
<1>1. \A id \in Ids : Held(id) <=> id \in saved
  BY DEF Restart, SoundRewrites, Held
<1>2. \A id \in Ids : Held(id)' <=> id \in saved
  <2>1. \A t \in Threads, id \in Ids : ~Rewriting(t, id)'
    BY RestartQueue DEF Rewriting, Handles
  <2>2. \A id \in Ids : Readable(disk, id)' <=> Readable(disk, id)
    BY RestartQueue DEF Readable
  <2> QED
    BY <2>1, <2>2 DEF Held
<1>3. accepted' = accepted \cup saved /\ done' = done
  BY RestartQueue
<1>4. saved \cap done = {} /\ done \subseteq accepted
  <2>1. \A id \in Ids : Absent \notin [id : {id}, rc : 0..MaxRetries]
    BY FileAssumption DEF Message
  <2> QED
    BY <2>1 DEF Readable, DiskInv, PlaceInv, Responsible, GoneFromDisk
<1>5. (fate = [id \in Ids |-> Fate(id)])' /\ fate = [id \in Ids |-> Fate(id)]
  BY FateFact, PTL
<1>6. offered' = saved
  BY RestartQueue DEF offered, Lent
<1> HIDE DEF saved
<1>7. found \subseteq {id \in Ids : fate[id] = "unsent"}
  BY <1>4, <1>5 DEF Fate, saved
<1>8. \A id \in Ids : Fate(id)' = IF id \in found THEN "stored" ELSE Fate(id)
  BY <1>1, <1>2, <1>3, <1>4 DEF Fate
<1>9. fate' = [id \in Ids |-> IF id \in found THEN "stored" ELSE fate[id]]
  BY <1>5, <1>8
<1>10. O!Stored' = saved
  <2>1. \A id \in Ids : Fate(id)' = "stored" <=> id \in saved
    BY <1>2, <1>3, <1>4 DEF Fate
  <2>2. saved \subseteq Ids
    BY DEF saved
  <2> QED
    BY <1>5, <2>1, <2>2 DEF O!Stored
<1> HIDE DEF found
<1> QED
  BY <1>6, <1>7, <1>9, <1>10 DEF OutboxStep, O!Next, O!Recover

\* The steps of the clock, the listeners and the operator.
LEMMA OutboxOthers ==
    ASSUME UNCHANGED <<messages, pendingAcks, call, disk, dead, accepted, done>>
    PROVE  OutboxStep
<1>1. \A id, t : /\ Readable(disk, id)' <=> Readable(disk, id)
                 /\ Readable(dead, id)' <=> Readable(dead, id)
                 /\ Rewriting(t, id)' <=> Rewriting(t, id)
  BY DEF Readable, Rewriting, Handles
<1>2. fate' = fate
  BY <1>1 DEF fate
<1>3. offered' = offered
  BY DEF offered, Queued
<1> QED
  BY <1>2, <1>3 DEF OutboxStep

LEMMA OutboxTimeouts ==
    ASSUME DiskInv, DiskInv', CheckTimeouts
    PROVE  OutboxStep
<1>1. /\ UNCHANGED <<disk, done, accepted>>
      /\ Checker \in Threads /\ call[Checker].at = "idle"
  BY DEF CheckTimeouts, OnlyMemory, files, settled, At, Threads
<1>2. (\A u \in Threads : u # Checker => call'[u] = call[u]) /\ call'[Checker].at = "reporting"
  BY <1>1, OwnCall DEF CheckTimeouts, DiskInv, PlaceInv
<1>3. fate' = fate
  BY <1>1, <1>2, HeldVisit, FateKept
<1>4. offered' = offered
  BY TimeoutsQueued, OfferedKept DEF DiskInv, OnOffer
<1> QED
  BY <1>3, <1>4 DEF OutboxStep

LEMMA OutboxNext ==
    ASSUME SoundRewrites
    PROVE  DiskInv /\ DiskInv' /\ [Next]_vars => [O!Next]_<<fate, offered>>
<1> SUFFICES ASSUME DiskInv, DiskInv', [Next]_vars PROVE OutboxStep
  BY DEF OutboxStep
<1>1. ASSUME NEW p \in Procs, Begin(p) PROVE OutboxStep
  <2>1. p \in Threads
    BY DEF Threads
  <2> QED
    BY <1>1, <2>1, OutboxBegin, OutboxUpdateMemory DEF Begin
<1>2. ASSUME NEW t \in Threads, Proceed(t) PROVE OutboxStep
  BY <1>2, OutboxProceed, OutboxFile DEF Proceed
<1>3. CASE CheckTimeouts
  BY <1>3, OutboxTimeouts
<1>4. CASE Restart
  BY <1>4, OutboxRestart
<1>5. CASE UNCHANGED vars
  BY <1>5, OutboxOthers DEF vars, memory, files, settled
<1>6. ASSUME NEW id \in Ids, Age(id) PROVE OutboxStep
  BY <1>6, OutboxOthers DEF Age, OnlyMemory, files, settled
<1>7. ASSUME NEW l, Subscribe(l) \/ ReceiveSignal(l) \/ ReceiveMessage(l) PROVE OutboxStep
  BY <1>7, OutboxOthers DEF Subscribe, ReceiveSignal, ReceiveMessage, memory, files, settled
<1>8. CASE SetStoragePath
  BY <1>8, OutboxOthers DEF SetStoragePath, memory, files, settled
<1> QED
  BY <1>1, <1>2, <1>3, <1>4, <1>5, <1>6, <1>7, <1>8 DEF Next

\* While the rewrites of a message's only file succeed, the broker is an
\* outbox: a message it has accepted is stored, and on offer unless a call is
\* settling it, until it is acknowledged or dead, and a restart offers all that
\* is stored (broker.go:51-137, 141-391).
THEOREM OutboxImplemented == ASSUME SoundRewrites PROVE Spec => IsOutbox
<1>1. Init => O!Init
  BY DEF Init, O!Init, fate, offered, Queued
<1>2. DiskInv /\ DiskInv' /\ [Next]_vars => [O!Next]_<<fate, offered>>
  BY OutboxNext
<1> QED
  BY <1>1, <1>2, DiskCorrect, PTL DEF Spec, IsOutbox, O!Spec

-----------------------------------------------------------------------------
(***************************************************************************)
(* FileIsCurrent.  A message enters memory from the file a push or a       *)
(* recovery has just seen, and is replaced in memory only by a call that   *)
(* keeps b.mu until it has replaced the file too.                          *)
(***************************************************************************)

\* The storage path is good and what is written arrives; the process may die
\* at any moment.
SoundWrites == Faults \subseteq {"crash in rewrite"}

\* The broker has this message in memory.
Holds(m) ==
    \/ \E i \in DOMAIN messages : messages[i] = m
    \/ \E id \in DOMAIN pendingAcks : pendingAcks[id] = m

\* What a call has written, or is about to.
Written ==
    \A t \in Threads :
        /\ At(t, "appending") => disk[call[t].id] = Msg(t)
        /\ At(t, "rewriting") => \E i \in DOMAIN messages : messages[i] = Msg(t)

Current(m) == disk[m.id] = m \/ \E t \in Threads : Rewriting(t, m.id)

CurInv == PlaceInv /\ pathOk /\ FileIsCurrent /\ Written

LEMMA CurrentFact ==
    PlaceInv => (FileIsCurrent <=> \A m : Holds(m) => Current(m))
BY DEF PlaceInv, OnePlace, FileIsCurrent, Holds, Current

LEMMA CurrentFactNext ==
    ASSUME PlaceInv', \A m : Holds(m)' => Current(m)'
    PROVE  FileIsCurrent'
BY DEF PlaceInv, OnePlace, FileIsCurrent, Holds, Current

LEMMA CurInit == Init => CurInv
<1> SUFFICES ASSUME Init PROVE CurInv
  OBVIOUS
<1>1. PlaceInv
  BY PlaceInit
<1>2. \A t \in Threads : call[t].at = "idle"
  BY DEF Init, Idle
<1>3. DOMAIN messages = {} /\ DOMAIN pendingAcks = {}
  BY DEF Init
<1>4. FileIsCurrent /\ Written
  BY <1>2, <1>3 DEF FileIsCurrent, Written, At
<1>5. pathOk
  BY DEF Init
<1> QED
  BY <1>1, <1>4, <1>5 DEF CurInv

\* A visit to memory that brings nothing new, except what is on disk.
LEMMA CurVisit ==
    ASSUME CurInv, PlaceInv', NEW t \in Threads, UNCHANGED disk,
           \A u \in Threads : u # t => call'[u] = call[u],
           call[t].at \notin {"rewriting", "saving"},
           call'[t].at \notin {"rewriting", "appending"},
           Unlocked \/ UNCHANGED messages,
           \A m : Holds(m)' => Holds(m) \/ disk[m.id] = m
    PROVE  FileIsCurrent' /\ Written'
<1>1. \A u \in Threads : \A id : Rewriting(u, id) => Rewriting(u, id)'
  BY DEF Rewriting, Handles
<1>2. \A m : Holds(m)' => Current(m)'
  BY <1>1, CurrentFact DEF CurInv, Current
<1>3. Written'
  <2>1. \A u \in Threads : u # t => Msg(u)' = Msg(u) /\ (At(u, "appending")' => At(u, "appending"))
                                    /\ (At(u, "rewriting")' => At(u, "rewriting"))
    BY DEF Msg, At
  <2>2. ~At(t, "appending")' /\ ~At(t, "rewriting")'
    BY DEF At
  <2>3. ASSUME NEW u \in Threads, u # t, At(u, "rewriting") PROVE UNCHANGED messages
    BY <2>3 DEF Unlocked
  <2> QED
    BY <2>1, <2>2, <2>3 DEF CurInv, Written
<1> QED
  BY <1>2, <1>3, CurrentFactNext

\* A file operation of thread t on its message, x.
LEMMA CurChange ==
    ASSUME CurInv, PlaceInv', NEW t \in Threads, NEW x \in Ids,
           call[t].at \in Steps \ {"announcing"}, call[t].id = x,
           UNCHANGED <<messages, pendingAcks>>,
           \A u \in Threads : u # t => call'[u] = call[u],
           call'[t].at = "idle" \/ call'[t].id = x,
           call'[t].at # "rewriting",
           \A id \in Ids : id # x => disk'[id] = disk[id],
           At(t, "appending")' => disk'[x] = Msg(t)',
           \A m : Holds(m) /\ m.id = x => disk'[x] = m
    PROVE  FileIsCurrent' /\ Written'
<1>1. \A m : Holds(m)' <=> Holds(m)
  BY DEF Holds
<1>2. \A m : Holds(m) => m.id \in Ids
  <2>1. /\ \A i \in DOMAIN messages : messages[i] \in Message
        /\ \A id \in DOMAIN pendingAcks : pendingAcks[id] \in Message
    BY DEF CurInv, PlaceInv, TypeOK
  <2> QED
    BY <2>1 DEF Holds, Message
<1>3. \A u \in Threads, id \in Ids : id # x => (Rewriting(u, id) => Rewriting(u, id)')
  BY DEF Rewriting, Handles
<1>4. \A m : Holds(m)' => Current(m)'
  BY <1>1, <1>2, <1>3, CurrentFact DEF CurInv, Current
<1>5. ASSUME NEW u \in Threads, u # t, At(u, "appending") PROVE call[u].id \in Ids /\ call[u].id # x
  <2>1. call[u].id \in Ids
    BY <1>5, CallFields DEF CurInv, PlaceInv, At, Steps, PushSteps, MessageCall
  <2>2. Handles(u, call[u].id, Hands)
    BY <1>5 DEF Handles, Hands, At, PushSteps
  <2>3. ~Queued(call[u].id)
    BY <2>1, <2>2 DEF CurInv, PlaceInv, OnePlace
  <2>4. CASE call[t].at = "rewriting"
    BY <2>1, <2>3, <2>4 DEF CurInv, PlaceInv, UpdateKeepsLock, At
  <2>5. CASE call[t].at # "rewriting"
    <3>1. Handles(t, x, Hands)
      BY <2>5 DEF Handles, Hands, Steps
    <3> QED
      BY <1>5, <2>1, <2>2, <3>1 DEF CurInv, PlaceInv, OnePlace
  <2> QED
    BY <2>1, <2>4, <2>5
<1>6. Written'
  <2>1. \A u \in Threads : u # t => Msg(u)' = Msg(u) /\ (At(u, "appending")' => At(u, "appending"))
                                    /\ (At(u, "rewriting")' => At(u, "rewriting"))
    BY DEF Msg, At
  <2>2. ~At(t, "rewriting")'
    BY DEF At
  <2>3. At(t, "appending")' => disk'[call'[t].id] = Msg(t)'
    BY DEF At
  <2>4. \A u \in Threads : u # t /\ At(u, "appending")' => disk'[call'[u].id] = Msg(u)'
    BY <1>5, <2>1 DEF CurInv, Written
  <2> QED
    BY <2>1, <2>2, <2>3, <2>4 DEF CurInv, Written
<1> QED
  BY <1>4, <1>6, CurrentFactNext

\* The calls that begin bring no new message into memory.
LEMMA BeginHolds ==
    ASSUME TypeOK, NEW p \in Threads,
           \/ Pop(p)
           \/ \E id \in Ids : PushCheck(p, id) \/ NegativeAcknowledge(p, id)
                              \/ AckTake(p, id) \/ DLQTake(p, id)
    PROVE  \A m : Holds(m)' => Holds(m)
<1> USE DEF memory, OnlyMemory
<1>0. messages \in Seq(Message)
  BY DEF TypeOK
<1>1. CASE Pop(p)
  <2>1. /\ messages # <<>> /\ messages' = Tail(messages)
        /\ \A i \in DOMAIN pendingAcks' :
               pendingAcks'[i] = Head(messages) \/ (i \in DOMAIN pendingAcks /\ pendingAcks'[i] = pendingAcks[i])
    BY <1>1 DEF Pop
  <2>2. /\ 1 \in DOMAIN messages /\ Head(messages) = messages[1]
        /\ \A i \in DOMAIN messages' : i + 1 \in DOMAIN messages /\ messages'[i] = messages[i + 1]
    BY <1>0, <2>1
  <2> QED
    BY <2>1, <2>2 DEF Holds
<1>2. ASSUME NEW x \in Ids, PushCheck(p, x) PROVE \A m : Holds(m)' => Holds(m)
  BY <1>2 DEF PushCheck, Holds
<1>3. ASSUME NEW x \in Ids, NegativeAcknowledge(p, x) PROVE \A m : Holds(m)' => Holds(m)
  <2>1. /\ x \in DOMAIN pendingAcks /\ pendingAcks[x] \in Message
        /\ messages' = <<pendingAcks[x]>> \o messages
        /\ \A i \in DOMAIN pendingAcks' : i \in DOMAIN pendingAcks /\ pendingAcks'[i] = pendingAcks[i]
    BY <1>3 DEF NegativeAcknowledge, TakeBack, TypeOK
  <2>2. \A i \in DOMAIN messages' :
            messages'[i] = pendingAcks[x] \/ \E j \in DOMAIN messages : messages'[i] = messages[j]
    BY <1>0, <2>1
  <2> QED
    BY <2>1, <2>2 DEF Holds
<1>4. ASSUME NEW x \in Ids, RemoveAll(x) \/ UNCHANGED messages,
             TakeBack({x}) \/ UNCHANGED pendingAcks
      PROVE  \A m : Holds(m)' => Holds(m)
  <2>1. \A i \in DOMAIN messages' : \E j \in DOMAIN messages : messages'[i] = messages[j]
    BY <1>4, RemoveAllFact
  <2>2. \A i \in DOMAIN pendingAcks' : i \in DOMAIN pendingAcks /\ pendingAcks'[i] = pendingAcks[i]
    BY <1>4 DEF TakeBack
  <2> QED
    BY <2>1, <2>2 DEF Holds
<1> QED
  BY <1>1, <1>2, <1>3, <1>4 DEF AckTake, DLQTake

\* The visits to memory that begin a call.
LEMMA CurBegin ==
    ASSUME CurInv, PlaceInv', NEW p \in Threads,
           \/ Pop(p)
           \/ \E id \in Ids : PushCheck(p, id) \/ NegativeAcknowledge(p, id)
                              \/ AckTake(p, id) \/ DLQTake(p, id)
    PROVE  FileIsCurrent' /\ Written'
<1> USE DEF files, OnlyMemory
<1>1. /\ UNCHANGED disk /\ Unlocked /\ TypeOK
      /\ call[p].at \notin {"rewriting", "saving"}
  BY DEF Pop, PushCheck, NegativeAcknowledge, AckTake, DLQTake, At, CurInv, PlaceInv
<1>2. /\ \A u \in Threads : u # p => call'[u] = call[u]
      /\ call'[p].at \in {"reporting", "opening", "acking", "burying"}
  BY <1>1, OwnCall DEF Pop, PushCheck, NegativeAcknowledge, AckTake, DLQTake
<1>3. \A m : Holds(m)' => Holds(m)
  BY <1>1, BeginHolds
<1> QED
  BY <1>1, <1>2, <1>3, CurVisit

LEMMA CurTimeouts ==
    ASSUME CurInv, PlaceInv', CheckTimeouts
    PROVE  FileIsCurrent' /\ Written'
<1>1. /\ UNCHANGED disk /\ Unlocked
      /\ Checker \in Threads /\ call[Checker].at = "idle"
  BY DEF CheckTimeouts, OnlyMemory, files, At, Threads
<1>2. (\A u \in Threads : u # Checker => call'[u] = call[u]) /\ call'[Checker].at = "reporting"
  BY <1>1, OwnCall DEF CheckTimeouts, CurInv, PlaceInv
<1>3. TypeOK /\ IsFiniteSet(late) /\ late \subseteq DOMAIN pendingAcks /\ messages \in Seq(Message)
  BY IdsAssumption, FS_Subset DEF CurInv, PlaceInv, TypeOK
<1>4. PICK f \in Bijection(1..Cardinality(late), late) :
          messages' = [i \in DOMAIN f |-> pendingAcks[f[i]]] \o messages
  BY DEF CheckTimeouts
<1>5. \A id \in late : pendingAcks[id] \in Message
  BY <1>3 DEF TypeOK
<1> DEFINE front == [i \in DOMAIN f |-> pendingAcks[f[i]]]
<1>6. front \in Seq(Message)
  BY <1>3, <1>5, EnumerationType
<1>7. \A i \in DOMAIN front : \E id \in DOMAIN pendingAcks : front[i] = pendingAcks[id]
  BY <1>3 DEF Bijection, Injection
<1> HIDE DEF front
<1>8. messages' = front \o messages
  BY <1>4 DEF front
<1>9. \A i \in DOMAIN messages' : \/ \E j \in DOMAIN front : messages'[i] = front[j]
                                  \/ \E j \in DOMAIN messages : messages'[i] = messages[j]
  BY <1>3, <1>6, <1>8
<1>10. \A id \in DOMAIN pendingAcks' : id \in DOMAIN pendingAcks /\ pendingAcks'[id] = pendingAcks[id]
  BY DEF CheckTimeouts, TakeBack
<1>11. \A m : Holds(m)' => Holds(m)
  BY <1>7, <1>9, <1>10 DEF Holds
<1> QED
  BY <1>1, <1>2, <1>11, CurVisit

\* The steps of a call that touch no file.
LEMMA CurProceed ==
    ASSUME CurInv, PlaceInv', NEW t \in Threads,
           \/ PushAppend(t) \/ PushAnnounce(t) \/ FinishReport(t)
           \/ AckReport(t) \/ DLQReport(t) \/ DLQCount(t)
    PROVE  FileIsCurrent' /\ Written'
<1> USE DEF memory, files, OnlySignals
<1>1. /\ UNCHANGED <<disk, pendingAcks>> /\ TypeOK
      /\ call[t].at \in {"appending", "announcing", "reporting", "acking", "burying", "counting"}
  BY DEF PushAppend, PushAnnounce, FinishReport, AckReport, DLQReport, DLQCount, At, CurInv, PlaceInv
<1>2. /\ \A u \in Threads : u # t => call'[u] = call[u]
      /\ call'[t].at \in {"announcing", "idle", "unlinking", "truncating"}
  <2>1. call[t].at = "reporting" \/ call[t].at \in Steps
    BY <1>1 DEF Steps, PushSteps, AckSteps, DLQSteps
  <2> QED
    BY <1>1, <2>1, OwnCall
       DEF PushAppend, PushAnnounce, FinishReport, AckReport, DLQReport, DLQCount, At
<1>3. CASE PushAppend(t)
  <2>1. /\ Unlocked /\ messages \in Seq(Message) /\ messages' = Append(messages, Msg(t))
        /\ disk[Msg(t).id] = Msg(t)
    BY <1>1, <1>3 DEF PushAppend, CurInv, Written, Msg, TypeOK
  <2>2. \A i \in DOMAIN messages' : messages'[i] = Msg(t) \/ \E j \in DOMAIN messages : messages'[i] = messages[j]
    BY <2>1
  <2>3. \A m : Holds(m)' => Holds(m) \/ m = Msg(t)
    BY <1>1, <2>2 DEF Holds
  <2> QED
    BY <1>1, <1>2, <2>1, <2>3, CurVisit
<1>4. CASE UNCHANGED messages
  <2>1. \A m : Holds(m)' => Holds(m)
    BY <1>1, <1>4 DEF Holds
  <2> QED
    BY <1>1, <1>2, <1>4, <2>1, CurVisit
<1> QED
  BY <1>3, <1>4 DEF PushAnnounce, FinishReport, AckReport, DLQReport, DLQCount

\* The file operations: only an update touches the file of a message in memory.
LEMMA CurFile ==
    ASSUME SoundWrites, CurInv, PlaceInv', NEW t \in Threads,
           \/ PushOpen(t) \/ PushWrite(t) \/ AckUnlink(t) \/ UpdateWrite(t)
           \/ DLQTruncate(t) \/ DLQSave(t) \/ DLQRename(t) \/ DLQCopy(t) \/ DLQRemove(t)
    PROVE  FileIsCurrent' /\ Written'
<1> USE DEF memory, files, OnlyFiles
<1>1. /\ TypeOK /\ UNCHANGED <<messages, pendingAcks>> /\ disk \in [Ids -> File]
      /\ call[t].at \in Steps \ {"announcing"}
  BY DEF PushOpen, PushWrite, AckUnlink, UpdateWrite, DLQTruncate, DLQSave, DLQRename,
         DLQCopy, DLQRemove, At, CurInv, PlaceInv, TypeOK, Steps, PushSteps, AckSteps, DLQSteps
<1>2. PICK x \in Ids : call[t].id = x
  BY <1>1, OwnMessage
<1>3. /\ \A u \in Threads : u # t => call'[u] = call[u]
      /\ call'[t].at = "idle" \/ call'[t].id = x
      /\ call'[t].at # "rewriting"
      /\ call'[t].at = "appending" => disk' = [disk EXCEPT ![x] = Msg(t)] /\ Continue(t, "appending")
  <2>1. \/ disk' = [disk EXCEPT ![x] = Msg(t)] /\ Continue(t, "appending")
        \/ Return(t)
        \/ \E step \in {"writing", "saving", "renaming", "copying", "removing", "counting"} :
               Continue(t, step)
    BY <1>2 DEF PushOpen, Truncate, PushWrite, AckUnlink, UpdateWrite, DLQTruncate, DLQSave,
                DLQRename, DLQCopy, DLQRemove
  <2> QED
    BY <1>1, <1>2, <2>1, OwnCall
<1>4. disk' = disk \/ \E c : disk' = [disk EXCEPT ![x] = c]
  BY <1>2 DEF PushOpen, Truncate, PushWrite, AckUnlink, UpdateWrite, DLQTruncate, DLQSave,
              DLQRename, DLQCopy, DLQRemove, WriteFails
<1>5. \A id \in Ids : id # x => disk'[id] = disk[id]
  BY <1>1, <1>4, OneFile
<1>6. ASSUME At(t, "appending")' PROVE disk'[x] = Msg(t)'
  <2>1. disk'[x] = Msg(t) /\ Continue(t, "appending")
    BY <1>1, <1>3, <1>6 DEF At
  <2>2. call[t] \in MessageCall /\ call'[t] = [call[t] EXCEPT !.at = "appending"]
    BY <1>1, <2>1, CallFields DEF Continue, TypeOK
  <2>3. Msg(t)' = Msg(t)
    BY <2>2 DEF Msg, MessageCall
  <2> QED
    BY <2>1, <2>3
<1>7. \A m : Holds(m) /\ m.id = x => disk'[x] = m
  <2>1. CASE call[t].at = "rewriting"
    <3>1. UpdateWrite(t)
      BY <2>1 DEF PushOpen, PushWrite, AckUnlink, DLQTruncate, DLQSave, DLQRename, DLQCopy, DLQRemove, At
    <3>2. disk'[x] = Msg(t)
      BY <1>1, <1>2, <3>1 DEF UpdateWrite, SoundWrites
    <3>3. PICK i \in DOMAIN messages : messages[i] = Msg(t) /\ messages[i].id = x
      <4>1. Msg(t).id = x
        BY <1>2 DEF Msg
      <4> QED
        BY <2>1, <4>1 DEF CurInv, Written, At
    <3>4. \A m : Holds(m) /\ m.id = x => m = messages[i]
      BY <3>3 DEF CurInv, PlaceInv, OnePlace, Holds, Queued
    <3> QED
      BY <3>2, <3>3, <3>4
  <2>2. CASE call[t].at # "rewriting"
    <3>1. Handles(t, x, Hands)
      BY <1>1, <1>2, <2>2 DEF Handles, Hands, Steps
    <3>2. ~Queued(x) /\ x \notin DOMAIN pendingAcks
      BY <3>1 DEF CurInv, PlaceInv, OnePlace
    <3> QED
      BY <3>2 DEF CurInv, PlaceInv, OnePlace, Holds, Queued
  <2> QED
    BY <2>1, <2>2
<1> QED
  BY <1>1, <1>2, <1>3, <1>5, <1>6, <1>7, CurChange

LEMMA CurUpdateMemory ==
    ASSUME CurInv, PlaceInv', NEW p \in Threads, NEW m \in Message, UpdateMemory(p, m)
    PROVE  FileIsCurrent' /\ Written'
<1>1. PICK k \in DOMAIN messages :
          messages[k].id = m.id /\ messages' = [messages EXCEPT ![k] = m]
  BY DEF UpdateMemory, First
<1>2. PICK x \in Ids : m.id = x
  BY DEF Message
<1>3. /\ TypeOK /\ Unlocked /\ call[p].at = "idle" /\ disk \in [Ids -> File]
      /\ pendingAcks' = pendingAcks
      /\ disk' = [disk EXCEPT ![x] = Torn] /\ GoTo(p, "rewriting", m, 0)
  BY <1>2 DEF UpdateMemory, At, CurInv, PlaceInv, TypeOK
<1>4. /\ \A u \in Threads : u # p => call'[u] = call[u]
      /\ call'[p].at = "rewriting" /\ call'[p].id = x
  BY <1>2, <1>3, OwnCall
<1>5. Msg(p)' = m
  <2>1. call'[p] = [at |-> "rewriting", id |-> m.id, rc |-> m.rc, size |-> 0]
    BY <1>3 DEF GoTo, TypeOK
  <2> QED
    BY <2>1 DEF Msg, Message
<1>6. /\ k \in DOMAIN messages' /\ messages'[k] = m
      /\ \A i \in DOMAIN messages' : i # k => i \in DOMAIN messages /\ messages'[i] = messages[i]
                                              /\ messages[i].id # x
  <2>1. messages \in Seq(Message)
    BY <1>3 DEF TypeOK
  <2> QED
    BY <1>1, <1>2, <2>1 DEF CurInv, PlaceInv, OnePlace
<1>7. \A n : Holds(n)' => n.id = x \/ Holds(n)
  BY <1>2, <1>3, <1>6 DEF Holds
<1>8. Rewriting(p, x)'
  BY <1>4 DEF Rewriting, Handles
<1>9. \A u \in Threads : \A id : Rewriting(u, id) => Rewriting(u, id)'
  BY <1>3, <1>4 DEF Rewriting, Handles
<1>10. /\ \A i \in DOMAIN messages : messages[i] \in Message
       /\ \A id \in DOMAIN pendingAcks : pendingAcks[id] \in Message
  BY <1>3 DEF TypeOK
<1>11. \A n : Holds(n) => n.id \in Ids
  BY <1>10 DEF Holds, Message
<1>12. \A n : Holds(n)' => Current(n)'
  <2>1. \A id \in Ids : id # x => disk'[id] = disk[id]
    BY <1>3, OneFile
  <2> QED
    BY <1>7, <1>8, <1>9, <1>11, <2>1, CurrentFact DEF CurInv, Current
<1>13. Written'
  <2>1. \A u \in Threads : At(u, "rewriting")' => \E i \in DOMAIN messages' : messages'[i] = Msg(u)'
    <3>1. \A u \in Threads : At(u, "rewriting")' => u = p
      BY <1>3, <1>4 DEF Unlocked, At
    <3> QED
      BY <1>5, <1>6, <3>1
  <2>2. ASSUME NEW u \in Threads, At(u, "appending")' PROVE disk'[call'[u].id] = Msg(u)'
    <3>1. u # p /\ call'[u] = call[u] /\ Msg(u)' = Msg(u) /\ At(u, "appending")
      BY <1>4, <2>2 DEF At, Msg
    <3>2. call[u].id \in Ids
      BY <1>3, <3>1, CallFields DEF At, Steps, PushSteps, MessageCall
    <3>3. Handles(u, call[u].id, Hands) /\ Queued(x)
      BY <1>1, <1>2, <3>1 DEF Handles, Hands, At, PushSteps, Queued
    <3>4. call[u].id # x
      BY <3>2, <3>3 DEF CurInv, PlaceInv, OnePlace
    <3> QED
      BY <1>3, <3>1, <3>2, <3>4, OneFile DEF CurInv, Written
  <2> QED
    BY <2>1, <2>2 DEF Written
<1> QED
  BY <1>12, <1>13, CurrentFactNext

LEMMA CurRestart ==
    ASSUME PlaceInv', Restart
    PROVE  FileIsCurrent' /\ Written'
<1> DEFINE saved == {id \in Ids : Readable(disk, id)}
<1>1. PICK f \in Bijection(1..Cardinality(saved), saved) :
          messages' = [i \in DOMAIN f |-> disk[f[i]]]
  BY DEF Restart
<1>2. pendingAcks' = <<>> /\ disk' = disk /\ call' = [t \in Threads |-> Idle]
  BY Zenon DEF Restart, files
<1>3. \A i \in DOMAIN f : f[i] \in saved
  BY DEF Bijection, Injection
<1>4. \A id \in saved : disk[id].id = id
  BY DEF Readable
<1>5. \A i \in DOMAIN messages' : disk'[messages'[i].id] = messages'[i]
  BY <1>1, <1>2, <1>3, <1>4
<1>6. \A t \in Threads : call'[t].at = "idle"
  BY <1>2 DEF Idle
<1>7. Written'
  BY <1>6 DEF Written, At
<1>8. FileIsCurrent'
  BY <1>2, <1>5 DEF FileIsCurrent
<1> QED
  BY <1>7, <1>8

LEMMA CurOthers ==
    ASSUME CurInv, UNCHANGED <<messages, pendingAcks, call, disk>>
    PROVE  FileIsCurrent' /\ Written'
<1>1. \A t, id : Rewriting(t, id)' <=> Rewriting(t, id)
  BY DEF Rewriting, Handles
<1>2. FileIsCurrent'
  BY <1>1 DEF CurInv, FileIsCurrent
<1>3. Written'
  BY DEF CurInv, Written, At, Msg
<1> QED
  BY <1>2, <1>3

LEMMA CurNext == ASSUME SoundWrites PROVE CurInv /\ [Next]_vars => CurInv'
<1> SUFFICES ASSUME CurInv, [Next]_vars PROVE CurInv'
  OBVIOUS
<1> USE DEF memory, files, settled, OnlyMemory, OnlyFiles, OnlySignals
<1>1. PlaceInv'
  BY PlaceNext DEF CurInv
<1>2. pathOk'
  <2>1. CASE Restart
    BY <2>1 DEF Restart
  <2>2. CASE SetStoragePath
    BY <2>2 DEF SetStoragePath, SoundWrites
  <2>3. pathOk' = pathOk \/ Restart \/ SetStoragePath
    BY Zenon DEF Next, Begin, Proceed, vars, Pop, PushCheck, NegativeAcknowledge, AckTake, DLQTake,
       UpdateMemory, PushOpen, PushWrite, PushAppend, PushAnnounce, AckReport, AckUnlink,
       UpdateWrite, DLQReport, DLQTruncate, DLQSave, DLQRename, DLQCopy, DLQRemove, DLQCount,
       FinishReport, CheckTimeouts, Age, Subscribe, ReceiveSignal, ReceiveMessage
  <2> QED
    BY <2>1, <2>2, <2>3 DEF CurInv
<1> SUFFICES FileIsCurrent' /\ Written'
  BY <1>1, <1>2 DEF CurInv
<1>3. ASSUME NEW p \in Procs, Begin(p) PROVE FileIsCurrent' /\ Written'
  <2>1. p \in Threads
    BY DEF Threads
  <2> QED
    BY <1>1, <1>3, <2>1, CurBegin, CurUpdateMemory DEF Begin
<1>4. ASSUME NEW t \in Threads, Proceed(t) PROVE FileIsCurrent' /\ Written'
  BY <1>1, <1>4, CurProceed, CurFile DEF Proceed
<1>5. CASE CheckTimeouts
  BY <1>1, <1>5, CurTimeouts
<1>6. CASE Restart
  BY <1>1, <1>6, CurRestart
<1>7. CASE UNCHANGED vars
  BY <1>7, CurOthers DEF vars
<1>8. ASSUME NEW id \in Ids, Age(id) PROVE FileIsCurrent' /\ Written'
  BY <1>8, CurOthers DEF Age
<1>9. ASSUME NEW l, Subscribe(l) \/ ReceiveSignal(l) \/ ReceiveMessage(l)
      PROVE  FileIsCurrent' /\ Written'
  BY <1>9, CurOthers DEF Subscribe, ReceiveSignal, ReceiveMessage
<1>10. CASE SetStoragePath
  BY <1>10, CurOthers DEF SetStoragePath
<1> QED
  BY <1>3, <1>4, <1>5, <1>6, <1>7, <1>8, <1>9, <1>10 DEF Next

\* While the storage path is good and rewrites arrive, the file of a message
\* that is queued or lent holds exactly what memory holds, its retry count
\* included, except inside the window of an Update; even a process that dies
\* inside such a window starts again from files that agree with its memory
\* (broker.go:374-387).
THEOREM FileIsCurrentCorrect == ASSUME SoundWrites PROVE Spec => []FileIsCurrent
<1>1. CurInv /\ [Next]_vars => CurInv'
  BY CurNext
<1>2. CurInv => FileIsCurrent
  BY DEF CurInv
<1> QED
  BY <1>1, <1>2, CurInit, PTL DEF Spec
=============================================================================
