------------------------------- MODULE Broker -------------------------------
(***************************************************************************)
(* The message broker of pkg/broker/broker.go: a queue and a map of lent   *)
(* messages in memory, one JSON file per message on disk, and a            *)
(* dead-letter directory.                                                  *)
(*                                                                         *)
(* Request handlers and delivery workers (Procs) call Push, Pop,           *)
(* Acknowledge, NegativeAcknowledge, Update and MoveToDLQ concurrently; a  *)
(* ticker goroutine (Checker) returns overdue messages to the queue.  b.mu *)
(* makes each visit to memory atomic, but a call visits memory and disk in *)
(* turn, and everything may happen in between.  Each call is therefore a   *)
(* sequence of steps, and call[t] says which one thread t takes next.      *)
(* Update alone keeps b.mu from one step to the next.                      *)
(*                                                                         *)
(* os.WriteFile truncates the file and then writes it; between the two, or *)
(* after a failed write, the file is Torn: recovery cannot parse it.       *)
(*                                                                         *)
(* Clients never reuse an id the broker has accepted or is accepting, and  *)
(* leave retry_count alone.  Payloads, headers and targets play no part.   *)
(*                                                                         *)
(* A definition whose comment starts with "Seeded defect" is no part of    *)
(* the specification: it is the definition after it, with a bug the code   *)
(* could have had, and shows that a property notices that bug.             *)
(***************************************************************************)
EXTENDS Integers, Sequences, FiniteSets, Functions

CONSTANTS
    Ids,           \* message ids, in the order of their file names
    MaxQueueSize,  \* max_queue_size, 0 for no limit
    MaxRetries,    \* bound on retry_count: max_retries of the dispatcher
    MaxRestarts,   \* bound on the crashes
    Procs,         \* request handlers and delivery workers
    Checker,       \* the goroutine of startTimeoutChecker
    Listeners,     \* who calls Subscribe
    MsgListeners,  \* who calls SubscribeMessages
    FeedCap,       \* capacity of a message channel, 100 in the code
    CrossDevice,   \* TRUE iff os.Rename into the dead-letter directory may fail
    Faults,        \* what may go wrong, see below
    Absent, Torn   \* what a file may be instead of a message

(***************************************************************************)
(* "bad path": the storage path may point nowhere (SetStoragePath).        *)
(* "rewrite error": rewriting a message's only file may fail, in Update or *)
(* in MoveToDLQ.                                                           *)
(* "crash in rewrite": so may the process, between truncation and write.   *)
(* Other writes may always fail.                                           *)
(***************************************************************************)
AllFaults == {"bad path", "rewrite error", "crash in rewrite"}

Message == [id : Ids, rc : 0..MaxRetries]
File == Message \cup {Absent, Torn}
Threads == Procs \cup {Checker}

ASSUME IdsAssumption == Ids \subseteq Nat /\ IsFiniteSet(Ids)
ASSUME BoundsAssumption ==
    /\ MaxQueueSize \in Nat
    /\ MaxRetries \in Nat
    /\ MaxRestarts \in Nat
    /\ FeedCap \in Nat
ASSUME FaultsAssumption == CrossDevice \in BOOLEAN /\ Faults \subseteq AllFaults
ASSUME ThreadsAssumption == Checker \notin Procs
ASSUME FileAssumption == Absent # Torn /\ {Absent, Torn} \cap Message = {}

VARIABLES
    messages,     \* the queue
    pendingAcks,  \* lent messages, by id
    late,         \* the lent ones whose ackTimeout has passed
    disk, dead,   \* the files of the storage and dead-letter directories
    dlqSize,      \* the broker's count of dead letters
    pathOk,       \* TRUE iff storagePath is the configured directory
    call,         \* what each thread is doing
    gauge,        \* telemetry.QueueSize
    subscribed,   \* the listeners that have called Subscribe(Messages)
    signal,       \* the one slot of each listener's channel is taken
    feed,         \* the contents of each message listener's channel
    accepted,     \* ids that have entered the queue, by Push or by Recover
    done,         \* ids for which Acknowledge has returned nil
    restarts      \* number of crashes, up to MaxRestarts

memory   == <<messages, pendingAcks, late>>
files    == <<disk, dead>>
channels == <<subscribed, signal, feed>>
settled  == <<accepted, done, restarts>>
vars == <<memory, files, dlqSize, pathOk, call, gauge, channels, settled>>

PushSteps == {"opening", "writing", "appending", "announcing"}
AckSteps  == {"acking", "unlinking"}
DLQSteps  == {"burying", "truncating", "saving", "renaming", "copying", "removing", "counting"}
Steps == PushSteps \cup AckSteps \cup DLQSteps \cup {"rewriting"}

\* Outside any call, in a call about a message, at the end of another call.
Idle == [at |-> "idle"]
Call ==
    {Idle} \cup [at : Steps, id : Ids, rc : 0..MaxRetries, size : Nat]
           \cup [at : {"reporting"}, size : Nat]

TypeOK ==
    /\ messages \in Seq(Message)
    /\ DOMAIN pendingAcks \subseteq Ids
    /\ pendingAcks \in [DOMAIN pendingAcks -> Message]
    /\ late \subseteq DOMAIN pendingAcks
    /\ disk \in [Ids -> File]
    /\ dead \in [Ids -> File]
    /\ dlqSize \in Nat
    /\ pathOk \in BOOLEAN
    /\ call \in [Threads -> Call]
    /\ gauge \in Nat
    /\ subscribed \subseteq Listeners \cup MsgListeners
    /\ signal \in [Listeners -> BOOLEAN]
    /\ feed \in [MsgListeners -> Seq(Message)]
    /\ accepted \subseteq Ids
    /\ done \subseteq Ids
    /\ restarts \in 0..MaxRestarts

\* NewBroker on empty directories.
Init ==
    /\ messages = <<>>
    /\ pendingAcks = <<>>
    /\ late = {}
    /\ disk = [i \in Ids |-> Absent]
    /\ dead = [i \in Ids |-> Absent]
    /\ dlqSize = 0
    /\ pathOk = TRUE
    /\ call = [t \in Threads |-> Idle]
    /\ gauge = 0
    /\ subscribed = {}
    /\ signal = [l \in Listeners |-> FALSE]
    /\ feed = [l \in MsgListeners |-> <<>>]
    /\ accepted = {}
    /\ done = {}
    /\ restarts = 0

-----------------------------------------------------------------------------
(* The shape of a step. *)

At(t, step) == call[t].at = step

\* Thread t is in a call about the message with this id, at one of these
\* steps.
Handles(t, id, steps) == call[t].at \in steps /\ call[t].id = id

\* b.mu can be taken, shared or exclusive.
Unlocked == \A t \in Threads : ~At(t, "rewriting")

\* Thread t goes on with a call about message m; size is the queue length
\* it has seen.
GoTo(t, step, m, size) ==
    call' = [call EXCEPT ![t] = [at |-> step, id |-> m.id, rc |-> m.rc, size |-> size]]

Continue(t, step) == call' = [call EXCEPT ![t].at = step]

Return(t) == call' = [call EXCEPT ![t] = Idle]

\* All that is left of the call is its report.
LeaveReport(t, size) == call' = [call EXCEPT ![t] = [at |-> "reporting", size |-> size]]

\* The message a call is about.
Msg(t) == [id |-> call[t].id, rc |-> call[t].rc]

Queued(id) == \E i \in DOMAIN messages : messages[i].id = id

\* Seeded defect: the queue is rebuilt in any order.
RemoveAllShuffling(id) ==
    LET kept == {i \in DOMAIN messages : messages[i].id # id}
    IN  \E f \in Bijection(1..Cardinality(kept), kept) :
            messages' = [i \in DOMAIN f |-> messages[f[i]]]

\* messages without any message of this id, in the same order.
RemoveAll(id) ==
    LET kept == {i \in DOMAIN messages : messages[i].id # id}
    IN  \E f \in Bijection(1..Cardinality(kept), kept) :
            /\ \A i, j \in DOMAIN f : i < j => f[i] < f[j]
            /\ messages' = [i \in DOMAIN f |-> messages[f[i]]]

\* The gauge is set to a length seen earlier, after b.mu was released; then
\* every listener without a signal gets one.
Report(t) ==
    /\ Unlocked
    /\ gauge' = call[t].size
    /\ signal' = [l \in Listeners |-> signal[l] \/ l \in subscribed]

\* What a step that visits memory, makes a report, or handles files leaves
\* alone.
OnlyMemory == UNCHANGED <<files, dlqSize, pathOk, gauge, channels, settled>>
OnlySignals == UNCHANGED <<memory, files, dlqSize, pathOk, subscribed, feed, settled>>
OnlyFiles == UNCHANGED <<memory, dlqSize, pathOk, gauge, channels, settled>>

\* os.WriteFile opens and truncates the file.
Truncate(t, next) ==
    /\ pathOk
    /\ disk' = [disk EXCEPT ![call[t].id] = Torn]
    /\ Continue(t, next)

\* A write into a file that has just been truncated.  A failing one may have
\* written nothing, a part, or everything.
WriteFails(file, id, m) == \E c \in {m, Torn} : file' = [file EXCEPT ![id] = c]

-----------------------------------------------------------------------------
(* Push: doPush, without the storage circuit breaker. *)

HasRoom == MaxQueueSize = 0 \/ Len(messages) < MaxQueueSize

\* The clients' side of the bargain: an id is not pushed again once its
\* message has been accepted, nor while another push of it is in progress.
Fresh(id) ==
    /\ id \notin accepted
    /\ \A t \in Threads : ~Handles(t, id, Steps)

\* A push that finds no room returns an error and changes nothing.
PushCheck(p, id) ==
    /\ At(p, "idle") /\ Unlocked
    /\ Fresh(id)
    /\ HasRoom
    /\ GoTo(p, "opening", [id |-> id, rc |-> 0], 0)
    /\ OnlyMemory /\ UNCHANGED memory

\* Seeded defect: the queue takes a message that could not be persisted.
PushOpenUndaunted(p) ==
    /\ At(p, "opening")
    /\ \/ Truncate(p, "writing")
       \/ ~pathOk /\ Continue(p, "appending") /\ UNCHANGED disk
    /\ OnlyFiles /\ UNCHANGED dead

PushOpen(p) ==
    /\ At(p, "opening")
    /\ \/ Truncate(p, "writing")
       \/ ~pathOk /\ Return(p) /\ UNCHANGED disk
    /\ OnlyFiles /\ UNCHANGED dead

\* Seeded defect: the message is announced once it is on disk, not once it
\* is in the queue.
PushWriteAnnouncing(p) ==
    /\ At(p, "writing")
    /\ disk' = [disk EXCEPT ![call[p].id] = Msg(p)]
    /\ Continue(p, "appending")
    /\ feed' = [l \in MsgListeners |->
                   IF l \in subscribed THEN Append(feed[l], Msg(p)) ELSE feed[l]]
    /\ UNCHANGED <<memory, dead, dlqSize, pathOk, gauge, subscribed, signal, settled>>

PushWrite(p) ==
    /\ At(p, "writing")
    /\ \/ disk' = [disk EXCEPT ![call[p].id] = Msg(p)] /\ Continue(p, "appending")
       \/ WriteFails(disk, call[p].id, Msg(p)) /\ Return(p)
    /\ OnlyFiles /\ UNCHANGED dead

PushAppend(p) ==
    /\ At(p, "appending") /\ Unlocked
    /\ messages' = Append(messages, Msg(p))
    /\ accepted' = accepted \cup {call[p].id}
    /\ GoTo(p, "announcing", Msg(p), Len(messages) + 1)
    /\ UNCHANGED <<pendingAcks, late, files, dlqSize, pathOk, gauge, channels, done, restarts>>

\* Report and broadcast; a full channel misses the message.
PushAnnounce(p) ==
    /\ At(p, "announcing")
    /\ Report(p)
    /\ feed' = [l \in MsgListeners |->
                   IF l \in subscribed /\ Len(feed[l]) < FeedCap
                   THEN Append(feed[l], Msg(p)) ELSE feed[l]]
    /\ Return(p)
    /\ UNCHANGED <<memory, files, dlqSize, pathOk, subscribed, settled>>

-----------------------------------------------------------------------------
(* Pop, NegativeAcknowledge and the timeout checker: lending and returning. *)

\* A pop of an empty queue returns an error and changes nothing.
Pop(p) ==
    /\ At(p, "idle") /\ Unlocked
    /\ messages # <<>>
    /\ LET m == Head(messages)
       IN  /\ pendingAcks' = [i \in DOMAIN pendingAcks \cup {m.id} |->
                                 IF i = m.id THEN m ELSE pendingAcks[i]]
           /\ late' = late \ {m.id}
    /\ messages' = Tail(messages)
    /\ LeaveReport(p, Len(messages) - 1)
    /\ OnlyMemory

FinishReport(t) ==
    /\ At(t, "reporting")
    /\ Report(t)
    /\ Return(t)
    /\ OnlySignals

\* The messages with these ids are no longer lent.
TakeBack(ids) ==
    /\ pendingAcks' = [i \in DOMAIN pendingAcks \ ids |-> pendingAcks[i]]
    /\ late' = late \ ids

\* Seeded defect: the message also stays lent.
NegativeAcknowledgeKeepingLoan(p, id) ==
    /\ At(p, "idle") /\ Unlocked
    /\ id \in DOMAIN pendingAcks
    /\ messages' = <<pendingAcks[id]>> \o messages
    /\ LeaveReport(p, Len(messages) + 1)
    /\ OnlyMemory /\ UNCHANGED <<pendingAcks, late>>

NegativeAcknowledge(p, id) ==
    /\ At(p, "idle") /\ Unlocked
    /\ id \in DOMAIN pendingAcks
    /\ TakeBack({id})
    /\ messages' = <<pendingAcks[id]>> \o messages
    /\ LeaveReport(p, Len(messages) + 1)
    /\ OnlyMemory

\* ackTimeout passes for a lent message.
Age(id) ==
    /\ id \in DOMAIN pendingAcks \ late
    /\ late' = late \cup {id}
    /\ OnlyMemory /\ UNCHANGED <<messages, pendingAcks, call>>

\* Seeded defect: overdue messages wait until the queue has room for them.
CheckTimeoutsIfRoom ==
    /\ At(Checker, "idle") /\ Unlocked
    /\ HasRoom
    /\ \E f \in Bijection(1..Cardinality(late), late) :
           messages' = [i \in DOMAIN f |-> pendingAcks[f[i]]] \o messages
    /\ TakeBack(late)
    /\ LeaveReport(Checker, Len(messages) + Cardinality(late))
    /\ OnlyMemory

\* A tick: every overdue message is put in front of the queue, in the
\* arbitrary order of a map iteration.
CheckTimeouts ==
    /\ At(Checker, "idle") /\ Unlocked
    /\ \E f \in Bijection(1..Cardinality(late), late) :
           messages' = [i \in DOMAIN f |-> pendingAcks[f[i]]] \o messages
    /\ TakeBack(late)
    /\ LeaveReport(Checker, Len(messages) + Cardinality(late))
    /\ OnlyMemory

-----------------------------------------------------------------------------
(* Acknowledge: the message leaves memory, then its file is removed. *)

\* Seeded defect: a message that was not lent stays in the queue.
AckTakeLentOnly(p, id) ==
    /\ At(p, "idle") /\ Unlocked
    /\ id \in DOMAIN pendingAcks \/ Queued(id)
    /\ TakeBack({id})
    /\ UNCHANGED messages
    /\ GoTo(p, "acking", [id |-> id, rc |-> 0], Len(messages))
    /\ OnlyMemory

\* An acknowledgement of an id neither lent nor queued returns an error.
AckTake(p, id) ==
    /\ At(p, "idle") /\ Unlocked
    /\ \/ id \in DOMAIN pendingAcks /\ TakeBack({id}) /\ UNCHANGED messages
       \/ /\ id \notin DOMAIN pendingAcks
          /\ Queued(id) /\ RemoveAll(id)
          /\ UNCHANGED <<pendingAcks, late>>
    /\ GoTo(p, "acking", [id |-> id, rc |-> 0], Len(messages'))
    /\ OnlyMemory

AckReport(p) ==
    /\ At(p, "acking")
    /\ Report(p)
    /\ Continue(p, "unlinking")
    /\ OnlySignals

\* RemoveFromDisk.  When it fails, so does Acknowledge, with the message out
\* of memory and its file in place.
AckUnlink(p) ==
    /\ At(p, "unlinking") /\ Unlocked
    /\ LET id == call[p].id
       IN  IF pathOk /\ disk[id] # Absent
           THEN disk' = [disk EXCEPT ![id] = Absent] /\ done' = done \cup {id}
           ELSE UNCHANGED <<disk, done>>
    /\ Return(p)
    /\ UNCHANGED <<memory, dead, dlqSize, pathOk, gauge, channels, accepted, restarts>>

-----------------------------------------------------------------------------
(* Update: the worker counts a failed delivery. *)

First(id, i) == messages[i].id = id /\ \A j \in 1..(i - 1) : messages[j].id # id

\* Seeded defect: Update counts the failure its caller has counted.
UpdateMemoryCounting(p, m) ==
    /\ At(p, "idle") /\ Unlocked
    /\ \E i \in DOMAIN messages :
           First(m.id, i) /\ messages' = [messages EXCEPT ![i] = [m EXCEPT !.rc = m.rc + 1]]
    /\ pathOk
    /\ disk' = [disk EXCEPT ![m.id] = Torn]
    /\ GoTo(p, "rewriting", m, 0)
    /\ UNCHANGED <<pendingAcks, late, dead, dlqSize, pathOk, gauge, channels, settled>>

\* The copy in memory is replaced first.  If the file cannot be opened,
\* Update returns an error; otherwise it holds b.mu until the file is written.
UpdateMemory(p, m) ==
    /\ At(p, "idle") /\ Unlocked
    /\ \E i \in DOMAIN messages : First(m.id, i) /\ messages' = [messages EXCEPT ![i] = m]
    /\ \/ /\ pathOk
          /\ disk' = [disk EXCEPT ![m.id] = Torn]
          /\ GoTo(p, "rewriting", m, 0)
       \/ ~pathOk /\ UNCHANGED <<disk, call>>
    /\ UNCHANGED <<pendingAcks, late, dead, dlqSize, pathOk, gauge, channels, settled>>

\* Seeded defect: the copy that was replaced is saved.
UpdateWriteOld(p) ==
    /\ At(p, "rewriting")
    /\ disk' = [disk EXCEPT ![call[p].id] = [Msg(p) EXCEPT !.rc = 0]]
    /\ Return(p)
    /\ OnlyFiles /\ UNCHANGED dead

\* Seeded defect: b.mu is not released.
UpdateWriteLocked(p) ==
    /\ At(p, "rewriting")
    /\ disk' = [disk EXCEPT ![call[p].id] = Msg(p)]
    /\ UNCHANGED <<memory, dead, dlqSize, pathOk, call, gauge, channels, settled>>

UpdateWrite(p) ==
    /\ At(p, "rewriting")
    /\ \/ disk' = [disk EXCEPT ![call[p].id] = Msg(p)]
       \/ "rewrite error" \in Faults /\ WriteFails(disk, call[p].id, Msg(p))
    /\ Return(p)
    /\ OnlyFiles /\ UNCHANGED dead

-----------------------------------------------------------------------------
(* MoveToDLQ: the message leaves memory, its file is rewritten and moved.   *)

DLQTake(p, id) ==
    /\ At(p, "idle") /\ Unlocked
    /\ RemoveAll(id)
    /\ \E i \in DOMAIN messages :
           First(id, i) /\ GoTo(p, "burying", messages[i], Len(messages'))
    /\ OnlyMemory /\ UNCHANGED <<pendingAcks, late>>

DLQReport(p) ==
    /\ At(p, "burying")
    /\ Report(p)
    /\ Continue(p, "truncating")
    /\ OnlySignals

\* Seeded defect: a move that fails is counted.
DLQTruncateCounting(p) ==
    /\ At(p, "truncating")
    /\ \/ Truncate(p, "saving")
       \/ ~pathOk /\ Continue(p, "counting") /\ UNCHANGED disk
    /\ OnlyFiles /\ UNCHANGED dead

\* With a bad path the write, the rename and the copy all fail.
DLQTruncate(p) ==
    /\ At(p, "truncating")
    /\ \/ Truncate(p, "saving")
       \/ ~pathOk /\ Return(p) /\ UNCHANGED disk
    /\ OnlyFiles /\ UNCHANGED dead

\* Nobody looks at the result of this write.
DLQSave(p) ==
    /\ At(p, "saving")
    /\ \/ disk' = [disk EXCEPT ![call[p].id] = Msg(p)]
       \/ "rewrite error" \in Faults /\ WriteFails(disk, call[p].id, Msg(p))
    /\ Continue(p, "renaming")
    /\ OnlyFiles /\ UNCHANGED dead

\* Seeded defect: when the rename fails, the file is removed before its copy
\* is written.
DLQRenameRemovingFirst(p) ==
    /\ At(p, "renaming")
    /\ LET id == call[p].id
       IN  \/ /\ dead' = [dead EXCEPT ![id] = disk[id]]
              /\ disk' = [disk EXCEPT ![id] = Absent]
              /\ Continue(p, "counting")
           \/ /\ CrossDevice
              /\ dead' = [dead EXCEPT ![id] = Torn]
              /\ disk' = [disk EXCEPT ![id] = Absent]
              /\ Continue(p, "copying")
    /\ OnlyFiles

\* If the rename fails the file is copied instead, unless the copy cannot be
\* opened, and then removed.
DLQRename(p) ==
    /\ At(p, "renaming")
    /\ LET id == call[p].id
       IN  \/ /\ dead' = [dead EXCEPT ![id] = disk[id]]
              /\ disk' = [disk EXCEPT ![id] = Absent]
              /\ Continue(p, "counting")
           \/ /\ CrossDevice
              /\ dead' = [dead EXCEPT ![id] = Torn]
              /\ Continue(p, "copying")
              /\ UNCHANGED disk
           \/ /\ CrossDevice
              /\ Return(p)
              /\ UNCHANGED <<disk, dead>>
    /\ OnlyFiles

DLQCopy(p) ==
    /\ At(p, "copying")
    /\ LET id == call[p].id
       IN  \/ dead' = [dead EXCEPT ![id] = disk[id]] /\ Continue(p, "removing")
           \/ WriteFails(dead, id, disk[id]) /\ Return(p)
    /\ OnlyFiles /\ UNCHANGED disk

\* Nobody looks at the result of the removal either: a file that stays is
\* recovered at the next start, although its copy is counted.
DLQRemove(p) ==
    /\ At(p, "removing")
    /\ \/ disk' = [disk EXCEPT ![call[p].id] = Absent]
       \/ UNCHANGED disk
    /\ Continue(p, "counting")
    /\ OnlyFiles /\ UNCHANGED dead

\* The listeners have been told before, and are not told again.
DLQCount(p) ==
    /\ At(p, "counting") /\ Unlocked
    /\ dlqSize' = dlqSize + 1
    /\ Return(p)
    /\ UNCHANGED <<memory, files, pathOk, gauge, channels, settled>>

-----------------------------------------------------------------------------
(* The listeners, the operator, and crashes. *)

Subscribe(l) ==
    /\ Unlocked
    /\ l \notin subscribed
    /\ subscribed' = subscribed \cup {l}
    /\ UNCHANGED <<memory, files, dlqSize, pathOk, call, gauge, signal, feed, settled>>

ReceiveSignal(l) ==
    /\ signal[l]
    /\ signal' = [signal EXCEPT ![l] = FALSE]
    /\ UNCHANGED <<memory, files, dlqSize, pathOk, call, gauge, subscribed, feed, settled>>

ReceiveMessage(l) ==
    /\ feed[l] # <<>>
    /\ feed' = [feed EXCEPT ![l] = Tail(feed[l])]
    /\ UNCHANGED <<memory, files, dlqSize, pathOk, call, gauge, subscribed, signal, settled>>

SetStoragePath ==
    /\ "bad path" \in Faults
    /\ Unlocked
    /\ pathOk' = ~pathOk
    /\ UNCHANGED <<memory, files, dlqSize, call, gauge, channels, settled>>

\* What Recover reads: the files it can parse.
Readable(file, id) == file[id] \in [id : {id}, rc : 0..MaxRetries]

\* The window in which a file that was complete is not.
Rewriting(t, id) == Handles(t, id, {"rewriting", "saving"})

\* The process dies and NewBroker starts it again: Recover loads the files in
\* the order of their names, and counts the dead letters.
Restart ==
    /\ restarts < MaxRestarts
    /\ \/ "crash in rewrite" \in Faults
       \/ \A t \in Threads, id \in Ids : ~Rewriting(t, id)
    /\ LET saved == {id \in Ids : Readable(disk, id)}
       IN  /\ \E f \in Bijection(1..Cardinality(saved), saved) :
                  /\ \A i, j \in DOMAIN f : i < j => f[i] < f[j]
                  /\ messages' = [i \in DOMAIN f |-> disk[f[i]]]
           /\ gauge' = Cardinality(saved)
           /\ accepted' = accepted \cup saved
    /\ dlqSize' = Cardinality({id \in Ids : dead[id] # Absent})
    /\ pendingAcks' = <<>>
    /\ late' = {}
    /\ pathOk' = TRUE
    /\ call' = [t \in Threads |-> Idle]
    /\ subscribed' = {}
    /\ signal' = [l \in Listeners |-> FALSE]
    /\ feed' = [l \in MsgListeners |-> <<>>]
    /\ restarts' = restarts + 1
    /\ UNCHANGED <<files, done>>

-----------------------------------------------------------------------------
\* A thread takes up a new call.
Begin(p) ==
    \/ Pop(p)
    \/ \E id \in Ids : \/ PushCheck(p, id)
                       \/ NegativeAcknowledge(p, id)
                       \/ AckTake(p, id)
                       \/ DLQTake(p, id)
    \/ \E m \in Message : m.rc > 0 /\ UpdateMemory(p, m)

\* A thread goes on with its call.
Proceed(t) ==
    \/ PushOpen(t) \/ PushWrite(t) \/ PushAppend(t) \/ PushAnnounce(t)
    \/ AckReport(t) \/ AckUnlink(t)
    \/ UpdateWrite(t)
    \/ DLQReport(t) \/ DLQTruncate(t) \/ DLQSave(t) \/ DLQRename(t)
    \/ DLQCopy(t) \/ DLQRemove(t) \/ DLQCount(t)
    \/ FinishReport(t)

Next ==
    \/ \E p \in Procs : Begin(p)
    \/ \E t \in Threads : Proceed(t)
    \/ CheckTimeouts
    \/ \E id \in Ids : Age(id)
    \/ \E l \in Listeners \cup MsgListeners : Subscribe(l)
    \/ \E l \in Listeners : ReceiveSignal(l)
    \/ \E l \in MsgListeners : ReceiveMessage(l)
    \/ SetStoragePath
    \/ Restart

Spec == Init /\ [][Next]_vars

(***************************************************************************)
(* A thread goes on with its call: file operations return, and a thread    *)
(* waiting for b.mu gets it in the end however often others take it first, *)
(* for sync.RWMutex lets no one wait forever; hence strong fairness.  The  *)
(* ticker keeps ticking.  No client is obliged to call, no message to be   *)
(* late, no channel to be read.                                            *)
(***************************************************************************)
Fairness ==
    /\ \A t \in Threads : SF_vars(Proceed(t))
    /\ SF_vars(CheckTimeouts)

FairSpec == Spec /\ Fairness

-----------------------------------------------------------------------------
(* Properties. *)

\* The steps of a call during which its message is nowhere in memory.
Hands == (PushSteps \ {"announcing"}) \cup AckSteps \cup DLQSteps

\* A message is in one place: once in the queue, or lent once, or in the hands
\* of one call that is accepting, acknowledging or burying it.  No two of these
\* calls touch its file, though file operations take no lock (broker.go:160,
\* 263-277, 324).  A consumer whose loan is overdue may think it still has the
\* message; the broker has offered it to others by then.
OnePlace ==
    /\ \A i, j \in DOMAIN messages : messages[i].id = messages[j].id => i = j
    /\ \A id \in DOMAIN pendingAcks : pendingAcks[id].id = id /\ ~Queued(id)
    /\ \A id \in Ids, t \in Threads :
           Handles(t, id, Hands) =>
               /\ ~Queued(id) /\ id \notin DOMAIN pendingAcks
               /\ \A u \in Threads : Handles(u, id, Hands) => u = t

\* An accepted message that no acknowledgement has removed can be read from
\* the storage or the dead-letter directory at every moment, so that a crash
\* cannot lose it; the exception is a file that is being rewritten
\* (broker.go:160, 264-277, 387).
Durable ==
    \A id \in accepted \ done :
        Readable(disk, id) \/ Readable(dead, id) \/ \E t \in Threads : Rewriting(t, id)

\* Unless writes go wrong, a crash never costs a retry count either: the file
\* of a queued or lent message holds what memory holds (broker.go:374-387).
FileIsCurrent ==
    /\ \A i \in DOMAIN messages :
           LET m == messages[i]
           IN  disk[m.id] = m \/ \E t \in Threads : Rewriting(t, m.id)
    /\ \A id \in DOMAIN pendingAcks :
           disk[id] = pendingAcks[id] \/ \E t \in Threads : Rewriting(t, id)

\* Once Acknowledge has returned nil the message is gone for good: from the
\* queue, from the lent messages, and from the disk, crash or no crash
\* (broker.go:287-324).
AckIsFinal ==
    \A id \in done : ~Queued(id) /\ id \notin DOMAIN pendingAcks /\ disk[id] = Absent

\* The counter of dead letters is the number of files there, short only of
\* the moves about to be counted (broker.go:130-137, 281-283).
DLQSizeIsHonest ==
    ~CrossDevice =>
        dlqSize + Cardinality({t \in Threads : At(t, "counting")})
            = Cardinality({id \in Ids : dead[id] # Absent})

\* Message a is ahead of message b in the queue.
Ahead(a, b) ==
    \E i, j \in DOMAIN messages : i < j /\ messages[i].id = a /\ messages[j].id = b

\* While the process runs, no two messages that stay in the queue change
\* places, whatever is removed, replaced or put back around them
\* (broker.go:166, 199, 245-251, 307-313, 339, 357, 376).
KeepsOrder ==
    [][restarts' = restarts =>
           \A a, b \in Ids : Ahead(a, b) /\ Queued(a)' /\ Queued(b)' => Ahead(a, b)']_vars

\* The broker is an outbox: the fates of its messages are those of the
\* abstract specification, and so is what it offers its consumers.
fate ==
    [id \in Ids |->
        IF id \in done THEN "done"
        ELSE IF id \notin accepted THEN "unsent"
        ELSE IF Readable(disk, id) \/ \E t \in Threads : Rewriting(t, id) THEN "stored"
        ELSE IF Readable(dead, id) THEN "dead"
        ELSE "lost"]

offered == {id \in Ids : Queued(id) \/ id \in DOMAIN pendingAcks}

O == INSTANCE Outbox WITH status <- fate, available <- offered

IsOutbox == O!Spec

\* A channel announces a message at most once, and only when the broker has
\* accepted it: whoever is told of a message finds it in the broker, or
\* somebody has dealt with it already (broker.go:160-186).
FeedIsHonest ==
    \A l \in MsgListeners : \A i, j \in DOMAIN feed[l] :
        /\ feed[l][i].id = feed[l][j].id => i = j
        /\ feed[l][i].id \in accepted

\* Every call returns: none waits for ever for the mutex, which Update holds
\* across its file write while others come and go, nor for a listener, and
\* every failure leads out of the call (broker.go:141-391).
CallsReturn == \A t \in Threads : ~At(t, "idle") ~> At(t, "idle")

\* A message whose consumer went away does not stay lent (broker.go:349-366).
LateReturns == \A id \in Ids : id \in late ~> id \notin late
=============================================================================
