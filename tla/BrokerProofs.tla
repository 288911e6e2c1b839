---------------------------- MODULE BrokerProofs ----------------------------
(***************************************************************************)
(* What the broker guarantees for any set of ids, any number of threads,   *)
(* listeners and restarts, and any queue limit.                            *)
(***************************************************************************)
EXTENDS Broker, TLAPS, FiniteSetTheorems, SequenceTheorems

MessageCall == [at : Steps, id : Ids, rc : 0..MaxRetries, size : Nat]

\* A call at one of the steps that handle a message has one.
LEMMA CallFields ==
    ASSUME TypeOK, NEW t \in Threads, call[t].at \in Steps
    PROVE  /\ call[t] \in MessageCall
           /\ Msg(t) \in Message
BY DEF TypeOK, Call, MessageCall, Idle, Steps, PushSteps, AckSteps, DLQSteps, Msg, Message

\* What a thread does next is always well formed.
LEMMA CallSteps ==
    ASSUME TypeOK, NEW t \in Threads
    PROVE  /\ \A step \in Steps, m \in Message, size \in Nat :
                  GoTo(t, step, m, size) => call' \in [Threads -> Call]
           /\ \A step \in Steps : call[t].at \in Steps /\ Continue(t, step)
                  => call' \in [Threads -> Call]
           /\ Return(t) => call' \in [Threads -> Call]
           /\ \A size \in Nat : LeaveReport(t, size) => call' \in [Threads -> Call]
<1>1. ASSUME NEW step \in Steps, NEW m \in Message, NEW size \in Nat,
             GoTo(t, step, m, size)
      PROVE  call' \in [Threads -> Call]
  BY <1>1 DEF TypeOK, GoTo, Call, Message
<1>2. ASSUME NEW step \in Steps, call[t].at \in Steps, Continue(t, step)
      PROVE  call' \in [Threads -> Call]
  <2>1. call[t] \in MessageCall
    BY <1>2, CallFields
  <2>2. [call[t] EXCEPT !.at = step] \in Call
    BY <2>1 DEF MessageCall, Call
  <2> QED
    BY <1>2, <2>2 DEF Continue, TypeOK
<1>3. Return(t) => call' \in [Threads -> Call]
  BY DEF TypeOK, Return, Call
<1>4. ASSUME NEW size \in Nat, LeaveReport(t, size)
      PROVE  call' \in [Threads -> Call]
  BY <1>4 DEF TypeOK, LeaveReport, Call
<1> QED
  BY <1>1, <1>2, <1>3, <1>4

\* What is left when the messages of an id are removed.
LEMMA RemoveAllFact ==
    ASSUME TypeOK, NEW id, RemoveAll(id)
    PROVE  /\ messages' \in Seq(Message)
           /\ \A j \in DOMAIN messages' : \E i \in DOMAIN messages :
                  messages'[j] = messages[i] /\ messages[i].id # id
           /\ \A i \in DOMAIN messages : messages[i].id # id =>
                  \E j \in DOMAIN messages' : messages'[j] = messages[i]
           /\ (\A i, j \in DOMAIN messages : messages[i].id = messages[j].id => i = j)
                => \A i, j \in DOMAIN messages' : messages'[i].id = messages'[j].id => i = j
<1> DEFINE kept == {i \in DOMAIN messages : messages[i].id # id}
<1>1. PICK f \in Bijection(1..Cardinality(kept), kept) :
          messages' = [i \in DOMAIN f |-> messages[f[i]]]
  BY DEF RemoveAll
<1>2. /\ messages \in Seq(Message)
      /\ DOMAIN messages = 1..Len(messages)
      /\ Len(messages) \in Nat
  BY LenProperties DEF TypeOK
<1>3. Cardinality(kept) \in Nat
  <2>1. IsFiniteSet(1..Len(messages))
    BY <1>2, FS_Interval
  <2>2. IsFiniteSet(kept)
    BY <1>2, <2>1, FS_Subset
  <2> QED
    BY <2>2, FS_CardinalityType
<1> DEFINE n == Cardinality(kept)
<1> HIDE DEF n
<1>4. /\ f \in [1..n -> kept]
      /\ \A a, b \in 1..n : f[a] = f[b] => a = b
      /\ \A k \in kept : \E a \in 1..n : f[a] = k
  BY DEF Bijection, Injection, Surjection, IsInjective, n
<1>5. /\ messages' = [i \in 1..n |-> messages[f[i]]]
      /\ \A i \in 1..n : messages[f[i]] \in Message
  BY <1>1, <1>2, <1>4
<1>6. messages' \in Seq(Message)
  BY <1>3, <1>5, SeqDef DEF n
<1> QED
  BY <1>4, <1>5, <1>6

\* The gauge and the signals after a report.
LEMMA ReportType ==
    ASSUME TypeOK, NEW t \in Threads, call[t].at \in Steps \cup {"reporting"}, Report(t)
    PROVE  /\ gauge' \in Nat
           /\ signal' \in [Listeners -> BOOLEAN]
<1>1. call[t].size \in Nat
  BY DEF TypeOK, Call, Idle, Steps, PushSteps, AckSteps, DLQSteps
<1> QED
  BY <1>1 DEF Report

LEMMA TypeInit == Init => TypeOK
<1> SUFFICES ASSUME Init PROVE TypeOK
  OBVIOUS
<1>1. messages \in Seq(Message) /\ DOMAIN pendingAcks = {} /\ feed \in [MsgListeners -> Seq(Message)]
  BY DEF Init
<1>2. pendingAcks \in [DOMAIN pendingAcks -> Message]
  BY DEF Init
<1>3. pathOk \in BOOLEAN /\ signal \in [Listeners -> BOOLEAN] /\ 0 \in 0..MaxRestarts
  BY BoundsAssumption DEF Init
<1> QED
  BY <1>1, <1>2, <1>3 DEF Init, TypeOK, File, Call

LEMMA TypePush ==
    ASSUME TypeOK, NEW p \in Threads,
           \/ \E id \in Ids : PushCheck(p, id)
           \/ PushOpen(p) \/ PushWrite(p) \/ PushAppend(p) \/ PushAnnounce(p)
    PROVE  TypeOK'
<1> USE DEF memory, files, channels, settled, OnlyMemory, OnlyFiles
<1>1. ASSUME NEW id \in Ids, PushCheck(p, id) PROVE TypeOK'
  <2>1. [id |-> id, rc |-> 0] \in Message /\ "opening" \in Steps
    BY BoundsAssumption DEF Message, Steps, PushSteps
  <2>2. call' \in [Threads -> Call]
    BY <1>1, <2>1, CallSteps DEF PushCheck
  <2> QED
    BY <1>1, <2>2 DEF PushCheck, TypeOK
<1>2. CASE PushOpen(p)
  <2>1. call' \in [Threads -> Call]
    BY <1>2, CallSteps DEF PushOpen, Truncate, At, Steps, PushSteps
  <2>2. disk' \in [Ids -> File]
    BY <1>2 DEF PushOpen, Truncate, TypeOK, File
  <2> QED
    BY <1>2, <2>1, <2>2 DEF PushOpen, TypeOK
<1>3. CASE PushWrite(p)
  <2>1. call' \in [Threads -> Call]
    BY <1>3, CallSteps DEF PushWrite, At, Steps, PushSteps
  <2>2. Msg(p) \in File
    BY <1>3, CallFields DEF PushWrite, At, Steps, PushSteps, File
  <2>3. disk' \in [Ids -> File]
    BY <1>3, <2>2 DEF PushWrite, WriteFails, TypeOK, File
  <2> QED
    BY <1>3, <2>1, <2>3 DEF PushWrite, TypeOK
<1>4. CASE PushAppend(p)
  <2>1. Msg(p) \in Message /\ call[p].id \in Ids
    BY <1>4, CallFields DEF PushAppend, At, Steps, PushSteps, MessageCall
  <2>2. messages' \in Seq(Message) /\ Len(messages) + 1 \in Nat
    BY <1>4, <2>1 DEF PushAppend, TypeOK
  <2>3. call' \in [Threads -> Call]
    BY <1>4, <2>1, <2>2, CallSteps DEF PushAppend, Steps, PushSteps
  <2>4. accepted' \subseteq Ids
    BY <1>4, <2>1 DEF PushAppend, TypeOK
  <2> QED
    BY <1>4, <2>2, <2>3, <2>4 DEF PushAppend, TypeOK
<1>5. CASE PushAnnounce(p)
  <2>1. Msg(p) \in Message
    BY <1>5, CallFields DEF PushAnnounce, At, Steps, PushSteps
  <2>2. gauge' \in Nat /\ signal' \in [Listeners -> BOOLEAN]
    BY <1>5, ReportType DEF PushAnnounce, At, Steps, PushSteps
  <2>3. feed' \in [MsgListeners -> Seq(Message)]
    <3>1. \A l \in MsgListeners : Append(feed[l], Msg(p)) \in Seq(Message)
      BY <2>1 DEF TypeOK
    <3> QED
      BY <1>5, <3>1 DEF PushAnnounce, TypeOK
  <2>4. call' \in [Threads -> Call]
    BY <1>5, CallSteps DEF PushAnnounce
  <2> QED
    BY <1>5, <2>2, <2>3, <2>4 DEF PushAnnounce, TypeOK
<1> QED
  BY <1>1, <1>2, <1>3, <1>4, <1>5

\* A sequence enumerating part of a finite set, mapped into the messages.
LEMMA EnumerationType ==
    ASSUME NEW S, IsFiniteSet(S), NEW g, \A x \in S : g[x] \in Message,
           NEW f \in Bijection(1..Cardinality(S), S)
    PROVE  /\ [i \in DOMAIN f |-> g[f[i]]] \in Seq(Message)
           /\ DOMAIN f = 1..Cardinality(S)
           /\ Cardinality(S) \in Nat
<1>1. Cardinality(S) \in Nat
  BY FS_CardinalityType
<1>2. f \in [1..Cardinality(S) -> S]
  BY DEF Bijection, Injection
<1>3. [i \in 1..Cardinality(S) |-> g[f[i]]] \in [1..Cardinality(S) -> Message]
  BY <1>2
<1> QED
  BY <1>1, <1>2, <1>3, SeqDef

LEMMA TypeLend ==
    ASSUME TypeOK, NEW p \in Threads,
           \/ Pop(p) \/ FinishReport(p) \/ CheckTimeouts
           \/ \E id \in Ids : NegativeAcknowledge(p, id) \/ Age(id)
    PROVE  TypeOK'
<1> USE DEF memory, files, channels, settled, OnlyMemory, OnlySignals
<1>1. CASE Pop(p)
  <2>1. /\ Head(messages) \in Message
        /\ Tail(messages) \in Seq(Message)
        /\ Len(messages) - 1 \in Nat
    BY <1>1 DEF Pop, TypeOK
  <2>2. call' \in [Threads -> Call]
    BY <1>1, <2>1, CallSteps DEF Pop
  <2>3. /\ DOMAIN pendingAcks' \subseteq Ids
        /\ pendingAcks' \in [DOMAIN pendingAcks' -> Message]
        /\ late' \subseteq DOMAIN pendingAcks'
    BY <1>1, <2>1 DEF Pop, TypeOK, Message
  <2> QED
    BY <1>1, <2>1, <2>2, <2>3 DEF Pop, TypeOK
<1>2. CASE FinishReport(p)
  <2>1. gauge' \in Nat /\ signal' \in [Listeners -> BOOLEAN]
    BY <1>2, ReportType DEF FinishReport, At
  <2>2. call' \in [Threads -> Call]
    BY <1>2, CallSteps DEF FinishReport
  <2> QED
    BY <1>2, <2>1, <2>2 DEF FinishReport, TypeOK
<1>3. CASE CheckTimeouts
  <2>1. IsFiniteSet(late)
    BY IdsAssumption, FS_Subset DEF TypeOK
  <2>2. PICK f \in Bijection(1..Cardinality(late), late) :
            messages' = [i \in DOMAIN f |-> pendingAcks[f[i]]] \o messages
    BY <1>3 DEF CheckTimeouts
  <2>3. /\ [i \in DOMAIN f |-> pendingAcks[f[i]]] \in Seq(Message)
        /\ Cardinality(late) \in Nat
    BY <2>1, EnumerationType DEF TypeOK
  <2>4. messages' \in Seq(Message) /\ Len(messages) + Cardinality(late) \in Nat
    BY <2>2, <2>3 DEF TypeOK
  <2>5. call' \in [Threads -> Call]
    BY <1>3, <2>4, CallSteps DEF CheckTimeouts, Threads
  <2> QED
    BY <1>3, <2>4, <2>5 DEF CheckTimeouts, TakeBack, TypeOK
<1>4. ASSUME NEW id \in Ids, NegativeAcknowledge(p, id) PROVE TypeOK'
  <2>1. messages' \in Seq(Message) /\ Len(messages) + 1 \in Nat
    BY <1>4 DEF NegativeAcknowledge, TypeOK
  <2>2. call' \in [Threads -> Call]
    BY <1>4, <2>1, CallSteps DEF NegativeAcknowledge
  <2> QED
    BY <1>4, <2>1, <2>2 DEF NegativeAcknowledge, TakeBack, TypeOK
<1>5. ASSUME NEW id \in Ids, Age(id) PROVE TypeOK'
  BY <1>5 DEF Age, TypeOK
<1> QED
  BY <1>1, <1>2, <1>3, <1>4, <1>5

LEMMA TypeAck ==
    ASSUME TypeOK, NEW p \in Threads,
           \/ \E id \in Ids : AckTake(p, id)
           \/ AckReport(p) \/ AckUnlink(p)
    PROVE  TypeOK'
<1> USE DEF memory, files, channels, settled, OnlyMemory, OnlySignals
<1>1. ASSUME NEW id \in Ids, AckTake(p, id) PROVE TypeOK'
  <2>1. messages' \in Seq(Message) /\ Len(messages') \in Nat
    BY <1>1, RemoveAllFact DEF AckTake, TypeOK
  <2>2. [id |-> id, rc |-> 0] \in Message /\ "acking" \in Steps
    BY BoundsAssumption DEF Message, Steps, AckSteps
  <2>3. call' \in [Threads -> Call]
    BY <1>1, <2>1, <2>2, CallSteps DEF AckTake
  <2>4. /\ DOMAIN pendingAcks' \subseteq Ids
        /\ pendingAcks' \in [DOMAIN pendingAcks' -> Message]
        /\ late' \subseteq DOMAIN pendingAcks'
    BY <1>1 DEF AckTake, TakeBack, TypeOK
  <2> QED
    BY <1>1, <2>1, <2>3, <2>4 DEF AckTake, TypeOK
<1>2. CASE AckReport(p)
  <2>1. gauge' \in Nat /\ signal' \in [Listeners -> BOOLEAN]
    BY <1>2, ReportType DEF AckReport, At, Steps, AckSteps
  <2>2. call' \in [Threads -> Call]
    BY <1>2, CallSteps DEF AckReport, At, Steps, AckSteps
  <2> QED
    BY <1>2, <2>1, <2>2 DEF AckReport, TypeOK
<1>3. CASE AckUnlink(p)
  <2>1. call[p].id \in Ids
    BY <1>3, CallFields DEF AckUnlink, At, Steps, AckSteps, MessageCall
  <2>2. disk' \in [Ids -> File] /\ done' \subseteq Ids
    BY <1>3, <2>1 DEF AckUnlink, TypeOK, File
  <2>3. call' \in [Threads -> Call]
    BY <1>3, CallSteps DEF AckUnlink
  <2> QED
    BY <1>3, <2>2, <2>3 DEF AckUnlink, TypeOK
<1> QED
  BY <1>1, <1>2, <1>3

LEMMA TypeUpdate ==
    ASSUME TypeOK, NEW p \in Threads,
           (\E m \in Message : UpdateMemory(p, m)) \/ UpdateWrite(p)
    PROVE  TypeOK'
<1> USE DEF memory, files, channels, settled, OnlyFiles
<1>1. ASSUME NEW m \in Message, UpdateMemory(p, m) PROVE TypeOK'
  <2>1. messages' \in Seq(Message)
    <3>1. PICK i \in DOMAIN messages : messages' = [messages EXCEPT ![i] = m]
      BY <1>1 DEF UpdateMemory
    <3>2. messages \in Seq(Message) /\ i \in 1..Len(messages)
      BY <3>1, LenProperties DEF TypeOK
    <3> QED
      BY <3>1, <3>2, ExceptSeq
  <2>2. call' \in [Threads -> Call]
    BY <1>1, CallSteps DEF UpdateMemory, Steps, TypeOK
  <2>3. disk' \in [Ids -> File]
    BY <1>1 DEF UpdateMemory, TypeOK, File
  <2> QED
    BY <1>1, <2>1, <2>2, <2>3 DEF UpdateMemory, TypeOK
<1>2. CASE UpdateWrite(p)
  <2>1. Msg(p) \in File
    BY <1>2, CallFields DEF UpdateWrite, At, Steps, File
  <2>2. \E c \in File : disk' = [disk EXCEPT ![call[p].id] = c]
    BY <1>2, <2>1 DEF UpdateWrite, WriteFails, File
  <2>4. disk' \in [Ids -> File]
    BY <2>2 DEF TypeOK
  <2>3. call' \in [Threads -> Call]
    BY <1>2, CallSteps DEF UpdateWrite
  <2> QED
    BY <1>2, <2>3, <2>4 DEF UpdateWrite, TypeOK
<1> QED
  BY <1>1, <1>2

LEMMA TypeDLQ ==
    ASSUME TypeOK, NEW p \in Threads,
           \/ \E id \in Ids : DLQTake(p, id)
           \/ DLQReport(p) \/ DLQTruncate(p) \/ DLQSave(p) \/ DLQRename(p)
           \/ DLQCopy(p) \/ DLQRemove(p) \/ DLQCount(p)
    PROVE  TypeOK'
<1> USE DEF memory, files, channels, settled, OnlyMemory, OnlySignals, OnlyFiles
<1>1. ASSUME NEW id \in Ids, DLQTake(p, id) PROVE TypeOK'
  <2>1. messages' \in Seq(Message) /\ Len(messages') \in Nat
    BY <1>1, RemoveAllFact DEF DLQTake
  <2>2. \A i \in DOMAIN messages : messages[i] \in Message
    BY DEF TypeOK
  <2>3. call' \in [Threads -> Call]
    BY <1>1, <2>1, <2>2, CallSteps DEF DLQTake, Steps, DLQSteps
  <2> QED
    BY <1>1, <2>1, <2>3 DEF DLQTake, TypeOK
<1>2. CASE DLQReport(p)
  <2>1. gauge' \in Nat /\ signal' \in [Listeners -> BOOLEAN]
    BY <1>2, ReportType DEF DLQReport, At, Steps, DLQSteps
  <2>2. call' \in [Threads -> Call]
    BY <1>2, CallSteps DEF DLQReport, At, Steps, DLQSteps
  <2> QED
    BY <1>2, <2>1, <2>2 DEF DLQReport, TypeOK
<1>3. ASSUME call[p].at \in DLQSteps,
             DLQTruncate(p) \/ DLQSave(p) \/ DLQRename(p) \/ DLQCopy(p) \/ DLQRemove(p)
      PROVE  TypeOK'
  <2>1. call' \in [Threads -> Call]
    BY <1>3, CallSteps
       DEF DLQTruncate, Truncate, DLQSave, DLQRename, DLQCopy, DLQRemove, Steps, DLQSteps
  <2>2. Msg(p) \in File /\ call[p].id \in Ids
    BY <1>3, CallFields DEF Steps, File, MessageCall
  <2>3. disk' = disk \/ \E c \in File : disk' = [disk EXCEPT ![call[p].id] = c]
    BY <1>3, <2>2
       DEF DLQTruncate, Truncate, DLQSave, DLQRename, DLQCopy, DLQRemove, WriteFails, File
  <2>4. dead' = dead \/ \E c \in File : dead' = [dead EXCEPT ![call[p].id] = c]
    BY <1>3, <2>2
       DEF DLQTruncate, DLQSave, DLQRename, DLQCopy, DLQRemove, WriteFails, TypeOK, File
  <2>5. disk' \in [Ids -> File] /\ dead' \in [Ids -> File]
    BY <2>3, <2>4 DEF TypeOK
  <2> QED
    BY <1>3, <2>1, <2>5
       DEF DLQTruncate, DLQSave, DLQRename, DLQCopy, DLQRemove, TypeOK
<1>4. CASE DLQCount(p)
  <2>1. call' \in [Threads -> Call]
    BY <1>4, CallSteps DEF DLQCount
  <2> QED
    BY <1>4, <2>1 DEF DLQCount, TypeOK
<1> QED
  BY <1>1, <1>2, <1>3, <1>4
     DEF At, DLQSteps, DLQTruncate, DLQSave, DLQRename, DLQCopy, DLQRemove

LEMMA TypeOthers ==
    ASSUME TypeOK,
           \/ \E l \in Listeners \cup MsgListeners : Subscribe(l)
           \/ \E l \in Listeners : ReceiveSignal(l)
           \/ \E l \in MsgListeners : ReceiveMessage(l)
           \/ SetStoragePath
    PROVE  TypeOK'
<1> USE DEF memory, files, channels, settled
<1>1. ASSUME NEW l \in Listeners \cup MsgListeners, Subscribe(l) PROVE TypeOK'
  BY <1>1 DEF Subscribe, TypeOK
<1>2. ASSUME NEW l \in Listeners, ReceiveSignal(l) PROVE TypeOK'
  BY <1>2 DEF ReceiveSignal, TypeOK
<1>3. ASSUME NEW l \in MsgListeners, ReceiveMessage(l) PROVE TypeOK'
  <2>1. Tail(feed[l]) \in Seq(Message)
    BY <1>3 DEF ReceiveMessage, TypeOK
  <2> QED
    BY <1>3, <2>1 DEF ReceiveMessage, TypeOK
<1>4. CASE SetStoragePath
  <2>1. pathOk' \in BOOLEAN
    BY <1>4 DEF SetStoragePath
  <2> QED
    BY <1>4, <2>1 DEF SetStoragePath, TypeOK
<1> QED
  BY <1>1, <1>2, <1>3, <1>4

LEMMA TypeRestart == ASSUME TypeOK, Restart PROVE TypeOK'
<1> DEFINE saved == {id \in Ids : Readable(disk, id)}
<1>1. IsFiniteSet(saved) /\ \A id \in saved : disk[id] \in Message
  BY IdsAssumption, FS_Subset DEF Readable, Message
<1>2. PICK f \in Bijection(1..Cardinality(saved), saved) :
          messages' = [i \in DOMAIN f |-> disk[f[i]]]
  BY DEF Restart
<1>3. /\ restarts < MaxRestarts /\ restarts' = restarts + 1
      /\ gauge' = Cardinality(saved)
      /\ accepted' = accepted \cup saved
      /\ dlqSize' = Cardinality({id \in Ids : dead[id] # Absent})
      /\ pendingAcks' = <<>>
      /\ late' = {}
      /\ pathOk'
      /\ call' = [t \in Threads |-> Idle]
      /\ subscribed' = {}
      /\ signal' = [l \in Listeners |-> FALSE]
      /\ feed' = [l \in MsgListeners |-> <<>>]
      /\ UNCHANGED <<files, done>>
  BY Zenon DEF Restart
<1>4. messages' \in Seq(Message) /\ gauge' \in Nat
  BY <1>1, <1>2, <1>3, EnumerationType
<1>5. dlqSize' \in Nat
  <2>1. IsFiniteSet({id \in Ids : dead[id] # Absent})
    BY IdsAssumption, FS_Subset
  <2> QED
    BY <1>3, <2>1, FS_CardinalityType
<1>6. DOMAIN pendingAcks' = {} /\ pendingAcks' \in [DOMAIN pendingAcks' -> Message]
  BY <1>3
<1>7. restarts' \in 0..MaxRestarts
  BY <1>3, BoundsAssumption DEF TypeOK
<1>8. feed' \in [MsgListeners -> Seq(Message)] /\ signal' \in [Listeners -> BOOLEAN]
  BY <1>3
<1>9. /\ call' \in [Threads -> Call]
      /\ pathOk' \in BOOLEAN
      /\ accepted' \subseteq Ids
  BY <1>3 DEF Call, TypeOK
<1> QED
  BY <1>3, <1>4, <1>5, <1>6, <1>7, <1>8, <1>9 DEF TypeOK, files

LEMMA TypeNext == TypeOK /\ [Next]_vars => TypeOK'
<1> SUFFICES ASSUME TypeOK, [Next]_vars PROVE TypeOK'
  OBVIOUS
<1>1. ASSUME NEW p \in Procs, Begin(p) PROVE TypeOK'
  BY <1>1, TypePush, TypeLend, TypeAck, TypeUpdate, TypeDLQ DEF Begin, Threads
<1>2. ASSUME NEW t \in Threads, Proceed(t) PROVE TypeOK'
  BY <1>2, TypePush, TypeLend, TypeAck, TypeUpdate, TypeDLQ DEF Proceed
<1>3. ASSUME CheckTimeouts \/ \E id \in Ids : Age(id) PROVE TypeOK'
  BY <1>3, TypeLend DEF Threads
<1>4. CASE Restart
  BY <1>4, TypeRestart
<1>5. CASE UNCHANGED vars
  BY <1>5 DEF vars, memory, files, channels, settled, TypeOK
<1> QED
  BY <1>1, <1>2, <1>3, <1>4, <1>5, TypeOthers DEF Next

\* Through every interleaving of calls, faults and restarts the variables keep
\* their types; in particular no call loses track of its message and no lent
\* message is late without being lent (broker.go:141-391).
THEOREM TypeCorrect == Spec => []TypeOK
BY TypeInit, TypeNext, PTL DEF Spec

-----------------------------------------------------------------------------
(***************************************************************************)
(* OnePlace and AckIsFinal.  Why a message is in one place comes down to   *)
(* what a call may assume about the message it handles: a push, that the   *)
(* broker has not accepted it yet; an acknowledgement or a burial, that it *)
(* has, and that nobody has finished with it; an update, which keeps b.mu, *)
(* that the message is still in the queue.                                 *)
(***************************************************************************)

Lent(id) == id \in DOMAIN pendingAcks

Accepting == {"opening", "writing", "appending"}
Settling  == AckSteps \cup DLQSteps

Responsible ==
    /\ done \subseteq accepted
    /\ \A id \in Ids : Queued(id) \/ Lent(id) => id \in accepted \ done
    /\ \A t \in Threads, id \in Ids :
           /\ Handles(t, id, Accepting) => id \notin accepted
           /\ Handles(t, id, Settling) => id \in accepted \ done

UpdateKeepsLock ==
    \A t \in Threads :
        At(t, "rewriting") =>
            /\ Queued(call[t].id)
            /\ \A u \in Threads : At(u, "rewriting") => u = t

GoneFromDisk == \A id \in done : disk[id] = Absent

PlaceInv == TypeOK /\ OnePlace /\ Responsible /\ UpdateKeepsLock /\ GoneFromDisk

LEMMA HandsFact == Hands = Accepting \cup Settling /\ Accepting \cap Settling = {}
BY DEF Hands, Accepting, Settling, PushSteps, AckSteps, DLQSteps

LEMMA PlaceInit == Init => PlaceInv
<1> SUFFICES ASSUME Init PROVE PlaceInv
  OBVIOUS
<1>1. DOMAIN messages = {} /\ DOMAIN pendingAcks = {}
  BY DEF Init
<1>2. \A t \in Threads : call[t].at = "idle"
  BY DEF Init, Idle
<1>3. \A t \in Threads : ~At(t, "rewriting") /\ \A id \in Ids : ~Handles(t, id, Hands)
  BY <1>2 DEF Handles, At, Hands, PushSteps, AckSteps, DLQSteps
<1>4. OnePlace
  BY <1>1, <1>3 DEF OnePlace
<1>5. Responsible
  BY <1>1, <1>3, HandsFact DEF Responsible, Queued, Lent, Init, Handles
<1> QED
  BY <1>3, <1>4, <1>5, TypeInit DEF PlaceInv, UpdateKeepsLock, GoneFromDisk, Init

\* A call goes on or returns: thread t moves, within the hands of one call,
\* and the memory is not touched.
LEMMA PlaceMove ==
    ASSUME PlaceInv, TypeOK', NEW t \in Threads,
           UNCHANGED <<messages, pendingAcks, accepted, done>>,
           \A u \in Threads : u # t => call'[u] = call[u],
           \A id \in Ids : /\ Handles(t, id, Accepting)' => Handles(t, id, Accepting)
                           /\ Handles(t, id, Settling)' => Handles(t, id, Settling),
           ~At(t, "rewriting")',
           GoneFromDisk'
    PROVE  PlaceInv'
<1>1. \A id \in Ids : /\ Queued(id)' <=> Queued(id)
                      /\ Lent(id)' <=> Lent(id)
  BY DEF Queued, Lent
<1>2. \A u \in Threads, id \in Ids :
          /\ Handles(u, id, Accepting)' => Handles(u, id, Accepting)
          /\ Handles(u, id, Settling)' => Handles(u, id, Settling)
          /\ Handles(u, id, Hands)' => Handles(u, id, Hands)
  BY HandsFact DEF Handles
<1>3. OnePlace'
  BY <1>1, <1>2 DEF PlaceInv, OnePlace, Queued
<1>4. Responsible'
  BY <1>1, <1>2 DEF PlaceInv, Responsible
<1>5. UpdateKeepsLock'
  BY <1>1 DEF PlaceInv, UpdateKeepsLock, At, Queued
<1> QED
  BY <1>3, <1>4, <1>5 DEF PlaceInv

\* Thread t moves its own call only.
LEMMA OwnCall ==
    ASSUME TypeOK, NEW t \in Threads
    PROVE  /\ \A step : Continue(t, step) =>
                  /\ \A u \in Threads : u # t => call'[u] = call[u]
                  /\ call[t].at \in Steps => call'[t].at = step /\ call'[t].id = call[t].id
           /\ Return(t) =>
                  /\ \A u \in Threads : u # t => call'[u] = call[u]
                  /\ call'[t].at = "idle"
           /\ \A size : LeaveReport(t, size) =>
                  /\ \A u \in Threads : u # t => call'[u] = call[u]
                  /\ call'[t].at = "reporting"
           /\ \A step, m, size : GoTo(t, step, m, size) =>
                  /\ \A u \in Threads : u # t => call'[u] = call[u]
                  /\ call'[t].at = step /\ call'[t].id = m.id
<1>1. ASSUME NEW step, Continue(t, step)
      PROVE  /\ \A u \in Threads : u # t => call'[u] = call[u]
             /\ call[t].at \in Steps => call'[t].at = step /\ call'[t].id = call[t].id
  <2>1. \A u \in Threads : u # t => call'[u] = call[u]
    BY <1>1 DEF Continue, TypeOK
  <2>2. ASSUME call[t].at \in Steps
        PROVE  call'[t].at = step /\ call'[t].id = call[t].id
    <3>1. call[t] \in MessageCall
      BY <2>2, CallFields
    <3>2. call'[t] = [call[t] EXCEPT !.at = step]
      BY <1>1 DEF Continue, TypeOK
    <3> QED
      BY <3>1, <3>2 DEF MessageCall
  <2> QED
    BY <2>1, <2>2
<1>2. ASSUME Return(t)
      PROVE  (\A u \in Threads : u # t => call'[u] = call[u]) /\ call'[t].at = "idle"
  BY <1>2 DEF Return, TypeOK, Idle
<1>3. ASSUME NEW size, LeaveReport(t, size)
      PROVE  (\A u \in Threads : u # t => call'[u] = call[u]) /\ call'[t].at = "reporting"
  BY <1>3 DEF LeaveReport, TypeOK
<1>4. ASSUME NEW step, NEW m, NEW size, GoTo(t, step, m, size)
      PROVE  /\ \A u \in Threads : u # t => call'[u] = call[u]
             /\ call'[t].at = step /\ call'[t].id = m.id
  BY <1>4 DEF GoTo, TypeOK
<1> QED
  BY <1>1, <1>2, <1>3, <1>4

\* The steps that only go on with a call, and leave memory alone.
LEMMA PlaceProceed ==
    ASSUME PlaceInv, TypeOK', NEW t \in Threads,
           \/ PushOpen(t) \/ PushWrite(t) \/ PushAnnounce(t) \/ FinishReport(t)
           \/ AckReport(t) \/ UpdateWrite(t)
           \/ DLQReport(t) \/ DLQTruncate(t) \/ DLQSave(t) \/ DLQRename(t)
           \/ DLQCopy(t) \/ DLQRemove(t) \/ DLQCount(t)
    PROVE  PlaceInv'
<1> USE DEF memory, files, settled, OnlyMemory, OnlySignals, OnlyFiles
<1>1. UNCHANGED <<messages, pendingAcks, accepted, done>>
  BY DEF PushOpen, PushWrite, PushAnnounce, FinishReport, AckReport, UpdateWrite,
         DLQReport, DLQTruncate, DLQSave, DLQRename, DLQCopy, DLQRemove, DLQCount
<1> DEFINE before == call[t].at
<1>2. \/ Return(t)
      \/ /\ before \in Accepting
         /\ \E step \in Accepting : Continue(t, step)
      \/ /\ before \in Settling
         /\ \E step \in Settling : Continue(t, step)
  BY DEF PushOpen, PushWrite, PushAnnounce, FinishReport, AckReport, UpdateWrite, Truncate,
         DLQReport, DLQTruncate, DLQSave, DLQRename, DLQCopy, DLQRemove, DLQCount,
         At, Accepting, Settling, AckSteps, DLQSteps
<1>3. /\ \A u \in Threads : u # t => call'[u] = call[u]
      /\ \A id \in Ids : /\ Handles(t, id, Accepting)' => Handles(t, id, Accepting)
                         /\ Handles(t, id, Settling)' => Handles(t, id, Settling)
      /\ ~At(t, "rewriting")'
  <2>1. CASE Return(t)
    BY <2>1, OwnCall DEF PlaceInv, Handles, At, Accepting, Settling, AckSteps, DLQSteps
  <2>2. CASE before \in Accepting /\ \E step \in Accepting : Continue(t, step)
    BY <2>2, OwnCall DEF PlaceInv, Handles, At, Accepting, Settling, AckSteps, DLQSteps,
                         Steps, PushSteps
  <2>3. CASE before \in Settling /\ \E step \in Settling : Continue(t, step)
    BY <2>3, OwnCall DEF PlaceInv, Handles, At, Accepting, Settling, AckSteps, DLQSteps,
                         Steps, PushSteps
  <2> QED
    BY <1>2, <2>1, <2>2, <2>3
<1>4. GoneFromDisk'
  <2>1. disk' = disk \/ /\ \E c : disk' = [disk EXCEPT ![call[t].id] = c]
                        /\ before \in Accepting \cup Settling \cup {"rewriting"}
    BY DEF PushOpen, PushWrite, PushAnnounce, FinishReport, AckReport, UpdateWrite, Truncate,
           WriteFails, DLQReport, DLQTruncate, DLQSave, DLQRename, DLQCopy, DLQRemove, DLQCount,
           At, Accepting, Settling, AckSteps, DLQSteps
  <2>2. before \in Accepting \cup Settling \cup {"rewriting"} => call[t].id \in Ids \ done
    <3>1. ASSUME before \in Accepting \cup Settling \cup {"rewriting"}
          PROVE  call[t].id \in Ids
      BY <3>1, CallFields DEF PlaceInv, MessageCall, Accepting, Settling, AckSteps, DLQSteps,
                              Steps, PushSteps
    <3>2. before = "rewriting" => Queued(call[t].id)
      BY DEF PlaceInv, UpdateKeepsLock, At
    <3> QED
      BY <3>1, <3>2 DEF PlaceInv, Responsible, Handles
  <2> QED
    BY <1>1, <2>1, <2>2 DEF GoneFromDisk, PlaceInv, TypeOK
<1> QED
  BY <1>1, <1>3, <1>4, PlaceMove

\* The steps that leave the queue, the loans and the calls alone.
LEMMA PlaceOthers ==
    ASSUME PlaceInv, TypeOK',
           UNCHANGED <<messages, pendingAcks, call, disk, accepted, done>>
    PROVE  PlaceInv'
<1>1. /\ \A id : Queued(id)' <=> Queued(id)
      /\ \A id : Lent(id)' <=> Lent(id)
      /\ \A t, id, steps : Handles(t, id, steps)' <=> Handles(t, id, steps)
  BY DEF Queued, Lent, Handles
<1>2. OnePlace'
  BY <1>1 DEF PlaceInv, OnePlace
<1>3. Responsible' /\ GoneFromDisk'
  BY <1>1 DEF PlaceInv, Responsible, GoneFromDisk
<1>4. UpdateKeepsLock'
  BY <1>1 DEF PlaceInv, UpdateKeepsLock, At
<1> QED
  BY <1>2, <1>3, <1>4 DEF PlaceInv

LEMMA PlacePushCheck ==
    ASSUME PlaceInv, TypeOK', NEW p \in Threads, NEW x \in Ids, PushCheck(p, x)
    PROVE  PlaceInv'
<1>1. UNCHANGED <<messages, pendingAcks, disk, accepted, done>>
  BY DEF PushCheck, memory, files, settled, OnlyMemory
<1>2. /\ \A u \in Threads : u # p => call'[u] = call[u]
      /\ call'[p].at = "opening" /\ call'[p].id = x
  BY OwnCall DEF PushCheck, PlaceInv
<1>3. x \notin accepted /\ \A u \in Threads : ~Handles(u, x, Hands)
  BY DEF PushCheck, Fresh, Handles, Hands, Steps
<1>4. /\ \A id : Queued(id)' <=> Queued(id)
      /\ \A id : Lent(id)' <=> Lent(id)
  BY <1>1 DEF Queued, Lent
<1>5. \A u \in Threads, id \in Ids :
          /\ Handles(u, id, Accepting)' => Handles(u, id, Accepting) \/ (u = p /\ id = x)
          /\ Handles(u, id, Settling)' => Handles(u, id, Settling)
          /\ Handles(u, id, Hands)' => Handles(u, id, Hands) \/ (u = p /\ id = x)
  BY <1>2, HandsFact DEF Handles, Settling, AckSteps, DLQSteps
<1>6. ~Queued(x) /\ ~Lent(x)
  BY <1>3 DEF PlaceInv, Responsible
<1>7. OnePlace'
  BY <1>1, <1>3, <1>4, <1>5, <1>6 DEF PlaceInv, OnePlace, Lent
<1>8. Responsible' /\ GoneFromDisk'
  BY <1>1, <1>3, <1>4, <1>5 DEF PlaceInv, Responsible, GoneFromDisk
<1>9. UpdateKeepsLock'
  BY <1>2, <1>4 DEF PlaceInv, UpdateKeepsLock, At
<1> QED
  BY <1>7, <1>8, <1>9 DEF PlaceInv

\* Appending, lending and returning a message.
LEMMA PlacePushAppend ==
    ASSUME PlaceInv, TypeOK', NEW p \in Threads, PushAppend(p)
    PROVE  PlaceInv'
<1> DEFINE x == call[p].id
<1>1. /\ x \in Ids
      /\ Handles(p, x, Accepting) /\ Handles(p, x, Hands)
      /\ UNCHANGED <<pendingAcks, disk, done>>
      /\ accepted' = accepted \cup {x}
      /\ messages' = Append(messages, Msg(p))
      /\ Unlocked
  BY CallFields, HandsFact
     DEF PushAppend, PlaceInv, MessageCall, At, Handles, Accepting, Steps, PushSteps, files, settled
<1>2. /\ \A u \in Threads : u # p => call'[u] = call[u]
      /\ call'[p].at = "announcing"
  BY OwnCall DEF PushAppend, PlaceInv
<1>3. \A u \in Threads, id \in Ids :
          /\ Handles(u, id, Accepting)' => Handles(u, id, Accepting) /\ u # p
          /\ Handles(u, id, Settling)' => Handles(u, id, Settling)
          /\ Handles(u, id, Hands)' => Handles(u, id, Hands) /\ u # p
  BY <1>2, HandsFact DEF Handles, Accepting, Settling, AckSteps, DLQSteps
<1>4. /\ messages \in Seq(Message)
      /\ Len(messages) \in Nat
      /\ DOMAIN messages' = 1..(Len(messages) + 1)
      /\ \A i \in 1..Len(messages) : messages'[i] = messages[i]
      /\ messages'[Len(messages) + 1].id = x
  BY <1>1 DEF PlaceInv, TypeOK, Msg
<1>5. /\ \A id : Queued(id)' => Queued(id) \/ id = x
      /\ \A id : Lent(id)' <=> Lent(id)
  BY <1>1, <1>4 DEF Queued, Lent
<1>6. ~Queued(x) /\ ~Lent(x)
  BY <1>1 DEF PlaceInv, OnePlace, Lent
<1>7. OnePlace'
  <2>1. \A i, j \in DOMAIN messages' : messages'[i].id = messages'[j].id => i = j
    BY <1>4, <1>6 DEF PlaceInv, OnePlace, Queued
  <2>2. \A id \in DOMAIN pendingAcks' : pendingAcks'[id].id = id /\ ~Queued(id)'
    BY <1>1, <1>5, <1>6 DEF PlaceInv, OnePlace, Lent
  <2>3. \A id \in Ids, t \in Threads :
           Handles(t, id, Hands)' =>
               /\ ~Queued(id)' /\ id \notin DOMAIN pendingAcks'
               /\ \A u \in Threads : Handles(u, id, Hands)' => u = t
    BY <1>1, <1>3, <1>5 DEF PlaceInv, OnePlace, Lent
  <2> QED
    BY <2>1, <2>2, <2>3 DEF OnePlace
<1>8. Responsible' /\ GoneFromDisk'
  <2>1. x \notin accepted /\ \A u \in Threads : Handles(u, x, Hands) => u = p
    BY <1>1 DEF PlaceInv, Responsible, OnePlace
  <2>2. \A u \in Threads, id \in Ids : Handles(u, id, Accepting)' => id # x
    BY <1>3, <2>1, HandsFact DEF Handles
  <2> QED
    BY <1>1, <1>3, <1>5, <2>1, <2>2 DEF PlaceInv, Responsible, GoneFromDisk
<1>9. UpdateKeepsLock'
  BY <1>1, <1>2 DEF UpdateKeepsLock, Unlocked, At
<1> QED
  BY <1>7, <1>8, <1>9 DEF PlaceInv

\* A visit to memory, with b.mu free, that only redistributes messages
\* between the queue and the loans.
LEMMA PlaceLend ==
    ASSUME PlaceInv, TypeOK', NEW t \in Threads, Unlocked,
           UNCHANGED <<disk, accepted, done>>,
           LeaveReport(t, Len(messages')),
           \A i, j \in DOMAIN messages' : messages'[i].id = messages'[j].id => i = j,
           \A id \in DOMAIN pendingAcks' : pendingAcks'[id].id = id /\ ~Queued(id)',
           \A id \in Ids : Queued(id)' \/ Lent(id)' => Queued(id) \/ Lent(id)
    PROVE  PlaceInv'
<1>1. /\ \A u \in Threads : u # t => call'[u] = call[u]
      /\ call'[t].at = "reporting"
  <2>1. Len(messages') = Len(messages')
    OBVIOUS
  <2> QED
    BY OwnCall DEF PlaceInv
<1>2. \A u \in Threads, id \in Ids :
          /\ Handles(u, id, Accepting)' => Handles(u, id, Accepting)
          /\ Handles(u, id, Settling)' => Handles(u, id, Settling)
          /\ Handles(u, id, Hands)' => Handles(u, id, Hands)
  BY <1>1, HandsFact DEF Handles, Accepting, Settling, AckSteps, DLQSteps
<1>3. OnePlace'
  BY <1>2 DEF PlaceInv, OnePlace, Lent
<1>4. Responsible' /\ GoneFromDisk'
  BY <1>2 DEF PlaceInv, Responsible, GoneFromDisk
<1>5. UpdateKeepsLock'
  BY <1>1 DEF UpdateKeepsLock, Unlocked, At
<1> QED
  BY <1>3, <1>4, <1>5 DEF PlaceInv

LEMMA PlacePop == ASSUME PlaceInv, TypeOK', NEW p \in Threads, Pop(p) PROVE PlaceInv'
<1> DEFINE m == Head(messages)
<1>1. /\ messages # <<>> /\ Unlocked
      /\ messages' = Tail(messages)
      /\ pendingAcks' = [i \in DOMAIN pendingAcks \cup {m.id} |->
                            IF i = m.id THEN m ELSE pendingAcks[i]]
      /\ LeaveReport(p, Len(messages) - 1)
      /\ UNCHANGED <<disk, accepted, done>>
  BY DEF Pop, OnlyMemory, files, settled
<1>2. /\ Len(messages) \in Nat \ {0} /\ DOMAIN messages = 1..Len(messages)
      /\ m = messages[1]
      /\ Len(messages') = Len(messages) - 1
      /\ DOMAIN messages' = 1..(Len(messages) - 1)
      /\ \A i \in DOMAIN messages' : messages'[i] = messages[i + 1]
  BY <1>1 DEF PlaceInv, TypeOK
<1>3. \A i, j \in DOMAIN messages' : messages'[i].id = messages'[j].id => i = j
  BY <1>2 DEF PlaceInv, OnePlace
<1>4. /\ \A id : Queued(id)' => Queued(id) /\ id # m.id
      /\ \A id : Lent(id)' <=> Lent(id) \/ id = m.id
      /\ Queued(m.id)
  BY <1>1, <1>2 DEF PlaceInv, OnePlace, Queued, Lent
<1>5. \A id \in DOMAIN pendingAcks' : pendingAcks'[id].id = id /\ ~Queued(id)'
  BY <1>1, <1>4 DEF PlaceInv, OnePlace, Lent
<1> QED
  BY <1>1, <1>2, <1>3, <1>4, <1>5, PlaceLend

LEMMA PlaceNack ==
    ASSUME PlaceInv, TypeOK', NEW p \in Threads, NEW x \in Ids, NegativeAcknowledge(p, x)
    PROVE  PlaceInv'
<1>1. /\ x \in DOMAIN pendingAcks /\ Unlocked
      /\ messages' = <<pendingAcks[x]>> \o messages
      /\ pendingAcks' = [i \in DOMAIN pendingAcks \ {x} |-> pendingAcks[i]]
      /\ LeaveReport(p, Len(messages) + 1)
      /\ UNCHANGED <<disk, accepted, done>>
  BY DEF NegativeAcknowledge, TakeBack, OnlyMemory, files, settled
<1>2. /\ Len(messages) \in Nat /\ DOMAIN messages = 1..Len(messages)
      /\ Len(messages') = Len(messages) + 1
      /\ DOMAIN messages' = 1..(Len(messages) + 1)
      /\ messages'[1] = pendingAcks[x]
      /\ \A i \in DOMAIN messages' : i # 1 => messages'[i] = messages[i - 1]
  BY <1>1 DEF PlaceInv, TypeOK
<1>3. pendingAcks[x].id = x /\ ~Queued(x)
  BY <1>1 DEF PlaceInv, OnePlace
<1>4. \A i, j \in DOMAIN messages' : messages'[i].id = messages'[j].id => i = j
  <2>1. \A i \in DOMAIN messages' : i # 1 => i - 1 \in DOMAIN messages
    BY <1>2
  <2>2. \A i \in DOMAIN messages' : i # 1 => messages'[i].id # x
    BY <1>2, <1>3, <2>1 DEF Queued
  <2> QED
    BY <1>2, <1>3, <2>1, <2>2 DEF PlaceInv, OnePlace
<1>5. /\ \A id : Queued(id)' => Queued(id) \/ id = x
      /\ \A id : Lent(id)' <=> Lent(id) /\ id # x
  <2>1. \A i \in DOMAIN messages' : i # 1 => i - 1 \in DOMAIN messages
    BY <1>2
  <2> QED
    BY <1>1, <1>2, <1>3, <2>1 DEF Queued, Lent
<1>6. \A id \in DOMAIN pendingAcks' : pendingAcks'[id].id = id /\ ~Queued(id)'
  BY <1>1, <1>5 DEF PlaceInv, OnePlace, Lent
<1> QED
  BY <1>1, <1>2, <1>4, <1>5, <1>6, PlaceLend DEF Lent

LEMMA PlaceTimeouts == ASSUME PlaceInv, TypeOK', CheckTimeouts PROVE PlaceInv'
<1>1. PICK f \in Bijection(1..Cardinality(late), late) :
          messages' = [i \in DOMAIN f |-> pendingAcks[f[i]]] \o messages
  BY DEF CheckTimeouts
<1> DEFINE back == [i \in DOMAIN f |-> pendingAcks[f[i]]]
           n == Cardinality(late)
<1>2. /\ Unlocked
      /\ pendingAcks' = [i \in DOMAIN pendingAcks \ late |-> pendingAcks[i]]
      /\ LeaveReport(Checker, Len(messages) + n)
      /\ UNCHANGED <<disk, accepted, done>>
  BY DEF CheckTimeouts, TakeBack, OnlyMemory, files, settled
<1>3. back \in Seq(Message) /\ DOMAIN f = 1..n /\ n \in Nat
  <2>1. IsFiniteSet(late)
    BY IdsAssumption, FS_Subset DEF PlaceInv, TypeOK
  <2>2. \A x \in late : pendingAcks[x] \in Message
    BY DEF PlaceInv, TypeOK
  <2> QED
    BY <2>1, <2>2, EnumerationType
<1>4. /\ \A i \in 1..n : f[i] \in late
      /\ \A i, j \in 1..n : f[i] = f[j] => i = j
  BY <1>3 DEF Bijection, Injection, IsInjective
<1> HIDE DEF n
<1>5. /\ Len(messages) \in Nat /\ DOMAIN messages = 1..Len(messages)
      /\ Len(messages') = Len(messages) + n
      /\ DOMAIN messages' = 1..(Len(messages) + n)
      /\ \A i \in 1..n : messages'[i] = pendingAcks[f[i]]
      /\ \A i \in DOMAIN messages' : i > n => messages'[i] = messages[i - n] /\ i - n \in DOMAIN messages
  <2>1. messages \in Seq(Message)
    BY DEF PlaceInv, TypeOK
  <2>2. Len(back) = n /\ \A i \in 1..n : back[i] = pendingAcks[f[i]]
    BY <1>3
  <2> QED
    BY <1>1, <1>3, <2>1, <2>2, ConcatProperties
<1>6. /\ \A i \in 1..n : messages'[i].id = f[i] /\ f[i] \in late /\ ~Queued(f[i])
      /\ late \subseteq DOMAIN pendingAcks
  BY <1>4, <1>5 DEF PlaceInv, OnePlace, TypeOK
<1>7. \A i, j \in DOMAIN messages' : messages'[i].id = messages'[j].id => i = j
  <2>1. \A i \in DOMAIN messages' : i \in 1..n \/ i > n
    BY <1>3, <1>5
  <2>2. \A i \in DOMAIN messages' : i > n => Queued(messages'[i].id)
    BY <1>5 DEF Queued
  <2>3. \A i, j \in DOMAIN messages' :
            i > n /\ j > n /\ messages'[i].id = messages'[j].id => i = j
    BY <1>3, <1>5 DEF PlaceInv, OnePlace
  <2> QED
    BY <1>4, <1>6, <2>1, <2>2, <2>3
<1>8. /\ \A id : Queued(id)' => Queued(id) \/ id \in late
      /\ \A id : Lent(id)' <=> Lent(id) /\ id \notin late
  <2>1. \A i \in DOMAIN messages' : i \in 1..n \/ i > n
    BY <1>3, <1>5
  <2> QED
    BY <1>2, <1>5, <1>6, <2>1 DEF Queued, Lent
<1>9. \A id \in DOMAIN pendingAcks' : pendingAcks'[id].id = id /\ ~Queued(id)'
  BY <1>2, <1>8 DEF PlaceInv, OnePlace, Lent
<1> QED
  BY <1>2, <1>5, <1>6, <1>7, <1>8, <1>9, PlaceLend DEF Lent, Threads

\* Taking a message out of the queue, or a loan, into the hands of a call.
LEMMA PlaceTake ==
    ASSUME PlaceInv, TypeOK', NEW t \in Threads, NEW x \in Ids, Unlocked,
           UNCHANGED <<disk, accepted, done>>,
           \A u \in Threads : u # t => call'[u] = call[u],
           call'[t].at \in Settling, call'[t].id = x,
           Queued(x) \/ Lent(x), ~Queued(x)', ~Lent(x)',
           \A i, j \in DOMAIN messages' : messages'[i].id = messages'[j].id => i = j,
           \A id \in DOMAIN pendingAcks' : id \in DOMAIN pendingAcks /\ pendingAcks'[id] = pendingAcks[id],
           \A id : Queued(id)' => Queued(id)
    PROVE  PlaceInv'
<1>1. /\ \A u \in Threads : ~Handles(u, x, Hands)
      /\ x \in accepted \ done
  BY DEF PlaceInv, OnePlace, Responsible, Lent
<1>2. \A u \in Threads, id \in Ids :
          /\ Handles(u, id, Accepting)' => Handles(u, id, Accepting)
          /\ Handles(u, id, Settling)' => Handles(u, id, Settling) \/ (u = t /\ id = x)
          /\ Handles(u, id, Hands)' => Handles(u, id, Hands) \/ (u = t /\ id = x)
  BY HandsFact DEF Handles
<1>3. OnePlace'
  <2>1. \A id \in DOMAIN pendingAcks' : pendingAcks'[id].id = id /\ ~Queued(id)'
    BY DEF PlaceInv, OnePlace
  <2>2. \A id \in Ids, u \in Threads :
           Handles(u, id, Hands)' =>
               /\ ~Queued(id)' /\ id \notin DOMAIN pendingAcks'
               /\ \A v \in Threads : Handles(v, id, Hands)' => v = u
    BY <1>1, <1>2 DEF PlaceInv, OnePlace, Lent
  <2> QED
    BY <2>1, <2>2 DEF OnePlace
<1>4. Responsible' /\ GoneFromDisk'
  BY <1>1, <1>2 DEF PlaceInv, Responsible, GoneFromDisk, Lent
<1>5. UpdateKeepsLock'
  BY DEF UpdateKeepsLock, Unlocked, At, Settling, AckSteps, DLQSteps
<1> QED
  BY <1>3, <1>4, <1>5 DEF PlaceInv

\* When the messages of an id are removed, that id is gone and no other comes.
LEMMA RemoveAllQueued ==
    ASSUME TypeOK, NEW x, RemoveAll(x)
    PROVE  ~Queued(x)' /\ \A id : Queued(id)' => Queued(id)
BY RemoveAllFact DEF Queued

LEMMA PlaceAckTake ==
    ASSUME PlaceInv, TypeOK', NEW p \in Threads, NEW x \in Ids, AckTake(p, x)
    PROVE  PlaceInv'
<1>1. /\ Unlocked
      /\ UNCHANGED <<disk, accepted, done>>
      /\ GoTo(p, "acking", [id |-> x, rc |-> 0], Len(messages'))
  BY DEF AckTake, OnlyMemory, files, settled
<1>2. /\ \A u \in Threads : u # p => call'[u] = call[u]
      /\ call'[p].at \in Settling /\ call'[p].id = x
  <2>1. [id |-> x, rc |-> 0].id = x
    OBVIOUS
  <2> QED
    BY <1>1, <2>1, OwnCall DEF PlaceInv, Settling, AckSteps
<1>3. CASE x \in DOMAIN pendingAcks /\ TakeBack({x}) /\ UNCHANGED messages
  <2>1. pendingAcks' = [i \in DOMAIN pendingAcks \ {x} |-> pendingAcks[i]]
    BY <1>3 DEF TakeBack
  <2>2. /\ \A id : Queued(id)' <=> Queued(id)
        /\ ~Queued(x)
        /\ Lent(x) /\ ~Lent(x)'
    BY <1>3, <2>1 DEF PlaceInv, OnePlace, Queued, Lent
  <2>3. \A i, j \in DOMAIN messages' : messages'[i].id = messages'[j].id => i = j
    BY <1>3 DEF PlaceInv, OnePlace
  <2> QED
    BY <1>1, <1>2, <2>1, <2>2, <2>3, PlaceTake
<1>4. CASE /\ x \notin DOMAIN pendingAcks
           /\ Queued(x) /\ RemoveAll(x)
           /\ UNCHANGED <<pendingAcks, late>>
  <2>1. /\ ~Queued(x)' /\ \A id : Queued(id)' => Queued(id)
        /\ ~Lent(x)'
    BY <1>4, RemoveAllQueued DEF PlaceInv, Lent
  <2>2. \A i, j \in DOMAIN messages' : messages'[i].id = messages'[j].id => i = j
    BY <1>4, RemoveAllFact DEF PlaceInv, OnePlace
  <2> QED
    BY <1>1, <1>2, <1>4, <2>1, <2>2, PlaceTake
<1> QED
  BY <1>3, <1>4 DEF AckTake

LEMMA PlaceDLQTake ==
    ASSUME PlaceInv, TypeOK', NEW p \in Threads, NEW x \in Ids, DLQTake(p, x)
    PROVE  PlaceInv'
<1>1. /\ Unlocked /\ RemoveAll(x)
      /\ UNCHANGED <<pendingAcks, disk, accepted, done>>
  BY DEF DLQTake, OnlyMemory, files, settled
<1>2. PICK i \in DOMAIN messages :
          messages[i].id = x /\ GoTo(p, "burying", messages[i], Len(messages'))
  BY DEF DLQTake, First
<1>3. /\ \A u \in Threads : u # p => call'[u] = call[u]
      /\ call'[p].at \in Settling /\ call'[p].id = x
  BY <1>2, OwnCall DEF PlaceInv, Settling, DLQSteps
<1>4. Queued(x) /\ ~Lent(x) /\ ~Lent(x)'
  BY <1>1, <1>2 DEF PlaceInv, OnePlace, Queued, Lent
<1>5. /\ ~Queued(x)' /\ \A id : Queued(id)' => Queued(id)
      /\ \A k, j \in DOMAIN messages' : messages'[k].id = messages'[j].id => k = j
  BY <1>1, RemoveAllFact, RemoveAllQueued DEF PlaceInv, OnePlace
<1> QED
  BY <1>1, <1>3, <1>4, <1>5, PlaceTake

\* Finishing an acknowledgement, replacing a queued message, restarting.
LEMMA PlaceAckUnlink ==
    ASSUME PlaceInv, TypeOK', NEW p \in Threads, AckUnlink(p)
    PROVE  PlaceInv'
<1> DEFINE x == call[p].id
<1>1. /\ x \in Ids /\ Handles(p, x, Settling) /\ Handles(p, x, Hands)
      /\ UNCHANGED <<messages, pendingAcks, accepted>>
      /\ Unlocked /\ Return(p)
      /\ \/ disk' = [disk EXCEPT ![x] = Absent] /\ done' = done \cup {x}
         \/ UNCHANGED <<disk, done>>
  BY CallFields, HandsFact
     DEF AckUnlink, PlaceInv, MessageCall, At, Handles, Settling, AckSteps, Steps, memory
<1>2. /\ \A u \in Threads : u # p => call'[u] = call[u]
      /\ call'[p].at = "idle"
  BY <1>1, OwnCall DEF PlaceInv
<1>3. \A u \in Threads, id \in Ids :
          /\ Handles(u, id, Accepting)' => Handles(u, id, Accepting)
          /\ Handles(u, id, Settling)' => Handles(u, id, Settling) /\ u # p
          /\ Handles(u, id, Hands)' => Handles(u, id, Hands) /\ u # p
  BY <1>2, HandsFact DEF Handles, Accepting, Settling, AckSteps, DLQSteps
<1>4. /\ \A id : Queued(id)' <=> Queued(id)
      /\ \A id : Lent(id)' <=> Lent(id)
  BY <1>1 DEF Queued, Lent
<1>5. OnePlace'
  BY <1>1, <1>3, <1>4 DEF PlaceInv, OnePlace
<1>6. /\ ~Queued(x) /\ ~Lent(x) /\ x \in accepted
      /\ \A u \in Threads, id \in Ids : Handles(u, id, Settling)' => id # x
  BY <1>1, <1>3, HandsFact DEF PlaceInv, OnePlace, Responsible, Lent, Handles
<1>7. Responsible'
  <2>1. done' \subseteq done \cup {x} /\ done' \subseteq accepted'
    BY <1>1, <1>6 DEF PlaceInv, Responsible
  <2>2. \A id \in Ids : Queued(id)' \/ Lent(id)' => id \in accepted' \ done'
    <3>1. SUFFICES ASSUME NEW id \in Ids, Queued(id) \/ Lent(id)
                   PROVE  id \in accepted' \ done'
      BY <1>4
    <3>2. id # x
      BY <1>6, <3>1
    <3> QED
      BY <1>1, <2>1, <3>1, <3>2 DEF PlaceInv, Responsible
  <2>3. \A u \in Threads, id \in Ids : Handles(u, id, Accepting)' => id \notin accepted'
    BY <1>1, <1>3 DEF PlaceInv, Responsible
  <2>4. \A u \in Threads, id \in Ids :
            Handles(u, id, Settling)' => id \in accepted' \ done'
    BY <1>1, <1>3, <1>6, <2>1 DEF PlaceInv, Responsible
  <2> QED
    BY <2>1, <2>2, <2>3, <2>4 DEF Responsible
<1>8. GoneFromDisk'
  BY <1>1 DEF PlaceInv, GoneFromDisk, TypeOK
<1>9. UpdateKeepsLock'
  BY <1>1, <1>2 DEF UpdateKeepsLock, Unlocked, At
<1> QED
  BY <1>5, <1>7, <1>8, <1>9 DEF PlaceInv

LEMMA PlaceUpdateMemory ==
    ASSUME PlaceInv, TypeOK', NEW p \in Threads, NEW m \in Message, UpdateMemory(p, m)
    PROVE  PlaceInv'
<1>1. PICK k \in DOMAIN messages :
          messages[k].id = m.id /\ messages' = [messages EXCEPT ![k] = m]
  BY DEF UpdateMemory, First
<1>2. /\ Unlocked
      /\ UNCHANGED <<pendingAcks, accepted, done>>
      /\ disk' = disk \/ disk' = [disk EXCEPT ![m.id] = Torn]
      /\ GoTo(p, "rewriting", m, 0) \/ UNCHANGED call
  BY DEF UpdateMemory, settled
<1>3. /\ DOMAIN messages' = DOMAIN messages
      /\ \A i \in DOMAIN messages : messages'[i].id = messages[i].id
  BY <1>1 DEF PlaceInv, TypeOK
<1>4. /\ \A id : Queued(id)' <=> Queued(id)
      /\ \A id : Lent(id)' <=> Lent(id)
      /\ Queued(m.id) /\ m.id \in Ids
  BY <1>1, <1>2, <1>3 DEF Queued, Lent, Message
<1>5. /\ \A u \in Threads : u # p => call'[u] = call[u]
      /\ call'[p] = call[p] \/ (call'[p].at = "rewriting" /\ call'[p].id = m.id)
  BY <1>2, OwnCall DEF PlaceInv
<1>6. \A u \in Threads, id \in Ids :
          /\ Handles(u, id, Accepting)' => Handles(u, id, Accepting)
          /\ Handles(u, id, Settling)' => Handles(u, id, Settling)
          /\ Handles(u, id, Hands)' => Handles(u, id, Hands)
  BY <1>5, HandsFact DEF Handles, Accepting, Settling, AckSteps, DLQSteps
<1>7. OnePlace'
  BY <1>2, <1>3, <1>4, <1>6 DEF PlaceInv, OnePlace
<1>8. Responsible'
  BY <1>2, <1>4, <1>6 DEF PlaceInv, Responsible
<1>9. GoneFromDisk'
  BY <1>2, <1>4 DEF PlaceInv, Responsible, GoneFromDisk, TypeOK
<1>10. UpdateKeepsLock'
  <2>1. \A u \in Threads : At(u, "rewriting")' => u = p /\ call'[u].id = m.id
    BY <1>2, <1>5 DEF Unlocked, At
  <2>2. \A id : id = m.id => Queued(id)'
    BY <1>4
  <2>3. \E j \in DOMAIN messages' : messages'[j].id = m.id
    BY <2>2 DEF Queued
  <2> QED
    BY <2>1, <2>3 DEF UpdateKeepsLock, Queued
<1> QED
  BY <1>7, <1>8, <1>9, <1>10 DEF PlaceInv

\* A new process serves what it has read, and every call is gone.
LEMMA PlaceRestart == ASSUME PlaceInv, TypeOK', Restart PROVE PlaceInv'
<1> DEFINE saved == {id \in Ids : Readable(disk, id)}
<1>1. PICK f \in Bijection(1..Cardinality(saved), saved) :
          messages' = [i \in DOMAIN f |-> disk[f[i]]]
  BY DEF Restart
<1>2. /\ accepted' = accepted \cup saved
      /\ pendingAcks' = <<>>
      /\ call' = [t \in Threads |-> Idle]
      /\ UNCHANGED <<files, done>>
  BY Zenon DEF Restart
<1>3. /\ \A i \in DOMAIN f : f[i] \in saved
      /\ \A i, j \in DOMAIN f : f[i] = f[j] => i = j
  BY DEF Bijection, Injection, IsInjective
<1>4. \A id \in saved : disk[id].id = id /\ disk[id] \in Message
  BY DEF Readable, Message
<1>5. \A i \in DOMAIN messages' : i \in DOMAIN f /\ messages'[i].id = f[i]
  BY <1>1, <1>3, <1>4
<1>6. \A id : Queued(id)' => id \in saved
  BY <1>3, <1>5 DEF Queued
<1>7. \A id : ~Lent(id)'
  BY <1>2 DEF Lent
<1>8. \A t \in Threads : call'[t].at = "idle"
  BY <1>2 DEF Idle
<1>9. \A t \in Threads : /\ ~At(t, "rewriting")'
                         /\ \A id \in Ids : ~Handles(t, id, Hands)'
  BY <1>8 DEF At, Handles, Hands, PushSteps, AckSteps, DLQSteps
<1>10. OnePlace'
  <2>1. \A i, j \in DOMAIN messages' : messages'[i].id = messages'[j].id => i = j
    BY <1>3, <1>5
  <2> QED
    BY <1>7, <1>9, <2>1 DEF OnePlace, Lent
<1>11. Responsible'
  <2>1. \A id \in saved : id \notin done
    BY <1>4, FileAssumption DEF PlaceInv, GoneFromDisk
  <2>2. \A t \in Threads, id \in Ids : ~Handles(t, id, Accepting)' /\ ~Handles(t, id, Settling)'
    BY <1>9, HandsFact DEF Handles
  <2>3. done' \subseteq accepted'
    BY <1>2 DEF PlaceInv, Responsible
  <2> QED
    BY <1>2, <1>6, <1>7, <2>1, <2>2, <2>3 DEF Responsible
<1>12. GoneFromDisk'
  BY <1>2 DEF PlaceInv, GoneFromDisk, files
<1>13. UpdateKeepsLock'
  BY <1>9 DEF UpdateKeepsLock
<1> QED
  BY <1>10, <1>11, <1>12, <1>13 DEF PlaceInv

LEMMA PlaceNext == PlaceInv /\ [Next]_vars => PlaceInv'
<1> SUFFICES ASSUME PlaceInv, [Next]_vars PROVE PlaceInv'
  OBVIOUS
<1>1. TypeOK'
  BY TypeNext DEF PlaceInv
<1>2. Procs \subseteq Threads
  BY DEF Threads
<1>3. ASSUME NEW p \in Procs, Begin(p) PROVE PlaceInv'
  <2>1. CASE Pop(p)
    BY <1>1, <1>2, <2>1, PlacePop
  <2>2. ASSUME NEW id \in Ids, PushCheck(p, id) PROVE PlaceInv'
    BY <1>1, <1>2, <2>2, PlacePushCheck
  <2>3. ASSUME NEW id \in Ids, NegativeAcknowledge(p, id) PROVE PlaceInv'
    BY <1>1, <1>2, <2>3, PlaceNack
  <2>4. ASSUME NEW id \in Ids, AckTake(p, id) PROVE PlaceInv'
    BY <1>1, <1>2, <2>4, PlaceAckTake
  <2>5. ASSUME NEW id \in Ids, DLQTake(p, id) PROVE PlaceInv'
    BY <1>1, <1>2, <2>5, PlaceDLQTake
  <2>6. ASSUME NEW m \in Message, UpdateMemory(p, m) PROVE PlaceInv'
    BY <1>1, <1>2, <2>6, PlaceUpdateMemory
  <2> QED
    BY <1>3, <2>1, <2>2, <2>3, <2>4, <2>5, <2>6 DEF Begin
<1>4. ASSUME NEW t \in Threads, Proceed(t) PROVE PlaceInv'
  <2>1. CASE PushAppend(t)
    BY <1>1, <2>1, PlacePushAppend
  <2>2. CASE AckUnlink(t)
    BY <1>1, <2>2, PlaceAckUnlink
  <2> QED
    BY <1>1, <1>4, <2>1, <2>2, PlaceProceed DEF Proceed
<1>5. CASE CheckTimeouts
  BY <1>1, <1>5, PlaceTimeouts
<1>6. CASE Restart
  BY <1>1, <1>6, PlaceRestart
<1>7. ASSUME UNCHANGED <<messages, pendingAcks, call, disk, accepted, done>>
      PROVE  PlaceInv'
  BY <1>1, <1>7, PlaceOthers
<1>8. CASE UNCHANGED vars
  BY <1>7, <1>8 DEF vars, memory, files, settled
<1>9. ASSUME NEW id \in Ids, Age(id) PROVE PlaceInv'
  BY <1>7, <1>9 DEF Age, OnlyMemory, files, settled
<1>10. ASSUME NEW l, Subscribe(l) \/ ReceiveSignal(l) \/ ReceiveMessage(l) PROVE PlaceInv'
  BY <1>7, <1>10 DEF Subscribe, ReceiveSignal, ReceiveMessage, memory, files, settled
<1>11. CASE SetStoragePath
  BY <1>7, <1>11 DEF SetStoragePath, memory, files, settled
<1> QED
  BY <1>3, <1>4, <1>5, <1>6, <1>8, <1>9, <1>10, <1>11 DEF Next

LEMMA PlaceCorrect == Spec => []PlaceInv
BY PlaceInit, PlaceNext, PTL DEF Spec

\* However calls, timeouts, faults and restarts interleave, a message is in one
\* place: in the queue once, lent once, or in the hands of one call, so that the
\* file operations, which take no lock (broker.go:160, 263-277, 324), never meet
\* on one file.
THEOREM OnePlaceCorrect == Spec => []OnePlace
<1>1. PlaceInv => OnePlace
  BY DEF PlaceInv
<1> QED
  BY <1>1, PlaceCorrect, PTL

\* A message whose Acknowledge has returned nil never comes back: no timeout, no
\* negative acknowledgement and no recovery after a crash serves it again
\* (broker.go:287-324).
THEOREM AckFinal == Spec => []AckIsFinal
<1>1. PlaceInv => AckIsFinal
  BY DEF PlaceInv, TypeOK, Responsible, GoneFromDisk, AckIsFinal, Lent
<1> QED
  BY <1>1, PlaceCorrect, PTL
=============================================================================
