-------------------------- MODULE StreamingProofs ---------------------------
(***************************************************************************)
(* No signal is lost on a dashboard, for any number of connections and     *)
(* changes, silent or not.                                                 *)
(*                                                                         *)
(* NobodyForgotten is not inductive: that something is coming is not       *)
(* enough, it has to bring what was promised.  Fresh follows a promise on  *)
(* its way: from the signal to the timer, the copy of the connections, the *)
(* reading, the write.  A broadcast that has read a part too early does    *)
(* not count for it; then the signal that came after is itself on its way. *)
(* NotAhead says why a part that is read now is good enough: no promise is *)
(* ahead of the present.                                                   *)
(***************************************************************************)
EXTENDS Streaming, TLAPS

\* Broadcaster b will bring connection c what it was promised of kind k.
Brings(b, c, k) ==
    \/ job[b].at = "starting"
    \/ /\ job[b].at \in Kinds
       /\ c \in job[b].to
       /\ k \in Before(job[b].at) => job[b].data[k] >= promised[c][k]

\* Connection c has been shown what it was promised of kind k, or will be.
Fresh(c, k) ==
    \/ shown[c][k] >= promised[c][k]
    \/ \E l \in Signalled : signal[l]
    \/ needsBroadcast /\ debounceTimer # "off"
    \/ \E b \in Broadcasters : Brings(b, c, k)
    \/ \E w \in writing : w.to = c /\ w.data[k] >= promised[c][k]

\* Nothing is promised that is not there.
NotAhead == \A c \in Conns, k \in Kinds : promised[c][k] <= version[k]

\* An open connection is in the list, and nothing is kept from it.
Served == \A c \in Conns : link[c] = "open" => c \in conns /\ \A k \in Kinds : Fresh(c, k)

StreamingInv == TypeOK /\ NotAhead /\ Served

-----------------------------------------------------------------------------
Jobs == {Idle} \cup [at : {"starting"}] \cup Reading

\* What a job looks like, by the place it has reached.
LEMMA JobShape ==
    ASSUME TypeOK, NEW b \in Broadcasters
    PROVE  /\ job[b].at \in {"idle", "starting"} \cup Kinds
           /\ job[b].at = "idle" <=> job[b] = Idle
           /\ job[b].at \in Kinds =>
                  /\ job[b] \in Reading
                  /\ job[b].to \subseteq Conns
                  /\ job[b].data \in [Kinds -> Nat]
                  /\ \A k \in Kinds : job[b].data[k] = 0 <=> k \notin Before(job[b].at)
  <1>1. job[b] = Idle \/ job[b] \in [at : {"starting"}] \/ job[b] \in Reading
    BY DEF TypeOK
  <1>2. Idle.at = "idle"
    BY DEF Idle
  <1>3. job[b] \in [at : {"starting"}] => job[b].at = "starting"
    OBVIOUS
  <1>4. job[b] \in Reading =>
            /\ job[b].at \in Kinds
            /\ job[b].to \subseteq Conns
            /\ job[b].data \in [Kinds -> Nat]
            /\ \A k \in Kinds : job[b].data[k] = 0 <=> k \notin Before(job[b].at)
    BY DEF Reading
  <1>5. "idle" \notin Kinds /\ "starting" \notin Kinds
    BY DEF Kinds
  <1> QED
    BY <1>1, <1>2, <1>3, <1>4, <1>5

\* The copy of the connections is a job that has read nothing.
LEMMA CopyShape ==
    ASSUME TypeOK
    PROVE  /\ Copy \in Jobs
           /\ conns # {} => Copy.at = "figures" /\ Copy.to = conns
  <1>1. CASE conns = {}
    BY <1>1 DEF Copy, Jobs
  <1>2. CASE conns # {}
    <2>1. Copy = [at |-> "figures", to |-> conns, data |-> Blank]
      BY <1>2 DEF Copy
    <2>2. Blank \in [Kinds -> Nat] /\ \A k \in Kinds : Blank[k] = 0
      BY DEF Blank
    <2>3. Before("figures") = {} /\ "figures" \in Kinds
      BY DEF Before, Kinds
    <2>4. conns \subseteq Conns
      BY DEF TypeOK
    <2>5. [at |-> "figures", to |-> conns, data |-> Blank] \in Reading
      BY <2>2, <2>3, <2>4 DEF Reading
    <2> QED
      BY <2>1, <2>5 DEF Jobs
  <1> QED
    BY <1>1, <1>2

\* What reading one more kind yields.
LEMMA ReadShape ==
    ASSUME TypeOK, NEW b \in Broadcasters, NEW k \in Kinds, job[b].at = k
    PROVE  /\ Read(b, k) \in [Kinds -> Nat]
           /\ Read(b, k)[k] = version[k] /\ version[k] \in Versions
           /\ \A l \in Kinds : l # k => Read(b, k)[l] = job[b].data[l]
           /\ \A l \in Kinds : Read(b, k)[l] = 0 <=> l # k /\ l \notin Before(k)
  <1>1. /\ job[b].data \in [Kinds -> Nat]
        /\ \A l \in Kinds : job[b].data[l] = 0 <=> l \notin Before(k)
    BY JobShape
  <1>2. version[k] \in Versions
    BY DEF TypeOK
  <1> QED
    BY <1>1, <1>2 DEF Read, Versions

\* The job that has read one more kind.
LEMMA NextReading ==
    ASSUME TypeOK, NEW b \in Broadcasters, NEW k \in Kinds, NEW next \in Kinds,
           job[b].at = k, Before(next) = Before(k) \cup {k}
    PROVE  [at |-> next, to |-> job[b].to, data |-> Read(b, k)] \in Jobs
  <1>1. job[b].to \subseteq Conns
    BY JobShape
  <1>2. /\ Read(b, k) \in [Kinds -> Nat]
        /\ \A l \in Kinds : Read(b, k)[l] = 0 <=> l \notin Before(next)
    BY ReadShape
  <1> DEFINE r == [at |-> next, to |-> job[b].to, data |-> Read(b, k)]
  <1>3. r \in [at : Kinds, to : SUBSET Conns, data : [Kinds -> Nat]]
    BY <1>1, <1>2
  <1>4. r.at = next /\ r.data = Read(b, k)
    OBVIOUS
  <1>5. r \in Reading
    BY <1>2, <1>3, <1>4 DEF Reading
  <1> QED
    BY <1>5 DEF Jobs

\* The order of reading.
LEMMA ReadingOrder ==
    /\ Before("figures") = {}
    /\ Before("breakers") = Before("figures") \cup {"figures"}
    /\ Before("targets") = Before("breakers") \cup {"breakers"}
    /\ {"figures", "breakers", "targets"} \subseteq Kinds
    /\ \A k \in Kinds : k \in Before("targets") \cup {"targets"}
  BY DEF Before, Kinds

-----------------------------------------------------------------------------
(* Types. *)

\* At the start everything is idle, of its type, and nobody is connected.
LEMMA InitServed == Init => StreamingInv
  <1> SUFFICES ASSUME Init PROVE StreamingInv
    OBVIOUS
  <1>1. 1 \in Versions /\ 0 \in Nat
    BY DEF Versions
  <1>2. Blank \in [Kinds -> Nat] /\ \A k \in Kinds : Blank[k] = 0
    BY DEF Blank
  <1>3. /\ version \in [Kinds -> Versions] /\ announcing \in [Signalled -> Nat]
        /\ signal \in [Signalled -> BOOLEAN] /\ burying \in Nat
        /\ shown \in [Conns -> [Kinds -> Nat]] /\ promised \in [Conns -> [Kinds -> Nat]]
    BY <1>1, <1>2 DEF Init
  <1>4. job \in [Broadcasters -> {Idle} \cup [at : {"starting"}] \cup Reading]
    BY DEF Init
  <1>5. TypeOK
    BY <1>3, <1>4, StreamingAssumption DEF Init, TypeOK
  <1>6. NotAhead
    BY <1>2 DEF Init, NotAhead
  <1>7. Served
    BY DEF Init, Served
  <1> QED
    BY <1>5, <1>6, <1>7 DEF StreamingInv

\* A signal is a signal, and a promise a picture.
LEMMA SendType ==
    ASSUME TypeOK, NEW k \in Signalled, Send(k)
    PROVE  signal' \in [Signalled -> BOOLEAN] /\ promised' \in [Conns -> [Kinds -> Nat]]
  <1>1. version \in [Kinds -> Nat]
    BY DEF TypeOK, Versions
  <1> QED
    BY <1>1 DEF Send, TypeOK

LEMMA NextVersionType ==
    ASSUME TypeOK, NEW k \in Kinds, NextVersion(k)
    PROVE  version' \in [Kinds -> Versions]
  BY DEF NextVersion, TypeOK, Versions

\* The broker and the dispatcher.
System ==
    \/ \E k \in Signalled : Change(k) \/ notify(k) \/ Subscribe(k)
    \/ Count \/ MoveFails \/ ChangeBreaker \/ Merge \/ CheckTimeouts

LEMMA SystemType ==
    ASSUME TypeOK, System
    PROVE  TypeOK'
  <1>0. UNCHANGED <<needsBroadcast, debounceTimer, conns, link, shown, job, writing, panicked>>
    BY DEF System, Change, notify, Subscribe, Count, MoveFails, ChangeBreaker, Merge, CheckTimeouts,
           Quietly, OnlySystem
  <1>1. signal' \in [Signalled -> BOOLEAN] /\ promised' \in [Conns -> [Kinds -> Nat]]
    <2>1. CASE (\E k \in Signalled : Send(k))
      BY <2>1, SendType
    <2>2. CASE UNCHANGED <<signal, promised>>
      BY <2>2 DEF TypeOK
    <2> QED
      BY <2>1, <2>2 DEF System, Change, notify, Subscribe, Count, MoveFails, ChangeBreaker, Merge,
         CheckTimeouts, Quietly, Signalled
  <1>2. version' \in [Kinds -> Versions]
    <2>1. CASE (\E k \in Kinds : NextVersion(k))
      BY <2>1, NextVersionType
    <2>2. CASE UNCHANGED version
      BY <2>2 DEF TypeOK
    <2> QED
      BY <2>1, <2>2 DEF System, Change, notify, Subscribe, Count, MoveFails, ChangeBreaker, Merge,
         CheckTimeouts, system, Kinds, Signalled
  <1>3. starting' \subseteq StartUpSteps
    BY DEF System, Change, notify, Subscribe, Count, MoveFails, ChangeBreaker, Merge, CheckTimeouts,
           system, TypeOK
  <1>4. burying' \in Nat
    BY DEF System, Change, notify, Subscribe, Count, MoveFails, ChangeBreaker, Merge, CheckTimeouts,
           system, TypeOK
  <1>5. announcing' \in [Signalled -> Nat]
    <2>1. ASSUME NEW k \in Signalled, Change(k) PROVE announcing' \in [Signalled -> Nat]
      BY <2>1 DEF Change, TypeOK
    <2>2. ASSUME NEW k \in Signalled, notify(k) PROVE announcing' \in [Signalled -> Nat]
      <3>1. announcing[k] - 1 \in Nat
        BY <2>2 DEF notify, TypeOK
      <3> QED
        BY <2>2, <3>1 DEF notify, TypeOK
    <2>3. CASE UNCHANGED announcing
      BY <2>3 DEF TypeOK
    <2> QED
      BY <2>1, <2>2, <2>3 DEF System, Subscribe, Count, MoveFails, ChangeBreaker, Merge,
         CheckTimeouts, system
  <1> QED
    BY <1>0, <1>1, <1>2, <1>3, <1>4, <1>5 DEF TypeOK

\* A broadcaster gets a new job.
LEMMA JobType ==
    ASSUME TypeOK, NEW b \in Broadcasters, NEW j \in Jobs
    PROVE  [job EXCEPT ![b] = j] \in [Broadcasters -> Jobs]
  BY DEF TypeOK, Jobs

\* The streamer takes signals and starts a broadcast.
LEMMA StreamerType ==
    ASSUME TypeOK, (\E k \in Signalled : Receive(k)) \/ Expire \/ TimerFires
    PROVE  TypeOK'
  <1>1. CASE \E k \in Signalled : Receive(k)
    <2> PICK k \in Signalled : Receive(k)
      BY <1>1
    <2>1. signal' \in [Signalled -> BOOLEAN]
      BY DEF Receive, TypeOK
    <2> QED
      BY <2>1 DEF Receive, TypeOK, system, clients
  <1>2. CASE Expire
    BY <1>2 DEF Expire, TypeOK, system, clients
  <1>3. CASE TimerFires
    <2>1. Copy \in Jobs /\ Streamer \in Broadcasters
      BY CopyShape DEF Broadcasters
    <2>2. job' \in [Broadcasters -> Jobs]
      BY <1>3, <2>1, JobType DEF TimerFires, TypeOK, Jobs
    <2> QED
      BY <1>3, <2>2 DEF TimerFires, TypeOK, Jobs, system, clients
  <1> QED
    BY <1>1, <1>2, <1>3

\* A broadcast reads one kind after the other and starts the writes.
LEMMA ReadType ==
    ASSUME TypeOK, NEW b \in Broadcasters, ReadFigures(b) \/ ReadBreakers(b) \/ ReadTargets(b)
    PROVE  TypeOK'
  <1>1. job' \in [Broadcasters -> Jobs]
    <2>1. CASE ReadFigures(b)
      <3>1. [at |-> "breakers", to |-> job[b].to, data |-> Read(b, "figures")] \in Jobs
        BY <2>1, NextReading, ReadingOrder DEF ReadFigures
      <3> QED
        BY <2>1, <3>1, JobType DEF ReadFigures
    <2>2. CASE ReadBreakers(b)
      <3>1. [at |-> "targets", to |-> job[b].to, data |-> Read(b, "breakers")] \in Jobs
        BY <2>2, NextReading, ReadingOrder DEF ReadBreakers
      <3> QED
        BY <2>2, <3>1, JobType DEF ReadBreakers
    <2>3. CASE ReadTargets(b)
      BY <2>3, JobType DEF ReadTargets, Jobs
    <2> QED
      BY <2>1, <2>2, <2>3
  <1>2. writing' \subseteq [to : Conns, data : [Kinds -> Versions]]
    <2>1. CASE ReadTargets(b)
      <3> DEFINE data == Read(b, "targets")
      <3>1. data \in [Kinds -> Nat] /\ \A l \in Kinds : data[l] # 0
        BY <2>1, ReadShape, ReadingOrder DEF ReadTargets
      <3>2. data \in [Kinds -> Versions]
        BY <3>1 DEF Versions
      <3>3. job[b].to \subseteq Conns
        BY <2>1, JobShape, ReadingOrder DEF ReadTargets
      <3>4. writing' = writing \cup {[to |-> c, data |-> data] : c \in job[b].to}
        BY <2>1 DEF ReadTargets
      <3> HIDE DEF data
      <3> QED
        BY <3>2, <3>3, <3>4 DEF TypeOK
    <2>2. CASE UNCHANGED writing
      BY <2>2 DEF TypeOK
    <2> QED
      BY <2>1, <2>2 DEF ReadFigures, ReadBreakers
  <1>3. OnlyJob
    BY DEF ReadFigures, ReadBreakers, ReadTargets
  <1> QED
    BY <1>1, <1>2, <1>3 DEF OnlyJob, TypeOK, Jobs, system, streamer, clients

\* A connection that closes is blank.
LEMMA CloseType ==
    ASSUME TypeOK, NEW c \in Conns, Close(c)
    PROVE  /\ link' \in [Conns -> {"new", "open", "closed"}]
           /\ shown' \in [Conns -> [Kinds -> Nat]]
           /\ promised' \in [Conns -> [Kinds -> Nat]]
  <1>1. Blank \in [Kinds -> Nat]
    BY DEF Blank
  <1> QED
    BY <1>1 DEF Close, TypeOK

\* Connections come and go.
LEMMA ConnectionType ==
    ASSUME TypeOK, NEW c \in Conns,
           Connect(c) \/ CopyConns(c) \/ Disconnect(c) \/ ReaderEnds(c)
    PROVE  TypeOK'
  <1>0. c \in Broadcasters
    BY DEF Broadcasters
  <1>1. CASE Connect(c)
    <2>1. job' \in [Broadcasters -> Jobs]
      <3>1. [at |-> "starting"] \in Jobs
        BY DEF Jobs
      <3> QED
        BY <1>0, <1>1, <3>1, JobType DEF Connect
    <2>2. promised' \in [Conns -> [Kinds -> Nat]]
      BY <1>1 DEF Connect, TypeOK, Versions
    <2> QED
      BY <1>1, <2>1, <2>2 DEF Connect, TypeOK, Jobs, system, streamer
  <1>2. CASE CopyConns(c)
    <2>1. job' \in [Broadcasters -> Jobs]
      BY <1>0, <1>2, CopyShape, JobType DEF CopyConns
    <2> QED
      BY <1>2, <2>1 DEF CopyConns, OnlyJob, TypeOK, Jobs, system, streamer, clients
  <1>3. CASE Disconnect(c)
    BY <1>3, CloseType DEF Disconnect, TypeOK, system, streamer
  <1>4. CASE ReaderEnds(c)
    BY <1>4 DEF ReaderEnds, TypeOK, system, streamer
  <1> QED
    BY <1>1, <1>2, <1>3, <1>4

\* Writes end or fail.
LEMMA WriteType ==
    ASSUME TypeOK, NEW w \in writing, WriteEnds(w) \/ WriteFails(w)
    PROVE  TypeOK'
  <1>0. w.to \in Conns /\ w.data \in [Kinds -> Nat]
    BY DEF TypeOK, Versions
  <1>1. CASE WriteEnds(w)
    <2>1. [k \in Kinds |-> Newer(shown[w.to][k], w.data[k])] \in [Kinds -> Nat]
      BY <1>0 DEF TypeOK, Newer
    <2>2. shown' \in [Conns -> [Kinds -> Nat]]
      BY <1>0, <1>1, <2>1 DEF WriteEnds, TypeOK
    <2> QED
      BY <1>1, <2>2 DEF WriteEnds, TypeOK, system, streamer
  <1>2. CASE WriteFails(w)
    BY <1>0, <1>2, CloseType DEF WriteFails, TypeOK, system, streamer
  <1> QED
    BY <1>1, <1>2

\* The process dies.
LEMMA PanicType ==
    ASSUME TypeOK, NEW b \in Broadcasters, Panic(b)
    PROVE  TypeOK'
  <1>1. Blank \in [Kinds -> Nat]
    BY DEF Blank
  <1>2. /\ shown' \in [Conns -> [Kinds -> Nat]] /\ promised' \in [Conns -> [Kinds -> Nat]]
        /\ announcing' \in [Signalled -> Nat] /\ signal' \in [Signalled -> BOOLEAN]
        /\ job' \in [Broadcasters -> Jobs]
    BY <1>1 DEF Panic, Jobs
  <1> QED
    BY <1>2 DEF Panic, TypeOK, Jobs

\* Every step preserves the types.
LEMMA TypeStep ==
    ASSUME TypeOK, [Next]_vars
    PROVE  TypeOK'
  <1>1. CASE UNCHANGED vars
    BY <1>1 DEF vars, system, streamer, clients, TypeOK
  <1>2. CASE Next
    BY <1>2, SystemType, StreamerType, ReadType, ConnectionType, WriteType, PanicType DEF Next, System
  <1> QED
    BY <1>1, <1>2

-----------------------------------------------------------------------------
(* Promises. *)

\* The numbers are numbers.
LEMMA Numbers ==
    ASSUME TypeOK
    PROVE  /\ \A k \in Kinds : version[k] \in Nat
           /\ \A c \in Conns, k \in Kinds : shown[c][k] \in Nat /\ promised[c][k] \in Nat
           /\ \A w \in writing : w.to \in Conns /\ \A k \in Kinds : w.data[k] \in Nat
  BY DEF TypeOK, Versions

\* A step of the system makes a promise only with a signal.
LEMMA SystemPromise ==
    ASSUME TypeOK, NotAhead, System
    PROVE  /\ UNCHANGED <<needsBroadcast, debounceTimer, conns, link, shown, job, writing>>
           /\ \A k \in Kinds : version'[k] >= version[k]
           /\ \/ UNCHANGED <<signal, promised>>
              \/ /\ \E l \in Signalled : signal'[l]
                 /\ version' = version
                 /\ \A c \in Conns : promised'[c] = promised[c] \/ promised'[c] = version
  <1>1. UNCHANGED <<needsBroadcast, debounceTimer, conns, link, shown, job, writing>>
    BY DEF System, Change, notify, Subscribe, Count, MoveFails, ChangeBreaker, Merge, CheckTimeouts,
           Quietly, OnlySystem
  <1>2. \A k \in Kinds : version'[k] >= version[k]
    <2>1. ASSUME NEW l \in Kinds, NextVersion(l), NEW k \in Kinds
          PROVE  version'[k] >= version[k]
      BY <2>1, Numbers DEF NextVersion, TypeOK
    <2>2. CASE UNCHANGED version
      BY <2>2, Numbers
    <2> QED
      BY <2>1, <2>2 DEF System, Change, notify, Subscribe, Count, MoveFails, ChangeBreaker, Merge,
         CheckTimeouts, system, Kinds, Signalled
  <1>3. ASSUME NEW k \in Signalled, Send(k)
        PROVE  \/ UNCHANGED <<signal, promised>>
               \/ /\ \E l \in Signalled : signal'[l]
                  /\ \A c \in Conns : promised'[c] = promised[c] \/ promised'[c] = version
    BY <1>3 DEF Send, TypeOK
  <1>4. \/ UNCHANGED <<signal, promised>>
        \/ UNCHANGED version /\ \E k \in Signalled : Send(k)
    BY DEF System, Change, notify, Subscribe, Count, MoveFails, ChangeBreaker, Merge, CheckTimeouts,
           Quietly, Signalled, system
  <1> QED
    BY <1>1, <1>2, <1>3, <1>4

\* Every step promises what is there.
LEMMA NotAheadStep ==
    ASSUME TypeOK, NotAhead, [Next]_vars
    PROVE  NotAhead'
  <1> SUFFICES ASSUME NEW c \in Conns, NEW k \in Kinds PROVE promised'[c][k] <= version'[k]
    BY DEF NotAhead
  <1>0. /\ promised[c][k] <= version[k]
        /\ promised[c][k] \in Nat /\ version[k] \in Nat
    BY Numbers DEF NotAhead
  <1>1. CASE System
    <2>1. version'[k] >= version[k] /\ version'[k] \in Nat
      BY <1>1, SystemPromise, SystemType, Numbers DEF TypeOK, Versions
    <2>2. promised'[c] = promised[c] \/ (promised'[c] = version /\ version' = version)
      BY <1>1, SystemPromise
    <2> QED
      BY <1>0, <2>1, <2>2
  <1>2. CASE \E d \in Conns : Connect(d)
    <2>1. version' = version /\ (promised'[c] = promised[c] \/ promised'[c] = version)
      BY <1>2 DEF Connect, TypeOK, system
    <2> QED
      BY <1>0, <2>1
  <1>3. CASE \/ \E d \in Conns : Disconnect(d)
             \/ \E w \in writing : WriteFails(w)
             \/ \E b \in Broadcasters : Panic(b)
    <2>1. version' = version /\ (promised'[c] = promised[c] \/ promised'[c] = Blank)
      BY <1>3, Numbers DEF Disconnect, WriteFails, Panic, Close, TypeOK, system
    <2>2. Blank[k] = 0
      BY DEF Blank
    <2> QED
      BY <1>0, <2>1, <2>2
  <1>4. CASE UNCHANGED <<version, promised>>
    BY <1>0, <1>4
  <1>5. CASE UNCHANGED vars
    BY <1>0, <1>5 DEF vars, system, clients
  <1> QED
    BY <1>1, <1>2, <1>3, <1>4, <1>5
       DEF Next, System, Receive, Expire, TimerFires, ReadFigures, ReadBreakers, ReadTargets,
           CopyConns, ReaderEnds, WriteEnds, OnlyJob, system, clients

-----------------------------------------------------------------------------
(* Whatever is on its way stays on its way. *)

\* A broadcaster that is left alone brings what it brought.
LEMMA SameJob ==
    ASSUME NEW b, NEW c, NEW k, Brings(b, c, k),
           job'[b] = job[b], promised'[c] = promised[c]
    PROVE  Brings(b, c, k)'
  BY DEF Brings

\* A promise comes with a signal.
LEMMA SystemServes ==
    ASSUME TypeOK, NotAhead, Served, System
    PROVE  Served'
  <1> SUFFICES ASSUME NEW c \in Conns, link'[c] = "open", NEW k \in Kinds
               PROVE  c \in conns' /\ Fresh(c, k)'
    BY DEF Served, Kinds
  <1>0. UNCHANGED <<needsBroadcast, debounceTimer, conns, link, shown, job, writing>>
    BY SystemPromise
  <1>1. c \in conns /\ Fresh(c, k)
    BY <1>0 DEF Served
  <1>2. CASE UNCHANGED <<signal, promised>>
    <2>1. \A b \in Broadcasters : Brings(b, c, k) => Brings(b, c, k)'
      BY <1>0, <1>2, SameJob
    <2> QED
      BY <1>0, <1>1, <1>2, <2>1 DEF Fresh
  <1>3. CASE \E l \in Signalled : signal'[l]
    BY <1>0, <1>1, <1>3 DEF Fresh
  <1> QED
    BY <1>2, <1>3, SystemPromise

\* A copy of the connections will bring each of them what it was promised.
LEMMA CopyBrings ==
    ASSUME TypeOK, NEW b \in Broadcasters, NEW c \in conns, NEW k \in Kinds, job'[b] = Copy
    PROVE  Brings(b, c, k)'
  <1>1. job'[b].at = "figures" /\ c \in job'[b].to
    BY CopyShape
  <1>2. job'[b].at \in Kinds /\ k \notin Before(job'[b].at)
    BY <1>1, ReadingOrder
  <1> QED
    BY <1>1, <1>2 DEF Brings

\* A signal becomes a running timer, the timer a copy of the connections.
LEMMA StreamerServes ==
    ASSUME TypeOK, Served, (\E k \in Signalled : Receive(k)) \/ Expire \/ TimerFires
    PROVE  Served'
  <1> SUFFICES ASSUME NEW c \in Conns, link'[c] = "open", NEW k \in Kinds
               PROVE  c \in conns' /\ Fresh(c, k)'
    BY DEF Served, Kinds
  <1>0. UNCHANGED <<conns, link, shown, promised, writing>>
    BY DEF Receive, Expire, TimerFires, clients
  <1>1. c \in conns /\ Fresh(c, k)
    BY <1>0 DEF Served
  <1>2. CASE \E l \in Signalled : Receive(l)
    BY <1>0, <1>1, <1>2 DEF Receive, Fresh
  <1>3. CASE Expire
    <2>1. \A b \in Broadcasters : Brings(b, c, k) => Brings(b, c, k)'
      BY <1>0, <1>3, SameJob DEF Expire
    <2> QED
      BY <1>0, <1>1, <1>3, <2>1 DEF Expire, Fresh
  <1>4. CASE TimerFires /\ needsBroadcast
    <2>1. Streamer \in Broadcasters
      BY DEF Broadcasters
    <2>2. job'[Streamer] = Copy
      BY <1>4, <2>1 DEF TimerFires, TypeOK
    <2>3. Brings(Streamer, c, k)'
      BY <1>1, <2>1, <2>2, CopyBrings
    <2> QED
      BY <1>0, <1>1, <2>1, <2>3 DEF Fresh
  <1>5. CASE TimerFires /\ ~needsBroadcast
    <2>1. job' = job /\ signal' = signal
      BY <1>5 DEF TimerFires
    <2>2. \A b \in Broadcasters : Brings(b, c, k) => Brings(b, c, k)'
      BY <1>0, <2>1, SameJob
    <2> QED
      BY <1>0, <1>1, <1>5, <2>1, <2>2 DEF Fresh
  <1> QED
    BY <1>2, <1>3, <1>4, <1>5

\* A job that has read one more kind brings what it brought: what it has just
\* read is the present, which no promise is ahead of.
LEMMA NextReadingBrings ==
    ASSUME TypeOK, NotAhead, NEW b \in Broadcasters, NEW i \in Kinds, NEW next \in Kinds,
           job[b].at = i, Before(next) = Before(i) \cup {i},
           job'[b] = [at |-> next, to |-> job[b].to, data |-> Read(b, i)],
           promised' = promised, NEW c \in Conns, NEW k \in Kinds, Brings(b, c, k)
    PROVE  Brings(b, c, k)'
  <1> DEFINE t == job[b].to
  <1> DEFINE d == Read(b, i)
  <1>1. i # "starting"
    BY DEF Kinds
  <1>2. c \in t /\ (k \in Before(i) => job[b].data[k] >= promised[c][k])
    BY <1>1 DEF Brings
  <1>3. k \in Before(next) => d[k] >= promised[c][k]
    <2>1. CASE k = i
      <3>1. d[k] = version[k]
        BY <2>1, ReadShape
      <3>2. version[k] >= promised[c][k]
        BY Numbers DEF NotAhead
      <3> QED
        BY <3>1, <3>2
    <2>2. CASE k # i
      BY <1>2, <2>2, ReadShape
    <2> QED
      BY <2>1, <2>2
  <1> HIDE DEF t, d
  <1>4. job'[b].at = next /\ job'[b].to = t /\ job'[b].data = d
    BY DEF t, d
  <1> QED
    BY <1>2, <1>3, <1>4 DEF Brings

\* What a broadcast will bring becomes what its writes bring.
LEMMA ReadServes ==
    ASSUME TypeOK, NotAhead, Served, NEW b \in Broadcasters,
           ReadFigures(b) \/ ReadBreakers(b) \/ ReadTargets(b)
    PROVE  Served'
  <1> SUFFICES ASSUME NEW c \in Conns, link'[c] = "open", NEW k \in Kinds
               PROVE  c \in conns' /\ Fresh(c, k)'
    BY DEF Served, Kinds
  <1>0. UNCHANGED <<signal, needsBroadcast, debounceTimer, conns, link, shown, promised>>
    BY DEF ReadFigures, ReadBreakers, ReadTargets, OnlyJob, clients, streamer
  <1>1. c \in conns /\ Fresh(c, k)
    BY <1>0 DEF Served
  <1>2. writing \subseteq writing'
    BY DEF ReadFigures, ReadBreakers, ReadTargets
  <1>3. \A a \in Broadcasters : a # b => job'[a] = job[a]
    BY DEF ReadFigures, ReadBreakers, ReadTargets, TypeOK
  <1>4. \A a \in Broadcasters : a # b /\ Brings(a, c, k) => Brings(a, c, k)'
    BY <1>0, <1>3, SameJob
  <1>5. Brings(b, c, k) => Brings(b, c, k)' \/ \E w \in writing' : w.to = c /\ w.data[k] >= promised[c][k]
    <2> SUFFICES ASSUME Brings(b, c, k)
                 PROVE  Brings(b, c, k)' \/ \E w \in writing' : w.to = c /\ w.data[k] >= promised[c][k]
      OBVIOUS
    <2>1. CASE ReadFigures(b)
      <3>1. job[b].at = "figures"
            /\ job'[b] = [at |-> "breakers", to |-> job[b].to, data |-> Read(b, "figures")]
        BY <2>1 DEF ReadFigures, TypeOK
      <3> QED
        BY <1>0, <3>1, NextReadingBrings, ReadingOrder
    <2>2. CASE ReadBreakers(b)
      <3>1. job[b].at = "breakers"
            /\ job'[b] = [at |-> "targets", to |-> job[b].to, data |-> Read(b, "breakers")]
        BY <2>2 DEF ReadBreakers, TypeOK
      <3> QED
        BY <1>0, <3>1, NextReadingBrings, ReadingOrder
    <2>3. CASE ReadTargets(b)
      <3> DEFINE data == Read(b, "targets")
      <3>1. job[b].at = "targets"
        BY <2>3 DEF ReadTargets
      <3>2. c \in job[b].to /\ (k \in Before("targets") => job[b].data[k] >= promised[c][k])
        BY <3>1 DEF Brings
      <3>3. data[k] >= promised[c][k]
        <4>1. CASE k = "targets"
          <5>1. data[k] = version[k]
            BY <3>1, <4>1, ReadShape
          <5> QED
            BY <5>1, Numbers DEF NotAhead
        <4>2. CASE k # "targets"
          <5>1. data[k] = job[b].data[k]
            BY <3>1, <4>2, ReadShape, ReadingOrder
          <5> QED
            BY <3>2, <4>2, <5>1, ReadingOrder
        <4> QED
          BY <4>1, <4>2
      <3>4. writing' = writing \cup {[to |-> d, data |-> data] : d \in job[b].to}
        BY <2>3 DEF ReadTargets
      <3> HIDE DEF data
      <3>5. [to |-> c, data |-> data] \in writing'
        BY <3>2, <3>4
      <3> QED
        BY <3>3, <3>5
    <2> QED
      BY <2>1, <2>2, <2>3
  <1> QED
    BY <1>0, <1>1, <1>2, <1>4, <1>5 DEF Fresh

\* A new connection brings a broadcast of its own, for itself and for the others.
LEMMA ConnectionServes ==
    ASSUME TypeOK, Served, NEW d \in Conns,
           Connect(d) \/ CopyConns(d) \/ Disconnect(d) \/ ReaderEnds(d)
    PROVE  Served'
  <1> SUFFICES ASSUME NEW c \in Conns, link'[c] = "open", NEW k \in Kinds
               PROVE  c \in conns' /\ Fresh(c, k)'
    BY DEF Served, Kinds
  <1>0. UNCHANGED <<signal, needsBroadcast, debounceTimer, writing>>
    BY DEF Connect, CopyConns, Disconnect, ReaderEnds, OnlyJob, streamer
  <1>1. d \in Broadcasters
    BY DEF Broadcasters
  <1>2. CASE Connect(d)
    <2>1. c = d \/ link[c] = "open"
      BY <1>2 DEF Connect, TypeOK
    <2>2. c \in conns'
      BY <1>2, <2>1 DEF Connect, Served
    <2>3. job'[d] = [at |-> "starting"]
      BY <1>1, <1>2 DEF Connect, TypeOK
    <2>4. Brings(d, c, k)'
      BY <2>3 DEF Brings
    <2> QED
      BY <1>1, <2>2, <2>4 DEF Fresh
  <1>3. CASE CopyConns(d)
    <2>1. link' = link /\ conns' = conns
      BY <1>3 DEF CopyConns, OnlyJob, clients
    <2>2. c \in conns
      BY <2>1 DEF Served
    <2>3. job'[d] = Copy
      BY <1>1, <1>3 DEF CopyConns, TypeOK
    <2>4. Brings(d, c, k)'
      BY <1>1, <2>2, <2>3, CopyBrings
    <2> QED
      BY <1>1, <2>1, <2>2, <2>4 DEF Fresh
  <1>4. CASE Disconnect(d) \/ ReaderEnds(d)
    <2>1. link[c] = "open" /\ c \in conns' /\ Fresh(c, k)
      BY <1>4 DEF Disconnect, Close, ReaderEnds, TypeOK, Served
    <2>2. job' = job /\ shown'[c] = shown[c] /\ promised'[c] = promised[c]
      BY <1>4 DEF Disconnect, Close, ReaderEnds, TypeOK
    <2>3. \A b \in Broadcasters : Brings(b, c, k) => Brings(b, c, k)'
      BY <2>2, SameJob
    <2> QED
      BY <1>0, <2>1, <2>2, <2>3 DEF Fresh
  <1> QED
    BY <1>2, <1>3, <1>4

\* A write that ends takes nothing back that has been shown.
LEMMA WriteServes ==
    ASSUME TypeOK, Served, NEW w \in writing, WriteEnds(w) \/ WriteFails(w)
    PROVE  Served'
  <1> SUFFICES ASSUME NEW c \in Conns, link'[c] = "open", NEW k \in Kinds
               PROVE  c \in conns' /\ Fresh(c, k)'
    BY DEF Served, Kinds
  <1>0. /\ UNCHANGED <<signal, needsBroadcast, debounceTimer, job>>
        /\ writing' = writing \ {w}
    BY DEF WriteEnds, WriteFails, streamer
  <1>1. w.to \in Conns
    BY Numbers
  <1>2. link[c] = "open" /\ c \in conns' /\ promised'[c] = promised[c]
    BY <1>1 DEF WriteEnds, WriteFails, Close, TypeOK, Served
  <1>3. Fresh(c, k)
    BY <1>2 DEF Served
  <1>4. \A b \in Broadcasters : Brings(b, c, k) => Brings(b, c, k)'
    BY <1>0, <1>2, SameJob
  <1>5. CASE WriteEnds(w) /\ w.to = c
    <2>1. shown'[c][k] = Newer(shown[c][k], w.data[k])
      BY <1>1, <1>5 DEF WriteEnds, TypeOK
    <2>2. shown[c][k] \in Nat /\ w.data[k] \in Nat /\ promised[c][k] \in Nat
      BY Numbers
    <2>3. shown[c][k] >= promised[c][k] \/ w.data[k] >= promised[c][k] => shown'[c][k] >= promised[c][k]
      BY <2>1, <2>2 DEF Newer
    <2> QED
      BY <1>0, <1>2, <1>3, <1>4, <2>3 DEF Fresh
  <1>6. CASE WriteEnds(w) /\ w.to # c
    <2>1. shown'[c] = shown[c]
      BY <1>1, <1>6 DEF WriteEnds, TypeOK
    <2> QED
      BY <1>0, <1>2, <1>3, <1>4, <1>6, <2>1 DEF Fresh
  <1>7. CASE WriteFails(w)
    <2>1. shown'[c] = shown[c] /\ w.to # c
      BY <1>1, <1>7 DEF WriteFails, Close, TypeOK
    <2> QED
      BY <1>0, <1>2, <1>3, <1>4, <2>1 DEF Fresh
  <1> QED
    BY <1>5, <1>6, <1>7

\* Every step keeps every open connection served.
LEMMA ServedStep ==
    ASSUME StreamingInv, [Next]_vars
    PROVE  Served'
  <1>0. TypeOK /\ NotAhead /\ Served
    BY DEF StreamingInv
  <1>1. CASE UNCHANGED vars
    <2>1. \A b, c, k : Brings(b, c, k)' = Brings(b, c, k)
      BY <1>1 DEF vars, clients, Brings
    <2> QED
      BY <1>0, <1>1, <2>1 DEF vars, streamer, clients, Served, Fresh
  <1>2. CASE \E b \in Broadcasters : Panic(b)
    BY <1>2 DEF Panic, Served
  <1>3. CASE Next /\ ~(\E b \in Broadcasters : Panic(b))
    BY <1>0, <1>3, SystemServes, StreamerServes, ReadServes, ConnectionServes, WriteServes
       DEF Next, System
  <1> QED
    BY <1>1, <1>2, <1>3

-----------------------------------------------------------------------------
\* StreamingInv is inductive.
LEMMA Invariance == Spec => []StreamingInv
  <1>1. StreamingInv /\ [Next]_vars => StreamingInv'
    BY TypeStep, NotAheadStep, ServedStep DEF StreamingInv
  <1> QED
    BY InitServed, <1>1, PTL DEF Spec

\* Every variable of the streamer, the connections and the broadcasts keeps
\* its type, for any number of connections and of changes (http.go:70-157,
\* 300-327): a broadcast that is about to write has read all there is to show.
THEOREM TypeCorrect == Spec => []TypeOK
  <1>1. StreamingInv => TypeOK
    BY DEF StreamingInv
  <1> QED
    BY <1>1, Invariance, PTL

\* No signal is lost on a connection: one that is open has been shown every
\* part of the state at least as it was when it connected and at each signal
\* since, or something is on its way to it, for any number of connections,
\* changes and broadcasts at the same time, and whatever changes without a
\* signal (http.go:83-99, 102-146, 307-312).
THEOREM NoneForgotten == Spec => []NobodyForgotten
  <1>1. StreamingInv => NobodyForgotten
    <2> SUFFICES ASSUME StreamingInv, NEW c \in Conns, link[c] = "open", ~Coming(c),
                        NEW k \in Kinds
                 PROVE  shown[c][k] >= promised[c][k]
      BY DEF NobodyForgotten
    <2>1. TypeOK /\ Fresh(c, k)
      BY DEF StreamingInv, Served
    <2>2. \A b \in Broadcasters : ~Brings(b, c, k)
      <3> SUFFICES ASSUME NEW b \in Broadcasters, Brings(b, c, k)
                   PROVE  FALSE
        OBVIOUS
      <3>1. job[b].at # "starting"
        BY DEF Coming
      <3>2. c \in job[b].to /\ job[b].at # "idle"
        BY <3>1 DEF Brings, Kinds
      <3>3. job[b] # Idle
        BY <2>1, <3>2, JobShape
      <3> QED
        BY <3>2, <3>3 DEF Coming
    <2> QED
      BY <2>1, <2>2 DEF Fresh, Coming
  <1> QED
    BY <1>1, Invariance, PTL
=============================================================================
