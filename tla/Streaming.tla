----------------------------- MODULE Streaming ------------------------------
(***************************************************************************)
(* The dashboard's stream of statistics: StartStreaming, broadcastStats    *)
(* and handleWS of pkg/server/http.go, and what sets them going in the     *)
(* broker and the dispatcher.                                              *)
(*                                                                         *)
(* The broker and the dispatcher change something and, as a rule, then     *)
(* send a signal into a channel of one slot.  The streamer waits until     *)
(* there has been no signal for 100ms, reads the statistics, and starts a  *)
(* goroutine per connection that writes them.  A new connection starts a   *)
(* broadcast of its own.  What is shown is reduced to a version number for *)
(* each part that broadcastStats reads: the broker's figures (GetStats),   *)
(* the two circuit breakers (GetCBState, GetCBMetrics) and the targets.    *)
(*                                                                         *)
(* Some changes are silent: no signal follows them.  MoveToDLQ counts the  *)
(* dead letter long after its signal; a breaker changes with the result of *)
(* a call or a reset; the dispatcher's start-up merges the stored targets. *)
(* And a signal reaches nobody before the streamer has subscribed.         *)
(*                                                                         *)
(* A definition whose comment starts with "Seeded defect" is no part of    *)
(* the specification: it is the definition after it, with a bug the code   *)
(* could have had, and shows that a property notices that bug.             *)
(***************************************************************************)
EXTENDS Integers

CONSTANTS
    Conns,      \* the websocket connections clients may open
    Streamer,   \* the goroutine of StartStreaming
    StartUp,    \* what of the start-up is still to come
    MaxChanges  \* bound on the changes, of all kinds

\* In the order of broadcastStats.
Kinds == {"figures", "breakers", "targets"}

\* The kinds whose changes are signalled, as a rule.
Signalled == {"figures", "targets"}

\* main.go starts the dispatcher, which merges its stored targets, and the
\* streamer, which subscribes to the broker and then to the dispatcher.
StartUpSteps == {"merge", "figures", "targets"}

ASSUME StreamingAssumption ==
    /\ Streamer \notin Conns
    /\ StartUp \subseteq StartUpSteps
    /\ MaxChanges \in Nat

Versions == Nat \ {0}
Blank == [k \in Kinds |-> 0]

\* broadcastStats runs in the streamer, and once for every connection.
Broadcasters == Conns \cup {Streamer}

\* What a broadcast has read when it is about to read kind k.
Before(k) ==
    CASE k = "figures"  -> {}
      [] k = "breakers" -> {"figures"}
      [] k = "targets"  -> {"figures", "breakers"}

VARIABLES
    \* the broker and the dispatcher
    starting,        \* the steps of the start-up that are still to come
    version,         \* their present state
    announcing,      \* changes whose notify() has yet to come
    burying,         \* calls of MoveToDLQ between notify() and dlqSize++
    \* the streamer
    signal,          \* the channels of Subscribe, which hold one signal
    needsBroadcast,
    debounceTimer,   \* "off", "running", or "expired" and not yet received
    job,             \* where each broadcaster is, and what it has read
    \* the connections
    conns,           \* s.conns
    link,            \* "new", "open" or "closed"
    writing,         \* writes under way: to whom, and what
    panicked,        \* the process has died
    \* history
    shown,           \* the newest versions a client has been shown
    promised         \* what was there when it connected, or at the last signal since

system   == <<starting, version, announcing, burying>>
streamer == <<signal, needsBroadcast, debounceTimer>>
clients  == <<conns, link, shown, promised>>
vars == <<system, streamer, clients, job, writing, panicked>>

Idle == [at |-> "idle"]

Reading == {r \in [at : Kinds, to : SUBSET Conns, data : [Kinds -> Nat]] :
                \A k \in Kinds : r.data[k] = 0 <=> k \notin Before(r.at)}

TypeOK ==
    /\ starting \subseteq StartUpSteps
    /\ version \in [Kinds -> Versions]
    /\ announcing \in [Signalled -> Nat]
    /\ burying \in Nat
    /\ signal \in [Signalled -> BOOLEAN]
    /\ needsBroadcast \in BOOLEAN
    /\ debounceTimer \in {"off", "running", "expired"}
    /\ job \in [Broadcasters -> {Idle} \cup [at : {"starting"}] \cup Reading]
    /\ conns \subseteq Conns
    /\ link \in [Conns -> {"new", "open", "closed"}]
    /\ writing \subseteq [to : Conns, data : [Kinds -> Versions]]
    /\ panicked \in BOOLEAN
    /\ shown \in [Conns -> [Kinds -> Nat]]
    /\ promised \in [Conns -> [Kinds -> Nat]]

Init ==
    /\ starting = StartUp
    /\ version = [k \in Kinds |-> 1]
    /\ announcing = [k \in Signalled |-> 0]
    /\ burying = 0
    /\ signal = [k \in Signalled |-> FALSE]
    /\ needsBroadcast = FALSE
    /\ debounceTimer = "off"
    /\ job = [b \in Broadcasters |-> Idle]
    /\ conns = {}
    /\ link = [c \in Conns |-> "new"]
    /\ writing = {}
    /\ panicked = FALSE
    /\ shown = [c \in Conns |-> Blank]
    /\ promised = [c \in Conns |-> Blank]

-----------------------------------------------------------------------------
(* The broker and the dispatcher. *)

OnlySystem == UNCHANGED <<needsBroadcast, debounceTimer, conns, link, shown, job, writing, panicked>>

Quietly == OnlySystem /\ UNCHANGED <<signal, promised>>

NextVersion(k) ==
    /\ ~panicked
    /\ version["figures"] + version["breakers"] + version["targets"] < MaxChanges + 3
    /\ version' = [version EXCEPT ![k] = @ + 1]

\* A signal goes to the streamer, if it listens; one that finds the slot taken
\* is dropped.  Whoever is connected may rely on it.
Send(k) ==
    IF k \in starting
    THEN UNCHANGED <<signal, promised>>
    ELSE /\ signal' = [signal EXCEPT ![k] = TRUE]
         /\ promised' = [c \in Conns |-> IF link[c] = "open" THEN version ELSE promised[c]]

\* Push, Pop, MoveToDLQ, AddTarget and the like change their state ...
Change(k) ==
    /\ NextVersion(k)
    /\ announcing' = [announcing EXCEPT ![k] = @ + 1]
    /\ Quietly /\ UNCHANGED <<starting, burying>>

\* ... and notify; then MoveToDLQ still has a file to move.
notify(k) ==
    /\ announcing[k] > 0
    /\ announcing' = [announcing EXCEPT ![k] = @ - 1]
    /\ Send(k)
    /\ \/ UNCHANGED burying
       \/ k = "figures" /\ burying' = burying + 1
    /\ OnlySystem /\ UNCHANGED <<starting, version>>

\* MoveToDLQ has moved the file and counts it, without another signal ...
Count ==
    /\ burying > 0
    /\ burying' = burying - 1
    /\ NextVersion("figures")
    /\ Quietly /\ UNCHANGED <<starting, announcing>>

\* ... or has failed to move it.
MoveFails ==
    /\ burying > 0
    /\ burying' = burying - 1
    /\ Quietly /\ UNCHANGED <<starting, version, announcing>>

\* A call enters or leaves a breaker, or the operator resets one.
ChangeBreaker ==
    /\ NextVersion("breakers")
    /\ Quietly /\ UNCHANGED <<starting, announcing, burying>>

\* Start merges the targets it has read from the table.
Merge ==
    /\ "merge" \in starting
    /\ starting' = starting \ {"merge"}
    /\ NextVersion("targets")
    /\ Quietly /\ UNCHANGED <<announcing, burying>>

\* Seeded defect: the checker signals only if it has put a message back, and
\* then as every change does.
CheckWithoutSignal ==
    /\ ~panicked
    /\ UNCHANGED vars

\* startTimeoutChecker, every 30s: it signals whether or not it has put a
\* message back (if it has, that is a change like any other).
CheckTimeouts ==
    /\ ~panicked
    /\ Send("figures")
    /\ OnlySystem /\ UNCHANGED system

-----------------------------------------------------------------------------
(* StartStreaming. *)

Subscribe(k) ==
    /\ k \in starting
    /\ k = "targets" => "figures" \notin starting
    /\ starting' = starting \ {k}
    /\ Quietly /\ UNCHANGED <<version, announcing, burying>>

\* broadcastStats copies the connections; without any there is nothing to do.
Copy == IF conns = {} THEN Idle ELSE [at |-> "figures", to |-> conns, data |-> Blank]

\* Seeded defect: the timer is started, but not the need for a broadcast noted.
ReceiveForNothing(k) ==
    /\ job[Streamer] = Idle
    /\ signal[k]
    /\ signal' = [signal EXCEPT ![k] = FALSE]
    /\ debounceTimer' = "running"
    /\ UNCHANGED <<system, needsBroadcast, clients, job, writing, panicked>>

\* A signal starts the timer anew, also one that has expired unnoticed.
Receive(k) ==
    /\ job[Streamer] = Idle
    /\ signal[k]
    /\ signal' = [signal EXCEPT ![k] = FALSE]
    /\ needsBroadcast' = TRUE
    /\ debounceTimer' = "running"
    /\ UNCHANGED <<system, clients, job, writing, panicked>>

\* 100ms have passed.
Expire ==
    /\ debounceTimer = "running"
    /\ debounceTimer' = "expired"
    /\ UNCHANGED <<system, signal, needsBroadcast, clients, job, writing, panicked>>

\* The broadcast begins.  needsBroadcast is reset after it; nobody else looks.
TimerFires ==
    /\ job[Streamer] = Idle
    /\ debounceTimer = "expired"
    /\ debounceTimer' = "off"
    /\ job' = IF needsBroadcast THEN [job EXCEPT ![Streamer] = Copy] ELSE job
    /\ needsBroadcast' = FALSE
    /\ UNCHANGED <<system, signal, clients, writing, panicked>>

-----------------------------------------------------------------------------
(* broadcastStats, after the copy. *)

OnlyJob == UNCHANGED <<system, streamer, clients, panicked>>

\* The goroutine that handleWS starts for a new connection.
CopyConns(c) ==
    /\ job[c].at = "starting"
    /\ job' = [job EXCEPT ![c] = Copy]
    /\ OnlyJob /\ UNCHANGED writing

\* What broadcaster b has read when it has read kind k, too.
Read(b, k) == [job[b].data EXCEPT ![k] = version[k]]

\* Seeded defect: the figures are not filled in.
ReadNothing(b) ==
    /\ job[b].at = "figures"
    /\ job' = [job EXCEPT ![b] = [at |-> "breakers", to |-> job[b].to, data |-> Blank]]
    /\ OnlyJob /\ UNCHANGED writing

ReadFigures(b) ==
    /\ job[b].at = "figures"
    /\ job' = [job EXCEPT ![b] = [at |-> "breakers", to |-> job[b].to, data |-> Read(b, "figures")]]
    /\ OnlyJob /\ UNCHANGED writing

ReadBreakers(b) ==
    /\ job[b].at = "breakers"
    /\ job' = [job EXCEPT ![b] = [at |-> "targets", to |-> job[b].to, data |-> Read(b, "breakers")]]
    /\ OnlyJob /\ UNCHANGED writing

\* A goroutine per connection starts to write.
ReadTargets(b) ==
    /\ job[b].at = "targets"
    /\ writing' = writing \cup {[to |-> c, data |-> Read(b, "targets")] : c \in job[b].to}
    /\ job' = [job EXCEPT ![b] = Idle]
    /\ OnlyJob

-----------------------------------------------------------------------------
(* The connections. *)

\* handleWS: a connection is added and shown the present state.
Connect(c) ==
    /\ link[c] = "new"
    /\ ~panicked
    /\ link' = [link EXCEPT ![c] = "open"]
    /\ conns' = conns \cup {c}
    /\ promised' = [promised EXCEPT ![c] = version]
    /\ job' = [job EXCEPT ![c] = [at |-> "starting"]]
    /\ UNCHANGED <<system, streamer, shown, writing, panicked>>

\* The connection is lost, and what has been shown through it no longer counts.
Close(c) ==
    /\ link' = [link EXCEPT ![c] = "closed"]
    /\ shown' = [shown EXCEPT ![c] = Blank]
    /\ promised' = [promised EXCEPT ![c] = Blank]

\* The client goes away.
Disconnect(c) ==
    /\ link[c] = "open"
    /\ Close(c)
    /\ UNCHANGED <<system, streamer, conns, job, writing, panicked>>

\* The goroutine that reads from the connection notices and removes it.
ReaderEnds(c) ==
    /\ link[c] = "closed"
    /\ c \in conns
    /\ conns' = conns \ {c}
    /\ UNCHANGED <<system, streamer, link, shown, promised, job, writing, panicked>>

Newer(m, n) == IF m > n THEN m ELSE n

\* The write succeeds, in whichever order the goroutines get to run.
WriteEnds(w) ==
    /\ w \in writing
    /\ writing' = writing \ {w}
    /\ link[w.to] = "open"
    /\ shown' = [shown EXCEPT ![w.to] = [k \in Kinds |-> Newer(@[k], w.data[k])]]
    /\ UNCHANGED <<system, streamer, conns, link, promised, job, panicked>>

\* The connection is gone, or takes more than the second it is given: it is
\* closed and removed.
WriteFails(w) ==
    /\ w \in writing
    /\ writing' = writing \ {w}
    /\ Close(w.to)
    /\ conns' = conns \ {w.to}
    /\ UNCHANGED <<system, streamer, job, panicked>>

\* The library allows one writer at a time, and may panic when a write starts
\* during another; nobody recovers, and the process dies with all its
\* goroutines and connections.
Panic(b) ==
    /\ job[b].at = "targets"
    /\ \E w \in writing : w.to \in job[b].to
    /\ panicked' = TRUE
    /\ starting' = {}
    /\ announcing' = [k \in Signalled |-> 0]
    /\ burying' = 0
    /\ signal' = [k \in Signalled |-> FALSE]
    /\ needsBroadcast' = FALSE
    /\ debounceTimer' = "off"
    /\ conns' = {}
    /\ link' = [c \in Conns |-> "closed"]
    /\ job' = [any \in Broadcasters |-> Idle]
    /\ writing' = {}
    /\ shown' = [c \in Conns |-> Blank]
    /\ promised' = [c \in Conns |-> Blank]
    /\ UNCHANGED version

-----------------------------------------------------------------------------
Next ==
    \/ \E k \in Signalled : Change(k) \/ notify(k) \/ Subscribe(k) \/ Receive(k)
    \/ Count \/ MoveFails \/ ChangeBreaker \/ Merge \/ CheckTimeouts
    \/ Expire \/ TimerFires
    \/ \E b \in Broadcasters : ReadFigures(b) \/ ReadBreakers(b) \/ ReadTargets(b) \/ Panic(b)
    \/ \E c \in Conns : Connect(c) \/ CopyConns(c) \/ Disconnect(c) \/ ReaderEnds(c)
    \/ \E w \in writing : WriteEnds(w) \/ WriteFails(w)

Spec == Init /\ [][Next]_vars

(***************************************************************************)
(* The goroutines run, the ticker ticks, writes end (they have a deadline),*)
(* and the reader of a closed connection notices.  A signal takes the turn *)
(* of a timer that has expired unnoticed; the timer is received in the end *)
(* (strong fairness), because changes pause, as MaxChanges says, and the   *)
(* ticker leaves 30s for the timer's 100ms.                                *)
(***************************************************************************)
Fairness ==
    /\ \A k \in Signalled : WF_vars(notify(k)) /\ WF_vars(Receive(k)) /\ WF_vars(Subscribe(k))
    /\ WF_vars(CheckTimeouts)
    /\ WF_vars(Expire)
    /\ SF_vars(TimerFires)
    /\ \A b \in Broadcasters : WF_vars(ReadFigures(b) \/ ReadBreakers(b) \/ ReadTargets(b))
    /\ \A c \in Conns :
           /\ WF_vars(CopyConns(c)) /\ WF_vars(ReaderEnds(c))
           /\ WF_vars(\E w \in writing : w.to = c /\ (WriteEnds(w) \/ WriteFails(w)))

FairSpec == Spec /\ Fairness

-----------------------------------------------------------------------------
(* Properties. *)

\* Something is on its way to connection c.
Coming(c) ==
    \/ \E k \in Signalled : signal[k]
    \/ needsBroadcast /\ debounceTimer # "off"
    \/ \E b \in Broadcasters : job[b].at = "starting" \/ (job[b] # Idle /\ c \in job[b].to)
    \/ \E w \in writing : w.to = c

\* No signal is lost on the streamer: an open connection has been shown every
\* part of the state at least as it was when it connected and at each signal
\* since, or something is on its way to it, although signals merge in their
\* slot, the timer is restarted, connections come while the list is copied,
\* the statistics are read in pieces and writes overtake each other
\* (http.go:83-99, 102-146, 307-312).
NobodyForgotten ==
    \A c \in Conns : link[c] = "open" /\ ~Coming(c) =>
        \A k \in Kinds : shown[c][k] >= promised[c][k]

\* In the end every open connection has been shown the last state, also of
\* what changed silently or before the streamer had subscribed, unless the
\* process has died, and the list holds the open connections and no others
\* (broker.go:349-366; http.go:83-99, 144-155, 315-327).
ShownInTheEnd ==
    <>[](panicked \/ \A c \in Conns :
             /\ link[c] = "open" => shown[c] = version
             /\ c \in conns <=> link[c] = "open")
=============================================================================
