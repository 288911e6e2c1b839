--------------------------- MODULE CircuitBreaker ---------------------------
(***************************************************************************)
(* The circuit breaker of pkg/circuitbreaker/cb.go.  The process owns two  *)
(* of them: one around Broker.Push (storage) and one around the sends of   *)
(* the dispatcher (network).                                               *)
(*                                                                         *)
(* Execute holds the mutex twice: once to admit the call and once to       *)
(* record its result.  The protected action runs in between, without the   *)
(* mutex, so any number of calls overlap and a call may return in a state  *)
(* of the breaker other than the one it was admitted in.                   *)
(*                                                                         *)
(* The clock is abstracted to timeoutPassed, the value of                  *)
(* time.Since(lastFailure) >= timeout, which Execute only looks at while   *)
(* the breaker is open.                                                    *)
(*                                                                         *)
(* A definition whose comment starts with "Seeded defect" is no part of    *)
(* the specification: it is the definition after it, with a bug the code   *)
(* could have had, and shows that a property notices that bug.             *)
(***************************************************************************)
EXTENDS Integers, FiniteSets

CONSTANTS
    Callers,    \* the goroutines that call Execute
    Thresholds  \* the thresholds the breaker can be configured with

ASSUME ThresholdsAssumption == Thresholds \subseteq Int

VARIABLES
    state,          \* Closed, Open or HalfOpen
    failures,       \* failures since the last success, reset or trial
    threshold,
    inTrial,        \* the flag that keeps a second trial out
    timeoutPassed,  \* time.Since(lastFailure) >= timeout
    running,        \* what each caller is inside of
    wasReset        \* history: Reset or ResetConfig has been called

vars == <<state, failures, threshold, inTrial, timeoutPassed, running, wasReset>>

Closed   == "closed"
Open     == "open"
HalfOpen == "half-open"

(***************************************************************************)
(* running[c]: "none" outside Execute; "call" in an action admitted while  *)
(* the breaker was closed; "trial" in the trial of the present half-open   *)
(* period; "overtaken" in a trial whose period somebody else has ended.    *)
(* The code tells none of the last three apart.                            *)
(***************************************************************************)
Activity == {"none", "call", "trial", "overtaken"}

TypeOK ==
    /\ state \in {Closed, Open, HalfOpen}
    /\ failures \in Nat
    /\ threshold \in Thresholds
    /\ inTrial \in BOOLEAN
    /\ timeoutPassed \in BOOLEAN
    /\ running \in [Callers -> Activity]
    /\ wasReset \in BOOLEAN

\* NewCircuitBreaker; lastFailure is the zero time.
Init ==
    /\ state = Closed
    /\ failures = 0
    /\ threshold \in Thresholds
    /\ inTrial = FALSE
    /\ timeoutPassed = TRUE
    /\ running = [c \in Callers |-> "none"]
    /\ wasReset = FALSE

-----------------------------------------------------------------------------
(* The first critical section of Execute. *)

\* Seeded defect: the breaker wakes on its counter instead of its clock.
WakesBelowThreshold == state = Open /\ timeoutPassed /\ failures < threshold

\* An open breaker whose timeout has passed becomes half-open, whatever
\* becomes of the call that notices it.
Wakes == state = Open /\ timeoutPassed

Enter(c) ==
    /\ running[c] = "none"
    /\ state' = IF Wakes THEN HalfOpen ELSE state
    /\ failures' = IF Wakes THEN 0 ELSE failures
    /\ UNCHANGED <<threshold, timeoutPassed, wasReset>>

\* The breaker is closed: the call goes through.
Admit(c) ==
    /\ Enter(c)
    /\ state' = Closed
    /\ running' = [running EXCEPT ![c] = "call"]
    /\ UNCHANGED inTrial

\* Seeded defect: the flag is set and never looked at.
StartTrialUnguarded(c) ==
    /\ Enter(c)
    /\ state' = HalfOpen
    /\ inTrial' = TRUE
    /\ running' = [running EXCEPT ![c] = "trial"]

\* The breaker is half-open and no trial is in progress: this call is it.
StartTrial(c) ==
    /\ Enter(c)
    /\ state' = HalfOpen
    /\ ~inTrial
    /\ inTrial' = TRUE
    /\ running' = [running EXCEPT ![c] = "trial"]

\* "circuit is open", or "circuit is half-open and trial is in progress".
Refuse(c) ==
    /\ Enter(c)
    /\ state' = Open \/ (state' = HalfOpen /\ inTrial)
    /\ UNCHANGED <<inTrial, running>>

-----------------------------------------------------------------------------
(* The second critical section of Execute. *)

\* The trial of the present period, if any, no longer decides it.
Overtake(act) == [c \in Callers |-> IF act[c] = "trial" THEN "overtaken" ELSE act[c]]

\* Seeded defect: the trial does not clear its flag.
LeaveKeepingFlag(c) ==
    /\ running[c] # "none"
    /\ running' = LET rest == [running EXCEPT ![c] = "none"]
                  IN  IF state = HalfOpen THEN Overtake(rest) ELSE rest
    /\ UNCHANGED <<inTrial, threshold, wasReset>>

Leave(c) ==
    /\ running[c] # "none"
    /\ running' = LET rest == [running EXCEPT ![c] = "none"]
                  IN  IF state = HalfOpen THEN Overtake(rest) ELSE rest
    /\ inTrial' = (inTrial /\ state # HalfOpen)
    /\ UNCHANGED <<threshold, wasReset>>

Trips == state = HalfOpen \/ failures + 1 >= threshold

\* The action returned an error.
Fail(c) ==
    /\ Leave(c)
    /\ failures' = failures + 1
    /\ timeoutPassed' = FALSE
    /\ state' = IF Trips THEN Open ELSE state

\* Seeded defect: a success forgives one failure instead of all.
SucceedOnce(c) ==
    /\ Leave(c)
    /\ failures' = failures - 1
    /\ state' = Closed
    /\ UNCHANGED timeoutPassed

\* The action returned nil.
Succeed(c) ==
    /\ Leave(c)
    /\ failures' = 0
    /\ state' = Closed
    /\ UNCHANGED timeoutPassed

-----------------------------------------------------------------------------
(* The operator's handles, and the clock. *)

\* Seeded defect: a reset keeps the counter.
ForceClosedKeepingCount ==
    /\ state' = Closed
    /\ running' = Overtake(running)
    /\ wasReset' = TRUE
    /\ UNCHANGED <<failures, inTrial, timeoutPassed>>

ForceClosed ==
    /\ state' = Closed
    /\ failures' = 0
    /\ running' = Overtake(running)
    /\ wasReset' = TRUE
    /\ UNCHANGED <<inTrial, timeoutPassed>>

Reset == ForceClosed /\ UNCHANGED threshold

\* The new timeout needs no variable: the breaker is closed here, and the
\* failure that opens it next starts the clock again.
ResetConfig(t) == ForceClosed /\ threshold' = t

Elapse ==
    /\ ~timeoutPassed
    /\ timeoutPassed' = TRUE
    /\ UNCHANGED <<state, failures, threshold, inTrial, running, wasReset>>

-----------------------------------------------------------------------------
Next ==
    \/ \E c \in Callers : \/ Admit(c)
                          \/ StartTrial(c)
                          \/ Refuse(c)
                          \/ Fail(c)
                          \/ Succeed(c)
    \/ Reset
    \/ \E t \in Thresholds : ResetConfig(t)
    \/ Elapse

Spec == Init /\ [][Next]_vars

(***************************************************************************)
(* Every admitted action returns (the sends of the dispatcher carry        *)
(* timeouts of 10s and 5s, a file write terminates), the clock runs, and   *)
(* callers keep calling: the breaker has no timer of its own and only      *)
(* wakes inside a call.  Nobody is obliged to reset it.                    *)
(***************************************************************************)
Fairness ==
    /\ WF_vars(Elapse)
    /\ \A c \in Callers : /\ WF_vars(Fail(c) \/ Succeed(c))
                          /\ WF_vars(Admit(c) \/ StartTrial(c) \/ Refuse(c))

FairSpec == Spec /\ Fairness

-----------------------------------------------------------------------------
(* Properties. *)

\* The counter and the state never contradict each other: a closed breaker
\* is below its threshold (a threshold below one trips on the first
\* failure), an open one has failed, a half-open one has a clean slate and
\* its trial flag up.  Late results of Execute and resets arrive in any
\* state (cb.go:107-133, 136-156).
CounterMatchesState ==
    /\ state = Closed => failures = 0 \/ failures < threshold
    /\ state = Open => failures > 0
    /\ state = HalfOpen => failures = 0 /\ inTrial

Trials == {c \in Callers : running[c] = "trial"}

\* A half-open period admits one trial and no more, however often Execute is
\* called during it (cb.go:90-98), and no trial survives its period.
OneTrialPerPeriod ==
    /\ \A c, d \in Trials : c = d
    /\ Trials # {} => state = HalfOpen

\* Until somebody resets the breaker, the flag that refuses callers stands for
\* a trial that is really running (cb.go:91-98, 107-109).
TrialFlagIsHonest ==
    ~wasReset =>
        /\ inTrial <=> state = HalfOpen
        /\ state = HalfOpen => Trials # {}

\* An open breaker is eventually tried again (cb.go:79-83).
OpenEnds == state = Open ~> state # Open

\* Until somebody resets the breaker, every half-open period ends: the trial
\* decides it, or a late result does (cb.go:107-133).
HalfOpenEnds == state = HalfOpen ~> state # HalfOpen \/ wasReset
=============================================================================
