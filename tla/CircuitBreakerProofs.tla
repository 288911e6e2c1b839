------------------------ MODULE CircuitBreakerProofs ------------------------
(***************************************************************************)
(* What the circuit breaker guarantees for any number of callers and any   *)
(* thresholds.  None of the three properties is inductive alone: that a    *)
(* half-open breaker has its flag up comes from the trial that is running, *)
(* and that there is one trial from the flag.  Together with the types     *)
(* they are.                                                               *)
(***************************************************************************)
EXTENDS CircuitBreaker, TLAPS

IInv ==
    /\ TypeOK
    /\ CounterMatchesState
    /\ OneTrialPerPeriod
    /\ TrialFlagIsHonest

\* The breaker is created closed, without failures and without callers.
LEMMA InitInv == Init => IInv
<1> SUFFICES ASSUME Init PROVE IInv
  OBVIOUS
<1> USE DEF Init, Closed, Open, HalfOpen
<1>1. inTrial \in BOOLEAN /\ timeoutPassed \in BOOLEAN /\ ~inTrial
  OBVIOUS
<1>2. TypeOK
  BY <1>1 DEF TypeOK, Activity
<1>3. CounterMatchesState
  BY DEF CounterMatchesState
<1>4. Trials = {}
  BY DEF Trials
<1> QED
  BY <1>1, <1>2, <1>3, <1>4 DEF IInv, OneTrialPerPeriod, TrialFlagIsHonest

\* Overtaking keeps the type and leaves no trial.
LEMMA OvertakeFact ==
    ASSUME NEW act \in [Callers -> Activity]
    PROVE  /\ Overtake(act) \in [Callers -> Activity]
           /\ \A c \in Callers : Overtake(act)[c] # "trial"
           /\ \A c \in Callers : act[c] # "trial" => Overtake(act)[c] = act[c]
BY DEF Overtake, Activity

\* A call that enters keeps the invariant, whichever way it is answered.
LEMMA EnterInv ==
    ASSUME IInv, NEW c \in Callers, Admit(c) \/ StartTrial(c) \/ Refuse(c)
    PROVE  IInv'
<1> USE DEF Closed, Open, HalfOpen
<1>1. state' \in {Closed, Open, HalfOpen} /\ failures' \in Nat
  BY DEF IInv, TypeOK, Enter, Admit, StartTrial, Refuse
<1>2. TypeOK'
  <2>1. running' \in [Callers -> Activity]
    BY DEF IInv, TypeOK, Admit, StartTrial, Refuse, Activity
  <2>2. inTrial' \in BOOLEAN
    BY DEF IInv, TypeOK, Admit, StartTrial, Refuse
  <2>3. UNCHANGED <<threshold, timeoutPassed, wasReset>>
    BY DEF Enter, Admit, StartTrial, Refuse
  <2> QED
    BY <1>1, <2>1, <2>2, <2>3 DEF IInv, TypeOK
<1>3. CASE Admit(c)
  <2>1. state = Closed /\ state' = Closed /\ failures' = failures
    BY <1>3 DEF Admit, Enter, Wakes
  <2>2. Trials = {} /\ Trials' = {}
    BY <1>3, <2>1 DEF Admit, IInv, TypeOK, OneTrialPerPeriod, Trials
  <2> QED
    BY <1>2, <1>3, <2>1, <2>2
       DEF Admit, Enter, Wakes, IInv, CounterMatchesState, OneTrialPerPeriod, TrialFlagIsHonest
<1>4. CASE StartTrial(c)
  <2>1. Trials = {}
    BY <1>4 DEF StartTrial, IInv, CounterMatchesState, OneTrialPerPeriod
  <2>2. Trials' = {c}
    BY <1>4, <2>1 DEF StartTrial, IInv, TypeOK, Trials
  <2>3. state' = HalfOpen /\ failures' = 0 /\ inTrial'
    BY <1>4 DEF StartTrial, Enter, Wakes, IInv, CounterMatchesState
  <2> QED
    BY <1>2, <2>2, <2>3
       DEF IInv, CounterMatchesState, OneTrialPerPeriod, TrialFlagIsHonest
<1>5. CASE Refuse(c)
  <2>1. Trials' = Trials
    BY <1>5 DEF Refuse, Trials
  <2>2. state' = Open => state = Open /\ failures' = failures
    BY <1>5 DEF Refuse, Enter, Wakes
  <2>3. state' = HalfOpen => failures' = 0 /\ inTrial'
    BY <1>5 DEF Refuse, Enter, Wakes, IInv, CounterMatchesState
  <2>4. state = HalfOpen => state' = HalfOpen
    BY <1>5 DEF Refuse, Enter, Wakes
  <2>5. ~wasReset' => state' = state
    BY <1>5 DEF Refuse, Enter, Wakes, IInv, TrialFlagIsHonest
  <2>6. UNCHANGED <<inTrial, wasReset>> /\ state' # Closed
    BY <1>5 DEF Refuse, Enter
  <2>7. CounterMatchesState'
    BY <2>2, <2>3, <2>6 DEF IInv, CounterMatchesState
  <2>8. OneTrialPerPeriod'
    BY <2>1, <2>4 DEF IInv, OneTrialPerPeriod
  <2>9. TrialFlagIsHonest'
    BY <2>1, <2>5, <2>6 DEF IInv, TrialFlagIsHonest
  <2> QED
    BY <1>2, <2>7, <2>8, <2>9 DEF IInv
<1> QED
  BY <1>3, <1>4, <1>5

\* So does a call that leaves, whatever its result and whenever it comes.
LEMMA LeaveInv ==
    ASSUME IInv, NEW c \in Callers, Fail(c) \/ Succeed(c)
    PROVE  IInv'
<1> USE DEF Closed, Open, HalfOpen
<1> DEFINE rest == [running EXCEPT ![c] = "none"]
<1>1. /\ rest \in [Callers -> Activity]
      /\ \A d \in Callers : rest[d] = "trial" => running[d] = "trial"
  BY DEF IInv, TypeOK, Activity
<1>2. /\ Leave(c)
      /\ running' = IF state = HalfOpen THEN Overtake(rest) ELSE rest
      /\ inTrial' = (inTrial /\ state # HalfOpen)
      /\ UNCHANGED <<threshold, wasReset>>
  BY DEF Fail, Succeed, Leave
<1>3. TypeOK'
  <2>1. running' \in [Callers -> Activity]
    BY <1>1, <1>2, OvertakeFact
  <2>2. state' \in {Closed, Open, HalfOpen} /\ failures' \in Nat
    BY DEF Fail, Succeed, IInv, TypeOK
  <2>3. timeoutPassed' \in BOOLEAN
    BY DEF Fail, Succeed, IInv, TypeOK
  <2>4. inTrial' \in BOOLEAN
    BY <1>2
  <2> QED
    BY <1>2, <2>1, <2>2, <2>3, <2>4 DEF IInv, TypeOK
<1>4. Trials' = {}
  <2>1. CASE state = HalfOpen
    BY <1>1, <1>2, <2>1, OvertakeFact DEF Trials
  <2>2. CASE state # HalfOpen
    BY <1>1, <1>2, <2>2 DEF Trials, IInv, OneTrialPerPeriod
  <2> QED
    BY <2>1, <2>2
<1>5. state' # HalfOpen
  BY DEF Fail, Succeed, Trips, IInv, TypeOK
<1>6. CounterMatchesState'
  BY <1>2, <1>5, ThresholdsAssumption
     DEF Fail, Succeed, Trips, IInv, TypeOK, CounterMatchesState
<1>7. ~wasReset' => ~inTrial'
  BY <1>2 DEF IInv, TrialFlagIsHonest
<1> QED
  BY <1>3, <1>4, <1>5, <1>6, <1>7 DEF IInv, OneTrialPerPeriod, TrialFlagIsHonest

\* So do the operator's resets, and the clock.
LEMMA OtherInv ==
    ASSUME IInv, Reset \/ (\E t \in Thresholds : ResetConfig(t)) \/ Elapse
    PROVE  IInv'
<1> USE DEF Closed, Open, HalfOpen
<1>1. CASE Reset \/ (\E t \in Thresholds : ResetConfig(t))
  <2>1. ForceClosed /\ threshold' \in Thresholds
    BY <1>1 DEF Reset, ResetConfig, IInv, TypeOK
  <2>2. running' \in [Callers -> Activity] /\ Trials' = {}
    BY <2>1, OvertakeFact DEF ForceClosed, IInv, TypeOK, Trials
  <2> QED
    BY <2>1, <2>2
       DEF ForceClosed, IInv, TypeOK, CounterMatchesState, OneTrialPerPeriod, TrialFlagIsHonest
<1>2. CASE Elapse
  BY <1>2 DEF Elapse, IInv, TypeOK, CounterMatchesState, OneTrialPerPeriod,
              TrialFlagIsHonest, Trials
<1> QED
  BY <1>1, <1>2

LEMMA NextInv == IInv /\ [Next]_vars => IInv'
<1> SUFFICES ASSUME IInv, [Next]_vars PROVE IInv'
  OBVIOUS
<1>1. CASE Next
  BY <1>1, EnterInv, LeaveInv, OtherInv DEF Next
<1>2. CASE UNCHANGED vars
  BY <1>2 DEF vars, IInv, TypeOK, CounterMatchesState, OneTrialPerPeriod,
              TrialFlagIsHonest, Trials
<1> QED
  BY <1>1, <1>2

LEMMA Inductive == Spec => []IInv
BY InitInv, NextInv, PTL DEF Spec

\* The variables keep their types through every interleaving of calls,
\* resets and clock ticks (cb.go:75-156).
THEOREM TypeCorrect == Spec => []TypeOK
BY Inductive, PTL DEF IInv

\* The counter and the state of the breaker never contradict each other
\* (cb.go:79-83, 107-133, 136-156).
THEOREM CounterCorrect == Spec => []CounterMatchesState
BY Inductive, PTL DEF IInv

\* One half-open period, one trial (cb.go:90-98).
THEOREM TrialUnique == Spec => []OneTrialPerPeriod
BY Inductive, PTL DEF IInv

\* Until a reset, the flag that refuses callers is the running trial's
\* (cb.go:91-98, 107-109).
THEOREM FlagHonest == Spec => []TrialFlagIsHonest
BY Inductive, PTL DEF IInv
=============================================================================
