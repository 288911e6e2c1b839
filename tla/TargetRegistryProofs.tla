------------------------ MODULE TargetRegistryProofs ------------------------
(***************************************************************************)
(* What the target registry guarantees for any names, configurations,      *)
(* registrations and crashes.                                              *)
(*                                                                         *)
(* Spaced adds to SpacedWriteThrough what holds before the save is done: a *)
(* registration that met nothing has one save, which carries what the map  *)
(* holds; and before Start is through, such a name has seen no             *)
(* registration at all.  Reading relates the rows that Start has read to   *)
(* the table, which may have moved on.                                     *)
(***************************************************************************)
EXTENDS TargetRegistry, TLAPS

Spaced ==
    \A n \in Names \ (failed \cup contested) :
        /\ phase = "started" =>
               /\ SavesOf(n) = {} => InStep(n)
               /\ \A s \in SavesOf(n) : s.config = targets[n] /\ \A t \in SavesOf(n) : s = t
        /\ phase # "started" =>
               /\ SavesOf(n) = {} /\ targets[n] = FromConfig[n]
               /\ phase = "read" => rows[n] = table[n]

Reading ==
    /\ \A n \in Names : SavesOf(n) # {} => targets[n] # NoTarget
    /\ phase = "read" =>
           \A n \in Names : /\ rows[n] # NoTarget => table[n] # NoTarget
                            /\ n \notin failed /\ table[n] # NoTarget =>
                                   rows[n] # NoTarget \/ targets[n] # NoTarget

RegistryInv == TypeOK /\ NothingForgotten /\ Spaced /\ Reading

LEMMA ConfigFact == FromConfig \in [Names -> Target] /\ NoRows \in [Names -> Target]
BY ConfigsAssumption DEF FromConfig, NoRows, Target

LEMMA RegistryInit == Init => RegistryInv
<1> SUFFICES ASSUME Init PROVE RegistryInv
  OBVIOUS
<1>1. TypeOK
  BY ConfigFact, BoundsAssumption DEF Init, TypeOK
<1>2. \A n \in Names : SavesOf(n) = {} /\ table[n] = NoTarget
  BY DEF Init, SavesOf, NoRows
<1>3. \A n \in Names : targets[n] # NoTarget => n \in Configured
  BY DEF Init, FromConfig
<1> QED
  BY <1>1, <1>2, <1>3 DEF RegistryInv, NothingForgotten, Spaced, Reading, Init

\* The map changes at one name, and a save of it is set off.
LEMMA RegistryAdd ==
    ASSUME RegistryInv, NEW n \in Names, NEW c \in Configs, AddTarget(n, c)
    PROVE  RegistryInv'
<1> DEFINE new == [no |-> registrations + 1, name |-> n, config |-> c]
<1>1. /\ registrations < MaxRegistrations /\ registrations' = registrations + 1
      /\ targets' = [targets EXCEPT ![n] = c]
      /\ saves' = saves \cup {new}
      /\ contested' = IF phase # "started" \/ SavesOf(n) # {}
                      THEN contested \cup {n} ELSE contested
      /\ UNCHANGED <<table, phase, rows, failed, restarts>>
  BY DEF AddTarget
<1>2. TypeOK'
  BY <1>1, BoundsAssumption DEF RegistryInv, TypeOK, SaveTask, Target
<1>3. /\ \A k \in Names : k # n => SavesOf(k)' = SavesOf(k) /\ targets'[k] = targets[k]
      /\ SavesOf(n)' = SavesOf(n) \cup {new}
      /\ targets'[n] = c /\ c # NoTarget
  BY <1>1, ConfigsAssumption DEF SavesOf, RegistryInv, TypeOK
<1>4. NothingForgotten'
  BY <1>1, <1>3 DEF RegistryInv, NothingForgotten
<1>5. Reading'
  BY <1>1, <1>3 DEF RegistryInv, Reading
<1>6. Spaced'
  <2> SUFFICES ASSUME NEW k \in Names \ (failed' \cup contested')
               PROVE  /\ phase' = "started" =>
                             /\ SavesOf(k)' = {} => InStep(k)'
                             /\ \A s \in SavesOf(k)' :
                                    /\ s.config = targets'[k]
                                    /\ \A t \in SavesOf(k)' : s = t
                      /\ phase' # "started" =>
                             /\ SavesOf(k)' = {} /\ targets'[k] = FromConfig[k]
                             /\ phase' = "read" => rows'[k] = table'[k]
    BY DEF Spaced, FromConfig
  <2>1. CASE k = n
    <3>1. phase = "started" /\ SavesOf(n) = {}
      BY <1>1, <2>1
    <3>2. SavesOf(k)' = {new} /\ targets'[k] = c
      BY <1>3, <2>1, <3>1 DEF SavesOf
    <3>3. \A s \in SavesOf(k)' : s = new /\ s.config = c
      BY <3>2
    <3> QED
      BY <1>1, <3>1, <3>2, <3>3
  <2>2. CASE k # n
    <3>1. k \in Names \ (failed \cup contested)
      BY <1>1
    <3>2. /\ SavesOf(k)' = SavesOf(k) /\ targets'[k] = targets[k]
          /\ InStep(k)' <=> InStep(k)
      BY <1>1, <1>3, <2>2, <3>1 DEF InStep, FromConfig
    <3> QED
      BY <1>1, <3>1, <3>2 DEF RegistryInv, Spaced
  <2> QED
    BY <2>1, <2>2
<1> QED
  BY <1>2, <1>4, <1>5, <1>6 DEF RegistryInv

\* A save reaches the table, or fails.
LEMMA RegistrySave ==
    ASSUME RegistryInv, NEW s \in saves, SaveTarget(s) \/ SaveFails(s)
    PROVE  RegistryInv'
<1>1. /\ s \in SaveTask /\ s.name \in Names /\ s.config \in Configs
      /\ s.config # NoTarget
      /\ saves' = saves \ {s}
      /\ UNCHANGED <<targets, phase, rows, contested, registrations, restarts>>
  BY ConfigsAssumption DEF SaveTarget, SaveFails, RegistryInv, TypeOK, SaveTask
<1>2. \A k \in Names : /\ SavesOf(k)' \subseteq SavesOf(k)
                       /\ k # s.name => SavesOf(k)' = SavesOf(k)
  BY <1>1 DEF SavesOf
<1>3. CASE SaveTarget(s)
  <2>1. table' = [table EXCEPT ![s.name] = s.config] /\ failed' = failed
    BY <1>3 DEF SaveTarget
  <2>2. TypeOK'
    BY <1>1, <2>1 DEF RegistryInv, TypeOK, Target
  <2>3. /\ table'[s.name] = s.config
        /\ \A k \in Names : k # s.name => table'[k] = table[k]
    BY <1>1, <2>1 DEF RegistryInv, TypeOK
  <2>4. s \in SavesOf(s.name) /\ targets[s.name] # NoTarget
    BY <1>1 DEF SavesOf, RegistryInv, Reading
  <2>5. NothingForgotten'
    BY <1>1, <1>2, <2>1, <2>3, <2>4 DEF RegistryInv, NothingForgotten
  <2>6. Reading'
    BY <1>1, <1>2, <2>1, <2>3, <2>4 DEF RegistryInv, Reading
  <2>7. Spaced'
    <3> SUFFICES ASSUME NEW k \in Names \ (failed \cup contested)
                 PROVE  /\ phase = "started" =>
                               /\ SavesOf(k)' = {} => InStep(k)'
                               /\ \A t \in SavesOf(k)' :
                                      /\ t.config = targets[k]
                                      /\ \A u \in SavesOf(k)' : t = u
                        /\ phase # "started" =>
                               /\ SavesOf(k)' = {} /\ targets[k] = FromConfig[k]
                               /\ phase = "read" => rows[k] = table'[k]
      BY <1>1, <2>1 DEF Spaced, FromConfig
    <3>1. CASE k = s.name
      <4>1. phase = "started" /\ s.config = targets[k] /\ \A t \in SavesOf(k) : t = s
        BY <2>4, <3>1 DEF RegistryInv, Spaced
      <4>2. SavesOf(k)' = {}
        BY <1>1, <4>1 DEF SavesOf
      <4>3. InStep(k)'
        BY <1>1, <2>3, <3>1, <4>1 DEF InStep
      <4> QED
        BY <4>1, <4>2, <4>3
    <3>2. CASE k # s.name
      BY <1>1, <1>2, <2>3, <3>2 DEF RegistryInv, Spaced, InStep
    <3> QED
      BY <3>1, <3>2
  <2> QED
    BY <2>2, <2>5, <2>6, <2>7 DEF RegistryInv
<1>4. CASE SaveFails(s)
  <2>1. failed' = failed \cup {s.name} /\ table' = table
    BY <1>4 DEF SaveFails
  <2>2. TypeOK'
    BY <1>1, <2>1 DEF RegistryInv, TypeOK
  <2>3. NothingForgotten' /\ Reading'
    BY <1>1, <1>2, <2>1 DEF RegistryInv, NothingForgotten, Reading
  <2>4. Spaced'
    BY <1>1, <1>2, <2>1 DEF RegistryInv, Spaced, InStep, FromConfig
  <2> QED
    BY <2>2, <2>3, <2>4 DEF RegistryInv
<1> QED
  BY <1>3, <1>4

\* Start reads the table, and then merges what it has read.
LEMMA RegistryStart == ASSUME RegistryInv, Read \/ Merge PROVE RegistryInv'
<1>1. /\ \A k \in Names : SavesOf(k)' = SavesOf(k)
      /\ UNCHANGED <<table, saves, contested, registrations, restarts>>
  BY DEF Read, Merge, SavesOf
<1>2. ASSUME NEW read \in SUBSET Names, Read,
             rows' = [n \in Names |-> IF n \in read THEN table[n] ELSE NoTarget],
             failed' = failed \cup (Names \ read), phase' = "read"
      PROVE  RegistryInv'
  <2>1. phase = "new" /\ targets' = targets
    BY <1>2 DEF Read
  <2>2. \A n \in Names : rows'[n] = IF n \in read THEN table[n] ELSE NoTarget
    BY <1>2
  <2>3. rows' \in [Names -> Target]
    BY <1>2 DEF RegistryInv, TypeOK, Target
  <2>4. TypeOK'
    BY <1>1, <1>2, <2>1, <2>3 DEF RegistryInv, TypeOK
  <2>5. NothingForgotten'
    BY <1>1, <1>2, <2>1 DEF RegistryInv, NothingForgotten
  <2>6. Reading'
    BY <1>1, <1>2, <2>1, <2>2 DEF RegistryInv, Reading
  <2>7. Spaced'
    BY <1>1, <1>2, <2>1, <2>2 DEF RegistryInv, Spaced, FromConfig
  <2> QED
    BY <2>4, <2>5, <2>6, <2>7 DEF RegistryInv
<1>3. CASE Read /\ failed' = Names /\ phase' = "started" /\ UNCHANGED rows
  <2>1. targets' = targets
    BY <1>3 DEF Read
  <2>2. TypeOK'
    BY <1>1, <1>3, <2>1 DEF RegistryInv, TypeOK
  <2>3. NothingForgotten' /\ Reading' /\ Spaced'
    BY <1>1, <1>3, <2>1 DEF RegistryInv, NothingForgotten, Reading, Spaced
  <2> QED
    BY <2>2, <2>3 DEF RegistryInv
<1>4. CASE Merge
  <2>1. /\ phase = "read" /\ phase' = "started"
        /\ targets' = [n \in Names |-> IF rows[n] # NoTarget THEN rows[n] ELSE targets[n]]
        /\ rows' = NoRows /\ failed' = failed
    BY <1>4 DEF Merge
  <2>2. TypeOK'
    BY <1>1, <2>1, ConfigFact DEF RegistryInv, TypeOK
  <2>3. \A n \in Names : targets'[n] = IF rows[n] # NoTarget THEN rows[n] ELSE targets[n]
    BY <2>1
  <2>4. NothingForgotten'
    BY <1>1, <2>1, <2>3 DEF RegistryInv, NothingForgotten, Reading
  <2>5. Reading'
    BY <1>1, <2>1, <2>3 DEF RegistryInv, Reading
  <2>6. Spaced'
    BY <1>1, <2>1, <2>3 DEF RegistryInv, Spaced, InStep
  <2> QED
    BY <2>2, <2>4, <2>5, <2>6 DEF RegistryInv
<1> QED
  BY <1>2, <1>3, <1>4 DEF Read

LEMMA RegistryCrash == ASSUME RegistryInv, Crash PROVE RegistryInv'
<1>1. /\ restarts < MaxRestarts /\ restarts' = restarts + 1
      /\ targets' = FromConfig
      /\ saves' = {} /\ phase' = "new" /\ rows' = NoRows
      /\ contested' = {} /\ failed' = {}
      /\ UNCHANGED <<table, registrations>>
  BY DEF Crash
<1>2. TypeOK'
  BY <1>1, ConfigFact, BoundsAssumption DEF RegistryInv, TypeOK
<1>3. \A k \in Names : /\ SavesOf(k)' = {}
                       /\ targets'[k] # NoTarget => k \in Configured
  BY <1>1 DEF SavesOf, FromConfig
<1>4. NothingForgotten' /\ Reading'
  BY <1>1, <1>3 DEF NothingForgotten, Reading
<1>5. Spaced'
  BY <1>1, <1>3 DEF Spaced, FromConfig
<1> QED
  BY <1>2, <1>4, <1>5 DEF RegistryInv

LEMMA RegistryNext == RegistryInv /\ [Next]_vars => RegistryInv'
<1> SUFFICES ASSUME RegistryInv, [Next]_vars PROVE RegistryInv'
  OBVIOUS
<1>1. CASE Next
  BY <1>1, RegistryAdd, RegistrySave, RegistryStart, RegistryCrash DEF Next
<1>2. CASE UNCHANGED vars
  BY <1>2 DEF vars, RegistryInv, TypeOK, NothingForgotten, Spaced, Reading, SavesOf, InStep,
              FromConfig
<1> QED
  BY <1>1, <1>2

LEMMA RegistryCorrect == Spec => []RegistryInv
BY RegistryInit, RegistryNext, PTL DEF Spec

\* Map, table and rows hold targets, and saves what was registered, through
\* every interleaving and crash (dispatcher.go:60-123, sqlite.go:55-96).
THEOREM TypeCorrect == Spec => []TypeOK
<1>1. RegistryInv => TypeOK
  BY DEF RegistryInv
<1> QED
  BY <1>1, RegistryCorrect, PTL

\* No target gets lost between the map and the table, in any interleaving of
\* registrations, background saves and start-up (dispatcher.go:62-74, 111-120).
THEOREM NoneForgotten == Spec => []NothingForgotten
<1>1. RegistryInv => NothingForgotten
  BY DEF RegistryInv
<1> QED
  BY <1>1, RegistryCorrect, PTL

\* The write-through works for registrations that neither overlap a save of the
\* same name nor the start-up (dispatcher.go:68-74).
THEOREM SpacedCorrect == Spec => []SpacedWriteThrough
<1>1. RegistryInv => SpacedWriteThrough
  BY DEF RegistryInv, Spaced, SpacedWriteThrough
<1> QED
  BY <1>1, RegistryCorrect, PTL
=============================================================================
