--------------------------- MODULE TargetRegistry ---------------------------
(***************************************************************************)
(* The delivery targets of pkg/broker/dispatcher.go: a map in memory,      *)
(* behind d.mu, and a SQLite table (pkg/storage/sqlite.go).                *)
(*                                                                         *)
(* AddTarget changes the map and leaves the saving to a goroutine of its   *)
(* own; several may be on their way, and SQLite takes their upserts in any *)
(* order.  Start reads the table and then merges the rows into the map,    *)
(* while the HTTP server may already be adding targets.                    *)
(*                                                                         *)
(* A crash is the end of the process and the start of the next one.        *)
(*                                                                         *)
(* A definition whose comment starts with "Seeded defect" is no part of    *)
(* the specification: it is the definition after it, with a bug the code   *)
(* could have had, and shows that a property notices that bug.             *)
(***************************************************************************)
EXTENDS Naturals

CONSTANTS
    Names,             \* names of targets
    Configs,           \* what a target may be registered with: URL and headers
    Configured,        \* the targets of config.yaml
    Default,           \* and their configuration
    NoTarget,          \* the absence of a target
    MaxRegistrations,  \* bound on the calls of AddTarget
    MaxRestarts        \* bound on the crashes

ASSUME ConfigsAssumption ==
    /\ Configured \subseteq Names
    /\ Default \in Configs
    /\ NoTarget \notin Configs
ASSUME BoundsAssumption == MaxRegistrations \in Nat /\ MaxRestarts \in Nat

VARIABLES
    targets,        \* d.targets
    table,          \* the rows of the table
    saves,          \* the background saves that have not happened yet
    phase,          \* how far Start has come: "new", "read" or "started"
    rows,           \* what GetAllTargets has returned to Start
    contested,      \* history: names registered during a save or before "started"
    failed,         \* history: names that a save, or the reading, has failed for
    registrations,  \* number of calls of AddTarget
    restarts        \* number of crashes

vars == <<targets, table, saves, phase, rows, contested, failed, registrations, restarts>>

SaveTask == [no : 1..MaxRegistrations, name : Names, config : Configs]
Target == Configs \cup {NoTarget}

TypeOK ==
    /\ targets \in [Names -> Target]
    /\ table \in [Names -> Target]
    /\ saves \subseteq SaveTask
    /\ phase \in {"new", "read", "started"}
    /\ rows \in [Names -> Target]
    /\ contested \subseteq Names
    /\ failed \subseteq Names
    /\ registrations \in 0..MaxRegistrations
    /\ restarts \in 0..MaxRestarts

\* NewDispatcher: the targets of config.yaml.
FromConfig == [n \in Names |-> IF n \in Configured THEN Default ELSE NoTarget]

NoRows == [n \in Names |-> NoTarget]

Init ==
    /\ targets = FromConfig
    /\ table = NoRows
    /\ saves = {}
    /\ phase = "new"
    /\ rows = NoRows
    /\ contested = {}
    /\ failed = {}
    /\ registrations = 0
    /\ restarts = 0

-----------------------------------------------------------------------------
SavesOf(n) == {s \in saves : s.name = n}

\* The map is changed, the registration is confirmed, and a save set off.
AddTarget(n, c) ==
    /\ registrations < MaxRegistrations
    /\ registrations' = registrations + 1
    /\ targets' = [targets EXCEPT ![n] = c]
    /\ saves' = saves \cup {[no |-> registrations + 1, name |-> n, config |-> c]}
    /\ contested' = IF phase # "started" \/ SavesOf(n) # {}
                    THEN contested \cup {n} ELSE contested
    /\ UNCHANGED <<table, phase, rows, failed, restarts>>

\* Seeded defect: the whole task goes into the row.
SaveTargetWhole(s) ==
    /\ table' = [table EXCEPT ![s.name] = s]
    /\ saves' = saves \ {s}
    /\ UNCHANGED <<targets, phase, rows, contested, failed, registrations, restarts>>

\* Seeded defect: a conflicting row is left as it is.
SaveTargetKeeping(s) ==
    /\ table' = IF table[s.name] = NoTarget
                THEN [table EXCEPT ![s.name] = s.config] ELSE table
    /\ saves' = saves \ {s}
    /\ UNCHANGED <<targets, phase, rows, contested, failed, registrations, restarts>>

\* Seeded defect: rows are updated and never inserted.
SaveTargetUpdating(s) ==
    /\ table' = IF table[s.name] # NoTarget
                THEN [table EXCEPT ![s.name] = s.config] ELSE table
    /\ saves' = saves \ {s}
    /\ UNCHANGED <<targets, phase, rows, contested, failed, registrations, restarts>>

\* The upsert.
SaveTarget(s) ==
    /\ table' = [table EXCEPT ![s.name] = s.config]
    /\ saves' = saves \ {s}
    /\ UNCHANGED <<targets, phase, rows, contested, failed, registrations, restarts>>

\* The error is logged and forgotten.
SaveFails(s) ==
    /\ saves' = saves \ {s}
    /\ failed' = failed \cup {s.name}
    /\ UNCHANGED <<targets, table, phase, rows, contested, registrations, restarts>>

\* GetAllTargets reads all rows, or only some if the iteration breaks off, which
\* nobody notices (rows.Err() is not asked).  On an error Start goes on with
\* what it has.
Read ==
    /\ phase = "new"
    /\ \/ \E read \in SUBSET Names :
              /\ rows' = [n \in Names |-> IF n \in read THEN table[n] ELSE NoTarget]
              /\ failed' = failed \cup (Names \ read)
              /\ phase' = "read"
       \/ failed' = Names /\ phase' = "started" /\ UNCHANGED rows
    /\ UNCHANGED <<targets, table, saves, contested, registrations, restarts>>

\* Seeded defect: the rows replace the map.
MergeReplacing ==
    /\ phase = "read"
    /\ targets' = rows
    /\ phase' = "started"
    /\ rows' = NoRows
    /\ UNCHANGED <<table, saves, contested, failed, registrations, restarts>>

\* Whatever has been stored overrides what is in the map.
Merge ==
    /\ phase = "read"
    /\ targets' = [n \in Names |-> IF rows[n] # NoTarget THEN rows[n] ELSE targets[n]]
    /\ phase' = "started"
    /\ rows' = NoRows
    /\ UNCHANGED <<table, saves, contested, failed, registrations, restarts>>

Crash ==
    /\ restarts < MaxRestarts
    /\ restarts' = restarts + 1
    /\ targets' = FromConfig
    /\ saves' = {}
    /\ phase' = "new"
    /\ rows' = NoRows
    /\ contested' = {}
    /\ failed' = {}
    /\ UNCHANGED <<table, registrations>>

Next ==
    \/ \E n \in Names, c \in Configs : AddTarget(n, c)
    \/ \E s \in saves : SaveTarget(s)
    \/ \E s \in saves : SaveFails(s)
    \/ Read
    \/ Merge
    \/ Crash

Spec == Init /\ [][Next]_vars

\* The goroutine of every save gets to run; nobody is obliged to register.
Fairness == \A s \in SaveTask : WF_vars(s \in saves /\ (SaveTarget(s) \/ SaveFails(s)))

FairSpec == Spec /\ Fairness

-----------------------------------------------------------------------------
(* Properties. *)

\* The table holds what the map holds, and a target that is not in the table
\* is as config.yaml has it.
InStep(n) == targets[n] = IF table[n] # NoTarget THEN table[n] ELSE FromConfig[n]

\* No name gets lost between map and table, whatever the order of
\* registrations, saves and start-up: a stored target is in the map, and a
\* target in the map is stored, about to be, or from config.yaml
\* (dispatcher.go:62-74, 111-120).
NothingForgotten ==
    \A n \in Names \ failed :
        /\ phase = "started" /\ table[n] # NoTarget => targets[n] # NoTarget
        /\ targets[n] # NoTarget =>
               n \in Configured \/ table[n] # NoTarget \/ SavesOf(n) # {}

\* Registrations of one name that neither overlap each other's saves nor the
\* start-up leave map and table in step once the last save is done, however
\* those of other names and crashes are mixed in (dispatcher.go:68-74).
SpacedWriteThrough ==
    \A n \in Names \ (failed \cup contested) :
        phase = "started" /\ SavesOf(n) = {} => InStep(n)

\* A registered target is stored in the end, unless its save fails or a crash
\* comes first (dispatcher.go:70-74).
SavesLand ==
    \A n \in Names \ Configured :
        targets[n] # NoTarget ~> table[n] # NoTarget \/ n \in failed \/ targets[n] = NoTarget
=============================================================================
