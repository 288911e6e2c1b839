------------------------------- MODULE Outbox -------------------------------
(***************************************************************************)
(* What the broker promises its clients ("Outbox Recovery", broker.go:51): *)
(* an accepted message is stored until it is acknowledged or moved to the  *)
(* dead letters, whatever happens; while it is stored it is on offer,      *)
(* except that a call which is settling it may withdraw it first; a crash  *)
(* puts everything that is stored back on offer.                           *)
(***************************************************************************)
CONSTANT Ids

VARIABLES
    status,    \* the fate of each message
    available  \* the messages consumers may get

Status == {"unsent", "stored", "done", "dead"}

Stored == {id \in Ids : status[id] = "stored"}

TypeOK ==
    /\ status \in [Ids -> Status]
    /\ available \subseteq Stored

Init ==
    /\ status = [id \in Ids |-> "unsent"]
    /\ available = {}

Accept(id) ==
    /\ status[id] = "unsent"
    /\ status' = [status EXCEPT ![id] = "stored"]
    /\ available' = available \cup {id}

Withdraw(id) ==
    /\ id \in available
    /\ available' = available \ {id}
    /\ UNCHANGED status

Settle(id, end) ==
    /\ id \in Stored \ available
    /\ status' = [status EXCEPT ![id] = end]
    /\ UNCHANGED available

\* Messages whose Push was cut short by the crash may turn out to be stored.
Recover ==
    /\ \E found \in SUBSET {id \in Ids : status[id] = "unsent"} :
           status' = [id \in Ids |-> IF id \in found THEN "stored" ELSE status[id]]
    /\ available' = Stored'

Next ==
    \/ \E id \in Ids : \/ Accept(id)
                       \/ Withdraw(id)
                       \/ \E end \in {"done", "dead"} : Settle(id, end)
    \/ Recover

Spec == Init /\ [][Next]_<<status, available>>
=============================================================================
