---------------------------- MODULE MCDaemonLock ----------------------------
(* DaemonLock for TLC: the .cfg files give the constants their values.       *)
EXTENDS DaemonLock

(* The case of the race: Former crashed and its lock is stale; every process *)
(* has come through TryCreate and InspectLock, has judged that same lock to  *)
(* be stale, and goes on to remove it.                                       *)
JudgedStale ==
    /\ pid = Former /\ age = StaleAfter /\ linked = {} /\ stop = FALSE
    /\ main = [p \in Daemons |-> "remove"]
    /\ beat = [p \in Daemons |-> "off"]
    /\ since = [p \in Daemons |-> 0] /\ missed = [p \in Daemons |-> 0]
    /\ stopped = [p \in Daemons |-> FALSE] /\ displaced = [p \in Daemons |-> 0]

RaceSpec == JudgedStale /\ [][Next]_vars
=============================================================================
