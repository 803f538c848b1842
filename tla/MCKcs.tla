---- MODULE MCKcs ----
(* Instances of Kcs for TLC: the budgets of the runs and, for the run of   *)
(* all faults, where they fall.                                            *)
EXTENDS Kcs

NoFaults == [k \in FaultKinds \cup {"any"} |-> 0]
OneAbort == [NoFaults EXCEPT !["abort"] = 1, !["any"] = 1]
ThreeFaults == [k \in FaultKinds \cup {"any"} |-> IF k = "any" THEN 3 ELSE 1]

(* Bounds: KCSError is only ever shown to the host in a status byte, so    *)
(* one of its two first values does; three faults, and those other than    *)
(* abort, crash and signal, fall into a behaviour of one transaction, and  *)
(* a response after the third fault has one byte.  None of them stops a    *)
(* step under Fairness: a response of one byte is always possible, and     *)
(* neither HostStart nor a fault is fair.                                  *)
MCInit == Init /\ kcsError = "GARBAGE"
MCRoom ==
  /\ txn' = 2 => left'["any"] > 0 /\ Spared({"noise", "exit", "disable"})'
  /\ left'["any"] = 0 => response'.len <= 1
MCNext == Next /\ MCRoom
MCFairSpec == MCInit /\ [][MCNext]_vars /\ Fairness
====
