---- MODULE MCBt ----
(* Instances of Bt for TLC: the budgets of the runs.                       *)
EXTENDS Bt

NoFaults == [k \in FaultKinds \cup {"any"} |-> 0]
AllFaults == [[k \in FaultKinds \cup {"any"} |-> 1] EXCEPT !["retry"] = 2, !["any"] = 3]
OneRetry == [NoFaults EXCEPT !["retry"] = 1, !["any"] = 1]
====
