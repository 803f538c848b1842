---- MODULE IpmiExchange ----
(***************************************************************************)
(* What an IPMI channel, KCS or BT, promises a host that waits for its     *)
(* answers: requests and answers alternate, the daemon is handed each      *)
(* request exactly once, and the host ends each transaction with the       *)
(* answer to its own request.                                              *)
(***************************************************************************)
EXTENDS Naturals

CONSTANT MaxTxn

VARIABLES asked,     \* transactions the host has begun
          delivered, \* requests handed to the daemon
          answered   \* transactions the host has ended with the right answer

vars == <<asked, delivered, answered>>

Init == asked = 0 /\ delivered = 0 /\ answered = 0

Ask ==
  /\ asked = answered /\ asked < MaxTxn
  /\ asked' = asked + 1
  /\ UNCHANGED <<delivered, answered>>

Deliver ==
  /\ delivered < asked
  /\ delivered' = delivered + 1
  /\ UNCHANGED <<asked, answered>>

Answer ==
  /\ answered < delivered
  /\ answered' = answered + 1
  /\ UNCHANGED <<asked, delivered>>

Next == Ask \/ Deliver \/ Answer

Spec == Init /\ [][Next]_vars
====
