---- MODULE MCLpc ----
(* Two waiting tasks, two other handlers, a ring of three codes.  The      *)
(* waiters, the callback table and the codes do not touch each other, so   *)
(* each setting gives one of them room and the others little.              *)
EXTENDS Lpc

CONSTANTS t1, t2, h1, h2

Codes == 0..MaxCode

Setting(task, handler, reads, codes, n) ==
  [task |-> task, handler |-> handler, reads |-> reads, codes |-> codes, resets |-> n]

Crowds == {
  Setting({t1, t2}, {}, FALSE, 1, 3),
  Setting({t1}, {h1}, FALSE, 1, 2),
  Setting({}, {h1, h2}, FALSE, 1, 2),
  Setting({}, {}, TRUE, 7, 1),
  Setting({}, {}, TRUE, 4, 2)}
====
