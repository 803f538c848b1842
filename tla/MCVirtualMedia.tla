---- MODULE MCVirtualMedia ----
(* A remote CD and a remote disk.  Each setting gives one question room:   *)
(* two drives at work at once, and one drive with its faults.              *)
EXTENDS VirtualMedia

Kinds == <<"cd", "hd">>

Setting(cd, hd, cmdsCd, cmdsHd, resets, crashes, exits, timeouts) ==
  [ops |-> <<cd, hd>>, cmds |-> <<cmdsCd, cmdsHd>>,
   faults |-> [reset |-> resets, crash |-> crashes, exit |-> exits, timeout |-> timeouts]]

Mixes == {
  Setting({"read", "short"}, {"read", "write", "phase"}, 1, 2, 0, 0, 0, 0),
  Setting({"read", "local"}, {"write"}, 1, 2, 1, 0, 0, 0),
  Setting({"local"}, {"read", "local"}, 1, 1, 1, 0, 0, 1),
  Setting({}, {"read", "write", "local"}, 0, 3, 1, 0, 0, 0),
  Setting({}, {"read", "phase", "local"}, 0, 3, 1, 0, 0, 1),
  Setting({"short"}, {"read"}, 1, 1, 1, 0, 0, 0),
  Setting({"phase"}, {}, 1, 0, 0, 1, 0, 1),
  Setting({"short", "read"}, {}, 2, 0, 1, 1, 1, 0)}
====
