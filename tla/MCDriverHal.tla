---- MODULE MCDriverHal ----
(* Three hardware modules of one type, of one, two and one minors; the     *)
(* third is not linked to the core.                                        *)
EXTENDS DriverHal

CONSTANTS one, two, single

ThreeModules == (one :> 1) @@ (two :> 2) @@ (single :> 1)
LinkedModules == {one, two}

(* Bounds: once minors overlap, nothing more is loaded or opened, and the  *)
(* system may rest; and once a registration has failed, one module is      *)
(* listed at a time.                                                       *)
MCRoom ==
  /\ overlapped => Len(hwList') <= Len(hwList) /\ OpenFiles' \subseteq OpenFiles
  /\ lost # {} => Len(hwList') <= 1
MCNext == (Next /\ MCRoom) \/ (overlapped /\ UNCHANGED vars)
MCSpec == Init /\ [][MCNext]_vars
====
