---- MODULE LpcProofs ----
(***************************************************************************)
(* Proofs about the LPC reset and the POST codes, for every number of      *)
(* tasks, handlers, codes and resets and every size of the ring.  The      *)
(* invariant falls into parts that touch different variables; each is      *)
(* inductive given the parts before it.                                    *)
(***************************************************************************)
EXTENDS Lpc, SnoopRingProofs, FiniteSetTheorems

Loaded == stage \in {"hooked", "in", "running"}

(* The waiters: reset_wait_count counts them, and the event stands for     *)
(* those a reset has reached.                                              *)
WaitInv ==
  /\ event \in BOOLEAN /\ missed \in BOOLEAN /\ resets \in Nat
  /\ waiting \in SUBSET Task /\ hit \in SUBSET waiting
  /\ count = Cardinality(waiting)
  /\ hit # {} => event
  /\ event /\ waiting = {} => missed

(* The table: no handler is in it twice, and handle_snoop_reset is in it   *)
(* just as long as the rings it works on exist and nobody takes them away. *)
SlotInv ==
  /\ slot \in [1..NumSlots -> Handler \cup {Snoop, NoHandler}]
  /\ stage \in {"out", "hooked", "in", "running", "unhooked", "freed"}
  /\ \A i, j \in 1..NumSlots : slot[i] = slot[j] /\ slot[i] # NoHandler => i = j
  /\ Installed(Snoop) <=> Loaded

(* The port and its handler.                                               *)
PortInv ==
  /\ setting \in Settings
  /\ irqOn \in BOOLEAN /\ latch \in Code /\ flag \in BOOLEAN
  /\ irq \in {"idle", "cleared"} /\ last \in Code
  /\ irq = "cleared" => stage = "running"
  /\ LastCodeKept

(* The rings.                                                              *)
RingInv ==
  /\ cur \in Ring /\ prev \in Ring
  /\ stored \in Seq(Code) /\ before \in Seq(Code) /\ seam \in BOOLEAN
  /\ Holds(cur, stored)
  /\ stage = "hooked" => stored = <<>> /\ before = <<>> /\ ~seam /\ prev = NewRing
  /\ PreviousIsLastBoot

(* The buffer holds stored codes from the one after the d-th on.           *)
RunAt(d) ==
  d + Len(rd.buf) <= Len(stored) /\ \A i \in 1..Len(rd.buf) : rd.buf[i] = stored[d + i]

(* A read of the current codes that has met neither seam nor reset: after  *)
(* the first copy, what is missing of a full ring stands below the write   *)
(* index, however far that has moved on.                                   *)
CurrentRead ==
  /\ rd.from <= Len(stored)
  /\ rd.size = IF rd.from < BufSize THEN rd.from ELSE BufSize
  /\ rd.pc # "done" => ~AtSeam(cur)
  /\ rd.pc = "rest" =>
       /\ cur.size = BufSize /\ Len(rd.buf) + cur.in >= BufSize
       /\ \E d \in Nat : RunAt(d) /\ d + Len(rd.buf) = Len(stored) - cur.in /\ rd.from <= d + BufSize
  /\ rd.pc = "done" =>
       /\ rd.size <= Len(rd.buf)
       /\ \E d \in Nat : RunAt(d) /\ rd.from <= d + rd.size

(* The previous codes only change at a reset.                              *)
PreviousRead ==
  /\ ~seam /\ rd.size = prev.size
  /\ rd.pc = "rest" => rd.buf = FirstCopy(prev) /\ Wrapped(prev)
  /\ rd.pc = "done" => rd.buf = Get(prev)

(* A read, as far as it has come.                                          *)
ReadInv ==
  /\ rd \in [pc : {"idle", "sized", "rest", "done", "wild"}, which : {"cur", "prev"},
             size : 0..BufSize, buf : Seq(Byte), from : Nat, cut : BOOLEAN]
  /\ rd.pc # "idle" => stage \in {"in", "running"}
  /\ rd.pc # "idle" /\ ~rd.cut =>
       rd.pc # "wild" /\ IF rd.which = "cur" THEN CurrentRead ELSE PreviousRead

----------------------------------------------------------------------------
(* The waiters.                                                            *)

(* Nothing but the wait, its ends and the reset touches the waiters.       *)
LEMMA OthersKeepWaiters ==
  ASSUME Next,
         \A t \in Task : ~WaitOnReset(t) /\ ~Return(t) /\ ~Signal(t),
         ~Reset
  PROVE  UNCHANGED resetVars
BY DEF Next, Install, Uninstall, RegisterSnoop, ListSnoop, StartSnoop, UnhookSnoop, FreeSnoop,
       UnlistSnoop, SwitchIrq, HostWrite, ClearFlag, StoreCode, ReadCodes, CopyFirst, CopyRest,
       ReadReturns, resetVars

(* A waiter that leaves keeps count and event right: it clears the event   *)
(* if and only if it was the last.                                         *)
LEMMA LeaveKeepsWaiters ==
  ASSUME WaitInv, NEW t \in waiting, Leave(t)
  PROVE  WaitInv'
<1>1. IsFiniteSet(waiting) BY LpcAssumption, FS_Subset DEF WaitInv
<1>2. /\ waiting' = waiting \ {t} /\ hit' = hit \ {t} /\ count' = count - 1
      /\ resets' = resets
  BY DEF Leave
<1>3. Cardinality(waiting') = Cardinality(waiting) - 1
  BY <1>1, <1>2, FS_RemoveElement
<1>4. IsFiniteSet(waiting') BY <1>1, <1>2, FS_RemoveElement
<1>5. Cardinality(waiting) \in Nat /\ (count = 1 <=> waiting' = {})
  <2>1. Cardinality(waiting) \in Nat BY <1>1, FS_CardinalityType
  <2>2. Cardinality(waiting') = 0 <=> waiting' = {} BY <1>4, FS_EmptySet
  <2>3. Cardinality(waiting) = 1 <=> Cardinality(waiting') = 0 BY <2>1, <1>3
  <2>4. count = Cardinality(waiting) BY DEF WaitInv
  <2> QED BY <2>1, <2>2, <2>3, <2>4
<1>6. waiting' \in SUBSET Task /\ hit' \in SUBSET waiting' BY <1>2 DEF WaitInv
<1>7. CASE count = 1
  <2>1. event' = FALSE /\ missed' = FALSE BY <1>7 DEF Leave
  <2>2. hit' = {} BY <1>5, <1>6, <1>7
  <2> QED BY <2>1, <2>2, <1>2, <1>3, <1>6 DEF WaitInv
<1>8. CASE count # 1
  <2>1. event' = event /\ missed' = missed BY <1>8 DEF Leave
  <2>2. waiting' # {} BY <1>5, <1>8
  <2>3. hit' # {} => event' BY <2>1, <1>2 DEF WaitInv
  <2> QED BY <2>1, <2>2, <2>3, <1>2, <1>3, <1>6 DEF WaitInv
<1> QED BY <1>7, <1>8

(* The waiters' part of the invariant.                                     *)
LEMMA WaitersRight == Spec => []WaitInv
<1>1. Init => WaitInv
  <2>1. Cardinality({}) = 0 BY FS_EmptySet
  <2> SUFFICES ASSUME Init PROVE WaitInv OBVIOUS
  <2>2. event = FALSE /\ missed = FALSE /\ waiting = {} /\ hit = {} /\ count = 0 /\ resets = 0
    BY DEF Init
  <2>3. count = Cardinality(waiting) /\ resets \in Nat BY <2>1, <2>2
  <2>4. waiting \in SUBSET Task /\ hit \in SUBSET waiting BY <2>2
  <2> QED BY <2>2, <2>3, <2>4, Zenon DEF WaitInv
<1>2. ASSUME WaitInv, [Next]_vars PROVE WaitInv'
  <2> USE <1>2
  <2>1. ASSUME NEW t \in Task, WaitOnReset(t) PROVE WaitInv'
    <3>1. IsFiniteSet(waiting) BY LpcAssumption, FS_Subset DEF WaitInv
    <3>2. /\ t \notin waiting /\ waiting' = waiting \cup {t} /\ count' = count + 1
          /\ UNCHANGED <<event, resets, hit, missed>>
      BY <2>1 DEF WaitOnReset
    <3>3. Cardinality(waiting') = Cardinality(waiting) + 1
      BY <3>1, <3>2, FS_AddElement
    <3> QED BY <3>2, <3>3 DEF WaitInv
  <2>2. ASSUME NEW t \in Task, Return(t) \/ Signal(t) PROVE WaitInv'
    BY <2>2, LeaveKeepsWaiters DEF Return, Signal
  <2>3. CASE Reset
    <3>1. IsFiniteSet(waiting) BY LpcAssumption, FS_Subset DEF WaitInv
    <3>2. Cardinality(waiting) = 0 <=> waiting = {} BY <3>1, FS_EmptySet
    <3>3. /\ event' = TRUE /\ missed' = (count = 0) /\ hit' = waiting /\ resets' = resets + 1
          /\ UNCHANGED <<waiting, count>>
      BY <2>3 DEF Reset
    <3>4. missed' \in BOOLEAN /\ (waiting' = {} => missed')
      <4>1. count = Cardinality(waiting) BY DEF WaitInv
      <4> QED BY <4>1, <3>2, <3>3
    <3> QED BY <3>3, <3>4 DEF WaitInv
  <2>4. CASE UNCHANGED resetVars
    BY <2>4 DEF resetVars, WaitInv
  <2>5. CASE UNCHANGED vars
    BY <2>4, <2>5 DEF vars, resetVars
  <2> QED BY <2>1, <2>2, <2>3, <2>4, <2>5, OthersKeepWaiters
<1> QED BY <1>1, <1>2, PTL DEF Spec

(* A reset reaches every task that was waiting for it: the event stands    *)
(* until all of them have returned (reset_ioctl_unlocked).                 *)
THEOREM WaitersReached == Spec => []ResetReachesWaiters
<1>1. WaitInv => ResetReachesWaiters BY DEF WaitInv, ResetReachesWaiters
<1> QED BY <1>1, WaitersRight, PTL

(* The event does not outlive the waiters it was meant for.                *)
THEOREM EventsCleared == Spec => []EventCleared
<1>1. WaitInv => EventCleared BY DEF WaitInv, EventCleared
<1> QED BY <1>1, WaitersRight, PTL

----------------------------------------------------------------------------
(* The table of reset handlers.                                            *)

(* Every module installs one handler, and there are more slots than        *)
(* modules: handle_snoop_reset always finds an empty one.                  *)
LEMMA RoomForSnoop ==
  ASSUME SlotInv, ~Installed(Snoop)
  PROVE  Installed(NoHandler)
<1> SUFFICES ASSUME ~Installed(NoHandler) PROVE FALSE OBVIOUS
<1>1. slot \in [1..NumSlots -> Handler]
  BY DEF SlotInv, Installed
<1>2. IsFiniteSet(1..NumSlots) /\ Cardinality(1..NumSlots) = NumSlots
  <2>1. NumSlots \in Nat BY LpcAssumption
  <2>2. NumSlots \in Int /\ 1 \in Int /\ (1 > NumSlots <=> NumSlots = 0) BY <2>1
  <2>3. IsFiniteSet(1..NumSlots) /\ Cardinality(1..NumSlots) = (IF 1 > NumSlots THEN 0 ELSE NumSlots - 1 + 1)
    BY <2>2, FS_Interval
  <2> QED BY <2>1, <2>3
<1>3. IsFiniteSet(Handler) /\ Cardinality(Handler) < Cardinality(1..NumSlots)
  BY <1>2, LpcAssumption
<1>4. \E i, j \in 1..NumSlots : i # j /\ slot[i] = slot[j]
  BY <1>1, <1>2, <1>3, FS_PigeonHole
<1> QED BY <1>4, <1>1, LpcAssumption DEF SlotInv, Installed

(* install_reset_handler puts a handler into one empty slot.               *)
LEMMA InstallOne ==
  ASSUME SlotInv, NEW h \in Handler \cup {Snoop}, ~Installed(h), install_reset_handler(h)
  PROVE  /\ slot' \in [1..NumSlots -> Handler \cup {Snoop, NoHandler}]
         /\ \A i, j \in 1..NumSlots : slot'[i] = slot'[j] /\ slot'[i] # NoHandler => i = j
         /\ \A g \in (Handler \cup {Snoop}) \ {h} : Installed(g)' <=> Installed(g)
         /\ Installed(NoHandler) => Installed(h)'
<1>1. CASE ~Installed(NoHandler)
  BY <1>1 DEF install_reset_handler, SlotInv, Installed
<1>2. CASE Installed(NoHandler)
  <2>1. PICK i \in 1..NumSlots : slot[i] = NoHandler /\ slot' = [slot EXCEPT ![i] = h]
    BY <1>2 DEF install_reset_handler, FirstSlot
  <2>2. \A j \in 1..NumSlots : slot'[j] = IF j = i THEN h ELSE slot[j]
    BY <2>1 DEF SlotInv
  <2>3. slot' \in [1..NumSlots -> Handler \cup {Snoop, NoHandler}]
    BY <2>1 DEF SlotInv
  <2>4. \A j \in 1..NumSlots : slot[j] # h BY DEF Installed
  <2>5. \A j, k \in 1..NumSlots : slot'[j] = slot'[k] /\ slot'[j] # NoHandler => j = k
    BY <2>2, <2>4 DEF SlotInv
  <2>6. \A g \in (Handler \cup {Snoop}) \ {h} : Installed(g)' <=> Installed(g)
    BY <2>1, <2>2, LpcAssumption DEF Installed
  <2> QED BY <2>2, <2>3, <2>5, <2>6 DEF Installed
<1> QED BY <1>1, <1>2

(* uninstall_reset_handler takes the handler out, and no other.            *)
LEMMA UninstallOne ==
  ASSUME SlotInv, NEW h \in Handler \cup {Snoop}, uninstall_reset_handler(h)
  PROVE  /\ slot' \in [1..NumSlots -> Handler \cup {Snoop, NoHandler}]
         /\ \A i, j \in 1..NumSlots : slot'[i] = slot'[j] /\ slot'[i] # NoHandler => i = j
         /\ \A g \in (Handler \cup {Snoop}) \ {h} : Installed(g)' <=> Installed(g)
         /\ ~Installed(h)'
<1>1. CASE ~Installed(h)
  BY <1>1 DEF uninstall_reset_handler, SlotInv, Installed
<1>2. CASE Installed(h)
  <2>1. PICK i \in 1..NumSlots : slot[i] = h /\ slot' = [slot EXCEPT ![i] = NoHandler]
    BY <1>2 DEF uninstall_reset_handler, FirstSlot
  <2>2. \A j \in 1..NumSlots : slot'[j] = IF j = i THEN NoHandler ELSE slot[j]
    BY <2>1 DEF SlotInv
  <2>3. slot' \in [1..NumSlots -> Handler \cup {Snoop, NoHandler}]
    BY <2>1 DEF SlotInv
  <2>4. h # NoHandler BY LpcAssumption
  <2>5. \A j, k \in 1..NumSlots : slot'[j] = slot'[k] /\ slot'[j] # NoHandler => j = k
    BY <2>2 DEF SlotInv
  <2>6. \A g \in (Handler \cup {Snoop}) \ {h} : Installed(g)' <=> Installed(g)
    BY <2>1, <2>2, LpcAssumption DEF Installed
  <2>7. ~Installed(h)' BY <2>1, <2>2, <2>4 DEF Installed, SlotInv
  <2> QED BY <2>3, <2>5, <2>6, <2>7
<1> QED BY <1>1, <1>2

(* The table's part of the invariant.                                      *)
LEMMA SlotsRight == Spec => []SlotInv
<1>1. Init => SlotInv
  BY LpcAssumption DEF Init, SlotInv, Installed, Loaded
<1>2. ASSUME SlotInv, [Next]_vars PROVE SlotInv'
  <2> USE <1>2
  <2>1. ASSUME NEW h \in Handler, Install(h) PROVE SlotInv'
    <3>1. install_reset_handler(h) /\ ~Installed(h) /\ stage' = stage BY <2>1 DEF Install
    <3>2. Installed(Snoop)' <=> Installed(Snoop) BY <3>1, InstallOne, LpcAssumption
    <3>3. /\ slot' \in [1..NumSlots -> Handler \cup {Snoop, NoHandler}]
          /\ \A i, j \in 1..NumSlots : slot'[i] = slot'[j] /\ slot'[i] # NoHandler => i = j
      BY <3>1, InstallOne
    <3> QED BY <3>1, <3>2, <3>3 DEF SlotInv, Loaded
  <2>2. ASSUME NEW h \in Handler, Uninstall(h) PROVE SlotInv'
    <3>1. uninstall_reset_handler(h) /\ stage' = stage BY <2>2 DEF Uninstall
    <3>2. Installed(Snoop)' <=> Installed(Snoop) BY <3>1, UninstallOne, LpcAssumption
    <3>3. /\ slot' \in [1..NumSlots -> Handler \cup {Snoop, NoHandler}]
          /\ \A i, j \in 1..NumSlots : slot'[i] = slot'[j] /\ slot'[i] # NoHandler => i = j
      BY <3>1, UninstallOne
    <3> QED BY <3>1, <3>2, <3>3 DEF SlotInv, Loaded
  <2>3. CASE RegisterSnoop
    <3>1. install_reset_handler(Snoop) /\ stage = "out" /\ stage' = "hooked"
      BY <2>3 DEF RegisterSnoop
    <3>2. ~Installed(Snoop) BY <3>1 DEF SlotInv, Loaded
    <3>3. Installed(Snoop)' BY <3>1, <3>2, InstallOne, RoomForSnoop
    <3>4. /\ slot' \in [1..NumSlots -> Handler \cup {Snoop, NoHandler}]
          /\ \A i, j \in 1..NumSlots : slot'[i] = slot'[j] /\ slot'[i] # NoHandler => i = j
      BY <3>1, <3>2, InstallOne
    <3> QED BY <3>1, <3>3, <3>4 DEF SlotInv, Loaded
  <2>4. CASE UnhookSnoop
    <3>1. uninstall_reset_handler(Snoop) /\ stage' = "unhooked" BY <2>4 DEF UnhookSnoop
    <3>2. ~Installed(Snoop)' BY <3>1, UninstallOne
    <3>3. /\ slot' \in [1..NumSlots -> Handler \cup {Snoop, NoHandler}]
          /\ \A i, j \in 1..NumSlots : slot'[i] = slot'[j] /\ slot'[i] # NoHandler => i = j
      BY <3>1, UninstallOne
    <3> QED BY <3>1, <3>2, <3>3 DEF SlotInv, Loaded
  <2>5. CASE ListSnoop \/ StartSnoop \/ FreeSnoop \/ UnlistSnoop
    BY <2>5 DEF ListSnoop, StartSnoop, FreeSnoop, UnlistSnoop, SlotInv, Loaded, Installed
  <2>6. CASE UNCHANGED <<slot, stage>>
    BY <2>6 DEF SlotInv, Loaded, Installed
  <2>7. CASE UNCHANGED vars
    BY <2>6, <2>7 DEF vars
  <2>8. ASSUME Next,
               \A h \in Handler : ~Install(h) /\ ~Uninstall(h),
               ~RegisterSnoop, ~UnhookSnoop,
               ~(ListSnoop \/ StartSnoop \/ FreeSnoop \/ UnlistSnoop)
        PROVE  UNCHANGED <<slot, stage>>
    BY <2>8 DEF Next, WaitOnReset, Return, Signal, Leave, SwitchIrq, HostWrite, ClearFlag, StoreCode,
       Reset, ReadCodes, CopyFirst, CopyRest, ReadReturns
  <2> QED BY <2>1, <2>2, <2>3, <2>4, <2>5, <2>6, <2>7, <2>8
<1> QED BY <1>1, <1>2, PTL DEF Spec

(* A reset never calls into a recorder whose rings are freed, wherever it  *)
(* falls among the steps of unloading (unregister_snoop_hal_module).       *)
THEOREM CallbacksLive == Spec => []CallbackFindsLive
<1>1. SlotInv => CallbackFindsLive
  BY DEF SlotInv, Loaded, CallbackFindsLive, CallsSnoop, Live
<1> QED BY <1>1, SlotsRight, PTL

----------------------------------------------------------------------------
(* The port.                                                               *)

(* The port's part of the invariant.                                       *)
LEMMA PortRight == Spec => []PortInv
<1>1. Init => PortInv
  <2>1. 0 \in Code BY LpcAssumption
  <2> QED BY <2>1, Zenon DEF Init, PortInv, LastCodeKept
<1>2. ASSUME PortInv, [Next]_vars PROVE PortInv'
  <2> USE <1>2
  <2>0. setting.codes \in 0..MaxCode BY LpcAssumption DEF PortInv
  <2>1. CASE HostWrite
    <3>1. latch' = latch + 1 /\ flag' = TRUE /\ latch < setting.codes BY <2>1 DEF HostWrite
    <3>2. latch' \in Code BY <3>1, <2>0, LpcAssumption DEF PortInv
    <3> QED BY <2>1, <3>1, <3>2 DEF HostWrite, PortInv, LastCodeKept, ringVars
  <2>2. CASE ClearFlag
    BY <2>2 DEF ClearFlag, PortInv, LastCodeKept, ringVars
  <2>3. CASE StoreCode
    BY <2>3 DEF StoreCode, Store, PortInv, LastCodeKept, Tasks
  <2>4. CASE SwitchIrq
    BY <2>4 DEF SwitchIrq, PortInv, LastCodeKept, ringVars, hwVars
  <2>5. CASE RegisterSnoop \/ ListSnoop \/ StartSnoop \/ UnhookSnoop \/ FreeSnoop \/ UnlistSnoop
    BY <2>5 DEF RegisterSnoop, ListSnoop, StartSnoop, UnhookSnoop, FreeSnoop, UnlistSnoop,
       Tasks, PortInv, LastCodeKept, ringVars, hwVars
  <2>6. CASE UNCHANGED <<setting, stage, irqOn, hwVars, last>>
    BY <2>6 DEF PortInv, LastCodeKept, hwVars
  <2>7. CASE UNCHANGED vars
    BY <2>6, <2>7 DEF vars, hwVars, ringVars
  <2>8. ASSUME Next, ~HostWrite, ~ClearFlag, ~StoreCode, ~SwitchIrq,
               ~(RegisterSnoop \/ ListSnoop \/ StartSnoop \/ UnhookSnoop \/ FreeSnoop \/ UnlistSnoop)
        PROVE  UNCHANGED <<setting, stage, irqOn, hwVars, last>>
    BY <2>8 DEF Next, WaitOnReset, Return, Signal, Leave, Install, Uninstall, Reset, ReadCodes,
       CopyFirst, CopyRest, ReadReturns, hwVars, ringVars
  <2> QED BY <2>1, <2>2, <2>3, <2>4, <2>5, <2>6, <2>7, <2>8
<1> QED BY <1>1, <1>2, PTL DEF Spec

(* The newest code is stored, or the flag still announces it, whatever the *)
(* host writes between the steps of ast_snoop_irq_handler.                 *)
THEOREM NewestKept == Spec => []LastCodeKept
<1>1. PortInv => LastCodeKept BY DEF PortInv
<1> QED BY <1>1, PortRight, PTL

----------------------------------------------------------------------------
(* The rings.                                                              *)

(* What handle_snoop_reset copies is what a reader of the previous codes   *)
(* gets back.                                                              *)
LEMMA PreviousGet ==
  ASSUME NEW q, NEW r \in Ring, NEW s \in Seq(Code), Holds(r, s),
         NEW data \in [Slots -> Byte],
         q = [data |-> Overwrite(data, Get(r)), in |-> r.size, out |-> 0, size |-> r.size]
  PROVE  /\ q \in Ring /\ q.size = Len(LastCodes(s))
         /\ IF AtSeam(r) THEN SubSeq(Get(q), 1, BufSize - 1) = Tail(LastCodes(s))
            ELSE Get(q) = LastCodes(s)
<1>1. Get(r) \in Seq(Byte) BY CopyType
<1>2. /\ r.size = Len(LastCodes(s)) /\ r.size \in Nat /\ r.size \in 0..BufSize
      /\ Get(r) = (IF AtSeam(r) THEN Tail(LastCodes(s)) ELSE LastCodes(s))
      /\ Len(Get(r)) = (IF AtSeam(r) THEN BufSize - 1 ELSE r.size)
  BY GetIsTail, RingAssumption DEF Ring
<1>3. Overwrite(data, Get(r)) \in [Slots -> Byte]
  BY <1>1, ElementOfSeq, LenProperties DEF Overwrite
<1>4. q \in Ring
  BY <1>2, <1>3, RingAssumption DEF Ring, Slots, Byte
<1>5. Get(q) = [i \in 1..(r.size - 0) |-> Overwrite(data, Get(r))[0 + i - 1]]
  <2>1. q.data = Overwrite(data, Get(r)) /\ q.in = r.size /\ q.out = 0 OBVIOUS
  <2>2. ~Wrapped(q) BY <2>1, <1>2 DEF Wrapped
  <2>3. Get(q) = [i \in 1..(q.in - q.out) |-> q.data[q.out + i - 1]]
    BY <2>2 DEF Get, FirstCopy
  <2> QED BY <2>1, <2>3
<1>6. ASSUME NEW i \in 1..Len(Get(r)), i \in 1..r.size PROVE Get(q)[i] = Get(r)[i]
  <2>1. i - 1 \in Slots /\ i - 1 + 1 = i /\ i \in DOMAIN Get(r) /\ 0 + i - 1 = i - 1
        /\ i \in 1..(r.size - 0)
    BY <1>1, <1>2, <1>6, LenProperties, RingAssumption DEF Slots
  <2>2. Overwrite(data, Get(r))[i - 1] = Get(r)[i] BY <2>1 DEF Overwrite
  <2> QED BY <2>1, <2>2, <1>5
<1>7. Get(q) \in Seq(Byte) BY <1>4, CopyType
<1>8. Len(Get(q)) = r.size
  <2>1. DOMAIN Get(q) = 1..(r.size - 0) BY <1>5
  <2>2. Len(Get(q)) \in Nat /\ DOMAIN Get(q) = 1..Len(Get(q)) BY <1>7, LenProperties
  <2> QED BY <2>1, <2>2, <1>2
<1>9. CASE ~AtSeam(r)
  <2>1. Len(Get(q)) = Len(Get(r)) /\ Len(Get(r)) = r.size BY <1>2, <1>8, <1>9
  <2>2. Get(q) = Get(r) BY <2>1, <1>1, <1>6, <1>7, SeqEqual
  <2> QED BY <2>2, <1>2, <1>4, <1>9
<1>10. CASE AtSeam(r)
  <2>1. r.size = BufSize /\ Len(Get(r)) = BufSize - 1 BY <1>2, <1>10 DEF AtSeam
  <2>2. \A i \in 1..(BufSize - 1) : i \in 1..Len(Get(q)) /\ i \in 1..Len(Get(r)) /\ i \in 1..r.size
    BY <2>1, <1>8, RingAssumption
  <2>3. \A i \in 1..(BufSize - 1) : Get(q)[i] \in Byte /\ Get(q)[i] = Get(r)[i]
    BY <2>2, <1>6, <1>7, ElementOfSeq
  <2>4. /\ SubSeq(Get(q), 1, BufSize - 1) \in Seq(Byte)
        /\ Len(SubSeq(Get(q), 1, BufSize - 1)) = BufSize - 1
        /\ \A i \in 1..(BufSize - 1) : SubSeq(Get(q), 1, BufSize - 1)[i] = Get(q)[i]
    <3>1. /\ 1 \in Int /\ BufSize - 1 \in Int /\ 1 <= BufSize - 1
          /\ BufSize - 1 - 1 + 1 = BufSize - 1 /\ \A i \in 1..(BufSize - 1) : 1 + i - 1 = i
      BY RingAssumption
    <3>2. /\ SubSeq(Get(q), 1, BufSize - 1) \in Seq(Byte)
          /\ Len(SubSeq(Get(q), 1, BufSize - 1)) = BufSize - 1 - 1 + 1
          /\ \A i \in 1..(BufSize - 1 - 1 + 1) :
               SubSeq(Get(q), 1, BufSize - 1)[i] = Get(q)[1 + i - 1]
      BY <3>1, <2>3, SubSeqProperties
    <3> QED BY <3>1, <3>2
  <2>5. SubSeq(Get(q), 1, BufSize - 1) = Get(r)
    BY <2>1, <2>3, <2>4, <1>1, SeqEqual
  <2> QED BY <2>5, <1>2, <1>4, <1>10
<1> QED BY <1>9, <1>10

(* The rings' part of the invariant, from the table's and the port's.      *)
LEMMA RingsRight == Spec => []RingInv
<1>1. Init => RingInv
  <2> SUFFICES ASSUME Init PROVE RingInv OBVIOUS
  <2>1. NewRing \in Ring /\ Holds(NewRing, <<>>) BY NewRingHolds
  <2>2. <<>> \in Seq(Code) OBVIOUS
  <2>3. stage = "out" BY DEF Init
  <2>4. PreviousIsLastBoot BY <2>3 DEF PreviousIsLastBoot
  <2> QED BY <2>1, <2>2, <2>3, <2>4 DEF Init, RingInv
<1>2. ASSUME SlotInv, PortInv, RingInv, [Next]_vars PROVE RingInv'
  <2> USE <1>2
  <2>1. CASE RegisterSnoop
    <3>1. /\ cur' = NewRing /\ prev' = NewRing /\ stored' = <<>> /\ before' = <<>>
          /\ seam' = FALSE /\ stage' = "hooked"
      BY <2>1 DEF RegisterSnoop
    <3>2. NewRing \in Ring /\ Holds(NewRing, <<>>) /\ <<>> \in Seq(Code) BY NewRingHolds
    <3>3. /\ NewRing.size = Len(LastCodes(<<>>)) /\ Get(NewRing) = LastCodes(<<>>)
      <4>1. ~AtSeam(NewRing) BY RingAssumption DEF AtSeam, NewRing
      <4> QED BY <4>1, <3>2, GetIsTail
    <3>4. PreviousIsLastBoot' BY <3>1, <3>3 DEF PreviousIsLastBoot
    <3> QED BY <3>1, <3>2, <3>4 DEF RingInv
  <2>2. CASE StoreCode
    <3>1. /\ cur' = Put(cur, latch) /\ stored' = Append(stored, latch)
          /\ UNCHANGED <<prev, before, seam, stage>> /\ stage = "running"
      BY <2>2 DEF StoreCode, Store, PortInv
    <3>2. cur' \in Ring /\ Holds(cur', stored')
      BY <3>1, PutHolds DEF RingInv, PortInv
    <3>3. stored' \in Seq(Code) BY <3>1 DEF RingInv, PortInv
    <3>4. PreviousIsLastBoot' BY <3>1 DEF RingInv, PreviousIsLastBoot
    <3> QED BY <3>1, <3>2, <3>3, <3>4 DEF RingInv
  <2>3. CASE Reset
    <3>1. stage' = stage BY <2>3 DEF Reset
    <3>2. CASE stage \in {"in", "running"}
      <4>1. CallsSnoop BY <3>2 DEF SlotInv, Loaded, CallsSnoop, Listed
      <4>2. /\ prev' = [data |-> Overwrite(prev.data, Get(cur)), in |-> cur.size,
                        out |-> 0, size |-> cur.size]
            /\ cur' = [cur EXCEPT !.in = 0, !.out = 0, !.size = 0]
            /\ before' = stored /\ seam' = AtSeam(cur) /\ stored' = <<>>
        BY <4>1, <3>2, <2>3 DEF Reset, handle_snoop_reset
      <4>3. prev.data \in [Slots -> Byte] BY DEF RingInv, Ring, Byte
      <4>4. /\ prev' \in Ring /\ prev'.size = Len(LastCodes(stored))
            /\ IF AtSeam(cur) THEN SubSeq(Get(prev'), 1, BufSize - 1) = Tail(LastCodes(stored))
               ELSE Get(prev') = LastCodes(stored)
        <5>1. cur \in Ring /\ stored \in Seq(Code) /\ Holds(cur, stored) BY DEF RingInv
        <5>2. \A q : q = [data |-> Overwrite(prev.data, Get(cur)), in |-> cur.size,
                          out |-> 0, size |-> cur.size]
                     => /\ q \in Ring /\ q.size = Len(LastCodes(stored))
                        /\ IF AtSeam(cur)
                           THEN SubSeq(Get(q), 1, BufSize - 1) = Tail(LastCodes(stored))
                           ELSE Get(q) = LastCodes(stored)
          BY <5>1, <4>3, PreviousGet
        <5> QED BY <5>2, <4>2
      <4>5. PreviousIsLastBoot' BY <4>2, <4>4 DEF PreviousIsLastBoot
      <4>6. cur' \in Ring /\ Holds(cur', <<>>)
        <5>1. cur \in Ring /\ BufSize \in Nat /\ BufSize >= 2 BY RingAssumption DEF RingInv
        <5>2. cur'.in = 0 /\ cur'.out = 0 /\ cur'.size = 0 BY <5>1, <4>2 DEF Ring
        <5>3. cur' \in Ring
          <6>1. 0 \in 0..BufSize /\ 0 \in Slots BY <5>1 DEF Slots
          <6> QED BY <6>1, <5>1, <4>2, Zenon DEF Ring
        <5>4. Len(<<>>) = 0 OBVIOUS
        <5>5. 0 \in Slots /\ \A i \in Slots : ~(i < 0) BY <5>1 DEF Slots
        <5> QED BY <5>1, <5>2, <5>3, <5>4, <5>5 DEF Holds
      <4>7. seam' \in BOOLEAN BY <4>2 DEF AtSeam
      <4> QED BY <4>2, <4>4, <4>5, <4>6, <4>7, <3>1, <3>2 DEF RingInv
    <3>3. CASE stage = "hooked"
      <4>1. ~CallsSnoop BY <3>3 DEF CallsSnoop, Listed
      <4>2. /\ UNCHANGED <<cur, prev>> /\ before' = stored /\ seam' = AtSeam(cur)
            /\ stored' = <<>>
        BY <4>1, <3>3, <2>3 DEF Reset
      <4>3. stored = <<>> /\ before = <<>> /\ ~seam /\ prev = NewRing BY <3>3 DEF RingInv
      <4>4. cur.size = 0 BY <4>3, RingAssumption DEF RingInv, Holds
      <4>5. ~AtSeam(cur) BY <4>4, RingAssumption DEF AtSeam
      <4>6. PreviousIsLastBoot'
        BY <4>2, <4>3, <4>5, <3>1, <3>3 DEF RingInv, PreviousIsLastBoot
      <4>7. cur \in Ring /\ Holds(cur, <<>>) /\ <<>> \in Seq(Code) BY <4>3 DEF RingInv
      <4>8. cur' \in Ring /\ prev' \in Ring BY <4>2 DEF RingInv
      <4>9. stored' = <<>> /\ before' = <<>> /\ seam' = FALSE /\ prev' = NewRing
        <5>1. seam' = FALSE BY <4>2, <4>5
        <5> QED BY <5>1, <4>2, <4>3
      <4>10. Holds(cur', stored') BY <4>7, <4>9, <4>2
      <4> QED BY <4>6, <4>7, <4>8, <4>9, <4>10 DEF RingInv
    <3>4. CASE ~Loaded
      <4>1. UNCHANGED <<cur, prev, before, seam, stored>>
        BY <3>4, <2>3 DEF Reset, Loaded, SlotInv, CallsSnoop
      <4> QED BY <4>1, <3>1 DEF RingInv, PreviousIsLastBoot
    <3> QED BY <3>2, <3>3, <3>4 DEF Loaded
  <2>4. CASE ListSnoop \/ StartSnoop \/ UnhookSnoop \/ FreeSnoop \/ UnlistSnoop
    <3>1. UNCHANGED ringVars /\ stage' # "hooked" /\ (stage' \in {"in", "running"} => Loaded)
      BY <2>4 DEF ListSnoop, StartSnoop, UnhookSnoop, FreeSnoop, UnlistSnoop, Loaded
    <3> QED BY <3>1 DEF RingInv, PreviousIsLastBoot, ringVars, Loaded
  <2>5. CASE UNCHANGED <<stage, cur, prev, stored, before, seam>>
    BY <2>5 DEF RingInv, PreviousIsLastBoot
  <2>6. CASE UNCHANGED vars
    BY <2>5, <2>6 DEF vars, ringVars
  <2>7. ASSUME Next, ~RegisterSnoop, ~StoreCode, ~Reset,
               ~(ListSnoop \/ StartSnoop \/ UnhookSnoop \/ FreeSnoop \/ UnlistSnoop)
        PROVE  UNCHANGED <<stage, cur, prev, stored, before, seam>>
    BY <2>7 DEF Next, WaitOnReset, Return, Signal, Leave, Install, Uninstall, SwitchIrq, HostWrite,
       ClearFlag, ReadCodes, CopyFirst, CopyRest, ReadReturns, ringVars
  <2> QED BY <2>1, <2>2, <2>3, <2>4, <2>5, <2>6, <2>7
<1> QED BY <1>1, <1>2, SlotsRight, PortRight, PTL DEF Spec

(* At any time the ring of the current codes gives out the last codes      *)
(* stored, in order, as many as there is room for, but for the oldest one  *)
(* at the seam (ast_snoop_irq_handler, snoop_kfifo_get).                   *)
THEOREM CurrentCodes == Spec => []CurrentIsTail
<1>1. RingInv => CurrentIsTail
  BY GetIsTail DEF RingInv, CurrentIsTail
<1> QED BY <1>1, RingsRight, PTL

(* After any number of resets the previous codes are those of the boot the *)
(* last of them ended, however full the table of handlers                  *)
(* (handle_snoop_reset).                                                   *)
THEOREM PreviousCodes == Spec => []PreviousIsLastBoot
<1>1. RingInv => PreviousIsLastBoot BY DEF RingInv
<1> QED BY <1>1, RingsRight, PTL

----------------------------------------------------------------------------
(* The reads.                                                              *)

(* A read begins with the size of its ring.                                *)
LEMMA ReadBegins ==
  ASSUME RingInv, NEW which \in {"cur", "prev"}, ReadCodes(which)
  PROVE  ReadInv'
<1>1. /\ rd' = [pc |-> "sized", which |-> which, buf |-> <<>>, size |-> RingOf(which).size,
                from |-> IF which = "cur" THEN Len(stored) ELSE 0,
                cut |-> IF which = "cur" THEN AtSeam(cur) ELSE seam]
      /\ stage \in {"in", "running"} /\ UNCHANGED <<cur, prev, stage, stored, seam>>
  BY DEF ReadCodes, ringVars
<1>2. /\ cur \in Ring /\ prev \in Ring /\ seam \in BOOLEAN /\ Len(stored) \in Nat
      /\ cur.size \in 0..BufSize /\ prev.size \in 0..BufSize
  BY DEF RingInv, Ring
<1>3. <<>> \in Seq(Byte) /\ AtSeam(cur) \in BOOLEAN BY DEF AtSeam
<1>4. rd' \in [pc : {"idle", "sized", "rest", "done", "wild"}, which : {"cur", "prev"},
               size : 0..BufSize, buf : Seq(Byte), from : Nat, cut : BOOLEAN]
  BY <1>1, <1>2, <1>3 DEF RingOf
<1>5. CASE which = "cur"
  <2>1. cur.size = IF Len(stored) < BufSize THEN Len(stored) ELSE BufSize
    BY DEF RingInv, Holds
  <2>2. /\ rd'.pc = "sized" /\ rd'.which = "cur" /\ rd'.from = Len(stored)
        /\ rd'.size = cur.size /\ rd'.cut = AtSeam(cur)
    BY <1>1, <1>5 DEF RingOf
  <2>3. ~rd'.cut => CurrentRead' BY <2>1, <2>2, <1>1, <1>2 DEF CurrentRead
  <2> QED BY <2>2, <2>3, <1>1, <1>4 DEF ReadInv
<1>6. CASE which = "prev"
  <2>1. rd'.pc = "sized" /\ rd'.which = "prev" /\ rd'.size = prev.size /\ rd'.cut = seam
    BY <1>1, <1>6 DEF RingOf
  <2>2. ~rd'.cut => PreviousRead' BY <2>1, <1>1 DEF PreviousRead
  <2> QED BY <2>1, <2>2, <1>1, <1>4 DEF ReadInv
<1> QED BY <1>5, <1>6

(* The first copy of the current codes.                                    *)
LEMMA FirstOfCurrent ==
  ASSUME RingInv, ReadInv, CopyFirst, rd.which = "cur", ~rd.cut
  PROVE  CurrentRead'
<1>1. /\ rd.pc = "sized" /\ UNCHANGED <<cur, stored>>
      /\ rd' = [rd EXCEPT !.buf = FirstCopy(Read), !.pc = IF Wrapped(Read) THEN "rest" ELSE "done"]
  BY DEF CopyFirst, ringVars
<1>2. /\ cur \in Ring /\ stored \in Seq(Code) /\ Holds(cur, stored) /\ Len(stored) \in Nat
      /\ cur.in \in Int /\ cur.in >= 0 /\ cur.in < BufSize /\ BufSize \in Nat
  BY RingAssumption DEF RingInv, Holds, Slots
<1>3. Read = cur BY DEF Read, RingOf
<1>4. /\ rd'.buf = FirstCopy(cur) /\ rd'.pc = (IF Wrapped(cur) THEN "rest" ELSE "done")
      /\ rd'.from = rd.from /\ rd'.size = rd.size /\ rd.from \in Nat
  BY <1>1, <1>3 DEF ReadInv
<1>5. /\ rd.from <= Len(stored) /\ ~AtSeam(cur)
      /\ rd.size = IF rd.from < BufSize THEN rd.from ELSE BufSize
  BY <1>1 DEF ReadInv, CurrentRead
<1> DEFINE F == FirstCopy(cur)
<1>6. CASE Wrapped(cur)
  <2>1. /\ cur.size = BufSize /\ Len(stored) >= BufSize /\ Len(F) = BufSize - cur.in
        /\ \A i \in 1..(BufSize - cur.in) : F[i] = stored[Len(stored) - BufSize + i]
    BY <1>2, <1>5, <1>6, FirstOfTail
  <2> HIDE DEF F
  <2>5. Len(stored) - BufSize \in Nat BY <2>1, <1>2
  <2>6. PICK d \in Nat : d = Len(stored) - BufSize BY <2>5
  <2>2. d + Len(F) = Len(stored) - cur.in /\ rd.from <= d + BufSize
        /\ Len(F) + cur.in >= BufSize /\ d + Len(F) <= Len(stored)
    BY <2>1, <2>6, <1>2, <1>4, <1>5
  <2>4. rd'.buf = F /\ rd'.pc = "rest" BY <1>4, <1>6 DEF F
  <2>7. Len(F) = BufSize - cur.in /\ \A i \in 1..Len(F) : F[i] = stored[d + i]
    BY <2>1, <2>6
  <2>3. RunAt(d)' BY <2>2, <2>4, <2>7, <1>1 DEF RunAt
  <2> QED BY <2>1, <2>2, <2>3, <2>4, <1>1, <1>4, <1>5 DEF CurrentRead
<1>7. CASE ~Wrapped(cur)
  <2>1. /\ Len(stored) < BufSize /\ Len(F) = Len(stored)
        /\ \A i \in 1..Len(stored) : F[i] = stored[i]
    BY <1>2, <1>5, <1>7, FirstOfTail
  <2> HIDE DEF F
  <2>2. rd.size = rd.from /\ rd.size <= Len(F) /\ rd.from <= 0 + rd.size /\ 0 + Len(F) <= Len(stored)
    BY <2>1, <1>2, <1>4, <1>5
  <2>3. \A i \in 1..Len(F) : F[i] = stored[0 + i] BY <2>1, <1>2
  <2>4. rd'.buf = F /\ rd'.pc = "done" BY <1>4, <1>7 DEF F
  <2>5. RunAt(0)' BY <2>2, <2>3, <2>4, <1>1 DEF RunAt
  <2>6. 0 \in Nat OBVIOUS
  <2> QED BY <2>2, <2>4, <2>5, <2>6, <1>1, <1>4, <1>5 DEF CurrentRead
<1> QED BY <1>6, <1>7

(* The second copy of the current codes.                                   *)
LEMMA RestOfCurrent ==
  ASSUME RingInv, ReadInv, CopyRest, rd.which = "cur", ~rd.cut
  PROVE  /\ CurrentRead' /\ rd'.pc = "done"
         /\ rd' = [rd EXCEPT !.buf = @ \o RestCopy(cur), !.pc = "done"]
<1>1. /\ rd.pc = "rest" /\ UNCHANGED <<cur, stored>>
      /\ rd' = IF Read.out = 0 THEN [rd EXCEPT !.pc = "wild"]
               ELSE [rd EXCEPT !.buf = @ \o RestCopy(Read), !.pc = "done"]
  BY DEF CopyRest, ringVars
<1>2. /\ cur \in Ring /\ stored \in Seq(Code) /\ Holds(cur, stored) /\ Len(stored) \in Nat
      /\ cur.in \in Int /\ cur.in >= 0 /\ cur.in < BufSize /\ BufSize \in Nat
  BY RingAssumption DEF RingInv, Holds, Slots
<1>3. Read = cur BY DEF Read, RingOf
<1>4. /\ rd.from <= Len(stored) /\ ~AtSeam(cur) /\ cur.size = BufSize
      /\ rd.size = (IF rd.from < BufSize THEN rd.from ELSE BufSize)
      /\ Len(rd.buf) + cur.in >= BufSize
      /\ \E d \in Nat : RunAt(d) /\ d + Len(rd.buf) = Len(stored) - cur.in /\ rd.from <= d + BufSize
  BY <1>1 DEF ReadInv, CurrentRead
<1> DEFINE T == RestCopy(cur)
<1>5. /\ cur.out # 0 /\ T \in Seq(Byte) /\ Len(T) = cur.in
      /\ \A i \in 1..cur.in : T[i] = stored[Len(stored) - cur.in + i]
  BY <1>2, <1>4, RestOfTail
<1>6. rd' = [rd EXCEPT !.buf = @ \o T, !.pc = "done"] BY <1>1, <1>3, <1>5
<1>7. rd.buf \in Seq(Byte) /\ Len(rd.buf) \in Nat /\ rd.from \in Nat /\ rd.size \in Nat
  BY DEF ReadInv
<1>8. /\ rd'.buf = rd.buf \o T /\ rd'.pc = "done" /\ rd'.from = rd.from /\ rd'.size = rd.size
  BY <1>6 DEF ReadInv
<1> HIDE DEF T
<1>15. /\ Len(rd.buf \o T) = Len(rd.buf) + Len(T)
       /\ \A i \in 1..(Len(rd.buf) + Len(T)) :
            (rd.buf \o T)[i] = IF i <= Len(rd.buf) THEN rd.buf[i] ELSE T[i - Len(rd.buf)]
  <2> DEFINE B == rd.buf
  <2>1. B \in Seq(Byte) BY <1>7
  <2> HIDE DEF B
  <2>2. /\ Len(B \o T) = Len(B) + Len(T)
        /\ \A i \in 1..(Len(B) + Len(T)) :
             (B \o T)[i] = IF i <= Len(B) THEN B[i] ELSE T[i - Len(B)]
    BY <2>1, <1>5, ConcatProperties
  <2> QED BY <2>2 DEF B
<1>9. /\ Len(rd.buf \o T) = Len(rd.buf) + cur.in
      /\ \A i \in 1..(Len(rd.buf) + cur.in) :
           (rd.buf \o T)[i] = IF i <= Len(rd.buf) THEN rd.buf[i] ELSE T[i - Len(rd.buf)]
  BY <1>5, <1>15
<1>10. PICK d \in Nat : RunAt(d) /\ d + Len(rd.buf) = Len(stored) - cur.in /\ rd.from <= d + BufSize
  BY <1>4
<1>11. ASSUME NEW i \in 1..(Len(rd.buf) + cur.in) PROVE (rd.buf \o T)[i] = stored[d + i]
  <2>1. CASE i <= Len(rd.buf)
    <3>1. i \in 1..Len(rd.buf) BY <2>1, <1>7
    <3>2. rd.buf[i] = stored[d + i] BY <3>1, <1>10 DEF RunAt
    <3> QED BY <3>2, <2>1, <1>9
  <2>2. CASE ~(i <= Len(rd.buf))
    <3>1. i - Len(rd.buf) \in 1..cur.in BY <2>2, <1>2, <1>7
    <3>2. Len(stored) - cur.in + (i - Len(rd.buf)) = d + i BY <1>2, <1>7, <1>10
    <3>3. T[i - Len(rd.buf)] = stored[d + i] BY <3>1, <3>2, <1>5
    <3> QED BY <3>3, <2>2, <1>9
  <2> QED BY <2>1, <2>2
<1>12. /\ rd.size <= Len(rd.buf) + cur.in /\ rd.from <= d + rd.size
       /\ d + (Len(rd.buf) + cur.in) <= Len(stored)
  BY <1>2, <1>4, <1>7, <1>10
<1>13. RunAt(d)' BY <1>1, <1>8, <1>9, <1>11, <1>12 DEF RunAt
<1>14. CurrentRead' BY <1>1, <1>4, <1>8, <1>9, <1>12, <1>13 DEF CurrentRead
<1> QED BY <1>6, <1>8, <1>14 DEF T

(* A code stored into the ring that is being read leaves the run as it is: *)
(* it is copied already, or stands below the write index, which moves on.  *)
LEMMA StoreKeepsRun ==
  ASSUME RingInv, PortInv, ReadInv, StoreCode, rd.pc # "idle", rd.which = "cur", ~rd'.cut
  PROVE  CurrentRead' /\ ~rd.cut
<1>1. /\ cur' = Put(cur, latch) /\ stored' = Append(stored, latch)
      /\ rd' = [rd EXCEPT !.cut = @ \/ (rd.pc # "idle" /\ rd.which = "cur" /\ AtSeam(cur'))]
  BY DEF StoreCode, Store
<1>2. /\ rd'.pc = rd.pc /\ rd'.buf = rd.buf /\ rd'.from = rd.from /\ rd'.size = rd.size
      /\ rd'.cut = (rd.cut \/ AtSeam(cur')) /\ rd.cut \in BOOLEAN
  BY <1>1 DEF ReadInv
<1>3. ~rd.cut /\ ~AtSeam(cur)' BY <1>2
<1>4. CurrentRead BY <1>3 DEF ReadInv
<1>5. /\ Len(stored) \in Nat /\ Len(stored') = Len(stored) + 1
      /\ \A i \in 1..Len(stored) : stored'[i] = stored[i]
  BY <1>1 DEF RingInv, PortInv
<1>6. Len(rd.buf) \in Nat /\ rd.from \in Nat /\ rd.size \in Nat BY DEF ReadInv
<1>7. ASSUME NEW d \in Nat, RunAt(d) PROVE RunAt(d)'
  <2>1. d + Len(rd.buf) <= Len(stored) BY <1>7 DEF RunAt
  <2>2. ASSUME NEW i \in 1..Len(rd.buf) PROVE rd.buf[i] = stored'[d + i]
    <3>1. d + i \in 1..Len(stored) BY <2>1, <1>5, <1>6
    <3>2. rd.buf[i] = stored[d + i] BY <1>7 DEF RunAt
    <3> QED BY <3>1, <3>2, <1>5
  <2>3. d + Len(rd.buf) <= Len(stored') BY <2>1, <1>5, <1>6
  <2> QED BY <2>2, <2>3, <1>2 DEF RunAt
<1>8. rd'.from <= Len(stored') BY <1>2, <1>4, <1>5, <1>6 DEF CurrentRead
<1>9. ASSUME rd.pc = "rest"
      PROVE  /\ cur'.size = BufSize /\ Len(rd.buf) + cur'.in >= BufSize
             /\ \E d \in Nat : RunAt(d)' /\ d + Len(rd.buf) = Len(stored') - cur'.in
                               /\ rd.from <= d + BufSize
  <2>1. /\ cur.size = BufSize /\ Len(rd.buf) + cur.in >= BufSize /\ ~AtSeam(cur)
    BY <1>4, <1>9 DEF CurrentRead
  <2>2. PICK d \in Nat : RunAt(d) /\ d + Len(rd.buf) = Len(stored) - cur.in /\ rd.from <= d + BufSize
    BY <1>4, <1>9 DEF CurrentRead
  <2>3. cur'.size = BufSize /\ cur'.in = Succ(cur.in) BY <2>1, <1>1 DEF Put
  <2>4. cur.in \in Int /\ cur.in # BufSize - 1 /\ BufSize \in Nat
    BY <2>1, RingAssumption DEF AtSeam, RingInv, Holds, Slots
  <2>5. cur'.in = cur.in + 1 BY <2>3, <2>4 DEF Succ
  <2>8. Len(rd.buf) + cur'.in >= BufSize BY <2>1, <2>4, <2>5, <1>6
  <2>9. d + Len(rd.buf) = Len(stored') - cur'.in
    <3>1. d + Len(rd.buf) = Len(stored) - cur.in BY <2>2
    <3>2. \A a, b \in Int : (a + 1) - (b + 1) = a - b OBVIOUS
    <3>3. Len(stored') - cur'.in = Len(stored) - cur.in
      BY <3>2, <2>4, <2>5, <1>5
    <3> QED BY <3>1, <3>3
  <2>6. Len(rd.buf) + cur'.in >= BufSize /\ d + Len(rd.buf) = Len(stored') - cur'.in
    BY <2>8, <2>9
  <2>7. RunAt(d)' BY <2>2, <1>7
  <2> QED BY <2>2, <2>3, <2>6, <2>7
<1>10. ASSUME rd.pc = "done"
       PROVE  /\ rd.size <= Len(rd.buf)
              /\ \E d \in Nat : RunAt(d)' /\ rd.from <= d + rd.size
  BY <1>4, <1>7, <1>10 DEF CurrentRead
<1>11. rd.size = IF rd.from < BufSize THEN rd.from ELSE BufSize BY <1>4 DEF CurrentRead
<1> QED BY <1>2, <1>3, <1>8, <1>9, <1>10, <1>11 DEF CurrentRead

(* The part of the invariant about a read, from all the others.            *)
LEMMA ReadsRight == Spec => []ReadInv
<1> DEFINE ReadType == [pc : {"idle", "sized", "rest", "done", "wild"}, which : {"cur", "prev"},
                        size : 0..BufSize, buf : Seq(Byte), from : Nat, cut : BOOLEAN]
<1>1. Init => ReadInv
  <2> SUFFICES ASSUME Init PROVE ReadInv OBVIOUS
  <2>1. rd = [pc |-> "idle", which |-> "cur", size |-> 0, buf |-> <<>>, from |-> 0, cut |-> FALSE]
    BY DEF Init, Idle
  <2>2. <<>> \in Seq(Byte) /\ 0 \in 0..BufSize /\ 0 \in Nat BY RingAssumption
  <2> QED BY <2>1, <2>2 DEF ReadInv
<1>2. ASSUME RingInv, RingInv', PortInv, ReadInv, [Next]_vars PROVE ReadInv'
  <2> USE <1>2
  <2>0. cur \in Ring /\ prev \in Ring /\ Read \in Ring /\ rd \in ReadType
    BY DEF RingInv, Read, RingOf, ReadInv
  <2>1. ASSUME NEW which \in {"cur", "prev"}, ReadCodes(which) PROVE ReadInv'
    BY <2>1, ReadBegins
  <2>2. CASE CopyFirst
    <3>1. /\ rd' = [rd EXCEPT !.buf = FirstCopy(Read),
                              !.pc = IF Wrapped(Read) THEN "rest" ELSE "done"]
          /\ rd.pc = "sized" /\ UNCHANGED <<cur, prev, stage, seam>>
      BY <2>2 DEF CopyFirst, ringVars
    <3>2. FirstCopy(Read) \in Seq(Byte) BY <2>0, CopyType
    <3>3. /\ rd' \in ReadType /\ rd'.which = rd.which /\ rd'.cut = rd.cut /\ rd'.size = rd.size
          /\ rd'.buf = FirstCopy(Read) /\ rd'.pc = (IF Wrapped(Read) THEN "rest" ELSE "done")
      BY <3>1, <3>2, <2>0
    <3>4. rd.which = "cur" /\ ~rd.cut => CurrentRead' BY <2>2, FirstOfCurrent
    <3>5. ASSUME rd.which # "cur", ~rd.cut PROVE PreviousRead'
      <4>1. Read = prev BY <3>5 DEF Read, RingOf
      <4>2. ~Wrapped(prev) => Get(prev) = FirstCopy(prev) BY DEF Get
      <4>3. PreviousRead BY <3>1, <3>5 DEF ReadInv
      <4> QED BY <4>1, <4>2, <4>3, <3>1, <3>3 DEF PreviousRead
    <3> QED BY <3>1, <3>3, <3>4, <3>5 DEF ReadInv
  <2>3. CASE CopyRest
    <3>1. /\ rd.pc = "rest" /\ UNCHANGED <<cur, prev, stage, seam>>
          /\ rd' = IF Read.out = 0 THEN [rd EXCEPT !.pc = "wild"]
                   ELSE [rd EXCEPT !.buf = @ \o RestCopy(Read), !.pc = "done"]
      BY <2>3 DEF CopyRest, ringVars
    <3>2. rd' \in ReadType /\ rd'.which = rd.which /\ rd'.cut = rd.cut /\ rd'.size = rd.size
      <4>1. CASE Read.out = 0 BY <4>1, <3>1, <2>0
      <4>2. CASE Read.out # 0
        <5>1. rd.buf \o RestCopy(Read) \in Seq(Byte) BY <4>2, <2>0, CopyType, ConcatProperties
        <5> QED BY <5>1, <4>2, <3>1, <2>0
      <4> QED BY <4>1, <4>2
    <3>3. rd.which = "cur" /\ ~rd.cut => CurrentRead' /\ rd'.pc = "done"
      BY <2>3, RestOfCurrent
    <3>4. ASSUME rd.which # "cur", ~rd.cut PROVE PreviousRead' /\ rd'.pc = "done"
      <4>1. Read = prev BY <3>4 DEF Read, RingOf
      <4>2. ~seam /\ rd.size = prev.size /\ rd.buf = FirstCopy(prev) /\ Wrapped(prev)
        BY <3>1, <3>4 DEF ReadInv, PreviousRead
      <4>3. prev.out # 0 BY <4>2, <2>0 DEF Wrapped, Ring
      <4>4. rd'.pc = "done" /\ rd'.buf = rd.buf \o RestCopy(prev) BY <4>1, <4>3, <3>1, <2>0
      <4>5. rd'.buf = Get(prev) BY <4>2, <4>4 DEF Get
      <4> QED BY <4>2, <4>4, <4>5, <3>1, <3>2 DEF PreviousRead
    <3> QED BY <3>1, <3>2, <3>3, <3>4 DEF ReadInv
  <2>4. CASE ReadReturns
    <3>1. rd' = [pc |-> "idle", which |-> "cur", size |-> 0, buf |-> <<>>, from |-> 0,
                 cut |-> FALSE]
      BY <2>4 DEF ReadReturns, Idle
    <3>2. <<>> \in Seq(Byte) /\ 0 \in 0..BufSize /\ 0 \in Nat BY RingAssumption
    <3> QED BY <3>1, <3>2 DEF ReadInv
  <2>5. CASE StoreCode
    <3>1. /\ rd' = [rd EXCEPT !.cut = @ \/ (rd.pc # "idle" /\ rd.which = "cur" /\ AtSeam(cur'))]
          /\ UNCHANGED <<prev, stage, seam>>
      BY <2>5 DEF StoreCode, Store
    <3>2. AtSeam(cur') \in BOOLEAN BY DEF AtSeam
    <3>3. /\ rd' \in ReadType /\ rd'.pc = rd.pc /\ rd'.which = rd.which
      BY <3>1, <3>2, <2>0
    <3>4. CASE rd.pc = "idle" BY <3>3, <3>4 DEF ReadInv
    <3>5. CASE rd.which = "cur" /\ rd.pc # "idle"
      <4>1. ~rd'.cut => CurrentRead' /\ ~rd.cut BY <2>5, <3>5, StoreKeepsRun
      <4> QED BY <4>1, <3>1, <3>3, <3>5 DEF ReadInv
    <3>6. CASE rd.which = "prev" /\ rd.pc # "idle"
      <4>1. rd' = rd BY <3>1, <3>6, <2>0
      <4> QED BY <4>1, <3>1, <3>6 DEF ReadInv, PreviousRead
    <3> QED BY <3>4, <3>5, <3>6, <2>0
  <2>6. CASE Reset
    <3>1. rd' = [rd EXCEPT !.cut = rd.pc # "idle"] /\ stage' = stage BY <2>6 DEF Reset
    <3>2. /\ rd' \in ReadType /\ rd'.pc = rd.pc /\ rd'.cut = (rd.pc # "idle")
      BY <3>1, <2>0
    <3> QED BY <3>1, <3>2 DEF ReadInv
  <2>7. CASE RegisterSnoop \/ ListSnoop \/ StartSnoop \/ UnhookSnoop \/ FreeSnoop \/ UnlistSnoop
    <3>1. rd' = rd
      BY <2>7 DEF RegisterSnoop, ListSnoop, StartSnoop, UnhookSnoop, FreeSnoop, UnlistSnoop
    <3>2. CASE rd.pc = "idle" BY <3>1, <3>2 DEF ReadInv
    <3>3. CASE rd.pc # "idle"
      <4>1. stage' = "running" /\ UNCHANGED <<cur, prev, stored, seam>>
        BY <2>7, <3>3 DEF RegisterSnoop, ListSnoop, StartSnoop, UnhookSnoop, FreeSnoop,
           UnlistSnoop, ReadInv, ringVars
      <4> QED BY <4>1, <3>1 DEF ReadInv, CurrentRead, PreviousRead, RunAt
    <3> QED BY <3>2, <3>3
  <2>8. CASE UNCHANGED <<stage, cur, prev, stored, seam, rd>>
    BY <2>8 DEF ReadInv, CurrentRead, PreviousRead, RunAt
  <2>9. CASE UNCHANGED vars
    BY <2>8, <2>9 DEF vars, ringVars
  <2>10. ASSUME Next,
                \A which \in {"cur", "prev"} : ~ReadCodes(which),
                ~CopyFirst, ~CopyRest, ~ReadReturns, ~StoreCode, ~Reset,
                ~(RegisterSnoop \/ ListSnoop \/ StartSnoop \/ UnhookSnoop \/ FreeSnoop \/ UnlistSnoop)
         PROVE  UNCHANGED <<stage, cur, prev, stored, seam, rd>>
    BY <2>10 DEF Next, WaitOnReset, Return, Signal, Leave, Install, Uninstall, SwitchIrq, HostWrite,
       ClearFlag, ringVars
  <2> QED BY <2>1, <2>2, <2>3, <2>4, <2>5, <2>6, <2>7, <2>8, <2>9, <2>10
<1> QED BY <1>1, <1>2, RingsRight, PortRight, PTL DEF Spec

(* A read hands out consecutive codes, although the handler stores codes   *)
(* between its steps, unless the ring stands at its seam meanwhile or a    *)
(* reset falls into it (snoop_ioctlUnlocked, snoop_kfifo_get).             *)
THEOREM ReadsInOrder == Spec => []CodesReadInOrder
<1>1. RingInv /\ ReadInv => CodesReadInOrder
  <2> SUFFICES ASSUME RingInv, ReadInv PROVE CodesReadInOrder OBVIOUS
  <2>1. rd.pc = "wild" => rd.cut BY DEF ReadInv
  <2>2. ASSUME rd.pc = "done", ~rd.cut, rd.which = "cur"
        PROVE  rd.size <= Len(rd.buf) /\ CurrentRun
    <3>1. /\ rd.size <= Len(rd.buf) /\ \E d \in Nat : RunAt(d) /\ rd.from <= d + rd.size
      BY <2>2 DEF ReadInv, CurrentRead
    <3>2. PICK d \in Nat : RunAt(d) /\ rd.from <= d + rd.size BY <3>1
    <3>3. Len(rd.buf) \in Nat /\ rd.size \in Nat /\ Len(stored) \in Nat
      BY DEF ReadInv, RingInv
    <3>4. d + Len(rd.buf) <= Len(stored) BY <3>2 DEF RunAt
    <3>5. d \in 0..(Len(stored) - rd.size) BY <3>1, <3>3, <3>4
    <3>6. \A i \in 1..rd.size : i \in 1..Len(rd.buf) BY <3>1, <3>3
    <3>7. \A i \in 1..rd.size : rd.buf[i] = stored[d + i] BY <3>2, <3>6 DEF RunAt
    <3> QED BY <3>1, <3>2, <3>5, <3>7 DEF CurrentRun
  <2>3. ASSUME rd.pc = "done", ~rd.cut, rd.which # "cur"
        PROVE  rd.size <= Len(rd.buf) /\ PreviousRun
    <3>1. ~seam /\ rd.size = prev.size /\ rd.buf = Get(prev)
      BY <2>3 DEF ReadInv, PreviousRead
    <3>2. stage \in {"hooked", "in", "running"} BY <2>3 DEF ReadInv
    <3>3. Get(prev) = LastCodes(before) /\ prev.size = Len(LastCodes(before))
      BY <3>1, <3>2 DEF RingInv, PreviousIsLastBoot
    <3>4. rd.size \in Nat BY DEF ReadInv
    <3> QED BY <3>1, <3>3, <3>4 DEF PreviousRun
  <2> QED BY <2>1, <2>2, <2>3 DEF CodesReadInOrder
<1> QED BY <1>1, RingsRight, ReadsRight, PTL

(* Every variable keeps its type: the indexes stay inside the ring and the *)
(* count of waiters never goes below zero.                                 *)
THEOREM TypeCorrect == Spec => []TypeOK
<1>1. WaitInv => count \in Nat
  <2> SUFFICES ASSUME WaitInv PROVE count \in Nat OBVIOUS
  <2>1. IsFiniteSet(waiting) BY LpcAssumption, FS_Subset DEF WaitInv
  <2> QED BY <2>1, FS_CardinalityType DEF WaitInv
<1>2. WaitInv /\ SlotInv /\ PortInv /\ RingInv /\ ReadInv => TypeOK
  BY <1>1 DEF TypeOK, WaitInv, SlotInv, PortInv, RingInv, ReadInv, Byte
<1> QED BY <1>2, WaitersRight, SlotsRight, PortRight, RingsRight, ReadsRight, PTL
====
