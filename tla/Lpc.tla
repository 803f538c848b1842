---- MODULE Lpc ----
(***************************************************************************)
(* What an LPC reset of the host sets off: the waiters and the callback    *)
(* table of reset-src/resetmain.c, and its main customer, the recorder of  *)
(* BIOS POST codes (snoop-src/snoopmain.c with snoop_hw-ARM-AST-src/       *)
(* ast_snoop.c), which then turns the current codes into the previous      *)
(* ones.                                                                   *)
(*                                                                         *)
(* One core, no preemption in the kernel: a step of a task is interrupted  *)
(* by the reset and the snoop interrupt only, these not by each other, and *)
(* by nothing but the host's write while the snoop handler runs.           *)
(***************************************************************************)
EXTENDS SnoopRing, FiniteSets

CONSTANTS
  Task,       \* processes in the WAIT_ON_RESET ioctl
  Handler,    \* reset handlers of other modules
  Snoop,      \* handle_snoop_reset
  NumSlots,   \* RESET_MAX_CALLBACKS
  NoHandler,  \* an empty slot
  MaxCode,    \* bound: POST codes the host writes
  Settings    \* who is there: the tasks, the other handlers, whether codes
              \* are read, and how many codes and resets the host sends

ASSUME LpcAssumption ==
  /\ MaxCode \in Nat /\ NumSlots \in Nat
  /\ Code = 0..MaxCode /\ Junk \notin Code
  /\ Snoop \notin Handler /\ NoHandler \notin Handler \cup {Snoop}
  /\ Settings \subseteq [task : SUBSET Task, handler : SUBSET Handler,
                          reads : BOOLEAN, codes : 0..MaxCode, resets : Nat]
  /\ IsFiniteSet(Task) /\ IsFiniteSet(Handler) /\ Cardinality(Handler) < NumSlots

VARIABLES
  setting,           \* chosen at the start, never changed
  event, count,      \* reset_event, reset_wait_count
  waiting,           \* tasks inside WAIT_ON_RESET
  slot,              \* m_reset_callback
  stage,             \* of the snoop hardware module
  irqOn,             \* HICR5: the snoop interrupt is enabled
  latch, flag, irq,  \* data register, status flag, the handler
  cur, prev,         \* current_codes, previous_codes
  rd                 \* a READ_..._CODES ioctl
hwVars == <<latch, flag, irq>>

(* History. *)
VARIABLES
  resets,    \* resets so far
  hit,       \* tasks that were waiting at a reset and have not returned
  missed,    \* a reset found nobody waiting, and the event still stands
  stored,    \* codes stored since the last reset
  before,    \* codes stored between the last two resets
  seam,      \* the last reset found the ring at its seam
  last       \* the last code stored
resetVars == <<event, count, waiting, resets, hit, missed>>
ringVars == <<cur, prev, stored, before, seam, last>>
vars == <<setting, resetVars, slot, stage, irqOn, hwVars, ringVars, rd>>

(* A read: where it is, of which ring, the size it took, databuf as far as *)
(* it was filled; history: how many codes were stored when it began, and   *)
(* whether it met the seam of its ring or a reset.                         *)
Idle == [pc |-> "idle", which |-> "cur", size |-> 0, buf |-> <<>>, from |-> 0, cut |-> FALSE]

Init ==
  /\ setting \in Settings
  /\ event = FALSE /\ count = 0 /\ waiting = {}
  /\ resets = 0 /\ hit = {} /\ missed = FALSE
  /\ slot = [i \in 1..NumSlots |-> NoHandler]
  /\ stage = "out" /\ irqOn = FALSE
  /\ latch = 0 /\ flag = FALSE /\ irq = "idle"
  /\ cur = NewRing /\ prev = NewRing
  /\ stored = <<>> /\ before = <<>> /\ seam = FALSE /\ last = 0
  /\ rd = Idle

Tasks == irq = "idle"     \* tasks run

----------------------------------------------------------------------------
(* WAIT_ON_RESET.                                                          *)

WaitOnReset(t) ==
  /\ Tasks /\ t \in setting.task \ waiting
  /\ waiting' = waiting \cup {t}
  /\ count' = count + 1
  /\ UNCHANGED <<setting, event, resets, hit, missed, slot, stage, irqOn, hwVars, ringVars, rd>>

(* Mutant of Leave: the first to leave clears the event.                   *)
LeaveAndClear(t) ==
  /\ Tasks
  /\ waiting' = waiting \ {t} /\ hit' = hit \ {t}
  /\ count' = count - 1
  /\ event' = FALSE /\ missed' = FALSE
  /\ UNCHANGED <<setting, resets, slot, stage, irqOn, hwVars, ringVars, rd>>
(* Mutant of Leave: nobody clears the event.                               *)
LeaveAndKeep(t) ==
  /\ Tasks
  /\ waiting' = waiting \ {t} /\ hit' = hit \ {t}
  /\ count' = count - 1
  /\ UNCHANGED <<setting, event, missed, resets, slot, stage, irqOn, hwVars, ringVars, rd>>

(* The last to leave clears the event.                                     *)
Leave(t) ==
  /\ Tasks
  /\ waiting' = waiting \ {t} /\ hit' = hit \ {t}
  /\ count' = count - 1
  /\ IF count = 1 THEN event' = FALSE /\ missed' = FALSE
     ELSE UNCHANGED <<event, missed>>
  /\ UNCHANGED <<setting, resets, slot, stage, irqOn, hwVars, ringVars, rd>>

Return(t) == t \in waiting /\ event /\ Leave(t)
Signal(t) == t \in waiting /\ ~event /\ Leave(t)

----------------------------------------------------------------------------
(* The callback table.                                                     *)

FirstSlot(h, i) == slot[i] = h /\ \A j \in 1..(i - 1) : slot[j] # h
Installed(h) == \E i \in 1..NumSlots : slot[i] = h

install_reset_handler(h) ==
  IF Installed(NoHandler)
  THEN \E i \in 1..NumSlots : FirstSlot(NoHandler, i) /\ slot' = [slot EXCEPT ![i] = h]
  ELSE UNCHANGED slot
uninstall_reset_handler(h) ==
  IF Installed(h)
  THEN \E i \in 1..NumSlots : FirstSlot(h, i) /\ slot' = [slot EXCEPT ![i] = NoHandler]
  ELSE UNCHANGED slot

Install(h) ==
  /\ Tasks /\ h \in setting.handler /\ ~Installed(h)
  /\ install_reset_handler(h)
  /\ UNCHANGED <<setting, resetVars, stage, irqOn, hwVars, ringVars, rd>>
Uninstall(h) ==
  /\ Tasks /\ Installed(h)
  /\ uninstall_reset_handler(h)
  /\ UNCHANGED <<setting, resetVars, stage, irqOn, hwVars, ringVars, rd>>

----------------------------------------------------------------------------
(* The snoop module comes and goes: its rings exist from "hooked" to       *)
(* "unhooked", the driver HAL lists it from "in" to "freed".               *)

Live == stage \in {"hooked", "in", "running", "unhooked"}
Listed == stage \in {"in", "running", "unhooked", "freed"}

RegisterSnoop ==
  /\ Tasks /\ stage = "out"
  /\ stage' = "hooked"
  /\ cur' = NewRing /\ prev' = NewRing
  /\ stored' = <<>> /\ before' = <<>> /\ seam' = FALSE
  /\ install_reset_handler(Snoop)
  /\ UNCHANGED <<setting, resetVars, irqOn, hwVars, last, rd>>

ListSnoop ==
  /\ Tasks /\ stage = "hooked"
  /\ stage' = "in"
  /\ UNCHANGED <<setting, resetVars, slot, irqOn, hwVars, ringVars, rd>>

(* request_irq and ast_snoop_init_hw.                                      *)
StartSnoop ==
  /\ Tasks /\ stage = "in"
  /\ stage' = "running" /\ irqOn' = TRUE
  /\ UNCHANGED <<setting, resetVars, slot, hwVars, ringVars, rd>>

(* Mutant of UnhookSnoop: the handler stays in its slot.                   *)
UnhookSnoopKeeps ==
  /\ Tasks /\ stage = "running" /\ rd.pc = "idle"
  /\ stage' = "unhooked" /\ irqOn' = FALSE
  /\ UNCHANGED <<setting, resetVars, slot, hwVars, ringVars, rd>>

(* rmmod with no file open: the hardware and its interrupt are shut down,  *)
(* the handler is uninstalled ...                                          *)
UnhookSnoop ==
  /\ Tasks /\ stage = "running" /\ rd.pc = "idle"
  /\ stage' = "unhooked" /\ irqOn' = FALSE
  /\ uninstall_reset_handler(Snoop)
  /\ UNCHANGED <<setting, resetVars, hwVars, ringVars, rd>>

(* ... the rings are freed, and the HAL takes the module off its list.     *)
FreeSnoop ==
  /\ Tasks /\ stage = "unhooked"
  /\ stage' = "freed"
  /\ UNCHANGED <<setting, resetVars, slot, irqOn, hwVars, ringVars, rd>>
UnlistSnoop ==
  /\ Tasks /\ stage = "freed"
  /\ stage' = "out"
  /\ UNCHANGED <<setting, resetVars, slot, irqOn, hwVars, ringVars, rd>>

(* ENABLE_SNOOP_IRQ and DISABLE_SNOOP_IRQ.                                 *)
SwitchIrq ==
  /\ Tasks /\ stage = "running"
  /\ irqOn' = ~irqOn
  /\ UNCHANGED <<setting, resetVars, slot, stage, hwVars, ringVars, rd>>

----------------------------------------------------------------------------
(* The snoop port and its interrupt.                                       *)

(* The host's write to port 80h is not held back: it replaces a code that  *)
(* was not read yet.                                                       *)
HostWrite ==
  /\ latch < setting.codes
  /\ latch' = latch + 1 /\ flag' = TRUE
  /\ UNCHANGED <<setting, resetVars, slot, stage, irqOn, irq, ringVars, rd>>

Store(c) ==
  /\ cur' = Put(cur, c)
  /\ stored' = Append(stored, c) /\ last' = c
  /\ rd' = [rd EXCEPT !.cut = @ \/ (rd.pc # "idle" /\ rd.which = "cur" /\ AtSeam(cur'))]

(* The handler goes by the flag alone: the line is shared, so it also runs *)
(* while its own interrupt is disabled.                                    *)
ClearFlag ==
  /\ irq = "idle" /\ flag /\ stage = "running"
  /\ irq' = "cleared" /\ flag' = FALSE
  /\ UNCHANGED <<setting, resetVars, slot, stage, irqOn, latch, ringVars, rd>>

(* Mutant of StoreCode: the flag is cleared after the code was read, and  *)
(* what the host wrote in between is forgotten.                            *)
StoreCodeThenClear ==
  /\ irq = "cleared"
  /\ irq' = "idle" /\ flag' = FALSE
  /\ Store(IF flag THEN latch - 1 ELSE latch)
  /\ UNCHANGED <<setting, resetVars, slot, stage, irqOn, latch, prev, before, seam>>

StoreCode ==
  /\ irq = "cleared"
  /\ irq' = "idle"
  /\ Store(latch)
  /\ UNCHANGED <<setting, resetVars, slot, stage, irqOn, latch, flag, prev, before, seam>>

----------------------------------------------------------------------------
(* The reset.                                                              *)

CallsSnoop == Installed(Snoop) /\ Listed

Overwrite(data, codes) ==
  [i \in Slots |-> IF i + 1 \in DOMAIN codes THEN codes[i + 1] ELSE data[i]]

(* Mutant of handle_snoop_reset: the write index is left where it is.      *)
handle_snoop_reset_keeps_in ==
  /\ prev' = [data |-> Overwrite(prev.data, Get(cur)), in |-> cur.size, out |-> 0, size |-> cur.size]
  /\ cur' = [cur EXCEPT !.out = 0, !.size = 0]

handle_snoop_reset ==
  /\ prev' = [data |-> Overwrite(prev.data, Get(cur)), in |-> cur.size, out |-> 0, size |-> cur.size]
  /\ cur' = [cur EXCEPT !.in = 0, !.out = 0, !.size = 0]

(* process_reset_intr wakes the waiters, ResetCallBack runs the handlers.  *)
Reset ==
  /\ irq = "idle" /\ resets < setting.resets
  /\ resets' = resets + 1
  /\ event' = TRUE
  /\ hit' = waiting
  /\ missed' = (count = 0)
  /\ IF CallsSnoop THEN handle_snoop_reset ELSE UNCHANGED <<cur, prev>>
  /\ IF stage \in {"hooked", "in", "running"}
     THEN before' = stored /\ seam' = AtSeam(cur) /\ stored' = <<>>
     ELSE UNCHANGED <<before, seam, stored>>
  /\ rd' = [rd EXCEPT !.cut = rd.pc # "idle"]
  /\ UNCHANGED <<setting, count, waiting, slot, stage, irqOn, hwVars, last>>

----------------------------------------------------------------------------
(* READ_CURRENT_CODES and READ_PREVIOUS_CODES: an interrupt may fall       *)
(* between the steps.                                                      *)

RingOf(which) == IF which = "cur" THEN cur ELSE prev
Read == RingOf(rd.which)

ReadCodes(which) ==
  /\ setting.reads
  /\ Tasks /\ rd.pc = "idle" /\ stage \in {"in", "running"}
  /\ rd' = [pc |-> "sized", which |-> which, buf |-> <<>>, size |-> RingOf(which).size,
            from |-> IF which = "cur" THEN Len(stored) ELSE 0,
            cut |-> IF which = "cur" THEN AtSeam(cur) ELSE seam]
  /\ UNCHANGED <<setting, resetVars, slot, stage, irqOn, hwVars, ringVars>>

(* Mutant of CopyFirst: the rest of a wrapped ring is not copied.          *)
CopyFirstOnly ==
  /\ Tasks /\ rd.pc = "sized"
  /\ rd' = [rd EXCEPT !.buf = FirstCopy(Read), !.pc = "done"]
  /\ UNCHANGED <<setting, resetVars, slot, stage, irqOn, hwVars, ringVars>>

CopyFirst ==
  /\ Tasks /\ rd.pc = "sized"
  /\ rd' = [rd EXCEPT !.buf = FirstCopy(Read), !.pc = IF Wrapped(Read) THEN "rest" ELSE "done"]
  /\ UNCHANGED <<setting, resetVars, slot, stage, irqOn, hwVars, ringVars>>

(* The length of the second copy is out - 1, unsigned: a reset since the   *)
(* first copy has made it 2^32 - 1.                                        *)
CopyRest ==
  /\ Tasks /\ rd.pc = "rest"
  /\ rd' = IF Read.out = 0 THEN [rd EXCEPT !.pc = "wild"]
           ELSE [rd EXCEPT !.buf = @ \o RestCopy(Read), !.pc = "done"]
  /\ UNCHANGED <<setting, resetVars, slot, stage, irqOn, hwVars, ringVars>>

ReadReturns ==
  /\ Tasks /\ rd.pc = "done"
  /\ rd' = Idle
  /\ UNCHANGED <<setting, resetVars, slot, stage, irqOn, hwVars, ringVars>>

Next ==
  \/ \E t \in Task : WaitOnReset(t) \/ Return(t) \/ Signal(t)
  \/ \E h \in Handler : Install(h) \/ Uninstall(h)
  \/ RegisterSnoop \/ ListSnoop \/ StartSnoop
  \/ UnhookSnoop \/ FreeSnoop \/ UnlistSnoop \/ SwitchIrq
  \/ HostWrite \/ ClearFlag \/ StoreCode \/ Reset
  \/ \E which \in {"cur", "prev"} : ReadCodes(which)
  \/ CopyFirst \/ CopyRest \/ ReadReturns

Spec == Init /\ [][Next]_vars

(* Interrupt handlers end, and a task whose wait is over runs in the end   *)
(* although interrupts keep coming.                                        *)
FairSpec ==
  /\ Spec
  /\ WF_vars(StoreCode)
  /\ \A t \in Task : SF_vars(Return(t))

----------------------------------------------------------------------------
(* Properties.                                                             *)

TypeOK ==
  /\ setting \in Settings
  /\ event \in BOOLEAN /\ count \in Nat /\ waiting \in SUBSET Task
  /\ resets \in Nat /\ hit \in SUBSET waiting /\ missed \in BOOLEAN
  /\ slot \in [1..NumSlots -> Handler \cup {Snoop, NoHandler}]
  /\ stage \in {"out", "hooked", "in", "running", "unhooked", "freed"}
  /\ irqOn \in BOOLEAN /\ latch \in Code /\ flag \in BOOLEAN /\ irq \in {"idle", "cleared"}
  /\ cur \in Ring /\ prev \in Ring
  /\ rd \in [pc : {"idle", "sized", "rest", "done", "wild"}, which : {"cur", "prev"},
             size : 0..BufSize, buf : Seq(Code \cup {Junk}), from : Nat, cut : BOOLEAN]
  /\ stored \in Seq(Code) /\ before \in Seq(Code) /\ seam \in BOOLEAN /\ last \in Code

(* A reset reaches every task that was waiting for it, in whatever order   *)
(* they leave and others come: the event stands until all have returned.   *)
ResetReachesWaiters == hit # {} => event

(* reset_wait_count counts the waiters, so the event does not outlive them *)
(* and wake the next ones, unless a reset found nobody waiting.            *)
EventCleared ==
  /\ count = Cardinality(waiting)
  /\ event /\ waiting = {} => missed

(* At any time the ring holds the last codes stored, in order; at its seam *)
(* the oldest of them is left out although it is counted.                  *)
CurrentIsTail ==
  Live => /\ cur.size = Len(LastCodes(stored))
          /\ Get(cur) = IF AtSeam(cur) THEN Tail(LastCodes(stored)) ELSE LastCodes(stored)

(* A reset leaves the codes of the boot it ends as the previous codes,     *)
(* whoever else is in the callback table.                                  *)
PreviousIsLastBoot ==
  stage \in {"hooked", "in", "running"} =>
    /\ prev.size = Len(LastCodes(before))
    /\ IF seam THEN SubSeq(Get(prev), 1, BufSize - 1) = Tail(LastCodes(before))
       ELSE Get(prev) = LastCodes(before)

(* A read of the current codes hands out consecutive codes of this boot,   *)
(* as many as it says, the newest no older than the newest when the read   *)
(* began, although the handler may store codes between any two of its      *)
(* steps; a read of the previous codes hands out the last codes of the     *)
(* boot before.  It goes wrong only if the ring stands at its seam         *)
(* meanwhile or a reset falls into it.                                     *)
CurrentRun ==
  \E d \in 0..(Len(stored) - rd.size) :
    rd.from <= d + rd.size /\ \A i \in 1..rd.size : rd.buf[i] = stored[d + i]
PreviousRun ==
  /\ rd.size = Len(LastCodes(before))
  /\ \A i \in 1..rd.size : rd.buf[i] = LastCodes(before)[i]
CodesReadInOrder ==
  /\ rd.pc = "done" /\ ~rd.cut =>
       /\ rd.size <= Len(rd.buf)
       /\ IF rd.which = "cur" THEN CurrentRun ELSE PreviousRun
  /\ rd.pc = "wild" => rd.cut

(* A code that overtakes the handler may replace the one it is about, but  *)
(* the newest code is always stored or still announced by the flag.        *)
LastCodeKept == irq = "idle" /\ ~flag => last = latch

(* A reset never calls into a snoop module whose rings are freed.          *)
CallbackFindsLive == CallsSnoop => Live

(* Every task that was waiting at a reset returns.                         *)
WaitersServed == \A t \in Task : t \in hit ~> t \notin hit
====
