---- MODULE Bt ----
(***************************************************************************)
(* The BT (block transfer) IPMI interface: bt-src/btmain.c on top of       *)
(* bt_hw-ARM-AST-src/bthw_mod.c.                                           *)
(*                                                                         *)
(* Host and BMC share two packet buffers and a control register whose bits *)
(* each side may only set, clear or toggle by writing ones.  The host runs *)
(* on another processor.  The BMC has one core: no system call advances    *)
(* while the interrupt handler runs, nor while an interrupt it has enabled *)
(* is pending.                                                             *)
(*                                                                         *)
(* A packet is copied in two halves, its head (length and sequence number) *)
(* and its body, so that a copy can be torn.  Both carry the number of the *)
(* host transaction they belong to.                                        *)
(***************************************************************************)
EXTENDS Integers, Sequences

CONSTANTS
  MaxTxn,   \* bound: host transactions of a behaviour
  Budget    \* bound: how often each fault of FaultKinds, and any, may happen

(* What may go wrong: the host gives up on a transaction, the host resets, *)
(* a signal interrupts the sleeping reader, the daemon exits or turns the  *)
(* interface off, another LPC device raises the shared interrupt, and the  *)
(* responder is preempted inside a read-modify-write.                      *)
FaultKinds == {"retry", "reset", "signal", "exit", "disable", "shared", "preempt"}

ASSUME ConstantsAssumption == MaxTxn \in Nat /\ Budget \in [FaultKinds \cup {"any"} -> Nat]

VARIABLES
  ctrl,        \* the bits set in the control register
  h2bi, h2bie, \* host-to-BMC interrupt: pending, enabled
  reqBuf, rspBuf,    \* the two packet buffers, <<head, body>>
  user,        \* bt_enabled_by_user
  irq,         \* where the interrupt handler is
  resetting,   \* the host's reset has raised the reset interrupt
  rcvPkt, rcvLen,    \* pBTRcvPkt and BTRcvPktLen, in halves
  wakeup,
  rd, copied, inbox, \* reader, what it has copied, packets not yet answered
  wr, seen,    \* responder, the control bits it has read
  host, txn, head,   \* host: where it is, transaction, head it has read
  left,        \* remaining Budget
  delivered,   \* history: how many packets bt_request has returned
  answered,    \* history: transactions that ended with the whole, right answer
  dropped,     \* history: the handler cleared a request it did not read
  wiped        \* history: an attention of the host's was cleared by the responder

hardware == <<ctrl, h2bi, h2bie, reqBuf, rspBuf>>
packet == <<rcvPkt, rcvLen>>
daemon == <<rd, copied, inbox, delivered>>
responder == <<wr, seen>>
hostVars == <<host, txn, head, answered>>
vars == <<hardware, user, irq, resetting, packet, wakeup, daemon, responder, hostVars,
          left, dropped, wiped>>

ControlBits == {"H2B_ATN", "B2H_ATN", "H_BUSY", "B_BUSY"}
ResetMark == -1
None == 0
NoPacket == <<None, None>>

Toggled(bits, b) == (bits \ {b}) \cup ({b} \ bits)
(* The control register after the BMC has written ones to bits: H2B_ATN is *)
(* cleared, B2H_ATN is set, B_BUSY is toggled, and H_BUSY is the host's.   *)
BmcWritten(c, bits) ==
  LET attended == (c \ (bits \cap {"H2B_ATN"})) \cup (bits \cap {"B2H_ATN"})
  IN IF "B_BUSY" \in bits THEN Toggled(attended, "B_BUSY") ELSE attended
HostWritten(c, bits) ==
  LET attended == (c \ (bits \cap {"B2H_ATN"})) \cup (bits \cap {"H2B_ATN"})
  IN IF "H_BUSY" \in bits THEN Toggled(attended, "H_BUSY") ELSE attended

(* B_BUSY is toggled only after a look at it.                              *)
BusySet(c) == IF "B_BUSY" \in c THEN c ELSE BmcWritten(c, {"B_BUSY"})
(* Mutant of BusyCleared: toggles without a look.                          *)
BusyClearedBlind(c) == BmcWritten(c, {"B_BUSY"})
BusyCleared(c) == IF "B_BUSY" \in c THEN BmcWritten(c, {"B_BUSY"}) ELSE c

Spend(kind) ==
  /\ left[kind] > 0 /\ left["any"] > 0
  /\ left' = [left EXCEPT ![kind] = @ - 1, !["any"] = @ - 1]

(* The hardware module has been loaded, and nothing is enabled yet.        *)
Init ==
  /\ ctrl = {} /\ h2bi = FALSE /\ h2bie = FALSE
  /\ reqBuf = NoPacket /\ rspBuf = NoPacket
  /\ user = FALSE /\ irq = "off" /\ resetting = FALSE
  /\ rcvPkt = NoPacket /\ rcvLen = 0 /\ wakeup = FALSE
  /\ rd = "closed" /\ copied = <<0, None>> /\ inbox = <<>> /\ delivered = 0
  /\ wr = "idle" /\ seen = {}
  /\ host = "idle" /\ txn = 0 /\ head = None /\ answered = 0
  /\ left = Budget /\ dropped = FALSE /\ wiped = FALSE

----------------------------------------------------------------------------
(* Interrupts.                                                             *)

(* The handler clears the pending request, and reads it if the daemon has  *)
(* enabled the interface.                                                  *)
IrqBegin ==
  /\ irq = "off" /\ h2bi
  /\ h2bi' = FALSE
  /\ irq' = IF user THEN "busy" ELSE "off"
  /\ dropped' = (dropped \/ ~user)
  /\ UNCHANGED <<ctrl, h2bie, reqBuf, rspBuf, user, resetting, packet, wakeup, daemon,
                 responder, hostVars, wiped>>

IrqEnter == h2bie /\ IrqBegin /\ UNCHANGED left
(* The interrupt line is shared: the handler also runs for other devices.  *)
IrqShared == ~h2bie /\ IrqBegin /\ Spend("shared")

IrqStep(from, to) ==
  /\ irq = from /\ irq' = to
  /\ UNCHANGED <<h2bi, h2bie, reqBuf, rspBuf, user, resetting, daemon, responder,
                 hostVars, left, dropped, wiped>>

(* Mutant of IrqBusy: the attention is cleared before B_BUSY is set.       *)
IrqBusyLate ==
  /\ IrqStep("busy", "atn")
  /\ ctrl' = BmcWritten(ctrl, {"H2B_ATN"})
  /\ UNCHANGED <<packet, wakeup>>
IrqBusy ==
  /\ IrqStep("busy", "atn")
  /\ ctrl' = BusySet(ctrl)
  /\ UNCHANGED <<packet, wakeup>>

IrqAtn ==
  /\ IrqStep("atn", "head")
  /\ ctrl' = BmcWritten(ctrl, {"H2B_ATN"})
  /\ UNCHANGED <<packet, wakeup>>

IrqHead ==
  /\ IrqStep("head", "body")
  /\ rcvPkt' = [rcvPkt EXCEPT ![1] = reqBuf[1]]
  /\ UNCHANGED <<ctrl, rcvLen, wakeup>>

IrqBody ==
  /\ IrqStep("body", "done")
  /\ rcvPkt' = [rcvPkt EXCEPT ![2] = reqBuf[2]]
  /\ UNCHANGED <<ctrl, rcvLen, wakeup>>

(* Mutant of IrqDone: the length byte is counted twice.                    *)
IrqDoneLong ==
  /\ IrqStep("done", "off")
  /\ ctrl' = BusyCleared(ctrl)
  /\ rcvLen' = 3 /\ wakeup' = TRUE
  /\ UNCHANGED rcvPkt
(* Mutant of IrqDone: B_BUSY is left set.                                  *)
IrqDoneBusy ==
  /\ IrqStep("done", "off")
  /\ rcvLen' = 2 /\ wakeup' = TRUE
  /\ UNCHANGED <<ctrl, rcvPkt>>
(* Mutant of IrqDone: the reader is signalled only if it sleeps.           *)
IrqDoneIfWaiting ==
  /\ IrqStep("done", "off")
  /\ ctrl' = BusyCleared(ctrl)
  /\ rcvLen' = 2 /\ wakeup' = (wakeup \/ rd = "sleep")
  /\ UNCHANGED rcvPkt
IrqDone ==
  /\ IrqStep("done", "off")
  /\ ctrl' = BusyCleared(ctrl)
  /\ rcvLen' = 2 /\ wakeup' = TRUE
  /\ UNCHANGED rcvPkt

(* The reset driver calls the BT driver back, which puts a reset mark into *)
(* the packet and signals the reader.                                      *)
ResetIrq ==
  /\ irq = "off" /\ resetting
  /\ resetting' = FALSE
  /\ rcvLen' = 1 /\ rcvPkt' = [rcvPkt EXCEPT ![1] = ResetMark]
  /\ wakeup' = TRUE
  /\ UNCHANGED <<hardware, user, irq, daemon, responder, hostVars, left, dropped, wiped>>

Irq ==
  IrqEnter \/ IrqBusy \/ IrqAtn \/ IrqHead \/ IrqBody \/ IrqDone \/ ResetIrq

----------------------------------------------------------------------------
(* System calls of the IPMI daemon.                                        *)

Process == irq = "off" /\ ~(h2bi /\ h2bie) /\ ~resetting

BtOpen ==
  /\ Process /\ rd = "closed"
  /\ rd' = "user"
  /\ rcvLen' = 0 /\ wakeup' = FALSE
  /\ UNCHANGED <<hardware, user, irq, resetting, rcvPkt, copied, inbox, delivered,
                 responder, hostVars, left, dropped, wiped>>

(* The daemon exits, and loses what it had read; the interface stays on.   *)
BtRelease ==
  /\ Process /\ rd = "user" /\ wr = "idle"
  /\ Spend("exit")
  /\ rd' = "closed" /\ inbox' = <<>>
  /\ UNCHANGED <<hardware, user, irq, resetting, packet, wakeup, copied, delivered,
                 responder, hostVars, dropped, wiped>>

BtEnable ==
  /\ Process /\ rd # "closed" /\ ~user /\ ~h2bie
  /\ ctrl' = BusyCleared(ctrl)
  /\ user' = TRUE /\ h2bie' = TRUE
  /\ UNCHANGED <<h2bi, reqBuf, rspBuf, irq, resetting, packet, wakeup, daemon, responder,
                 hostVars, left, dropped, wiped>>

(* Two stores, and the handler may run between them.                       *)
DisableUser ==
  /\ Process /\ rd # "closed" /\ user
  /\ Spend("disable")
  /\ user' = FALSE
  /\ UNCHANGED <<hardware, irq, resetting, packet, wakeup, daemon, responder, hostVars,
                 dropped, wiped>>
DisableIrq ==
  /\ Process /\ ~user /\ h2bie
  /\ h2bie' = FALSE
  /\ UNCHANGED <<ctrl, h2bi, reqBuf, rspBuf, user, irq, resetting, packet, wakeup, daemon,
                 responder, hostVars, left, dropped, wiped>>

ReadStep(from, to) ==
  /\ Process
  /\ rd = from /\ rd' = to
  /\ UNCHANGED <<hardware, user, irq, resetting, packet, responder, hostVars, dropped,
                 wiped>>

ReaderCall ==
  /\ ReadStep("user", "sleep")
  /\ UNCHANGED <<wakeup, copied, inbox, delivered, left>>

LeaveSleep ==
  /\ ReadStep("sleep", "copy")
  /\ wakeup' = FALSE
  /\ UNCHANGED <<copied, inbox, delivered>>
(* Mutant of ReaderWake: the signal is not cleared.                        *)
ReaderWakeKeeps ==
  /\ wakeup
  /\ ReadStep("sleep", "copy")
  /\ UNCHANGED <<wakeup, copied, inbox, delivered, left>>
ReaderWake == wakeup /\ LeaveSleep /\ UNCHANGED left
(* The sleep is interruptible, and bt_request does not ask why it ended.   *)
ReaderSignal == ~wakeup /\ LeaveSleep /\ Spend("signal")

(* The packet is copied under no lock, and its length read once more for   *)
(* the result.  What has no body is no request.                            *)
CopyHead ==
  /\ ReadStep("copy", "rest")
  /\ copied' = <<rcvLen, rcvPkt[1]>>
  /\ UNCHANGED <<wakeup, inbox, delivered, left>>

CopyBody ==
  /\ ReadStep("rest", "user")
  /\ inbox' = IF rcvLen = 2 /\ copied[1] # 0 /\ copied[2] # ResetMark
              THEN Append(inbox, <<copied[2], IF copied[1] = 2 THEN rcvPkt[2] ELSE None>>)
              ELSE inbox
  /\ delivered' = delivered + 1
  /\ UNCHANGED <<wakeup, copied, left>>

WriteStep(from, to) ==
  /\ Process
  /\ wr = from /\ wr' = to
  /\ UNCHANGED <<h2bi, h2bie, reqBuf, user, irq, resetting, packet, wakeup, rd, copied,
                 delivered, hostVars, dropped>>

(* bthw_write_bt_data_buf looks at H_BUSY, complains, and goes on.         *)
RespondHead ==
  /\ inbox # <<>>
  /\ WriteStep("idle", "body")
  /\ rspBuf' = [rspBuf EXCEPT ![1] = Head(inbox)[1]]
  /\ UNCHANGED <<ctrl, seen, inbox, left, wiped>>

RespondBody ==
  /\ WriteStep("body", "attend")
  /\ rspBuf' = [rspBuf EXCEPT ![2] = Head(inbox)[2]]
  /\ inbox' = Tail(inbox)
  /\ UNCHANGED <<ctrl, seen, left, wiped>>

(* set_b2h_attention, and clr_write_fifo_ptr, which writes the bits it has *)
(* read back with one more.                                                *)
Attended == BmcWritten(ctrl, {"B2H_ATN"})
WriteBack(c, bits) ==
  /\ ctrl' = BmcWritten(c, bits)
  /\ wiped' = (wiped \/ "H2B_ATN" \in bits \cap ctrl)
RespondAttend ==
  /\ WriteStep("attend", "idle")
  /\ WriteBack(Attended, Attended)
  /\ UNCHANGED <<rspBuf, seen, inbox, left>>

RespondAttendSlow ==
  /\ WriteStep("attend", "clear")
  /\ Spend("preempt")
  /\ ctrl' = Attended /\ seen' = Attended
  /\ UNCHANGED <<rspBuf, inbox, wiped>>
RespondClear ==
  /\ WriteStep("clear", "idle")
  /\ WriteBack(ctrl, seen) /\ seen' = {}
  /\ UNCHANGED <<rspBuf, inbox, left>>

Reader == ReaderCall \/ ReaderWake \/ CopyHead \/ CopyBody
Responder == RespondHead \/ RespondBody \/ RespondAttend \/ RespondClear

----------------------------------------------------------------------------
(* The host's system management software, one request at a time.           *)

HostStep(from, to) ==
  /\ host = from /\ host' = to
  /\ UNCHANGED <<h2bie, rspBuf, user, irq, packet, wakeup, daemon, responder, dropped,
                 wiped>>

HostWant ==
  /\ HostStep("idle", "want")
  /\ txn < MaxTxn /\ txn' = txn + 1
  /\ UNCHANGED <<ctrl, h2bi, reqBuf, resetting, head, answered, left>>

HostHead ==
  /\ HostStep("want", "fill")
  /\ ctrl \cap {"B_BUSY", "H2B_ATN"} = {}
  /\ reqBuf' = [reqBuf EXCEPT ![1] = txn]
  /\ UNCHANGED <<ctrl, h2bi, resetting, txn, head, answered, left>>

HostSend ==
  /\ HostStep("fill", "wait")
  /\ reqBuf' = [reqBuf EXCEPT ![2] = txn]
  /\ ctrl' = HostWritten(ctrl, {"H2B_ATN"}) /\ h2bi' = TRUE
  /\ UNCHANGED <<resetting, txn, head, answered, left>>

HostAnswer ==
  /\ HostStep("wait", "head")
  /\ "B2H_ATN" \in ctrl
  /\ ctrl' = HostWritten(ctrl, {"H_BUSY", "B2H_ATN"})
  /\ UNCHANGED <<h2bi, reqBuf, resetting, txn, head, answered, left>>

HostReadHead ==
  /\ HostStep("head", "body")
  /\ head' = rspBuf[1]
  /\ UNCHANGED <<ctrl, h2bi, reqBuf, resetting, txn, answered, left>>

(* An answer with another sequence number is dropped.                      *)
HostReadBody ==
  /\ HostStep("body", IF head = txn THEN "idle" ELSE "wait")
  /\ ctrl' = HostWritten(ctrl, {"H_BUSY"})
  /\ answered' = IF head = txn /\ rspBuf[2] = txn THEN answered + 1 ELSE answered
  /\ head' = None
  /\ UNCHANGED <<h2bi, reqBuf, resetting, txn, left>>

HostTimeout ==
  /\ Spend("retry")
  /\ \E at \in {"want", "wait"} : HostStep(at, "idle")
  /\ UNCHANGED <<ctrl, h2bi, reqBuf, resetting, txn, head, answered>>

(* The host resets: it forgets what it was doing, clears its bits, and the *)
(* LPC reset line interrupts the BMC.                                      *)
HostReset ==
  /\ Spend("reset")
  /\ \E at \in {"want", "fill", "wait", "head", "body"} : HostStep(at, "idle")
  /\ ctrl' = ctrl \ {"H_BUSY", "B2H_ATN"}
  /\ resetting' = TRUE /\ head' = None
  /\ UNCHANGED <<h2bi, reqBuf, txn, answered>>

HostTalk == HostHead \/ HostSend \/ HostAnswer \/ HostReadHead \/ HostReadBody

----------------------------------------------------------------------------
Next ==
  \/ Irq \/ IrqShared
  \/ BtOpen \/ BtRelease \/ BtEnable \/ DisableUser \/ DisableIrq
  \/ Reader \/ ReaderSignal \/ Responder \/ RespondAttendSlow
  \/ HostWant \/ HostTalk \/ HostTimeout \/ HostReset

Spec == Init /\ [][Next]_vars

(* The handler runs when interrupted, the daemon opens, enables, reads and *)
(* answers, and a host that wants something goes on.  No fault is fair.    *)
Fairness ==
  /\ WF_vars(Irq) /\ WF_vars(BtOpen) /\ WF_vars(BtEnable) /\ WF_vars(DisableIrq)
  /\ WF_vars(Reader) /\ WF_vars(Responder) /\ WF_vars(HostTalk)

FairSpec == Spec /\ Fairness

----------------------------------------------------------------------------
(* Properties.                                                             *)

Halves == {ResetMark} \cup 0..MaxTxn
Packets == Halves \X Halves
Heads == (0..2) \X Halves
ControlOK ==
  /\ ctrl \subseteq ControlBits /\ seen \subseteq ControlBits
  /\ h2bi \in BOOLEAN /\ h2bie \in BOOLEAN
PacketsOK ==
  /\ reqBuf \in Packets /\ rspBuf \in Packets
  /\ rcvPkt \in Packets /\ rcvLen \in 0..2
DriverOK ==
  /\ irq \in {"off", "busy", "atn", "head", "body", "done"}
  /\ user \in BOOLEAN /\ wakeup \in BOOLEAN
DaemonOK ==
  /\ rd \in {"closed", "user", "sleep", "copy", "rest"}
  /\ wr \in {"idle", "body", "attend", "clear"}
  /\ copied \in Heads /\ inbox \in Seq(Packets) /\ delivered \in Nat
HostOK ==
  /\ host \in {"idle", "want", "fill", "wait", "head", "body"}
  /\ resetting \in BOOLEAN
  /\ txn \in 0..MaxTxn /\ head \in Halves /\ answered \in Nat
HistoryOK ==
  /\ dropped \in BOOLEAN /\ wiped \in BOOLEAN
  /\ left \in [FaultKinds \cup {"any"} -> Nat]
TypeOK == ControlOK /\ PacketsOK /\ DriverOK /\ DaemonOK /\ HostOK /\ HistoryOK

(* The BMC is busy exactly while the handler reads a request: B_BUSY is a  *)
(* bit that can only be toggled, and no open, enable, answer or reset in   *)
(* between leaves it inverted.                                             *)
BusyWhileReading ==
  "B_BUSY" \in ctrl <=> irq \in {"atn", "head", "body", "done"}

(* What the handler has read is one request, whole: the host never writes  *)
(* into a request that is being read, even if it has given up on it.  That *)
(* is so until the write-back of clr_write_fifo_ptr clears an H2B_ATN that *)
(* the handler has not seen, which lets the host begin a second request.   *)
RequestWhole == irq = "done" /\ ~wiped => rcvPkt[1] = rcvPkt[2]

(* A host with something to ask gets to ask it, whatever the daemon does,  *)
(* unless the handler has thrown a request away because the daemon had not *)
(* enabled the interface: H2B_ATN then stays set.                          *)
HostGetsIn == (host = "want") ~> (host # "want" \/ dropped)

(* Until the first fault the interface is a lock-step exchange.            *)
Exchange == INSTANCE IpmiExchange WITH asked <- txn
ImplementsExchange ==
  Exchange!Init /\ [][left' = Budget => Exchange!Next]_(Exchange!vars)

(* Every transaction begun ends with the whole, right answer, unless       *)
(* something fails.                                                        *)
EveryRequestAnswered ==
  \A t \in 1..MaxTxn : (txn = t) ~> (answered >= t \/ left # Budget)

(* bthw_mod.c:285 "Host is busy... and this should not happen": no answer  *)
(* is written while the host is reading one.                               *)
NeverBusyHost == [][RespondHead => "H_BUSY" \notin ctrl]_vars
====
