---- MODULE VirtualMedia ----
(***************************************************************************)
(* Remote drives: the bulk-only transport of usbe-src/bot.c over the       *)
(* endpoints of usbe-src/coreusb.c, its deferred procedure call            *)
(* (usbe-src/linux.c), and the hand-over of SCSI commands to the media     *)
(* server processes by iUSB-src.                                           *)
(*                                                                         *)
(* One core, no preemption in the kernel: a thread runs from one sleep to  *)
(* the next; interrupts (commands, data, resets) fall anywhere.  A drive   *)
(* has one interface with one logical unit, and one server; there is one   *)
(* drive of a kind, because drives of a kind share a reply buffer and "if  *)
(* two BOT devices issue this ioctl at the same time, it will be           *)
(* corrupted" (iusb-scsi.c:308).                                           *)
(***************************************************************************)
EXTENDS Integers, Sequences, FiniteSets

CONSTANTS
  NumDrives,  \* USB devices, in the order the deferred call visits them
  Kind,       \* what each is: "cd" or "hd"
  MaxCmd,     \* bound: commands the host sends to a drive
  Settings    \* the commands of each drive, how many, and the faults

Drive == 1..NumDrives
(* Reads and writes go to the server, "local" is answered here (INQUIRY),  *)
(* "short" asks for more than the read covers and "phase" for less.        *)
Op == {"read", "write", "local", "short", "phase"}
Fault == {"reset", "crash", "exit", "timeout"}
Tag == Drive \X (0..MaxCmd)
NoTag == <<1, 0>>

ASSUME MediaAssumption ==
  /\ NumDrives \in Nat \ {0} /\ MaxCmd \in Nat
  /\ Kind \in [Drive -> {"cd", "hd"}]
  /\ \A d, e \in Drive : Kind[d] = Kind[e] => d = e
  /\ Settings \subseteq [ops : [Drive -> SUBSET Op], cmds : [Drive -> 0..MaxCmd],
                          faults : [Fault -> Nat]]

VARIABLES
  setting,  \* chosen at the start, never changed
  host,     \* the host's driver of each drive
  ep,       \* IN endpoint: CfgIndex # 0, TxReady, more to send, packet, STALL
  bot,      \* BOT_IF_DATA: CBW, ScsiDataOutLen # 0, LastSeqNo, UnHalted; the interface flag
  iusb,     \* iUsb..Active, iUsb..Wakeup, ..KernelModePkt
  kbuf,     \* gKernelModePktCD, gKernelModePktHD
  cbwErr,   \* CBWErrorOccur
  seqNo,    \* the last sequence number given out
  sem,      \* DPC_Semaphore
  thr,      \* 0 is USBDPC, the others the servers
  budget    \* faults that may still happen

(* History. *)
VARIABLES
  old,      \* the interface flag was raised before a reset
  stray,    \* a thread works on for a command that is over: ended by a reset,
            \* or refused as out of phase
  crossed,  \* another drive has used CBWErrorOccur since this one's packet was formed
  left      \* the server has gone away, or came late

Thread == {0} \cup Drive
hist == <<old, stray, crossed, left>>
vars == <<setting, host, ep, bot, iusb, kbuf, cbwErr, seqNo, sem, thr, budget, hist>>

NoPkt == [seq |-> 0, tag |-> NoTag, op |-> "local"]
Nothing == [kind |-> "none", tag |-> NoTag, status |-> "passed", residue |-> FALSE]
Data(tag) == [Nothing EXCEPT !.kind = "data", !.tag = tag]
CSW(tag, status, residue) == [kind |-> "csw", tag |-> tag, status |-> status, residue |-> residue]

Init ==
  /\ setting \in Settings
  /\ host = [d \in Drive |-> [pc |-> "off", tag |-> <<d, 0>>, op |-> "local",
                              got |-> <<>>, status |-> "failed", residue |-> FALSE]]
  /\ ep = [d \in Drive |-> [cfg |-> FALSE, ready |-> TRUE, rest |-> FALSE,
                            fifo |-> Nothing, stalled |-> FALSE]]
  /\ bot = [d \in Drive |-> [tag |-> NoTag, op |-> "local", outLen |-> FALSE,
                             lastSeq |-> 0, unhalted |-> TRUE, flag |-> FALSE]]
  /\ iusb = [d \in Drive |-> [active |-> FALSE, wakeup |-> FALSE, pkt |-> NoPkt]]
  /\ kbuf = [k \in {"cd", "hd"} |-> NoPkt]
  /\ cbwErr = 0 /\ seqNo = 0 /\ sem = 0
  /\ thr = [t \in Thread |-> [pc |-> IF t = 0 THEN "idle" ELSE "off", drive |-> 1,
                              pkt |-> NoPkt, csw |-> Nothing]]
  /\ budget = setting.faults
  /\ old = [d \in Drive |-> FALSE] /\ stray = [d \in Drive |-> FALSE]
  /\ crossed = [d \in Drive |-> FALSE] /\ left = [d \in Drive |-> FALSE]

----------------------------------------------------------------------------
(* Sending to the host.                                                    *)

(* UsbWriteData up to its sleep: an earlier packet still in the hardware   *)
(* is overwritten.                                                         *)
Written(e, packet, rest) ==
  IF e.cfg THEN [e EXCEPT !.ready = FALSE, !.rest = rest, !.fifo = packet] ELSE e

(* The reply buffer a response is copied to, and data are sent from.       *)
Shared(d) == "cd"      \* mutant of Buffer: one buffer for every drive
Buffer(d) == Kind[d]

(* Mutant of Returned: the deferred call skips a drive.                    *)
ReturnedSkips(t) ==
  IF t = 0 THEN [thr[t] EXCEPT !.pc = "visit", !.drive = @ + 2]
  ELSE [thr[t] EXCEPT !.pc = "idle"]

(* After its CSW the deferred call visits the next drive, a server returns *)
(* from its ioctl.                                                         *)
Returned(t) ==
  IF t = 0 THEN [thr[t] EXCEPT !.pc = "visit", !.drive = @ + 1]
  ELSE [thr[t] EXCEPT !.pc = "idle"]

WriteCSW(t, d, csw) ==
  /\ ep' = [ep EXCEPT ![d] = Written(@, csw, FALSE)]
  /\ thr' = [thr EXCEPT ![t] =
       IF ep[d].cfg THEN [@ EXCEPT !.pc = "csw", !.drive = d, !.csw = csw] ELSE Returned(t)]

(* BotSendCSW: with a residue the endpoint is stalled first, and the       *)
(* thread waits for the host to clear that.                                *)
BotSendCSW(t, d, b, csw) ==
  IF csw.residue
  THEN /\ bot' = [bot EXCEPT ![d] = [b EXCEPT !.unhalted = FALSE]]
       /\ ep' = [ep EXCEPT ![d].stalled = TRUE]
       /\ thr' = [thr EXCEPT ![t] = [@ EXCEPT !.pc = "stall", !.drive = d, !.csw = csw]]
  ELSE bot' = [bot EXCEPT ![d] = b] /\ WriteCSW(t, d, csw)

(* Data are sent in two packets by a server, in one by BotInquiry; what    *)
(* cannot be written stays a residue of the CSW.                           *)
SendData(t, d, b, csw, source, rest) ==
  IF ep[d].cfg
  THEN /\ ep' = [ep EXCEPT ![d] = Written(@, Data(source), rest)]
       /\ thr' = [thr EXCEPT ![t] = [@ EXCEPT !.pc = "data", !.drive = d, !.csw = csw]]
       /\ bot' = [bot EXCEPT ![d] = b]
  ELSE BotSendCSW(t, d, b, [csw EXCEPT !.residue = TRUE])

(* The CSW that follows data has the tag its source has by then: that of   *)
(* the CBW, or that of the reply buffer.                                   *)
TagNow(t, d) == IF t = 0 THEN bot[d].tag ELSE kbuf[Buffer(t)].tag

DataSent(t) ==
  LET d == thr[t].drive IN
  /\ thr[t].pc = "data" /\ ep[d].ready
  /\ BotSendCSW(t, d, bot[d], [thr[t].csw EXCEPT !.tag = TagNow(t, d)])
  /\ UNCHANGED <<setting, host, iusb, kbuf, cbwErr, seqNo, sem, budget, hist>>

CSWSent(t) ==
  /\ thr[t].pc = "csw" /\ ep[thr[t].drive].ready
  /\ thr' = [thr EXCEPT ![t] = Returned(t)]
  /\ UNCHANGED <<setting, host, ep, bot, iusb, kbuf, cbwErr, seqNo, sem, budget, hist>>

EndStall(t) ==
  LET d == thr[t].drive IN
  /\ bot' = [bot EXCEPT ![d].unhalted = TRUE]
  /\ WriteCSW(t, d, thr[t].csw)
  /\ UNCHANGED <<setting, host, iusb, kbuf, cbwErr, seqNo, sem, hist>>

Unstalled(t) ==
  /\ thr[t].pc = "go" /\ bot[thr[t].drive].unhalted
  /\ EndStall(t)
  /\ UNCHANGED budget

Spend(fault) == budget[fault] > 0 /\ budget' = [budget EXCEPT ![fault] = @ - 1]

(* A timeout is a fault if the host was about to do its part; nobody       *)
(* collects a packet of a command that the host has given up, or clears    *)
(* a STALL that a reset has taken away.                                    *)
Timeout(d, awaited) == IF awaited /\ host[d].pc = "wait" THEN Spend("timeout") ELSE budget' = budget

(* STALL_TIMEOUT.                                                          *)
StallTimeout(t) ==
  /\ thr[t].pc \in {"stall", "go"}
  /\ Timeout(thr[t].drive, ep[thr[t].drive].stalled)
  /\ EndStall(t)

(* Mutant of DataTimeout: the data count as sent.                          *)
DataTimeoutAsSent(t) ==
  LET d == thr[t].drive IN
  /\ thr[t].pc = "data" /\ ~ep[d].ready
  /\ Timeout(d, TRUE)
  /\ bot' = bot
  /\ ep' = [ep EXCEPT ![d] = Written([@ EXCEPT !.rest = FALSE], [thr[t].csw EXCEPT !.tag = TagNow(t, d)], FALSE)]
  /\ thr' = [thr EXCEPT ![t].pc = "csw"]
  /\ UNCHANGED <<setting, host, iusb, kbuf, cbwErr, seqNo, sem, hist>>

(* TRANSMIT_TIMEOUT of data: BotInquiry fails, a server's data are left    *)
(* out of the account; the packet stays in the hardware.                   *)
DataTimeout(t) ==
  LET d == thr[t].drive IN
  /\ thr[t].pc = "data" /\ ~ep[d].ready
  /\ Timeout(d, TRUE)
  /\ bot' = [bot EXCEPT ![d].unhalted = FALSE]
  /\ ep' = [ep EXCEPT ![d] = [@ EXCEPT !.rest = FALSE, !.ready = TRUE, !.stalled = TRUE]]
  /\ thr' = [thr EXCEPT ![t] =
       [@ EXCEPT !.pc = "stall",
                 !.csw = CSW(TagNow(t, d), IF t = 0 THEN "failed" ELSE "passed", TRUE)]]
  /\ UNCHANGED <<setting, host, iusb, kbuf, cbwErr, seqNo, sem, hist>>

CSWTimeout(t) ==
  LET d == thr[t].drive IN
  /\ thr[t].pc = "csw" /\ ~ep[d].ready
  /\ Timeout(d, TRUE)
  /\ ep' = [ep EXCEPT ![d].ready = TRUE]
  /\ thr' = [thr EXCEPT ![t] = Returned(t)]
  /\ UNCHANGED <<setting, host, bot, iusb, kbuf, cbwErr, seqNo, sem, hist>>

----------------------------------------------------------------------------
(* The deferred procedure call.                                            *)

DpcWake ==
  /\ thr[0].pc = "idle" /\ sem > 0
  /\ sem' = sem - 1
  /\ thr' = [thr EXCEPT ![0] = [@ EXCEPT !.pc = "visit", !.drive = 1]]
  /\ UNCHANGED <<setting, host, ep, bot, iusb, kbuf, cbwErr, seqNo, budget, hist>>

(* ProcessInterfaceHandler up to the call.                                 *)
DpcVisit ==
  LET d == thr[0].drive IN
  /\ thr[0].pc = "visit"
  /\ IF d > NumDrives
     THEN /\ thr' = [thr EXCEPT ![0] = [@ EXCEPT !.pc = "idle", !.drive = 1]]
          /\ UNCHANGED <<bot, old, stray>>
     ELSE IF ep[d].cfg /\ bot[d].flag
     THEN /\ thr' = [thr EXCEPT ![0].pc = "picked"]
          /\ bot' = [bot EXCEPT ![d].flag = FALSE]
          /\ old' = [old EXCEPT ![d] = FALSE]
          /\ stray' = [stray EXCEPT ![d] = @ \/ old[d]]
     ELSE thr' = [thr EXCEPT ![0].drive = d + 1] /\ UNCHANGED <<bot, old, stray>>
  /\ UNCHANGED <<setting, host, ep, iusb, kbuf, cbwErr, seqNo, sem, budget, crossed, left>>

Others(d) == [e \in Drive |-> e # d]

(* Mutant of ErrorCase: CBWErrorOccur is not cleared first.                *)
ErrorCaseKept(op) == CASE op = "short" -> 1 [] op = "phase" -> 2 [] OTHER -> cbwErr
ErrorCase(op) == CASE op = "short" -> 1 [] op = "phase" -> 2 [] OTHER -> 0

(* FormiUsbScsiPacket: a number, and what CBWErrorOccur is used for.       *)
Form(d) ==
  /\ seqNo' = seqNo + 1
  /\ iusb' = [iusb EXCEPT
       ![d].wakeup = @ \/ ~(bot[d].op = "phase" /\ Kind[d] = "hd"),
       ![d].pkt = [seq |-> seqNo + 1, tag |-> bot[d].tag, op |-> bot[d].op]]
  /\ crossed' = Others(d)

(* BotProcessHandler.  A residue is all the host asked for.                *)
DpcProcess ==
  LET d == thr[0].drive
      b == bot[d]
      csw(status, residue) == CSW(b.tag, status, residue)
  IN
  /\ thr[0].pc = "picked"
  /\ \/ /\ b.op = "local"
        /\ SendData(0, d, b, csw("passed", FALSE), b.tag, FALSE)
        /\ UNCHANGED <<iusb, cbwErr, seqNo, crossed>>
     \/ /\ b.op # "local" /\ ~iusb[d].active
        /\ BotSendCSW(0, d, b, csw("failed", TRUE))
        /\ UNCHANGED <<iusb, cbwErr, seqNo, crossed>>
     \/ /\ b.op = "phase" /\ Kind[d] = "hd" /\ iusb[d].active
        /\ Form(d)
        /\ cbwErr' = 0
        /\ BotSendCSW(0, d, [b EXCEPT !.lastSeq = seqNo + 1], csw("phase", TRUE))
     \/ /\ b.op # "local" /\ ~(b.op = "phase" /\ Kind[d] = "hd") /\ iusb[d].active
        /\ Form(d)
        /\ cbwErr' = ErrorCase(b.op)
        /\ bot' = [bot EXCEPT ![d].lastSeq = seqNo + 1]
        /\ thr' = [thr EXCEPT ![0] = Returned(0)]
        /\ UNCHANGED ep
  /\ UNCHANGED <<setting, host, kbuf, sem, budget, old, stray, left>>

----------------------------------------------------------------------------
(* The media servers.                                                      *)

(* The ACTIVATE ioctl of a server that starts.                             *)
Activate(d) ==
  /\ thr[d].pc = "off" /\ setting.cmds[d] > 0
  /\ thr' = [thr EXCEPT ![d] = [@ EXCEPT !.pc = "idle", !.drive = d]]
  /\ iusb' = [iusb EXCEPT ![d] = [@ EXCEPT !.active = TRUE, !.wakeup = FALSE]]
  /\ UNCHANGED <<setting, host, ep, bot, kbuf, cbwErr, seqNo, sem, budget, hist>>

(* A disk's command that was refused as out of phase stays in the packet,  *)
(* for a server that is woken for an earlier one.                          *)
Refused(d) == iusb[d].pkt.op = "phase" /\ Kind[d] = "hd"

(* CdromRemoteWaitRequest, HdiskRemoteWaitRequest.                         *)
WaitRequest(d) ==
  /\ thr[d].pc = "idle"
  /\ iusb[d].wakeup \/ ~iusb[d].active
  /\ iusb' = [iusb EXCEPT ![d].wakeup = FALSE]
  /\ thr' = [thr EXCEPT ![d] =
       IF iusb[d].active THEN [@ EXCEPT !.pc = "busy", !.pkt = iusb[d].pkt]
       ELSE [@ EXCEPT !.pc = "off"]]
  /\ stray' = [stray EXCEPT ![d] = @ \/ (iusb[d].active /\ Refused(d))]
  /\ UNCHANGED <<setting, host, ep, bot, kbuf, cbwErr, seqNo, sem, budget, old, crossed, left>>

(* ScsiSendResponse, its copy into the reply buffer before its checks.     *)
ScsiSendResponse(d, status) ==
  LET pkt == thr[d].pkt
      b == [bot[d] EXCEPT !.lastSeq = 0]
      csw(st, residue) == CSW(pkt.tag, st, residue)
  IN
  /\ thr[d].pc = "busy"
  /\ kbuf' = [kbuf EXCEPT ![Buffer(d)] = pkt]
  /\ \/ /\ pkt.seq # bot[d].lastSeq
        /\ thr' = [thr EXCEPT ![d] = Returned(d)]
        /\ UNCHANGED <<ep, bot, cbwErr, crossed>>
     \/ /\ pkt.seq = bot[d].lastSeq /\ cbwErr = 1
        /\ cbwErr' = 0
        /\ crossed' = [e \in Drive |-> crossed[e] \/ e # d]
        /\ BotSendCSW(d, d, b, csw("failed", TRUE))
     \/ /\ pkt.seq = bot[d].lastSeq /\ cbwErr # 1
        /\ IF pkt.op = "write" THEN BotSendCSW(d, d, b, csw(status, FALSE))
           ELSE IF status = "failed" THEN BotSendCSW(d, d, b, csw("failed", TRUE))
           ELSE SendData(d, d, b, csw("passed", pkt.op = "short"), pkt.tag, TRUE)
        /\ UNCHANGED <<cbwErr, crossed>>
  /\ UNCHANGED <<setting, host, iusb, seqNo, sem, budget, old, stray, left>>

(* A signal ends the server wherever it is.  Its sleeps end with an error: *)
(* after data the endpoint is stalled, and the CSW written over them.      *)
Crash(d) ==
  LET on == thr[d].drive
      csw == CSW(TagNow(d, on), "passed", TRUE)
  IN
  /\ thr[d].pc # "off" /\ Spend("crash")
  /\ thr' = [thr EXCEPT ![d].pc = "off"]
  /\ left' = [left EXCEPT ![d] = TRUE]
  /\ \/ thr[d].pc \in {"idle", "busy"} /\ UNCHANGED <<ep, bot>>
     \/ thr[d].pc = "csw" /\ ~ep[on].ready /\ UNCHANGED <<ep, bot>>
     \/ /\ thr[d].pc = "stall"
        /\ bot' = [bot EXCEPT ![on].unhalted = TRUE]
        /\ ep' = [ep EXCEPT ![on] = Written(@, thr[d].csw, FALSE)]
     \/ /\ thr[d].pc = "data" /\ ~ep[on].ready
        /\ bot' = [bot EXCEPT ![on].unhalted = TRUE]
        /\ ep' = [ep EXCEPT ![on] = Written([@ EXCEPT !.stalled = TRUE], csw, FALSE)]
  /\ UNCHANGED <<setting, host, iusb, kbuf, cbwErr, seqNo, sem, old, stray, crossed>>

(* The EXIT ioctl, from another process.                                   *)
Exit(d) ==
  /\ iusb[d].active /\ Spend("exit")
  /\ iusb' = [iusb EXCEPT ![d].active = FALSE]
  /\ left' = [left EXCEPT ![d] = TRUE]
  /\ UNCHANGED <<setting, host, ep, bot, kbuf, cbwErr, seqNo, sem, thr, old, stray, crossed>>

----------------------------------------------------------------------------
(* The host, and the interrupts it causes.                                 *)

(* A host takes long enough between a reset and SET_CONFIGURATION for the  *)
(* threads that the reset woke to have run.                                *)
Settled(d) ==
  /\ thr[0].pc \notin {"visit", "picked"}
  /\ \A t \in Thread : thr[t].pc \in {"data", "csw"} => thr[t].drive # d

HostConfigure(d) ==
  /\ host[d].pc = "off" /\ setting.cmds[d] > 0 /\ Settled(d)
  /\ host' = [host EXCEPT ![d].pc = "idle"]
  /\ ep' = [ep EXCEPT ![d] = [@ EXCEPT !.cfg = TRUE, !.fifo = Nothing, !.stalled = FALSE]]
  /\ UNCHANGED <<setting, bot, iusb, kbuf, cbwErr, seqNo, sem, thr, budget, hist>>

(* Mutant of WakeDpc: a running deferred call is not woken.                *)
WakeDpcIfIdle == IF thr[0].pc = "idle" THEN sem + 1 ELSE sem
WakeDpc == sem + 1

(* BotRxHandler: a packet is data as long as data are expected, else it    *)
(* has to be a CBW.  What needs no data raises the flag.                   *)
BotRxHandler(d, isCBW, tag, op) ==
  LET b == bot[d] IN
  \/ /\ b.outLen
     /\ bot' = [bot EXCEPT ![d] = [b EXCEPT !.outLen = FALSE, !.flag = TRUE]]
     /\ sem' = WakeDpc /\ old' = [old EXCEPT ![d] = FALSE]
  \/ /\ ~b.outLen /\ isCBW /\ op = "write"
     /\ bot' = [bot EXCEPT ![d] = [b EXCEPT !.tag = tag, !.op = op, !.outLen = TRUE]]
     /\ UNCHANGED <<sem, old>>
  \/ /\ ~b.outLen /\ isCBW /\ op # "write"
     /\ bot' = [bot EXCEPT ![d] = [b EXCEPT !.tag = tag, !.op = op, !.flag = TRUE]]
     /\ old' = [old EXCEPT ![d] = FALSE] /\ sem' = WakeDpc
  \/ ~b.outLen /\ ~isCBW /\ UNCHANGED <<bot, sem, old>>

HostCommand(d, op) ==
  LET tag == <<d, host[d].tag[2] + 1>> IN
  /\ host[d].pc = "idle" /\ host[d].tag[2] < setting.cmds[d] /\ op \in setting.ops[d]
  /\ host' = [host EXCEPT ![d] = [@ EXCEPT !.pc = IF op = "write" THEN "out" ELSE "wait",
                                           !.tag = tag, !.op = op, !.got = <<>>,
                                           !.status = "failed"]]
  /\ BotRxHandler(d, TRUE, tag, op)
  /\ UNCHANGED <<setting, ep, iusb, kbuf, cbwErr, seqNo, thr, budget, stray, crossed, left>>

HostData(d) ==
  /\ host[d].pc = "out"
  /\ host' = [host EXCEPT ![d].pc = "wait"]
  /\ BotRxHandler(d, FALSE, NoTag, "write")
  /\ UNCHANGED <<setting, ep, iusb, kbuf, cbwErr, seqNo, thr, budget, stray, crossed, left>>

Packets(op) == CASE op \in {"read", "short"} -> 2 [] op = "local" -> 1 [] OTHER -> 0

(* The host collects a packet; UsbTxHandler sends the next, or the write   *)
(* is complete.  A host that gets what it does not expect, or a phase      *)
(* error, resets the drive.                                                *)
HostIn(d) ==
  LET p == ep[d].fifo
      h == host[d]
  IN
  /\ ep[d].cfg /\ ~ep[d].stalled /\ p.kind # "none" /\ h.pc = "wait"
  /\ ep' = [ep EXCEPT ![d] =
       IF ep[d].rest THEN [@ EXCEPT !.rest = FALSE, !.fifo = Data(kbuf[Buffer(d)].tag)]
       ELSE [@ EXCEPT !.ready = TRUE, !.fifo = Nothing]]
  /\ host' = [host EXCEPT ![d] =
       IF p.kind = "data" /\ Len(h.got) < Packets(h.op)
       THEN [h EXCEPT !.got = Append(h.got, p.tag)]
       ELSE IF p.kind = "csw" /\ p.tag = h.tag /\ p.status # "phase"
       THEN [h EXCEPT !.pc = "idle", !.status = p.status, !.residue = p.residue]
       ELSE [h EXCEPT !.pc = "confused"]]
  /\ UNCHANGED <<setting, bot, iusb, kbuf, cbwErr, seqNo, sem, thr, budget, hist>>

(* CLEAR_FEATURE(ENDPOINT_HALT): BotUnHaltHandler wakes the sleepers.      *)
HostClearHalt(d) ==
  /\ ep[d].cfg /\ ep[d].stalled /\ host[d].pc = "wait"
  /\ ep' = [ep EXCEPT ![d].stalled = FALSE]
  /\ bot' = [bot EXCEPT ![d].unhalted = TRUE]
  /\ thr' = [t \in Thread |-> IF thr[t].pc = "stall" /\ thr[t].drive = d
                              THEN [thr[t] EXCEPT !.pc = "go"] ELSE thr[t]]
  /\ UNCHANGED <<setting, host, iusb, kbuf, cbwErr, seqNo, sem, budget, hist>>

(* Mutants of BotRemHandler.                                               *)
BotRemHandlerKeepsSeq(b) == [b EXCEPT !.unhalted = TRUE, !.outLen = FALSE]
BotRemHandlerKeepsLen(b) == [b EXCEPT !.unhalted = TRUE, !.lastSeq = 0]

BotRemHandler(b) == [b EXCEPT !.unhalted = TRUE, !.outLen = FALSE, !.lastSeq = 0]

(* A thread that does not come to the end of its command before the host   *)
(* has configured the drive again: after data with a residue it still has  *)
(* to wait for UnHalted.                                                   *)
Lingers(t, d) ==
  /\ thr[t].drive = d
  /\ \/ thr[t].pc \in {"picked", "stall", "go"}
     \/ thr[t].pc = "data" /\ thr[t].csw.residue

(* UsbBusReset.  Threads that wait for TxReady find it true; one that      *)
(* waits for UnHalted is not woken, and the interface flag stays.          *)
UsbBusReset(d) ==
  /\ host' = [host EXCEPT ![d].pc = "off"]
  /\ ep' = [ep EXCEPT ![d] = [cfg |-> FALSE, ready |-> TRUE, rest |-> FALSE,
                              fifo |-> Nothing, stalled |-> FALSE]]
  /\ bot' = [bot EXCEPT ![d] = BotRemHandler(@)]
  /\ old' = [old EXCEPT ![d] = bot[d].flag]
  /\ stray' = [stray EXCEPT ![d] = @ \/ \E t \in Thread : Lingers(t, d)]
  /\ UNCHANGED <<setting, iusb, kbuf, cbwErr, seqNo, sem, thr, crossed, left>>

HostReset(d) == host[d].pc \in {"idle", "out", "wait"} /\ Spend("reset") /\ UsbBusReset(d)
HostRecovers(d) == host[d].pc = "confused" /\ UsbBusReset(d) /\ UNCHANGED budget

Next ==
  \/ DpcWake \/ DpcVisit \/ DpcProcess
  \/ \E t \in Thread :
       \/ DataSent(t) \/ CSWSent(t) \/ Unstalled(t)
       \/ StallTimeout(t) \/ DataTimeout(t) \/ CSWTimeout(t)
  \/ \E d \in Drive :
       \/ Activate(d) \/ WaitRequest(d) \/ Crash(d) \/ Exit(d)
       \/ \E status \in {"passed", "failed"} : ScsiSendResponse(d, status)
       \/ HostConfigure(d) \/ HostData(d) \/ HostIn(d) \/ HostClearHalt(d)
       \/ \E op \in Op : HostCommand(d, op)
       \/ HostReset(d) \/ HostRecovers(d)

Spec == Init /\ [][Next]_vars

TimeoutDue(t) ==
  (StallTimeout(t) \/ DataTimeout(t) \/ CSWTimeout(t)) /\ UNCHANGED budget

(* Threads run, servers answer, and the host goes on with what it started; *)
(* it need not send commands, and no fault has to happen.                  *)
FairSpec ==
  /\ Spec
  /\ WF_vars(DpcWake \/ DpcVisit \/ DpcProcess)
  /\ \A t \in Thread : WF_vars(DataSent(t) \/ CSWSent(t) \/ Unstalled(t) \/ TimeoutDue(t))
  /\ \A d \in Drive :
       /\ WF_vars(WaitRequest(d))
       /\ WF_vars(\E status \in {"passed", "failed"} : ScsiSendResponse(d, status))
       /\ WF_vars(HostConfigure(d)) /\ WF_vars(HostData(d)) /\ WF_vars(HostIn(d))
       /\ WF_vars(HostClearHalt(d)) /\ WF_vars(HostRecovers(d))

----------------------------------------------------------------------------
(* Properties.                                                             *)

Packet == [seq : Nat, tag : Tag, op : Op]
Sent == [kind : {"none", "data", "csw"}, tag : Tag,
         status : {"passed", "failed", "phase"}, residue : BOOLEAN]

TypeOK ==
  /\ setting \in Settings
  /\ host \in [Drive -> [pc : {"off", "idle", "out", "wait", "confused"}, tag : Tag, op : Op,
                         got : Seq(Tag), status : {"passed", "failed"}, residue : BOOLEAN]]
  /\ \A d \in Drive : host[d].tag[1] = d /\ Len(host[d].got) <= 2
  /\ ep \in [Drive -> [cfg : BOOLEAN, ready : BOOLEAN, rest : BOOLEAN, fifo : Sent,
                       stalled : BOOLEAN]]
  /\ bot \in [Drive -> [tag : Tag, op : Op, outLen : BOOLEAN, lastSeq : 0..seqNo,
                        unhalted : BOOLEAN, flag : BOOLEAN]]
  /\ iusb \in [Drive -> [active : BOOLEAN, wakeup : BOOLEAN, pkt : Packet]]
  /\ kbuf \in [{"cd", "hd"} -> Packet]
  /\ cbwErr \in 0..2 /\ seqNo \in Nat /\ sem \in Nat
  /\ thr \in [Thread -> [pc : {"off", "idle", "busy", "visit", "picked", "data", "stall", "go", "csw"},
                         drive : 1..(NumDrives + 1), pkt : Packet, csw : Sent]]
  /\ budget \in [Fault -> Nat]
  /\ old \in [Drive -> BOOLEAN] /\ stray \in [Drive -> BOOLEAN]
  /\ crossed \in [Drive -> BOOLEAN] /\ left \in [Drive -> BOOLEAN]

(* What lies in an IN endpoint belongs to the command its host waits for:  *)
(* no data of another drive or of an earlier command, no second CSW.  Not  *)
(* so once a thread worked for a command given up by a reset.              *)
PacketIsAwaited ==
  \A d \in Drive : ~stray[d] /\ ep[d].fifo.kind # "none" =>
    host[d].pc \in {"wait", "confused"} /\ ep[d].fifo.tag = host[d].tag

(* A read that the drive reports complete delivered its own data, whole.   *)
HostReadsOwn ==
  \A d \in Drive : LET h == host[d] IN
    ~stray[d] /\ h.pc = "idle" /\ h.op = "read" /\ h.status = "passed" /\ ~h.residue =>
      h.got = <<h.tag, h.tag>>

(* "SeqNo Mismatch: Due to delayed packet and device reset": the answer    *)
(* that is passed on is the one the host is waiting for, whatever resets   *)
(* and commands came while the server worked.                              *)
AnswerIsAwaited ==
  [][\A d \in Drive :
       thr[d].pc = "busy" /\ thr'[d].pc \in {"data", "stall", "csw"} /\ ~stray[d] =>
         host[d].pc = "wait" /\ host[d].tag = thr[d].pkt.tag]_vars

(* CBWErrorOccur is one variable for all drives: as long as no other drive *)
(* has used it, a transfer is cut to nothing for the command that asked    *)
(* for too much, and for no other.                                         *)
CaseIsOwn ==
  [][\A d \in Drive :
       thr[d].pc = "busy" /\ thr'[d].pc \in {"data", "stall", "csw"} /\ ~crossed[d] =>
         ((thr[d].pkt.op = "short") <=> (cbwErr = 1))]_vars

(* A drive whose host is ready to send a command takes it as one.          *)
CommandNotData == \A d \in Drive : host[d].pc \in {"off", "idle"} => ~bot[d].outLen

(* A command that was received is never left behind by the deferred call.  *)
NoLostCommand ==
  \A d \in Drive : thr[0].pc = "idle" /\ host[d].pc = "wait" /\ bot[d].flag => sem > 0

(* A command is answered as long as the server of the drive stays.         *)
HostServed == \A d \in Drive : host[d].pc = "wait" ~> host[d].pc # "wait" \/ left[d]
====
