---- MODULE Kcs ----
(***************************************************************************)
(* One channel of the KCS (keyboard controller style) IPMI interface:      *)
(* kcs-src/kcsmain.c on top of kcs_hw-ARM-AST-src/ast_kcs.c.               *)
(*                                                                         *)
(* Four actors meet here.                                                  *)
(*   - The host's system management software writes the data and command   *)
(*     registers and reads the status and data-out registers.  It runs on  *)
(*     another processor, so it may move between any two register accesses *)
(*     of the driver.                                                      *)
(*   - The interrupt handler (ast_kcs_irq_handler, process_kcs_intr,       *)
(*     kcs_recv_byte).  The BMC has one core, so no system call advances   *)
(*     while it runs: irq # "off" blocks them all.                         *)
(*   - The IPMI daemon's reader, in kcs_read and kcs_request.              *)
(*   - The IPMI daemon's responder, in kcs_write and send_kcs_response,    *)
(*     which an interrupt may preempt between any two of its steps.        *)
(*                                                                         *)
(* A request byte is the number of the host transaction it belongs to, and *)
(* a response carries the request it was computed from, so that an answer  *)
(* to the wrong, or to a torn, request can be told from the right one.     *)
(***************************************************************************)
EXTENDS Integers, Sequences

CONSTANTS
  MaxSeqNo,    \* MAX_SEQ_NO, where the sequence number wraps (250 in the code)
  MaxPktLen,   \* MAX_KCS_PKT_LEN, where the receive index stops growing
  BodyLen,     \* bytes of a request after its sequence number
  MaxRspLen,   \* bound: bytes of a response, of which there is at least one
  MaxTxn,      \* bound: host transactions of a behaviour
  Budget       \* bound: how often each fault of FaultKinds, and any, may happen

(* What may go wrong: the host gives up and aborts, the host restarts, a   *)
(* signal interrupts the sleeping reader, the host writes bytes that do    *)
(* not follow the protocol, the daemon exits, the interrupt is disabled.   *)
FaultKinds == {"abort", "crash", "signal", "noise", "exit", "disable"}

ASSUME ConstantsAssumption ==
  /\ MaxSeqNo \in Nat \ {0}
  /\ BodyLen \in Nat \ {0}
  /\ MaxRspLen \in Nat \ {0}
  /\ MaxPktLen \in Nat
  /\ BodyLen < MaxPktLen
  /\ MaxTxn \in Nat
  /\ Budget \in [FaultKinds \cup {"any"} -> Nat]

VARIABLES
  str,         \* state bits 7:6 of the status register
  ibf, cd,     \* input buffer full; the last write was to the command register
  idr,         \* data-in register
  obf, odr,    \* output buffer full, data-out register
  enabled,     \* IBFIE of the channel
  irq,         \* where the interrupt handler is
  out,         \* the byte the handler will write to data-out
  rcvPkt,      \* pKCSRcvPkt up to KCSRcvPktIx
  sendIx, sendLen, response,  \* KCSSendPktIx, KCSSendPktLen and the Response buffer
  phase, abortPhase, kcsError, seqNo,
  firstTime, ifActive, wakeup, inUse, prevAborted,
  rd, inbox, wr,              \* reader, packets read and not yet answered, responder
  host, txn, sent, got,       \* host: where it is, transaction, bytes written, bytes read
  left,        \* remaining Budget
  delivered,   \* history: how many packets kcs_request has returned
  replied,     \* history: the request received last went through send_kcs_response
  answered     \* history: transactions that ended with the whole, right answer

registers == <<str, ibf, cd, idr, obf, odr>>
handlerVars == <<irq, out>>
packet == <<rcvPkt, seqNo>>
sending == <<sendIx, sendLen, response>>
phases == <<phase, abortPhase, kcsError>>
flags == <<firstTime, ifActive, wakeup, inUse, prevAborted>>
daemon == <<rd, inbox, wr, delivered, replied>>
hostVars == <<host, txn, sent, got, answered>>
vars == <<registers, handlerVars, packet, sending, phases, flags, daemon, hostVars,
          enabled, left>>

States == {"IDLE", "READ", "WRITE", "ERROR"}
Phases == {"IDLE", "WRITE", "WRITE_END", "READ", "ABORT", "ERROR"}
Codes == {"WRITE_START", "WRITE_END", "ABORT", "READ", "OTHER", "DATA"}
ErrorCodes == {"NO_ERROR", "ABORTED", "ILLEGAL", "GARBAGE"}

In(code, t) == [code |-> code, txn |-> t]
NoBody == <<>>
(* A response: the body of the request it answers, and its length.         *)
Rsp(body, len) == [body |-> body, len |-> len]
NoRsp == Rsp(NoBody, 0)
(* Data-out bytes: a dummy, a status code, or byte ix of a response.       *)
Dummy == [kind |-> "DUMMY", rsp |-> NoRsp, ix |-> 0]
StatusCode(e) == [kind |-> e, rsp |-> NoRsp, ix |-> 0]
RspByte(rsp, ix) == [kind |-> "RSP", rsp |-> rsp, ix |-> ix]

(* The body of transaction t's request, and an answer of n bytes to it.    *)
Body(t) == [i \in 1..BodyLen |-> t]
Answer(t, n) == [i \in 1..n |-> RspByte(Rsp(Body(t), n), i - 1)]
Answered(t, bytes) == \E n \in 1..MaxRspLen : bytes = Answer(t, n)

Spend(kind) ==
  /\ left[kind] > 0 /\ left["any"] > 0
  /\ left' = [left EXCEPT ![kind] = @ - 1, !["any"] = @ - 1]

(* register_kcs_hal_module and ast_kcs_init_hw: the buffers are allocated  *)
(* but KCSError is not written, so it holds whatever the memory held, and  *)
(* the phase is given by the first open.  The registers start in ERROR.    *)
Init ==
  /\ str = "ERROR" /\ ibf = FALSE /\ cd = FALSE /\ idr = In("OTHER", 0)
  /\ obf = FALSE /\ odr = Dummy
  /\ enabled = FALSE /\ irq = "off" /\ out = Dummy
  /\ rcvPkt = <<>> /\ sendIx = 0 /\ sendLen = 0 /\ response = NoRsp
  /\ phase = "IDLE" /\ abortPhase = 0 /\ kcsError \in {"NO_ERROR", "GARBAGE"} /\ seqNo = 0
  /\ firstTime = TRUE /\ ifActive = FALSE /\ wakeup = FALSE /\ inUse = FALSE
  /\ prevAborted = FALSE
  /\ rd = "closed" /\ inbox = <<>> /\ wr = "idle" /\ delivered = 0
  /\ replied = FALSE
  /\ host = "idle" /\ txn = 0 /\ sent = 0 /\ got = <<>> /\ answered = 0
  /\ left = Budget

----------------------------------------------------------------------------
(* The interrupt handler.                                                  *)

(* Mutant of EntryState: the last byte of a request is read in the state   *)
(* WRITE.                                                                  *)
EntryStateNoRead ==
  IF cd THEN "WRITE"
  ELSE CASE phase = "WRITE" -> "WRITE"
         [] phase = "READ" /\ sendIx = sendLen -> "IDLE"
         [] phase = "ABORT" /\ abortPhase = 1 -> "READ"
         [] phase = "ABORT" /\ abortPhase = 2 -> "IDLE"
         [] OTHER -> str

(* The state the handler writes before it reads data-in.                   *)
EntryState ==
  IF cd THEN "WRITE"
  ELSE CASE phase = "WRITE" -> "WRITE"
         [] phase = "WRITE_END" -> "READ"
         [] phase = "READ" /\ sendIx = sendLen -> "IDLE"
         [] phase = "ABORT" /\ abortPhase = 1 -> "READ"
         [] phase = "ABORT" /\ abortPhase = 2 -> "IDLE"
         [] OTHER -> str

(* IBF raised an enabled interrupt: the handler reads the status register, *)
(* chooses its branch and sets the state.                                  *)
IrqEnter ==
  /\ irq = "off" /\ ibf /\ enabled
  /\ irq' = "take"
  /\ str' = EntryState
  /\ UNCHANGED <<ibf, cd, idr, obf, odr, out, packet, sending, phases, flags, daemon,
                 hostVars, enabled, left>>

(* What the branches share: reading data-in clears IBF, and from here on   *)
(* the host may read the status and write again.  An "error" branch still  *)
(* has to set ERROR, a "put" branch still has to write byte b.             *)
ReadIdr(next, b) ==
  /\ irq = "take"
  /\ ibf' = FALSE
  /\ irq' = next /\ out' = b
  /\ UNCHANGED <<str, cd, idr, obf, odr, rd, inbox, wr, delivered, hostVars, enabled, left>>

Command(code) == cd /\ idr.code = code
DataIn(p) == ~cd /\ phase = p

(* Mutant of TakeWriteStart: the sequence number does not wrap.            *)
TakeWriteStartNoWrap ==
  /\ Command("WRITE_START")
  /\ ReadIdr("off", out)
  /\ seqNo' = seqNo + 1
  /\ rcvPkt' = <<seqNo'>>
  /\ phase' = "WRITE"
  /\ prevAborted' = FALSE
  /\ UNCHANGED <<sending, abortPhase, kcsError, firstTime, ifActive, wakeup, inUse, replied>>

(* Mutant of TakeWriteStart: the receive index is not reset.               *)
TakeWriteStartNoReset ==
  /\ Command("WRITE_START")
  /\ ReadIdr("off", out)
  /\ seqNo' = (seqNo + 1) % MaxSeqNo
  /\ rcvPkt' = Append(rcvPkt, seqNo')
  /\ phase' = "WRITE"
  /\ prevAborted' = FALSE
  /\ UNCHANGED <<sending, abortPhase, kcsError, firstTime, ifActive, wakeup, inUse, replied>>

TakeWriteStart ==
  /\ Command("WRITE_START")
  /\ ReadIdr("off", out)
  /\ seqNo' = (seqNo + 1) % MaxSeqNo
  /\ rcvPkt' = <<seqNo'>>
  /\ phase' = "WRITE"
  /\ prevAborted' = FALSE
  /\ UNCHANGED <<sending, abortPhase, kcsError, firstTime, ifActive, wakeup, inUse, replied>>

TakeWriteEnd ==
  /\ Command("WRITE_END")
  /\ ReadIdr("off", out)
  /\ phase' = "WRITE_END"
  /\ UNCHANGED <<packet, sending, abortPhase, kcsError, flags, replied>>

(* An abort marks the request as aborted only if it finds the daemon       *)
(* outside kcs_request.                                                    *)
TakeAbort ==
  /\ Command("ABORT")
  /\ ReadIdr("put", Dummy)
  /\ prevAborted' = (prevAborted \/ (~ifActive /\ ~firstTime))
  /\ kcsError' = IF kcsError = "NO_ERROR" THEN "ABORTED" ELSE kcsError
  /\ phase' = "ABORT" /\ abortPhase' = 1
  /\ UNCHANGED <<packet, sending, firstTime, ifActive, wakeup, inUse, replied>>

TakeIllegal ==
  /\ cd /\ idr.code \notin {"WRITE_START", "WRITE_END", "ABORT"}
  /\ ReadIdr("error", out)
  /\ kcsError' = "ILLEGAL"
  /\ phase' = "ERROR"
  /\ UNCHANGED <<packet, sending, abortPhase, flags, replied>>

(* At MAX_KCS_PKT_LEN the index stays where it is.                         *)
TakeWriteByte ==
  /\ DataIn("WRITE")
  /\ ReadIdr("off", out)
  /\ rcvPkt' = IF Len(rcvPkt) < MaxPktLen THEN Append(rcvPkt, idr.txn) ELSE rcvPkt
  /\ UNCHANGED <<seqNo, sending, phases, flags, replied>>

(* Mutant of TakeLastByte: the reader is signalled only if it sleeps.      *)
TakeLastByteIfActive ==
  /\ DataIn("WRITE_END")
  /\ ReadIdr("off", out)
  /\ rcvPkt' = Append(rcvPkt, idr.txn)
  /\ phase' = "READ"
  /\ wakeup' = (wakeup \/ ifActive)
  /\ replied' = FALSE
  /\ UNCHANGED <<seqNo, sending, abortPhase, kcsError, firstTime, ifActive, inUse,
                 prevAborted>>

TakeLastByte ==
  /\ DataIn("WRITE_END")
  /\ ReadIdr("off", out)
  /\ rcvPkt' = Append(rcvPkt, idr.txn)
  /\ phase' = "READ"
  /\ wakeup' = (wakeup \/ inUse)
  /\ replied' = FALSE
  /\ UNCHANGED <<seqNo, sending, abortPhase, kcsError, firstTime, ifActive, inUse,
                 prevAborted>>

TakeReadError ==
  /\ DataIn("READ") /\ idr.code # "READ"
  /\ ReadIdr("error-put", Dummy)
  /\ UNCHANGED <<packet, sending, phases, flags, replied>>

TakeReadDone ==
  /\ DataIn("READ") /\ idr.code = "READ" /\ sendIx = sendLen
  /\ ReadIdr("put", Dummy)
  /\ phase' = "IDLE"
  /\ UNCHANGED <<packet, sending, abortPhase, kcsError, flags, replied>>

TakeReadNext ==
  /\ DataIn("READ") /\ idr.code = "READ" /\ sendIx # sendLen
  /\ ReadIdr("put", RspByte(response, sendIx))
  /\ sendIx' = sendIx + 1
  /\ UNCHANGED <<packet, sendLen, response, phases, flags, replied>>

(* Mutant of TakeAbort1: the abort phase does not advance.                 *)
TakeAbort1Stuck ==
  /\ DataIn("ABORT") /\ abortPhase = 1
  /\ ReadIdr("put", StatusCode(kcsError))
  /\ UNCHANGED <<packet, sending, phases, flags, replied>>

TakeAbort1 ==
  /\ DataIn("ABORT") /\ abortPhase = 1
  /\ ReadIdr("put", StatusCode(kcsError))
  /\ abortPhase' = 2
  /\ UNCHANGED <<packet, sending, phase, kcsError, flags, replied>>

TakeAbort2 ==
  /\ DataIn("ABORT") /\ abortPhase = 2
  /\ ReadIdr("put", Dummy)
  /\ phase' = "IDLE" /\ abortPhase' = 0
  /\ UNCHANGED <<packet, sending, kcsError, flags, replied>>

(* A data byte in a phase that expects none.                               *)
TakeUnexpected ==
  /\ ~cd /\ phase \in {"IDLE", "ERROR"}
  /\ ReadIdr("error-put", Dummy)
  /\ UNCHANGED <<packet, sending, phases, flags, replied>>

(* set_kcs_state(ERROR) after data-in was read.                            *)
IrqSetError ==
  /\ irq \in {"error", "error-put"}
  /\ str' = "ERROR"
  /\ irq' = IF irq = "error-put" THEN "put" ELSE "off"
  /\ UNCHANGED <<ibf, cd, idr, obf, odr, out, packet, sending, phases, flags, daemon,
                 hostVars, enabled, left>>

(* write_kcs_data_out: the hardware sets OBF.                              *)
IrqPut ==
  /\ irq = "put"
  /\ odr' = out /\ obf' = TRUE
  /\ irq' = "off"
  /\ UNCHANGED <<str, ibf, cd, idr, out, packet, sending, phases, flags, daemon,
                 hostVars, enabled, left>>

IrqTake ==
  \/ TakeWriteStart \/ TakeWriteEnd \/ TakeAbort \/ TakeIllegal
  \/ TakeWriteByte \/ TakeLastByte
  \/ TakeReadError \/ TakeReadDone \/ TakeReadNext
  \/ TakeAbort1 \/ TakeAbort2 \/ TakeUnexpected

Irq == IrqEnter \/ IrqTake \/ IrqSetError \/ IrqPut

----------------------------------------------------------------------------
(* System calls of the IPMI daemon.                                        *)

Process == irq = "off"

KcsOpen ==
  /\ Process /\ rd = "closed"
  /\ rd' = "user"
  /\ rcvPkt' = <<>> /\ sendIx' = 0 /\ sendLen' = 0
  /\ phase' = "IDLE" /\ inUse' = TRUE
  /\ UNCHANGED <<registers, handlerVars, seqNo, response, abortPhase, kcsError, firstTime,
                 ifActive, wakeup, prevAborted, inbox, wr, delivered, replied, hostVars, enabled, left>>

(* The daemon closes the device when it exits, and loses what it had read. *)
KcsRelease ==
  /\ Process /\ rd = "user" /\ wr = "idle"
  /\ Spend("exit")
  /\ rd' = "closed" /\ inbox' = <<>>
  /\ inUse' = FALSE
  /\ UNCHANGED <<registers, handlerVars, packet, sending, phases, firstTime, ifActive,
                 wakeup, prevAborted, wr, delivered, replied, hostVars, enabled>>

KcsEnable ==
  /\ Process /\ rd # "closed" /\ ~enabled
  /\ enabled' = TRUE
  /\ UNCHANGED <<registers, handlerVars, packet, sending, phases, flags, daemon, hostVars,
                 left>>

KcsDisable ==
  /\ Process /\ rd # "closed" /\ enabled
  /\ Spend("disable")
  /\ enabled' = FALSE
  /\ UNCHANGED <<registers, handlerVars, packet, sending, phases, flags, daemon, hostVars>>

(* Mutant of ReaderCall: the signal is cleared on the way to sleep.        *)
ReaderCallClears ==
  /\ Process /\ rd = "user"
  /\ rd' = "sleep"
  /\ firstTime' = FALSE /\ ifActive' = TRUE /\ wakeup' = FALSE
  /\ UNCHANGED <<registers, handlerVars, packet, sending, phases, inUse,
                 prevAborted, inbox, wr, delivered, replied, hostVars, enabled, left>>

(* kcs_request up to the sleep.                                            *)
ReaderCall ==
  /\ Process /\ rd = "user"
  /\ rd' = "sleep"
  /\ firstTime' = FALSE /\ ifActive' = TRUE
  /\ UNCHANGED <<registers, handlerVars, packet, sending, phases, wakeup, inUse,
                 prevAborted, inbox, wr, delivered, replied, hostVars, enabled, left>>

(* Mutant of LeaveSleep: the signal is not cleared.                        *)
LeaveSleepSignalled ==
  /\ Process /\ rd = "sleep"
  /\ rd' = "copy"
  /\ ifActive' = FALSE
  /\ UNCHANGED <<registers, handlerVars, packet, sending, phases, firstTime, inUse,
                 wakeup, prevAborted, inbox, wr, delivered, replied, hostVars, enabled>>

(* kcs_request leaves the sleep and clears its flags under kcs_lock.       *)
LeaveSleep ==
  /\ Process /\ rd = "sleep"
  /\ rd' = "copy"
  /\ wakeup' = FALSE /\ ifActive' = FALSE
  /\ UNCHANGED <<registers, handlerVars, packet, sending, phases, firstTime, inUse,
                 prevAborted, inbox, wr, delivered, replied, hostVars, enabled>>

ReaderWake == wakeup /\ LeaveSleep /\ UNCHANGED left

(* wait_event_interruptible may return early; nobody looks at its result.  *)
ReaderSignal == ~wakeup /\ LeaveSleep /\ Spend("signal")

(* __copy_to_user of the packet as it is now, outside kcs_lock.            *)
ReaderCopy ==
  /\ Process /\ rd = "copy"
  /\ rd' = "user"
  /\ inbox' = IF rcvPkt = <<>> THEN inbox ELSE Append(inbox, rcvPkt)
  /\ delivered' = delivered + 1
  /\ UNCHANGED <<registers, handlerVars, packet, sending, phases, flags, wr, replied,
                 hostVars, enabled, left>>

(* kcs_write_request copies the daemon's response into the channel's one   *)
(* buffer, and send_kcs_response decides whether to send it.               *)
RespondCheck ==
  /\ Process /\ wr = "idle" /\ inbox # <<>>
  /\ inbox' = Tail(inbox)
  /\ \E n \in 1..MaxRspLen : response' = Rsp(Tail(Head(inbox)), n)
  /\ wr' = IF ~prevAborted /\ seqNo = Head(Head(inbox)) THEN "len" ELSE "idle"
  /\ prevAborted' = FALSE
  /\ replied' = (replied \/ (wr' = "len" /\ Head(inbox) = rcvPkt))
  /\ UNCHANGED <<registers, handlerVars, packet, sendIx, sendLen, phases, firstTime,
                 ifActive, wakeup, inUse, rd, delivered, hostVars, enabled, left>>

(* The length and the index are two stores, and an interrupt that falls    *)
(* between them goes by the new length and the old index.                  *)
RespondLen ==
  /\ Process /\ wr = "len"
  /\ sendLen' = response.len
  /\ wr' = "index"
  /\ UNCHANGED <<registers, handlerVars, packet, sendIx, response, phases, flags, rd,
                 inbox, delivered, replied, hostVars, enabled, left>>

RespondIndex ==
  /\ Process /\ wr = "index"
  /\ sendIx' = 1
  /\ wr' = "put"
  /\ UNCHANGED <<registers, handlerVars, packet, sendLen, response, phases, flags, rd,
                 inbox, delivered, replied, hostVars, enabled, left>>

RespondPut ==
  /\ Process /\ wr = "put"
  /\ odr' = RspByte(response, 0) /\ obf' = TRUE
  /\ wr' = "idle"
  /\ UNCHANGED <<str, ibf, cd, idr, handlerVars, packet, sending, phases, flags, rd,
                 inbox, delivered, replied, hostVars, enabled, left>>

Reader == ReaderCall \/ ReaderWake \/ ReaderCopy
Responder == RespondCheck \/ RespondLen \/ RespondIndex \/ RespondPut

----------------------------------------------------------------------------
(* The host's system management software, as the IPMI specification's      *)
(* write, read and error-exit charts have it: it waits for IBF to clear,   *)
(* checks the state, empties data-out, and only then writes.               *)

Ready == ~ibf

Write(command, code, t) ==
  /\ ibf' = TRUE /\ cd' = command /\ idr' = In(code, t)
  /\ obf' = FALSE
  /\ UNCHANGED <<str, odr>>

HostElse == UNCHANGED <<handlerVars, packet, sending, phases, flags, daemon, enabled>>

HostStart ==
  /\ host = "idle" /\ Ready /\ txn < MaxTxn
  /\ txn' = txn + 1 /\ sent' = 0 /\ got' = <<>>
  /\ host' = "writing"
  /\ Write(TRUE, "WRITE_START", 0)
  /\ HostElse /\ UNCHANGED <<answered, left>>

HostWriteData ==
  /\ host = "writing" /\ Ready /\ str = "WRITE" /\ sent < BodyLen - 1
  /\ sent' = sent + 1
  /\ Write(FALSE, "DATA", txn)
  /\ HostElse /\ UNCHANGED <<host, txn, got, answered, left>>

HostWriteEnd ==
  /\ host = "writing" /\ Ready /\ str = "WRITE" /\ sent = BodyLen - 1
  /\ host' = "ending"
  /\ Write(TRUE, "WRITE_END", 0)
  /\ HostElse /\ UNCHANGED <<txn, sent, got, answered, left>>

HostWriteLast ==
  /\ host = "ending" /\ Ready /\ str = "WRITE"
  /\ host' = "reading"
  /\ Write(FALSE, "DATA", txn)
  /\ HostElse /\ UNCHANGED <<txn, sent, got, answered, left>>

HostRead ==
  /\ host = "reading" /\ Ready /\ str = "READ" /\ obf
  /\ Len(got) <= MaxRspLen   \* bound: the host stops reading beyond any answer
  /\ got' = Append(got, odr)
  /\ Write(FALSE, "READ", 0)
  /\ HostElse /\ UNCHANGED <<host, txn, sent, answered, left>>

HostFinish ==
  /\ host = "reading" /\ Ready /\ str = "IDLE" /\ obf
  /\ host' = "idle"
  /\ obf' = FALSE
  /\ answered' = IF Answered(txn, got) THEN answered + 1 ELSE answered
  /\ UNCHANGED <<str, ibf, cd, idr, odr, txn, sent, got, left>> /\ HostElse

(* A state the chart does not expect sends the host to its error exit.     *)
HostError ==
  /\ Ready
  /\ \/ host \in {"writing", "ending"} /\ str # "WRITE"
     \/ host = "reading" /\ str \notin {"READ", "IDLE"}
     \/ host = "aborting1" /\ str # "READ"
     \/ host = "aborting2" /\ str # "IDLE"
  /\ host' = "failed"
  /\ UNCHANGED <<registers, txn, sent, got, answered, left>> /\ HostElse

HostTimeout ==
  /\ host \in {"writing", "ending", "reading"}
  /\ Spend("abort")
  /\ host' = "failed"
  /\ UNCHANGED <<registers, txn, sent, got, answered>> /\ HostElse

HostAbort ==
  /\ host = "failed" /\ Ready
  /\ host' = "abort"
  /\ Write(TRUE, "ABORT", 0)
  /\ HostElse /\ UNCHANGED <<txn, sent, got, answered, left>>

HostAbortDummy ==
  /\ host = "abort" /\ Ready
  /\ host' = "aborting1"
  /\ Write(FALSE, "DATA", 0)
  /\ HostElse /\ UNCHANGED <<txn, sent, got, answered, left>>

HostAbortStatus ==
  /\ host = "aborting1" /\ Ready /\ str = "READ" /\ obf
  /\ host' = "aborting2"
  /\ Write(FALSE, "READ", 0)
  /\ HostElse /\ UNCHANGED <<txn, sent, got, answered, left>>

HostAbortDone ==
  /\ host = "aborting2" /\ Ready /\ str = "IDLE" /\ obf
  /\ host' = "idle"
  /\ obf' = FALSE
  /\ UNCHANGED <<str, ibf, cd, idr, odr, txn, sent, got, answered, left>> /\ HostElse

(* The host restarts and forgets what it was doing.                        *)
HostCrash ==
  /\ host # "idle"
  /\ Spend("crash")
  /\ host' = "idle"
  /\ UNCHANGED <<registers, txn, sent, got, answered>> /\ HostElse

(* Host software that does not follow the charts writes one byte.          *)
HostNoise ==
  /\ host = "idle" /\ Ready
  /\ Spend("noise")
  /\ \E command \in BOOLEAN, code \in Codes : Write(command, code, 0)
  /\ UNCHANGED hostVars /\ HostElse

HostTalk ==
  \/ HostWriteData \/ HostWriteEnd \/ HostWriteLast \/ HostRead \/ HostFinish
HostRecover ==
  \/ HostError \/ HostAbort \/ HostAbortDummy \/ HostAbortStatus \/ HostAbortDone

----------------------------------------------------------------------------
Next ==
  \/ Irq
  \/ KcsOpen \/ KcsRelease \/ KcsEnable \/ KcsDisable
  \/ Reader \/ ReaderSignal \/ Responder
  \/ HostStart \/ HostTalk \/ HostRecover \/ HostTimeout \/ HostCrash \/ HostNoise

Spec == Init /\ [][Next]_vars

(* The handler runs whenever its level interrupt is raised, the daemon     *)
(* goes on reading and answering, and a host that has begun goes on.  No   *)
(* fault is fair, and the host need not begin.                             *)
Fairness ==
  /\ WF_vars(Irq)
  /\ WF_vars(Reader) /\ WF_vars(Responder)
  /\ WF_vars(HostTalk) /\ WF_vars(HostRecover)
  /\ WF_vars(KcsOpen) /\ WF_vars(KcsEnable)

FairSpec == Spec /\ Fairness

----------------------------------------------------------------------------
(* Properties.                                                             *)

Packets == Seq(0..MaxSeqNo \cup 0..MaxTxn)
Responses == [body : Packets, len : 0..MaxRspLen]
OutBytes == [kind : {"DUMMY", "RSP"} \cup ErrorCodes, rsp : Responses, ix : Nat]

RegistersOK ==
  /\ str \in States /\ ibf \in BOOLEAN /\ cd \in BOOLEAN /\ obf \in BOOLEAN
  /\ idr \in [code : Codes, txn : 0..MaxTxn] /\ odr \in OutBytes
HandlerOK ==
  irq \in {"off", "take", "error", "error-put", "put"} /\ out \in OutBytes
PacketOK ==
  rcvPkt \in Packets /\ seqNo \in 0..(MaxSeqNo - 1)
SendingOK ==
  sendIx \in Nat /\ sendLen \in 0..MaxRspLen /\ response \in Responses
PhasesOK ==
  phase \in Phases /\ abortPhase \in 0..2 /\ kcsError \in ErrorCodes
FlagsOK ==
  /\ firstTime \in BOOLEAN /\ ifActive \in BOOLEAN /\ wakeup \in BOOLEAN
  /\ inUse \in BOOLEAN /\ prevAborted \in BOOLEAN
DaemonOK ==
  /\ rd \in {"closed", "user", "sleep", "copy"}
  /\ inbox \in Seq(Packets \ {<<>>}) /\ wr \in {"idle", "len", "index", "put"}
  /\ delivered \in Nat /\ replied \in BOOLEAN
HostOK ==
  /\ host \in {"idle", "writing", "ending", "reading", "failed", "abort", "aborting1",
               "aborting2"}
  /\ txn \in 0..MaxTxn /\ sent \in 0..(BodyLen - 1) /\ got \in Seq(OutBytes)
  /\ answered \in Nat

(* Types, with the sequence number in the range of a counter that wraps at *)
(* MAX_SEQ_NO.                                                             *)
TypeOK ==
  /\ RegistersOK /\ HandlerOK /\ PacketOK /\ SendingOK /\ PhasesOK
  /\ FlagsOK /\ DaemonOK /\ HostOK
  /\ enabled \in BOOLEAN /\ left \in [FaultKinds \cup {"any"} -> Nat]

(* The state a phase shows the host.                                       *)
StateOf(p, a) ==
  CASE p \in {"WRITE", "WRITE_END"} -> {"WRITE"}
    [] p = "READ" -> {"READ", "ERROR"}
    [] p = "ABORT" -> IF a = 1 THEN {"WRITE"} ELSE {"READ"}
    [] p = "ERROR" -> {"ERROR"}
    [] OTHER -> States

(* The state bits are those of the phase the driver is in, whatever the    *)
(* host, the daemon and the faults have done, except while the handler     *)
(* moves from one phase to the next and owes an ERROR: since it sets the   *)
(* state before it reads data-in, a host that finds IBF clear never goes   *)
(* by the state of the phase before.                                       *)
HostSeesPhase == irq \in {"off", "put"} => str \in StateOf(phase, abortPhase)

(* None of these faults has happened.                                      *)
Spared(kinds) == \A k \in kinds : left[k] = Budget[k]

(* In the READ phase the receive buffer holds the whole request of one     *)
(* transaction under the current sequence number: an abort, a crash of the *)
(* host or a late answer never leaves bytes of two requests in it.  A      *)
(* daemon that is restarted in the middle of a request, or a host that     *)
(* does not follow the charts, does cut a request short.                   *)
RequestIntact ==
  phase = "READ" /\ Spared({"noise", "exit"}) =>
    \E t \in 1..MaxTxn : rcvPkt = <<seqNo>> \o Body(t)

(* No request is lost between the handler and the daemon: one that was     *)
(* received while the device was open, and has not been answered, is       *)
(* signalled, or about to be copied, or waits with the responder.          *)
NoLostRequest ==
  phase = "READ" /\ inUse /\ ~replied /\ Spared({"noise", "exit"}) =>
    wakeup \/ rd = "copy" \/ \E i \in DOMAIN inbox : inbox[i] = rcvPkt

(* Until the first fault the channel is a lock-step exchange.              *)
Exchange == INSTANCE IpmiExchange WITH asked <- txn
ImplementsExchange ==
  Exchange!Init /\ [][left' = Budget => Exchange!Next]_(Exchange!vars)

(* While a transaction that was begun is not answered, it goes on to its   *)
(* end with the whole, right answer, unless something fails.               *)
EveryRequestAnswered ==
  (txn > answered) ~> (txn = answered \/ left # Budget)

(* A host that takes its error exit gets the interface back, whatever the  *)
(* daemon does meanwhile, unless the daemon has turned the interrupt off.  *)
AbortRecovers == (host = "failed") ~> (host = "idle" \/ ~enabled)

(* kcsmain.c:829 "If we are responding to an aborted request skip sending  *)
(* data": send_kcs_response lets no response through between an abort and  *)
(* the request that follows it.                                            *)
AbortedNotAnswered ==
  [][wr = "idle" /\ wr' = "len" => phase # "ABORT"]_vars

(* kcsmain.c:842 "The response is not belong to the current request, so    *)
(* ignore the response": the host reads no byte of an answer to a request  *)
(* other than the one it is waiting on.                                    *)
HostReadsOwnAnswer ==
  \A i \in DOMAIN got : got[i].kind = "RSP" => got[i].rsp.body = Body(txn)
====
