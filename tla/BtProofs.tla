---- MODULE BtProofs ----
(***************************************************************************)
(* Proofs about Bt, for every number of transactions and every budget of   *)
(* faults: types, B_BUSY is set exactly while the handler reads, what it   *)
(* has read is one request, whole, and until the first fault the interface *)
(* implements IpmiExchange.                                                *)
(***************************************************************************)
EXTENDS Bt, SequenceTheorems, TLAPS

Calls ==
  \/ BtOpen \/ BtRelease \/ BtEnable \/ DisableUser \/ DisableIrq
  \/ Reader \/ ReaderSignal \/ Responder \/ RespondAttendSlow
Hosts == HostWant \/ HostTalk \/ HostTimeout \/ HostReset

----------------------------------------------------------------------------
(* Types.                                                                  *)

(* A packet of which one half is replaced is a packet.                     *)
LEMMA HalfType ==
  ASSUME NEW p \in Packets, NEW v \in Halves
  PROVE  /\ [p EXCEPT ![1] = v] \in Packets
         /\ [p EXCEPT ![2] = v] \in Packets
         /\ p[1] \in Halves /\ p[2] \in Halves
  BY DEF Packets

(* The marks and the numbers of transactions are halves.                   *)
LEMMA MarkType == None \in Halves /\ ResetMark \in Halves /\ 0..MaxTxn \subseteq Halves
  BY ConstantsAssumption DEF None, ResetMark, Halves

(* Writes to the control register set none but its bits.                   *)
LEMMA ControlType ==
  ASSUME NEW c \in SUBSET ControlBits, NEW bits \in SUBSET ControlBits
  PROVE  /\ BmcWritten(c, bits) \subseteq ControlBits
         /\ HostWritten(c, bits) \subseteq ControlBits
         /\ BusySet(c) \subseteq ControlBits /\ BusyCleared(c) \subseteq ControlBits
  BY DEF BmcWritten, HostWritten, Toggled, BusySet, BusyCleared, ControlBits

(* What either side writes is bits of the register.                        *)
LEMMA BitsType ==
  /\ {} \subseteq ControlBits /\ {"H2B_ATN"} \subseteq ControlBits
  /\ {"B2H_ATN"} \subseteq ControlBits /\ {"H_BUSY"} \subseteq ControlBits
  /\ {"H_BUSY", "B2H_ATN"} \subseteq ControlBits
  BY DEF ControlBits

(* Taking a fault from the budget leaves a budget.                         *)
LEMMA SpendType ==
  ASSUME left \in [FaultKinds \cup {"any"} -> Nat], NEW kind \in FaultKinds, Spend(kind)
  PROVE  left' \in [FaultKinds \cup {"any"} -> Nat]
  BY DEF Spend

(* The packet that is being answered is there: TypeOK alone is not         *)
(* inductive, RespondBody takes the head of inbox.                         *)
Answering == wr = "body" => inbox # <<>>
TypeInv == TypeOK /\ Answering

(* Either side writes ones to bits of the register, and the responder      *)
(* keeps what it has read of it.                                           *)
LEMMA ControlStep == ASSUME TypeInv, Next PROVE ControlOK'
<1> USE ControlType, BitsType DEF TypeInv, TypeOK, ControlOK, Process, hardware, responder
<1>1. CASE Irq \/ IrqShared
  BY <1>1 DEF Irq, IrqShared, IrqEnter, IrqBegin, IrqStep, IrqBusy, IrqAtn, IrqHead, IrqBody,
    IrqDone, ResetIrq
<1>2. CASE BtOpen \/ BtRelease \/ BtEnable \/ DisableUser \/ DisableIrq
  BY <1>2 DEF BtOpen, BtRelease, BtEnable, DisableUser, DisableIrq
<1>3. CASE Reader \/ ReaderSignal
  BY <1>3 DEF Reader, ReaderSignal, ReaderCall, ReaderWake, LeaveSleep, CopyHead, CopyBody,
    ReadStep
<1>4. CASE Responder \/ RespondAttendSlow
  <2>1. Attended \subseteq ControlBits
    BY DEF Attended
  <2>2. ctrl' \subseteq ControlBits /\ seen' \subseteq ControlBits
    BY <1>4, <2>1 DEF Responder, RespondAttendSlow, RespondHead, RespondBody, RespondAttend,
      RespondClear, WriteBack
  <2> QED
    BY <1>4, <2>2 DEF Responder, RespondAttendSlow, RespondHead, RespondBody, RespondAttend,
      RespondClear, WriteStep
<1>5. CASE Hosts
  <2>1. \/ ctrl' \subseteq ctrl
        \/ \E bits \in {{"H2B_ATN"}, {"H_BUSY", "B2H_ATN"}, {"H_BUSY"}} :
             ctrl' = HostWritten(ctrl, bits)
    BY <1>5 DEF Hosts, HostTalk, HostWant, HostTimeout, HostReset, HostHead, HostSend,
      HostAnswer, HostReadHead, HostReadBody
  <2>2. ctrl' \subseteq ControlBits
    BY <2>1
  <2> QED
    BY <1>5, <2>2 DEF Hosts, HostTalk, HostWant, HostTimeout, HostReset, HostHead, HostSend,
      HostAnswer, HostReadHead, HostReadBody, HostStep
<1> QED
  BY <1>1, <1>2, <1>3, <1>4, <1>5 DEF Next, Hosts

(* The handler, the reset callback, the responder and the host write       *)
(* halves of packets.                                                      *)
LEMMA PacketsStep == ASSUME TypeInv, Next PROVE PacketsOK'
<1> USE HalfType, MarkType DEF TypeInv, TypeOK, PacketsOK, hardware, packet
<1>1. CASE Irq \/ IrqShared
  <2>a. rcvLen' \in 0..2
    BY <1>1 DEF Irq, IrqShared, IrqEnter, IrqBegin, IrqBusy, IrqAtn, IrqHead, IrqBody, IrqDone,
      ResetIrq
  <2>b. \/ rcvPkt' = rcvPkt
        \/ \E v \in {reqBuf[1], reqBuf[2], ResetMark} :
             rcvPkt' = [rcvPkt EXCEPT ![1] = v] \/ rcvPkt' = [rcvPkt EXCEPT ![2] = v]
    BY <1>1 DEF Irq, IrqShared, IrqEnter, IrqBegin, IrqBusy, IrqAtn, IrqHead, IrqBody, IrqDone,
      ResetIrq
  <2>c. {reqBuf[1], reqBuf[2], ResetMark} \subseteq Halves
    BY HalfType, MarkType
  <2>1. rcvPkt' \in Packets /\ rcvLen' \in 0..2
    BY <2>a, <2>b, <2>c
  <2>2. UNCHANGED <<reqBuf, rspBuf>>
    BY <1>1 DEF Irq, IrqShared, IrqEnter, IrqBegin, IrqStep, IrqBusy, IrqAtn, IrqHead, IrqBody,
      IrqDone, ResetIrq
  <2> QED
    BY <2>1, <2>2
<1>2. CASE BtOpen \/ BtRelease \/ BtEnable \/ DisableUser \/ DisableIrq
  BY <1>2 DEF BtOpen, BtRelease, BtEnable, DisableUser, DisableIrq
<1>3. CASE Reader \/ ReaderSignal
  BY <1>3 DEF Reader, ReaderSignal, ReaderCall, ReaderWake, LeaveSleep, CopyHead, CopyBody,
    ReadStep
<1>4. CASE Responder \/ RespondAttendSlow
  <2>1. CASE RespondHead \/ RespondBody
    <3>1. inbox # <<>>
      BY <2>1 DEF RespondHead, RespondBody, WriteStep, Answering
    <3>2. Head(inbox) \in Packets
      BY <3>1 DEF DaemonOK
    <3> QED
      BY <2>1, <3>2 DEF RespondHead, RespondBody, WriteStep
  <2>2. CASE RespondAttend \/ RespondClear \/ RespondAttendSlow
    BY <2>2 DEF RespondAttend, RespondClear, RespondAttendSlow, WriteStep
  <2> QED
    BY <1>4, <2>1, <2>2 DEF Responder
<1>5. CASE Hosts
  <2>1. txn \in Halves
    BY DEF HostOK
  <2>2. reqBuf' \in Packets
    BY <1>5, <2>1 DEF Hosts, HostTalk, HostWant, HostTimeout, HostReset, HostHead, HostSend,
      HostAnswer, HostReadHead, HostReadBody
  <2> QED
    BY <1>5, <2>2 DEF Hosts, HostTalk, HostWant, HostTimeout, HostReset, HostHead, HostSend,
      HostAnswer, HostReadHead, HostReadBody, HostStep
<1> QED
  BY <1>1, <1>2, <1>3, <1>4, <1>5 DEF Next, Hosts

(* The handler goes through its stages, and the flags stay flags.          *)
LEMMA DriverStep == ASSUME TypeInv, Next PROVE DriverOK'
<1> USE DEF TypeInv, TypeOK, DriverOK
<1>1. CASE Irq \/ IrqShared
  BY <1>1 DEF Irq, IrqShared, IrqEnter, IrqBegin, IrqStep, IrqBusy, IrqAtn, IrqHead, IrqBody,
    IrqDone, ResetIrq
<1>2. CASE BtOpen \/ BtRelease \/ BtEnable \/ DisableUser \/ DisableIrq
  BY <1>2 DEF BtOpen, BtRelease, BtEnable, DisableUser, DisableIrq
<1>3. CASE Reader \/ ReaderSignal
  BY <1>3 DEF Reader, ReaderSignal, ReaderCall, ReaderWake, LeaveSleep, CopyHead, CopyBody,
    ReadStep
<1>4. CASE Responder \/ RespondAttendSlow
  BY <1>4 DEF Responder, RespondAttendSlow, RespondHead, RespondBody, RespondAttend,
    RespondClear, WriteStep
<1>5. CASE Hosts
  BY <1>5 DEF Hosts, HostTalk, HostWant, HostTimeout, HostReset, HostHead, HostSend,
    HostAnswer, HostReadHead, HostReadBody, HostStep
<1> QED
  BY <1>1, <1>2, <1>3, <1>4, <1>5 DEF Next, Hosts

(* A packet copied goes behind those the daemon has.                       *)
LEMMA AppendType ==
  ASSUME NEW s \in Seq(Packets), NEW p \in Packets
  PROVE  Append(s, p) \in Seq(Packets) /\ Append(s, p) # <<>>
  BY AppendProperties

(* The daemon answers packets it has read.                                 *)
LEMMA DaemonStep == ASSUME TypeInv, Next PROVE DaemonOK' /\ Answering'
<1> USE DEF TypeInv, TypeOK, DaemonOK, Answering
<1>1. CASE Irq \/ IrqShared \/ Hosts
  <2>1. UNCHANGED <<rd, wr, copied, inbox, delivered>>
    BY <1>1 DEF Irq, IrqShared, IrqEnter, IrqBegin, IrqStep, IrqBusy, IrqAtn, IrqHead, IrqBody,
      IrqDone, ResetIrq, Hosts, HostTalk, HostWant, HostTimeout, HostReset, HostHead, HostSend,
      HostAnswer, HostReadHead, HostReadBody, HostStep, daemon, responder
  <2> QED
    BY <2>1
<1>2. CASE BtOpen \/ BtRelease \/ BtEnable \/ DisableUser \/ DisableIrq
  <2>1. rd' \in {rd, "user", "closed"} /\ UNCHANGED <<wr, copied, delivered>>
    BY <1>2 DEF BtOpen, BtRelease, BtEnable, DisableUser, DisableIrq, daemon, responder
  <2>2. inbox' = inbox \/ (inbox' = <<>> /\ wr = "idle")
    BY <1>2 DEF BtOpen, BtRelease, BtEnable, DisableUser, DisableIrq, daemon
  <2>3. CASE inbox' = inbox
    BY <2>1, <2>3
  <2>4. CASE inbox' = <<>> /\ wr = "idle"
    BY <2>1, <2>4
  <2> QED
    BY <2>2, <2>3, <2>4
<1>3. CASE ReaderCall \/ ReaderWake \/ ReaderSignal
  BY <1>3 DEF ReaderSignal, ReaderCall, ReaderWake, LeaveSleep, ReadStep, responder
<1>4. CASE CopyHead
  <2>1. copied' \in Heads
    BY <1>4, HalfType DEF CopyHead, Heads, PacketsOK
  <2> QED
    BY <1>4, <2>1 DEF CopyHead, ReadStep, responder
<1>5. CASE CopyBody
  <2> DEFINE body == IF copied[1] = 2 THEN rcvPkt[2] ELSE None
  <2>1. body \in Halves
    BY HalfType, MarkType DEF PacketsOK
  <2>2. <<copied[2], body>> \in Packets
    BY <2>1 DEF Heads, Packets
  <2>3. inbox' = inbox \/ inbox' = Append(inbox, <<copied[2], body>>)
    BY <1>5 DEF CopyBody
  <2> HIDE DEF body
  <2>4. inbox' \in Seq(Packets) /\ (inbox # <<>> => inbox' # <<>>)
    <3>1. inbox \in Seq(Packets)
      OBVIOUS
    <3> QED
      BY ONLY <3>1, <2>2, <2>3, AppendType
  <2> QED
    BY <1>5, <2>4 DEF CopyBody, ReadStep, responder
<1>6. CASE RespondHead
  BY <1>6 DEF RespondHead, WriteStep
<1>7. CASE RespondBody
  BY <1>7 DEF RespondBody, WriteStep
<1>8. CASE RespondAttend \/ RespondClear \/ RespondAttendSlow
  BY <1>8 DEF RespondAttend, RespondClear, RespondAttendSlow, WriteStep
<1> QED
  BY <1>1, <1>2, <1>3, <1>4, <1>5, <1>6, <1>7, <1>8 DEF Next, Hosts, Reader, Responder

(* The host has one transaction at a time.                                 *)
LEMMA HostStepType == ASSUME TypeInv, Next PROVE HostOK'
<1> USE DEF TypeInv, TypeOK, HostOK
<1>1. CASE Hosts
  <2>1. CASE HostWant
    BY <2>1, ConstantsAssumption DEF HostWant, HostStep
  <2>2. CASE HostTalk
    <3>1. rspBuf[1] \in Halves
      BY HalfType DEF PacketsOK
    <3>2. head' \in Halves /\ answered' \in Nat
      BY <2>2, <3>1, MarkType DEF HostTalk, HostHead, HostSend, HostAnswer, HostReadHead,
        HostReadBody
    <3> QED
      BY <2>2, <3>2 DEF HostTalk, HostHead, HostSend, HostAnswer, HostReadHead, HostReadBody,
        HostStep
  <2>3. CASE HostTimeout \/ HostReset
    BY <2>3, MarkType DEF HostTimeout, HostReset, HostStep
  <2> QED
    BY <1>1, <2>1, <2>2, <2>3 DEF Hosts
<1>2. CASE Irq \/ IrqShared
  BY <1>2 DEF Irq, IrqShared, IrqEnter, IrqBegin, IrqStep, IrqBusy, IrqAtn, IrqHead, IrqBody,
    IrqDone, ResetIrq, hostVars
<1>3. CASE Calls
  BY <1>3 DEF Calls, BtOpen, BtRelease, BtEnable, DisableUser, DisableIrq, Reader, ReaderSignal,
    ReaderCall, ReaderWake, LeaveSleep, CopyHead, CopyBody, ReadStep, Responder,
    RespondAttendSlow, RespondHead, RespondBody, RespondAttend, RespondClear, WriteStep,
    hostVars
<1> QED
  BY <1>1, <1>2, <1>3 DEF Next, Hosts, Calls

(* Faults are taken from the budget, and what was noted is not forgotten.  *)
LEMMA HistoryStep == ASSUME TypeInv, Next PROVE HistoryOK'
<1> USE DEF TypeInv, TypeOK, HistoryOK
<1>1. left' \in [FaultKinds \cup {"any"} -> Nat]
  <2>1. \/ left' = left
        \/ \E kind \in FaultKinds : Spend(kind)
    BY DEF Next, Irq, IrqShared, IrqEnter, IrqStep, IrqBusy, IrqAtn, IrqHead, IrqBody,
      IrqDone, ResetIrq, BtOpen, BtRelease, BtEnable, DisableUser, DisableIrq, Reader,
      ReaderSignal, ReaderCall, ReaderWake, CopyHead, CopyBody, Responder, RespondAttendSlow,
      RespondHead, RespondBody, RespondAttend, RespondClear, HostTalk, HostWant, HostTimeout,
      HostReset, HostHead, HostSend, HostAnswer, HostReadHead, HostReadBody, FaultKinds
  <2> QED
    BY <2>1, SpendType
<1>2. dropped' \in BOOLEAN /\ wiped' \in BOOLEAN
  <2>1. CASE Irq \/ IrqShared
    BY <2>1 DEF Irq, IrqShared, IrqEnter, IrqBegin, IrqStep, IrqBusy, IrqAtn, IrqHead, IrqBody,
      IrqDone, ResetIrq
  <2>2. CASE Calls
    BY <2>2 DEF Calls, BtOpen, BtRelease, BtEnable, DisableUser, DisableIrq, Reader,
      ReaderSignal, ReaderCall, ReaderWake, LeaveSleep, CopyHead, CopyBody, ReadStep, Responder,
      RespondAttendSlow, RespondHead, RespondBody, RespondAttend, RespondClear, WriteStep,
      WriteBack
  <2>3. CASE Hosts
    BY <2>3 DEF Hosts, HostTalk, HostWant, HostTimeout, HostReset, HostHead, HostSend,
      HostAnswer, HostReadHead, HostReadBody, HostStep
  <2> QED
    BY <2>1, <2>2, <2>3 DEF Next, Hosts, Calls
<1> QED
  BY <1>1, <1>2

(* Everything starts with its type.                                        *)
LEMMA InitType == Init => TypeInv
<1>1. 0 \in 0..MaxTxn /\ NoPacket \in Packets
  BY MarkType, ConstantsAssumption DEF NoPacket, Packets
<1>2. <<0, None>> \in Heads
  BY MarkType DEF Heads
<1> SUFFICES ASSUME Init PROVE TypeInv
  OBVIOUS
<1>3. ControlOK /\ DriverOK
  BY DEF Init, ControlOK, DriverOK
<1>4. PacketsOK
  BY <1>1 DEF Init, PacketsOK
<1>5. DaemonOK /\ Answering
  BY <1>2 DEF Init, DaemonOK, Answering
<1>6. HostOK /\ HistoryOK
  BY <1>1, MarkType, ConstantsAssumption DEF Init, HostOK, HistoryOK
<1> QED
  BY <1>3, <1>4, <1>5, <1>6 DEF TypeInv, TypeOK

(* Every step keeps the types.                                             *)
LEMMA NextType == TypeInv /\ [Next]_vars => TypeInv'
<1> SUFFICES ASSUME TypeInv, [Next]_vars PROVE TypeInv'
  OBVIOUS
<1>1. CASE UNCHANGED vars
  <2> USE <1>1 DEF TypeInv, TypeOK, vars, hardware, packet, daemon, responder, hostVars
  <2>1. ControlOK' /\ PacketsOK' /\ DriverOK'
    BY DEF ControlOK, PacketsOK, DriverOK
  <2>2. DaemonOK' /\ Answering'
    BY DEF DaemonOK, Answering
  <2>3. HostOK' /\ HistoryOK'
    BY DEF HostOK, HistoryOK
  <2> QED
    BY <2>1, <2>2, <2>3
<1>2. CASE Next
  BY <1>2, ControlStep, PacketsStep, DriverStep, DaemonStep, HostStepType, HistoryStep
  DEF TypeInv, TypeOK
<1> QED
  BY <1>1, <1>2

(* Every variable of the BT interface keeps its type (btmain.c,            *)
(* bthw_mod.c): only the control register's own bits are ever set, and a   *)
(* packet is answered only when one was read.                              *)
THEOREM TypeCorrect == Spec => []TypeOK
<1>1. TypeInv => TypeOK
  BY DEF TypeInv
<1> QED
  BY <1>1, InitType, NextType, PTL DEF Spec

----------------------------------------------------------------------------
(* The invariants behind BusyShown and RequestsWhole.                      *)

Handling == {"busy", "atn", "head", "body", "done"}

(* The responder has not read a B_BUSY that it could toggle later.         *)
BusyInv == BusyWhileReading /\ "B_BUSY" \notin seen

(* Until an attention has been wiped, it stands from the host's sending of *)
(* a request to the handler's clearing of it, so that a host that fills a  *)
(* request meets neither a pending one nor the handler.                    *)
Standing == h2bi \/ irq \in {"busy", "atn"} => "H2B_ATN" \in ctrl
Alone == irq \in {"busy", "atn"} => ~h2bi
Filling ==
  host = "fill" => /\ irq \notin Handling /\ ~h2bi /\ "H2B_ATN" \notin ctrl
                   /\ reqBuf[1] = txn
Whole == h2bi \/ irq \in Handling => reqBuf[1] = reqBuf[2]
Read ==
  /\ irq \in {"body", "done"} => rcvPkt[1] = reqBuf[1]
  /\ irq = "done" => rcvPkt[2] = reqBuf[2]
Shapes ==
  /\ reqBuf = <<reqBuf[1], reqBuf[2]>>
  /\ rcvPkt = <<rcvPkt[1], rcvPkt[2]>>
RequestInv ==
  /\ BusyInv /\ Shapes
  /\ ~wiped => Standing /\ Alone /\ Filling /\ Whole /\ Read

(* What a write of ones by either side does to each bit it may change.     *)
LEMMA ControlBitsWritten ==
  ASSUME NEW c, NEW bits
  PROVE  /\ "B_BUSY" \in BmcWritten(c, bits) <=> ("B_BUSY" \in c) # ("B_BUSY" \in bits)
         /\ "B_BUSY" \in HostWritten(c, bits) <=> "B_BUSY" \in c
         /\ "H2B_ATN" \in BmcWritten(c, bits)
              <=> "H2B_ATN" \in c /\ "H2B_ATN" \notin bits
         /\ "H2B_ATN" \in HostWritten(c, bits)
              <=> "H2B_ATN" \in c \/ "H2B_ATN" \in bits
  BY DEF BmcWritten, HostWritten, Toggled

(* Setting and clearing B_BUSY does so, and leaves the attention alone.    *)
LEMMA BusyWritten ==
  ASSUME NEW c
  PROVE  /\ "B_BUSY" \in BusySet(c)
         /\ "B_BUSY" \notin BusyCleared(c)
         /\ "H2B_ATN" \in BusySet(c) <=> "H2B_ATN" \in c
         /\ "H2B_ATN" \in BusyCleared(c) <=> "H2B_ATN" \in c
  BY ControlBitsWritten DEF BusySet, BusyCleared

----------------------------------------------------------------------------
(* B_BUSY.                                                                 *)

(* The handler sets B_BUSY on its way in and clears it on its way out.     *)
LEMMA IrqBusyInv == BusyInv /\ (Irq \/ IrqShared) => BusyInv'
<1> SUFFICES ASSUME BusyInv, Irq \/ IrqShared PROVE BusyInv'
  OBVIOUS
<1> USE DEF BusyInv, BusyWhileReading
<1>1. CASE IrqEnter \/ IrqShared
  BY <1>1 DEF IrqEnter, IrqShared, IrqBegin, responder
<1>2. CASE IrqBusy
  BY <1>2, BusyWritten DEF IrqBusy, IrqStep, responder
<1>3. CASE IrqAtn
  BY <1>3, ControlBitsWritten DEF IrqAtn, IrqStep, responder
<1>4. CASE IrqHead \/ IrqBody
  BY <1>4 DEF IrqHead, IrqBody, IrqStep, responder
<1>5. CASE IrqDone
  BY <1>5, BusyWritten DEF IrqDone, IrqStep, responder
<1>6. CASE ResetIrq
  BY <1>6 DEF ResetIrq, hardware, responder
<1> QED
  BY <1>1, <1>2, <1>3, <1>4, <1>5, <1>6 DEF Irq

(* System calls run while B_BUSY is clear, and write back what they read.  *)
LEMMA CallsBusyInv == BusyInv /\ Calls => BusyInv'
<1> SUFFICES ASSUME BusyInv, Calls PROVE BusyInv'
  OBVIOUS
<1> USE DEF BusyInv, BusyWhileReading, Process, hardware, responder
<1>1. CASE BtOpen \/ BtRelease \/ DisableUser \/ DisableIrq
  BY <1>1 DEF BtOpen, BtRelease, DisableUser, DisableIrq
<1>2. CASE BtEnable
  BY <1>2, BusyWritten DEF BtEnable
<1>3. CASE Reader \/ ReaderSignal
  BY <1>3 DEF Reader, ReaderCall, ReaderWake, ReaderSignal, LeaveSleep, CopyHead, CopyBody, ReadStep
<1>4. CASE RespondHead \/ RespondBody
  BY <1>4 DEF RespondHead, RespondBody, WriteStep
<1>5. CASE RespondAttend
  BY <1>5, ControlBitsWritten DEF RespondAttend, WriteStep, WriteBack, Attended
<1>6. CASE RespondAttendSlow
  BY <1>6, ControlBitsWritten DEF RespondAttendSlow, WriteStep, Attended
<1>7. CASE RespondClear
  BY <1>7, ControlBitsWritten DEF RespondClear, WriteStep, WriteBack
<1> QED
  BY <1>1, <1>2, <1>3, <1>4, <1>5, <1>6, <1>7 DEF Calls, Responder

(* B_BUSY is none of the host's bits.                                      *)
LEMMA HostBusyInv == BusyInv /\ Hosts => BusyInv'
<1> SUFFICES ASSUME BusyInv, Hosts PROVE BusyInv'
  OBVIOUS
<1> USE ControlBitsWritten DEF BusyInv, BusyWhileReading, HostStep, responder
<1>1. CASE HostWant \/ HostTimeout
  BY <1>1 DEF HostWant, HostTimeout
<1>2. CASE HostTalk
  BY <1>2 DEF HostTalk, HostHead, HostSend, HostAnswer, HostReadHead, HostReadBody
<1>3. CASE HostReset
  BY <1>3 DEF HostReset
<1> QED
  BY <1>1, <1>2, <1>3 DEF Hosts

(* BusyInv is inductive.                                                   *)
LEMMA NextBusyInv == BusyInv /\ [Next]_vars => BusyInv'
<1> SUFFICES ASSUME BusyInv, [Next]_vars PROVE BusyInv'
  OBVIOUS
<1>1. CASE UNCHANGED vars
  BY <1>1 DEF BusyInv, BusyWhileReading, vars, hardware, responder
<1> QED
  BY <1>1, IrqBusyInv, CallsBusyInv, HostBusyInv DEF Next, Calls, Hosts

(* B_BUSY is set exactly while the handler reads a request                 *)
(* (bthw_read_bt_data_buf), in every behaviour.                            *)
THEOREM BusyShown == Spec => []BusyWhileReading
<1>1. Init => BusyInv
  BY DEF Init, BusyInv, BusyWhileReading
<1>2. BusyInv => BusyWhileReading
  BY DEF BusyInv
<1> QED
  BY <1>1, <1>2, NextBusyInv, PTL DEF Spec

----------------------------------------------------------------------------
(* Requests.                                                               *)

(* The handler copies a standing request half by half.                     *)
LEMMA IrqRequestInv == RequestInv /\ (Irq \/ IrqShared) => RequestInv'
<1> SUFFICES ASSUME RequestInv, Irq \/ IrqShared PROVE RequestInv'
  OBVIOUS
<1>b. BusyInv'
  BY IrqBusyInv DEF RequestInv
<1> USE <1>b DEF RequestInv, Shapes, Standing, Alone, Filling, Whole, Read, Handling, hostVars
<1>1. CASE IrqEnter \/ IrqShared
  BY <1>1 DEF IrqEnter, IrqShared, IrqBegin, packet
<1>2. CASE IrqBusy
  BY <1>2, BusyWritten DEF IrqBusy, IrqStep, packet
<1>3. CASE IrqAtn
  BY <1>3, ControlBitsWritten DEF IrqAtn, IrqStep, packet
<1>4. CASE IrqHead
  BY <1>4 DEF IrqHead, IrqStep
<1>5. CASE IrqBody
  BY <1>5 DEF IrqBody, IrqStep
<1>6. CASE IrqDone
  BY <1>6, BusyWritten DEF IrqDone, IrqStep
<1>7. CASE ResetIrq
  BY <1>7 DEF ResetIrq, hardware
<1> QED
  BY <1>1, <1>2, <1>3, <1>4, <1>5, <1>6, <1>7 DEF Irq

(* What RequestInv is about and no write of the responder changes.         *)
Kept ==
  /\ irq = "off" /\ irq' = "off"
  /\ h2bi' = h2bi /\ host' = host /\ txn' = txn
  /\ reqBuf' = reqBuf /\ rcvPkt' = rcvPkt

(* While the handler is not running, RequestInv needs of the control       *)
(* register only that an attention stands as it did, or has been wiped.    *)
LEMMA KeptRequestInv ==
  ASSUME RequestInv, BusyInv', Kept,
         ~wiped' => ~wiped /\ ("H2B_ATN" \in ctrl' <=> "H2B_ATN" \in ctrl)
  PROVE  RequestInv'
<1>1. Shapes'
  BY DEF RequestInv, Shapes, Kept
<1>2. ASSUME ~wiped' PROVE (Standing /\ Alone /\ Filling /\ Whole /\ Read)'
  <2>1. Standing /\ Alone /\ Filling /\ Whole /\ Read
    BY <1>2 DEF RequestInv
  <2>2. Standing' /\ Alone'
    BY <1>2, <2>1 DEF Kept, Standing, Alone
  <2>3. Filling'
    BY <1>2, <2>1 DEF Kept, Filling, Handling
  <2>4. Whole' /\ Read'
    BY <2>1 DEF Kept, Whole, Read, Handling
  <2> QED
    BY <2>2, <2>3, <2>4
<1> QED
  BY <1>1, <1>2 DEF RequestInv

(* A system call runs outside the handler and clears an attention only by  *)
(* wiping it.                                                              *)
LEMMA CallsRequestInv == RequestInv /\ Calls => RequestInv'
<1> SUFFICES ASSUME RequestInv, Calls PROVE RequestInv'
  OBVIOUS
<1>b. BusyInv'
  BY CallsBusyInv DEF RequestInv
<1>1. CASE BtOpen \/ BtRelease \/ DisableUser \/ DisableIrq
  <2>1. Kept /\ ctrl' = ctrl /\ wiped' = wiped
    BY <1>1 DEF BtOpen, BtRelease, DisableUser, DisableIrq, Process, Kept, hostVars,
      packet, hardware
  <2> QED
    BY <1>b, <2>1, KeptRequestInv
<1>2. CASE BtEnable
  <2>1. Kept /\ ctrl' = BusyCleared(ctrl) /\ wiped' = wiped
    BY <1>2 DEF BtEnable, Process, Kept, hostVars, packet
  <2> QED
    BY <1>b, <2>1, KeptRequestInv, BusyWritten
<1>3. CASE Reader \/ ReaderSignal
  <2>1. Kept /\ ctrl' = ctrl /\ wiped' = wiped
    BY <1>3 DEF Reader, ReaderCall, ReaderWake, ReaderSignal, LeaveSleep, CopyHead,
      CopyBody, ReadStep, Process, Kept, hostVars, packet, hardware
  <2> QED
    BY <1>b, <2>1, KeptRequestInv
<1>w. ASSUME NEW from, NEW to, WriteStep(from, to) PROVE Kept
  BY <1>w DEF WriteStep, Process, Kept, hostVars, packet
<1>4. CASE RespondHead \/ RespondBody
  <2>1. Kept /\ ctrl' = ctrl /\ wiped' = wiped
    BY <1>4, <1>w DEF RespondHead, RespondBody
  <2> QED
    BY <1>b, <2>1, KeptRequestInv
<1>a. "H2B_ATN" \in Attended <=> "H2B_ATN" \in ctrl
  BY ControlBitsWritten DEF Attended
<1>5. CASE RespondAttend
  <2>1. Kept
    BY <1>5, <1>w DEF RespondAttend
  <2>2. "H2B_ATN" \in ctrl' <=> "H2B_ATN" \in Attended /\ "H2B_ATN" \notin Attended
    BY <1>5, ControlBitsWritten DEF RespondAttend, WriteBack
  <2>3. wiped' <=> wiped \/ "H2B_ATN" \in Attended \cap ctrl
    BY <1>5 DEF RespondAttend, WriteBack
  <2> QED
    BY <1>a, <1>b, <2>1, <2>2, <2>3, KeptRequestInv
<1>6. CASE RespondAttendSlow
  <2>1. Kept /\ ctrl' = Attended /\ wiped' = wiped
    BY <1>6, <1>w DEF RespondAttendSlow
  <2> QED
    BY <1>a, <1>b, <2>1, KeptRequestInv
<1>7. CASE RespondClear
  <2>1. Kept
    BY <1>7, <1>w DEF RespondClear
  <2>2. "H2B_ATN" \in ctrl' <=> "H2B_ATN" \in ctrl /\ "H2B_ATN" \notin seen
    BY <1>7, ControlBitsWritten DEF RespondClear, WriteBack
  <2>3. wiped' <=> wiped \/ "H2B_ATN" \in seen \cap ctrl
    BY <1>7 DEF RespondClear, WriteBack
  <2> QED
    BY <1>b, <2>1, <2>2, <2>3, KeptRequestInv
<1> QED
  BY <1>1, <1>2, <1>3, <1>4, <1>5, <1>6, <1>7 DEF Calls, Responder

(* The host begins to fill a request only when none stands and the handler *)
(* reads none.                                                             *)
LEMMA HostRequestInv == RequestInv /\ Hosts => RequestInv'
<1> SUFFICES ASSUME RequestInv, Hosts PROVE RequestInv'
  OBVIOUS
<1>b. BusyInv'
  BY HostBusyInv DEF RequestInv
<1> USE <1>b, ControlBitsWritten
    DEF RequestInv, Shapes, Standing, Alone, Filling, Whole, Read, Handling, HostStep, packet
<1>1. CASE HostWant \/ HostTimeout
  BY <1>1 DEF HostWant, HostTimeout
<1>2. CASE HostHead
  BY <1>2 DEF HostHead, BusyInv, BusyWhileReading
<1>3. CASE HostSend
  BY <1>3 DEF HostSend
<1>4. CASE HostAnswer \/ HostReadHead \/ HostReadBody
  BY <1>4 DEF HostAnswer, HostReadHead, HostReadBody
<1>5. CASE HostReset
  BY <1>5 DEF HostReset
<1> QED
  BY <1>1, <1>2, <1>3, <1>4, <1>5 DEF Hosts, HostTalk

(* RequestInv is inductive.                                                *)
LEMMA NextRequestInv == RequestInv /\ [Next]_vars => RequestInv'
<1> SUFFICES ASSUME RequestInv, [Next]_vars PROVE RequestInv'
  OBVIOUS
<1>1. CASE UNCHANGED vars
  BY <1>1 DEF RequestInv, BusyInv, BusyWhileReading, Shapes, Standing, Alone, Filling,
    Whole, Read, vars, hardware, packet, responder, hostVars
<1> QED
  BY <1>1, IrqRequestInv, CallsRequestInv, HostRequestInv DEF Next, Calls, Hosts

(* What the handler has read is one whole request of the host              *)
(* (process_bt_intr), however often the host gives up, resets or retries,  *)
(* until the write-back of clr_write_fifo_ptr wipes an attention.          *)
THEOREM RequestsWhole == Spec => []RequestWhole
<1>1. Init => RequestInv
  BY DEF Init, RequestInv, BusyInv, BusyWhileReading, Shapes, Standing, Alone, Filling,
    Whole, Read, Handling, NoPacket
<1>2. RequestInv => RequestWhole
  BY DEF RequestInv, RequestWhole, Whole, Read, Handling
<1> QED
  BY <1>1, <1>2, NextRequestInv, PTL DEF Spec

----------------------------------------------------------------------------
(* The exchange.                                                           *)

(* Without a fault the request is in one place at a time.                  *)
Enabling == (user <=> h2bie) /\ (rd = "closed" => ~user) /\ ~resetting
NoIrq == ~h2bi /\ irq = "off"
Listening == ~wakeup /\ rd \in {"closed", "user", "sleep"}
Unanswered == inbox = <<>> /\ wr = "idle"
Silent == "B2H_ATN" \notin ctrl
Begun == txn = answered + 1
Unread == delivered = answered
Own == <<txn, txn>>

Asking ==
  /\ host \in {"idle", "want", "fill"} /\ NoIrq /\ Listening /\ Unanswered /\ Silent
  /\ Unread /\ txn = (IF host = "idle" THEN answered ELSE answered + 1)
  /\ host = "fill" => reqBuf[1] = txn
Pending ==
  /\ host = "wait" /\ h2bi /\ irq = "off" /\ Listening /\ Unanswered /\ Silent
  /\ Unread /\ Begun /\ reqBuf[1] = txn /\ reqBuf[2] = txn
Handled ==
  /\ host = "wait" /\ ~h2bi /\ irq # "off" /\ Listening /\ rd # "closed"
  /\ Unanswered /\ Silent /\ Unread /\ Begun
  /\ reqBuf[1] = txn /\ reqBuf[2] = txn
  /\ irq \in {"body", "done"} => rcvPkt[1] = txn
  /\ irq = "done" => rcvPkt[2] = txn
Signalled ==
  /\ host = "wait" /\ NoIrq /\ wakeup /\ rd \in {"user", "sleep"} /\ Unanswered /\ Silent
  /\ Unread /\ Begun /\ rcvLen = 2 /\ rcvPkt[1] = txn /\ rcvPkt[2] = txn
Copied ==
  /\ host = "wait" /\ NoIrq /\ ~wakeup /\ rd \in {"copy", "rest"} /\ Unanswered /\ Silent
  /\ Unread /\ Begun /\ rcvLen = 2 /\ rcvPkt[1] = txn /\ rcvPkt[2] = txn
  /\ rd = "rest" => copied[1] = 2 /\ copied[2] = txn
Delivered ==
  /\ host = "wait" /\ NoIrq /\ Listening /\ Silent
  /\ Begun /\ delivered = txn /\ inbox = <<Own>>
  /\ wr \in {"idle", "body"} /\ (wr = "body" => rspBuf[1] = txn)
Written ==
  /\ host = "wait" /\ NoIrq /\ Listening /\ Silent
  /\ Begun /\ delivered = txn /\ inbox = <<>> /\ wr = "attend"
  /\ rspBuf[1] = txn /\ rspBuf[2] = txn
Taken ==
  /\ host \in {"wait", "head", "body"} /\ NoIrq /\ Listening /\ Unanswered
  /\ host = "wait" \/ Silent
  /\ Begun /\ delivered = txn /\ rspBuf[1] = txn /\ rspBuf[2] = txn
  /\ host = "body" => head = txn

Places ==
  \/ Asking \/ Pending \/ Handled \/ Signalled \/ Copied \/ Delivered \/ Written \/ Taken
LockStep == left = Budget => Enabling /\ Places
Bounded == \A k \in FaultKinds \cup {"any"} : left[k] <= Budget[k]

(* What happens without a fault, the steps that move no request apart.     *)
Background == BtOpen \/ BtEnable \/ ReaderCall
Moves ==
  \/ Irq \/ DisableIrq \/ ReaderWake \/ CopyHead \/ CopyBody \/ Responder
  \/ HostWant \/ HostTalk

(* What is put into a half of a packet is found there.                     *)
LEMMA HalfPut ==
  ASSUME NEW p \in Packets, NEW v
  PROVE  /\ [p EXCEPT ![1] = v][1] = v /\ [p EXCEPT ![1] = v][2] = p[2]
         /\ [p EXCEPT ![2] = v][2] = v /\ [p EXCEPT ![2] = v][1] = p[1]
  BY DEF Packets

(* The BMC sets B2H_ATN, the host clears it, B_BUSY leaves it alone.       *)
LEMMA AttentionWritten ==
  ASSUME NEW c, NEW bits
  PROVE  /\ "B2H_ATN" \in BmcWritten(c, bits) <=> "B2H_ATN" \in c \/ "B2H_ATN" \in bits
         /\ "B2H_ATN" \in HostWritten(c, bits) <=> "B2H_ATN" \in c /\ "B2H_ATN" \notin bits
         /\ "B2H_ATN" \in BusySet(c) <=> "B2H_ATN" \in c
         /\ "B2H_ATN" \in BusyCleared(c) <=> "B2H_ATN" \in c
  BY DEF BmcWritten, HostWritten, Toggled, BusySet, BusyCleared

(* Faults only use the budget up, so that what ends with all of it is no   *)
(* fault.                                                                  *)
LEMMA BudgetSpent ==
  ASSUME TypeOK, Bounded, Next
  PROVE  /\ Bounded'
         /\ left' = Budget => left = Budget /\ (Background \/ Moves)
<1>1. ASSUME NEW kind \in FaultKinds, Spend(kind) PROVE Bounded' /\ left' # Budget
  <2>1. left \in [FaultKinds \cup {"any"} -> Nat] /\ Budget \in [FaultKinds \cup {"any"} -> Nat]
    BY ConstantsAssumption DEF TypeOK, HistoryOK
  <2>2. left'["any"] = left["any"] - 1 /\ left["any"] <= Budget["any"]
    BY <1>1, <2>1 DEF Spend, FaultKinds, Bounded
  <2>3. left' # Budget
    BY <2>1, <2>2
  <2>4. ASSUME NEW k \in FaultKinds \cup {"any"} PROVE left'[k] <= Budget[k]
    BY <1>1, <2>1, <2>4 DEF Spend, Bounded
  <2> QED
    BY <2>3, <2>4 DEF Bounded
<1>2. CASE Background \/ Moves
  <2>1. left' = left
    BY <1>2 DEF Background, Moves, BtOpen, BtEnable, ReaderCall, Irq, IrqEnter, IrqBegin, IrqStep, IrqBusy, IrqAtn, IrqHead, IrqBody, IrqDone, ResetIrq, DisableIrq,
      ReaderWake, CopyHead, CopyBody, Responder, RespondHead, RespondBody, RespondAttend,
      RespondClear, HostWant, HostTalk, HostHead, HostSend, HostAnswer, HostReadHead,
      HostReadBody
  <2> QED
    BY <1>2, <2>1 DEF Bounded
<1>3. CASE ~(Background \/ Moves)
  <2>1. \E kind \in FaultKinds : Spend(kind)
    BY <1>3 DEF Next, Background, Moves, Reader, IrqShared, BtRelease, DisableUser, ReaderSignal,
      RespondAttendSlow, HostTimeout, HostReset, FaultKinds
  <2> QED
    BY <1>1, <2>1
<1> QED
  BY <1>2, <1>3

(* Opening, enabling and calling in move no request.                       *)
LEMMA BackgroundKeeps ==
  ASSUME Enabling, Places, Background
  PROVE  Enabling' /\ Places' /\ UNCHANGED Exchange!vars
<1>1. /\ UNCHANGED <<h2bi, irq, resetting, host, txn, answered, head, delivered, inbox, wr,
                    reqBuf, rspBuf, rcvPkt, copied>>
      /\ "B2H_ATN" \in ctrl' <=> "B2H_ATN" \in ctrl
  BY AttentionWritten DEF Background, BtOpen, BtEnable, ReaderCall, ReadStep, hardware, packet,
    daemon, responder, hostVars
<1>2. /\ rd' = rd \/ (rd \in {"closed", "user"} /\ rd' \in {"user", "sleep"})
      /\ rd # "closed" => wakeup' = wakeup /\ rcvLen' = rcvLen
      /\ ~wakeup => ~wakeup'
      /\ irq = "off"
  <2>1. CASE BtOpen
    BY <2>1 DEF BtOpen, Process
  <2>2. CASE BtEnable
    BY <2>2 DEF BtEnable, Process, packet, daemon
  <2>3. CASE ReaderCall
    BY <2>3 DEF ReaderCall, ReadStep, Process, packet
  <2> QED
    BY <2>1, <2>2, <2>3 DEF Background
<1>3. Enabling'
  <2>1. CASE BtOpen
    BY <2>1 DEF BtOpen, Enabling, hardware
  <2>2. CASE BtEnable
    BY <2>2 DEF BtEnable, Enabling, daemon
  <2>3. CASE ReaderCall
    BY <2>3 DEF ReaderCall, ReadStep, Enabling, hardware
  <2> QED
    BY <2>1, <2>2, <2>3 DEF Background
<1>4. Places'
  <2> USE <1>1, <1>2 DEF NoIrq, Listening, Unanswered, Silent, Begun, Unread, Own
  <2>1. Asking => Asking'
    BY DEF Asking
  <2>2. Pending => Pending'
    BY DEF Pending
  <2>3. ~Handled
    BY DEF Handled
  <2>4. Signalled => Signalled'
    BY DEF Signalled
  <2>5. Copied => Copied'
    BY DEF Copied
  <2>6. Delivered => Delivered'
    BY DEF Delivered
  <2>7. Written => Written'
    BY DEF Written
  <2>8. Taken => Taken'
    BY DEF Taken
  <2> QED
    BY <2>1, <2>2, <2>3, <2>4, <2>5, <2>6, <2>7, <2>8 DEF Places
<1> QED
  BY <1>1, <1>3, <1>4 DEF Exchange!vars

(* In each place only the one who has the request can move it.             *)
LEMMA MoversOnly ==
  ASSUME TypeOK, Enabling, Moves
  PROVE  /\ Asking => HostWant \/ HostHead \/ HostSend
         /\ Pending => IrqEnter
         /\ Handled => IrqBusy \/ IrqAtn \/ IrqHead \/ IrqBody \/ IrqDone
         /\ Signalled => ReaderWake
         /\ Copied => CopyHead \/ CopyBody
         /\ Delivered => RespondHead \/ RespondBody
         /\ Written => RespondAttend
         /\ Taken => HostAnswer \/ HostReadHead \/ HostReadBody
<1> USE DEF Moves, Enabling, NoIrq, Listening, Unanswered, Silent, Process, TypeOK, ControlOK,
    DriverOK, Irq, IrqEnter, IrqBegin, IrqStep, IrqBusy, IrqAtn, IrqHead, IrqBody, IrqDone,
    ResetIrq, DisableIrq, ReaderWake, LeaveSleep, CopyHead, CopyBody, ReadStep, Responder,
    RespondHead, RespondBody, RespondAttend, RespondClear, WriteStep, HostWant, HostTalk,
    HostHead, HostSend, HostAnswer, HostReadHead, HostReadBody, HostStep
<1>1. Asking => HostWant \/ HostHead \/ HostSend
  BY DEF Asking
<1>2. Pending => IrqEnter
  BY DEF Pending
<1>3. Handled => IrqBusy \/ IrqAtn \/ IrqHead \/ IrqBody \/ IrqDone
  BY DEF Handled
<1>4. Signalled => ReaderWake
  BY DEF Signalled
<1>5. Copied => CopyHead \/ CopyBody
  BY DEF Copied
<1>6. Delivered => RespondHead \/ RespondBody
  BY DEF Delivered
<1>7. Written => RespondAttend
  BY DEF Written
<1>8. Taken => HostAnswer \/ HostReadHead \/ HostReadBody
  BY DEF Taken
<1> QED
  BY <1>1, <1>2, <1>3, <1>4, <1>5, <1>6, <1>7, <1>8

(* The host begins and sends a request.                                    *)
LEMMA AskingStep ==
  ASSUME TypeOK, Enabling, Asking, HostWant \/ HostHead \/ HostSend
  PROVE  Enabling' /\ Places' /\ (Exchange!Next \/ UNCHANGED Exchange!vars)
<1> USE DEF Asking, Enabling, NoIrq, Listening, Unanswered, Unread, HostStep, packet, daemon,
    responder
<1>1. CASE HostWant
  <2>1. Asking'
    BY <1>1 DEF HostWant, Silent, TypeOK, HostOK
  <2>2. Exchange!Ask
    BY <1>1 DEF HostWant, Exchange!Ask
  <2> QED
    BY <1>1, <2>1, <2>2 DEF HostWant, Places, Exchange!Next
<1>2. CASE HostHead
  <2>1. reqBuf'[1] = txn
    BY <1>2, HalfPut DEF HostHead, TypeOK, PacketsOK
  <2>2. Asking'
    BY <1>2, <2>1 DEF HostHead, Silent
  <2> QED
    BY <1>2, <2>2 DEF HostHead, Places, Exchange!vars
<1>3. CASE HostSend
  <2>1. reqBuf'[1] = txn /\ reqBuf'[2] = txn
    BY <1>3, HalfPut DEF HostSend, TypeOK, PacketsOK
  <2>2. Silent'
    BY <1>3, AttentionWritten DEF HostSend, Silent
  <2>3. Pending'
    BY <1>3, <2>1, <2>2 DEF HostSend, Pending, Begun
  <2> QED
    BY <1>3, <2>3 DEF HostSend, Places, Exchange!vars
<1> QED
  BY <1>1, <1>2, <1>3

(* The handler takes the request in and signals the reader.                *)
LEMMA HandlerStep ==
  ASSUME TypeOK, Enabling,
         \/ Pending /\ IrqEnter
         \/ Handled /\ (IrqBusy \/ IrqAtn \/ IrqHead \/ IrqBody \/ IrqDone)
  PROVE  Enabling' /\ Places' /\ UNCHANGED Exchange!vars
<1> USE DEF Enabling, Listening, Unanswered, Unread, Begun, daemon, responder, hostVars,
    Exchange!vars, Places
<1>1. CASE Pending /\ IrqEnter
  <2>1. Handled'
    BY <1>1 DEF Pending, Handled, IrqEnter, IrqBegin, packet, Silent
  <2> QED
    BY <1>1, <2>1 DEF IrqEnter, IrqBegin
<1>2. CASE Handled /\ (IrqBusy \/ IrqAtn)
  <2>1. Silent'
    BY <1>2, AttentionWritten DEF Handled, Silent, IrqBusy, IrqAtn
  <2>2. Handled'
    BY <1>2, <2>1 DEF Handled, IrqBusy, IrqAtn, IrqStep, packet
  <2> QED
    BY <1>2, <2>2 DEF IrqBusy, IrqAtn, IrqStep
<1>3. CASE Handled /\ (IrqHead \/ IrqBody)
  <2>1. /\ irq' \in {"body", "done"} => rcvPkt'[1] = txn
        /\ irq' = "done" => rcvPkt'[2] = txn
    BY <1>3, HalfPut DEF Handled, IrqHead, IrqBody, IrqStep, TypeOK, PacketsOK
  <2>2. Handled'
    BY <1>3, <2>1 DEF Handled, IrqHead, IrqBody, IrqStep, Silent
  <2> QED
    BY <1>3, <2>2 DEF IrqHead, IrqBody, IrqStep
<1>4. CASE Handled /\ IrqDone
  <2>1. Silent'
    BY <1>4, AttentionWritten DEF Handled, Silent, IrqDone
  <2>2. Signalled'
    BY <1>4, <2>1 DEF Handled, Signalled, NoIrq, IrqDone, IrqStep
  <2> QED
    BY <1>4, <2>2 DEF IrqDone, IrqStep
<1> QED
  BY <1>1, <1>2, <1>3, <1>4

(* The reader copies it to the daemon.                                     *)
LEMMA ReaderStep ==
  ASSUME TypeOK, Enabling,
         \/ Signalled /\ ReaderWake
         \/ Copied /\ (CopyHead \/ CopyBody)
  PROVE  Enabling' /\ Places' /\ (Exchange!Next \/ UNCHANGED Exchange!vars)
<1> USE DEF Enabling, NoIrq, Listening, Begun, Silent, ReadStep, hardware, packet, responder,
    hostVars, Places
<1>1. CASE Signalled /\ ReaderWake
  <2>1. Copied'
    BY <1>1 DEF Signalled, Copied, Unanswered, Unread, ReaderWake, LeaveSleep
  <2> QED
    BY <1>1, <2>1 DEF ReaderWake, LeaveSleep, Exchange!vars
<1>2. CASE Copied /\ CopyHead
  <2>1. Copied'
    BY <1>2 DEF Copied, Unanswered, Unread, CopyHead
  <2> QED
    BY <1>2, <2>1 DEF CopyHead, Exchange!vars
<1>3. CASE Copied /\ CopyBody
  <2>1. rcvLen = 2 /\ copied[1] = 2 /\ copied[2] = txn /\ rcvPkt[2] = txn /\ inbox = <<>>
    BY <1>3 DEF Copied, Unanswered, CopyBody
  <2>2. txn # ResetMark
    BY ConstantsAssumption DEF TypeOK, HostOK, ResetMark
  <2>3. inbox' = Append(<<>>, Own)
    BY <1>3, <2>1, <2>2 DEF CopyBody, Own
  <2>4. delivered' = txn
    BY <1>3 DEF CopyBody, Copied, Unread
  <2>5. Delivered'
    BY <1>3, <2>3, <2>4 DEF Copied, Delivered, CopyBody, Unanswered, Own
  <2>6. Exchange!Deliver
    BY <1>3 DEF Copied, Unread, CopyBody, Exchange!Deliver, TypeOK, HostOK
  <2> QED
    BY <1>3, <2>5, <2>6 DEF CopyBody, Exchange!Next
<1> QED
  BY <1>1, <1>2, <1>3

(* The responder writes the answer to it.                                  *)
LEMMA ResponderStep ==
  ASSUME TypeOK, Enabling,
         \/ Delivered /\ (RespondHead \/ RespondBody)
         \/ Written /\ RespondAttend
  PROVE  Enabling' /\ Places' /\ UNCHANGED Exchange!vars
<1> USE DEF Enabling, NoIrq, Listening, Begun, WriteStep, hostVars, Places, Exchange!vars
<1>1. CASE Delivered /\ RespondHead
  <2>1. rspBuf'[1] = txn
    BY <1>1, HalfPut DEF Delivered, Own, RespondHead, TypeOK, PacketsOK
  <2>2. Delivered'
    BY <1>1, <2>1 DEF Delivered, Own, RespondHead, Silent
  <2> QED
    BY <1>1, <2>2 DEF RespondHead
<1>2. CASE Delivered /\ RespondBody
  <2>a. Head(inbox)[2] = txn /\ rspBuf[1] = txn
    BY <1>2 DEF Delivered, Own, RespondBody
  <2>1. rspBuf'[1] = txn /\ rspBuf'[2] = txn
    BY <1>2, <2>a, HalfPut DEF RespondBody, TypeOK, PacketsOK
  <2>2. Written'
    BY <1>2, <2>1 DEF Delivered, Own, Written, RespondBody, Silent
  <2> QED
    BY <1>2, <2>2 DEF RespondBody
<1>3. CASE Written /\ RespondAttend
  <2>1. Taken'
    BY <1>3 DEF Written, Taken, Unanswered, RespondAttend
  <2> QED
    BY <1>3, <2>1 DEF RespondAttend
<1> QED
  BY <1>1, <1>2, <1>3

(* The host takes the answer and ends the transaction.                     *)
LEMMA TakenStep ==
  ASSUME TypeOK, Enabling, Taken, HostAnswer \/ HostReadHead \/ HostReadBody
  PROVE  Enabling' /\ Places' /\ (Exchange!Next \/ UNCHANGED Exchange!vars)
<1> USE AttentionWritten DEF Taken, Enabling, NoIrq, Listening, Unanswered, Begun, Silent,
    HostStep, packet, daemon, responder, Places
<1>1. CASE HostAnswer
  <2>1. Taken'
    BY <1>1 DEF HostAnswer
  <2> QED
    BY <1>1, <2>1 DEF HostAnswer, Exchange!vars
<1>2. CASE HostReadHead
  <2>1. Taken'
    BY <1>2 DEF HostReadHead
  <2> QED
    BY <1>2, <2>1 DEF HostReadHead, Exchange!vars
<1>3. CASE HostReadBody
  <2>1. host' = "idle" /\ answered' = txn /\ txn' = txn
    BY <1>3 DEF HostReadBody
  <2>2. Silent'
    BY <1>3 DEF HostReadBody
  <2>3. Asking'
    BY <1>3, <2>1, <2>2 DEF HostReadBody, Asking, Unread
  <2>4. Exchange!Answer
    BY <1>3, <2>1 DEF HostReadBody, Exchange!Answer, TypeOK, HostOK
  <2> QED
    BY <1>3, <2>3, <2>4 DEF HostReadBody, Exchange!Next
<1> QED
  BY <1>1, <1>2, <1>3

(* LockStep is inductive, and its steps are those of the exchange.         *)
LEMMA LockStepNext ==
  ASSUME TypeOK, Bounded, LockStep, Next
  PROVE  /\ LockStep' /\ Bounded'
         /\ left' = Budget => Exchange!Next \/ UNCHANGED Exchange!vars
<1>1. Bounded'
  BY BudgetSpent
<1>2. CASE left' # Budget
  BY <1>1, <1>2 DEF LockStep
<1>3. CASE left' = Budget
  <2>1. Enabling /\ Places /\ (Background \/ Moves)
    BY <1>3, BudgetSpent DEF LockStep
  <2>2. CASE Background
    BY <1>1, <2>1, <2>2, BackgroundKeeps DEF LockStep
  <2>3. CASE Moves
    BY <1>1, <2>1, <2>3, MoversOnly, AskingStep, HandlerStep, ReaderStep, ResponderStep,
      TakenStep DEF LockStep, Places
  <2> QED
    BY <2>1, <2>2, <2>3
<1> QED
  BY <1>2, <1>3

(* Until the first fault the interface (btmain.c, bthw_mod.c) is a         *)
(* lock-step exchange: each request is delivered once and answered by its  *)
(* own answer.                                                             *)
THEOREM ExchangeImplemented == Spec => ImplementsExchange
<1> DEFINE Inv == TypeInv /\ Bounded /\ LockStep
<1>1. Init => Inv /\ Exchange!Init
  <2> SUFFICES ASSUME Init PROVE Inv /\ Exchange!Init
    OBVIOUS
  <2>1. Bounded
    BY ConstantsAssumption DEF Init, Bounded
  <2>2. Asking /\ Enabling
    BY DEF Init, Asking, Enabling, NoIrq, Listening, Unanswered, Silent, Unread
  <2> QED
    BY <2>1, <2>2, InitType DEF LockStep, Places, Init, Exchange!Init
<1>2. Inv /\ [Next]_vars => Inv' /\ [left' = Budget => Exchange!Next]_(Exchange!vars)
  <2> SUFFICES ASSUME Inv, [Next]_vars
               PROVE  Inv' /\ [left' = Budget => Exchange!Next]_(Exchange!vars)
    OBVIOUS
  <2>1. CASE Next
    BY <2>1, NextType, LockStepNext DEF TypeInv
  <2>2. CASE UNCHANGED vars
    <3>1. Bounded' /\ UNCHANGED Exchange!vars
      BY <2>2 DEF Bounded, vars, Exchange!vars, daemon, hostVars
    <3>2. LockStep'
      BY <2>2 DEF LockStep, Enabling, Places, Asking, Pending, Handled, Signalled, Copied,
        Delivered, Written, Taken, NoIrq, Listening, Unanswered, Silent, Begun, Unread, Own,
        vars, hardware, packet, daemon, responder, hostVars
    <3> QED
      BY <2>2, <3>1, <3>2, NextType
  <2> QED
    BY <2>1, <2>2
<1> QED
  BY <1>1, <1>2, PTL DEF Spec, ImplementsExchange
====
