---- MODULE KcsProofs ----
(***************************************************************************)
(* Theorems about a KCS channel, for every value of the constants: no      *)
(* bound on transactions, lengths or faults.                               *)
(***************************************************************************)
EXTENDS Kcs, SequenceTheorems, TLAPS

----------------------------------------------------------------------------
(* Types, actor by actor and group of variables by group of variables.     *)

(* The bytes the driver may put on data-out are bytes.                     *)
LEMMA OutBytesType ==
  /\ Dummy \in OutBytes
  /\ \A e \in ErrorCodes : StatusCode(e) \in OutBytes
  /\ \A rsp \in Responses, i \in Nat : RspByte(rsp, i) \in OutBytes
<1>1. NoRsp \in Responses
  <2>1. <<>> \in Packets
    BY DEF Packets
  <2> QED
    BY <2>1, ConstantsAssumption DEF NoRsp, Rsp, NoBody, Responses
<1>2. Dummy \in OutBytes
  BY <1>1 DEF Dummy, OutBytes
<1>3. \A e \in ErrorCodes : StatusCode(e) \in OutBytes
  BY <1>1 DEF StatusCode, OutBytes
<1>4. \A rsp \in Responses, i \in Nat : RspByte(rsp, i) \in OutBytes
  BY DEF RspByte, OutBytes
<1> QED
  BY <1>2, <1>3, <1>4

(* Sequence numbers and transactions are the bytes of packets.             *)
LEMMA AppendType ==
  ASSUME NEW p \in Packets, NEW b \in 0..MaxSeqNo \cup 0..MaxTxn
  PROVE  Append(p, b) \in Packets
  BY DEF Packets

(* A step of the interrupt handler keeps the types.                        *)
LEMMA IrqType == ASSUME TypeOK, Irq PROVE TypeOK'
<1> USE ConstantsAssumption
    DEF TypeOK, Irq, IrqTake, IrqEnter, ReadIdr, TakeWriteStart, TakeWriteEnd, TakeAbort,
        TakeIllegal, TakeWriteByte, TakeLastByte, TakeReadError, TakeReadDone,
        TakeReadNext, TakeAbort1, TakeAbort2, TakeUnexpected, IrqSetError, IrqPut
<1>1. RegistersOK'
  BY DEF RegistersOK, HandlerOK, EntryState, States
<1>2. HandlerOK'
  <2>1. out' \in OutBytes
    BY OutBytesType DEF HandlerOK, PhasesOK, SendingOK
  <2>2. irq' \in {"off", "take", "error", "error-put", "put"}
    OBVIOUS
  <2> QED
    BY <2>1, <2>2 DEF HandlerOK
<1>3. PacketOK'
  <2>1. seqNo' \in 0..(MaxSeqNo - 1)
    BY DEF PacketOK, packet
  <2>2. <<seqNo'>> \in Packets
    BY <2>1 DEF Packets
  <2>3. rcvPkt' \in Packets
    BY <2>2, AppendType DEF PacketOK, packet, RegistersOK
  <2> QED
    BY <2>1, <2>3 DEF PacketOK
<1>4. SendingOK'
  BY DEF SendingOK, sending
<1>5. PhasesOK'
  BY DEF PhasesOK, Phases, ErrorCodes, phases
<1>6. FlagsOK'
  BY DEF FlagsOK, flags
<1>7. DaemonOK'
  BY DEF DaemonOK, daemon
<1>8. HostOK'
  BY DEF HostOK, hostVars
<1>9. enabled' \in BOOLEAN /\ left' \in [FaultKinds \cup {"any"} -> Nat]
  OBVIOUS
<1> QED
  BY <1>1, <1>2, <1>3, <1>4, <1>5, <1>6, <1>7, <1>8, <1>9

(* Taking a fault from the budget leaves a budget.                         *)
LEMMA SpendType ==
  ASSUME left \in [FaultKinds \cup {"any"} -> Nat], NEW kind \in FaultKinds, Spend(kind)
  PROVE  left' \in [FaultKinds \cup {"any"} -> Nat]
  BY DEF Spend

Calls == KcsOpen \/ KcsRelease \/ KcsEnable \/ KcsDisable \/ Reader \/ ReaderSignal \/ Responder

(* A step of a system call keeps the types.                                *)
LEMMA CallsType == ASSUME TypeOK, Calls PROVE TypeOK'
<1> USE ConstantsAssumption
    DEF TypeOK, Calls, KcsOpen, KcsRelease, KcsEnable, KcsDisable, Reader, Responder,
        ReaderCall, ReaderWake, ReaderSignal, LeaveSleep, ReaderCopy, RespondCheck,
        RespondLen, RespondIndex, RespondPut
<1>1. RegistersOK'
  BY OutBytesType DEF RegistersOK, registers, SendingOK
<1>2. HandlerOK'
  BY DEF HandlerOK, handlerVars
<1>3. PacketOK'
  <2>1. rcvPkt' \in {<<>>, rcvPkt} /\ seqNo' = seqNo
    BY DEF packet
  <2>2. <<>> \in Packets
    BY DEF Packets
  <2> QED
    BY <2>1, <2>2 DEF PacketOK
<1>4. SendingOK'
  <2>1. CASE RespondCheck
    <3>1. Head(inbox) \in Packets \ {<<>>}
      BY <2>1 DEF DaemonOK
    <3>2. Tail(Head(inbox)) \in Packets
      BY <3>1 DEF Packets
    <3> QED
      BY <2>1, <3>2 DEF SendingOK, Responses, Rsp
  <2>2. CASE ~RespondCheck
    BY <2>2 DEF SendingOK, sending, Responses
  <2> QED
    BY <2>1, <2>2
<1>5. PhasesOK'
  BY DEF PhasesOK, Phases, phases
<1>6. FlagsOK'
  BY DEF FlagsOK, flags
<1>7. DaemonOK'
  <2>1. inbox' \in Seq(Packets \ {<<>>})
    <3>1. CASE ReaderCopy
      BY <3>1 DEF DaemonOK, PacketOK
    <3>2. CASE RespondCheck
      BY <3>2 DEF DaemonOK
    <3>3. CASE KcsRelease
      BY <3>3
    <3>4. CASE ~(ReaderCopy \/ RespondCheck \/ KcsRelease)
      BY <3>4 DEF DaemonOK, daemon
    <3> QED
      BY <3>1, <3>2, <3>3, <3>4
  <2>2. rd' \in {"closed", "user", "sleep", "copy"} /\ wr' \in {"idle", "len", "index", "put"}
    BY DEF DaemonOK, daemon
  <2>3. delivered' \in Nat
    BY DEF DaemonOK, daemon
  <2>4. replied' \in BOOLEAN
    BY DEF DaemonOK, daemon
  <2> QED
    BY <2>1, <2>2, <2>3, <2>4 DEF DaemonOK
<1>8. HostOK'
  BY DEF HostOK, hostVars
<1>9. enabled' \in BOOLEAN /\ left' \in [FaultKinds \cup {"any"} -> Nat]
  BY SpendType DEF FaultKinds
<1> QED
  BY <1>1, <1>2, <1>3, <1>4, <1>5, <1>6, <1>7, <1>8, <1>9

Host == HostStart \/ HostTalk \/ HostRecover \/ HostTimeout \/ HostCrash \/ HostNoise

(* A step of the host keeps the types.                                     *)
LEMMA HostType == ASSUME TypeOK, Host PROVE TypeOK'
<1> USE ConstantsAssumption
    DEF TypeOK, Host, HostTalk, HostRecover, HostElse, HostStart, HostWriteData,
        HostWriteEnd, HostWriteLast, HostRead, HostFinish, HostError, HostTimeout,
        HostAbort, HostAbortDummy, HostAbortStatus, HostAbortDone, HostCrash, HostNoise
<1>1. RegistersOK'
  <2>1. str' = str /\ odr' = odr
    BY DEF registers, Write
  <2>2. ibf' \in BOOLEAN /\ cd' \in BOOLEAN /\ obf' \in BOOLEAN
    BY DEF RegistersOK, registers, Write
  <2>3. idr' = idr \/ \E code \in Codes, t \in {0, txn} : idr' = In(code, t)
    BY DEF registers, Write, Codes
  <2>4. idr' \in [code : Codes, txn : 0..MaxTxn]
    BY <2>3 DEF In, RegistersOK, HostOK
  <2> QED
    BY <2>1, <2>2, <2>4 DEF RegistersOK
<1>2. HandlerOK'
  BY DEF HandlerOK, handlerVars
<1>3. PacketOK'
  BY DEF PacketOK, packet
<1>4. SendingOK'
  BY DEF SendingOK, sending
<1>5. PhasesOK'
  BY DEF PhasesOK, phases
<1>6. FlagsOK'
  BY DEF FlagsOK, flags
<1>7. DaemonOK'
  BY DEF DaemonOK, daemon
<1>8. HostOK'
  <2>1. got' \in Seq(OutBytes)
    <3>1. CASE HostRead
      BY <3>1 DEF HostOK, RegistersOK
    <3>2. CASE HostStart
      BY <3>2
    <3>3. CASE ~(HostRead \/ HostStart)
      BY <3>3 DEF HostOK, hostVars
    <3> QED
      BY <3>1, <3>2, <3>3
  <2>2. txn' \in 0..MaxTxn /\ sent' \in 0..(BodyLen - 1)
    <3>1. CASE HostStart
      BY <3>1 DEF HostOK
    <3>2. CASE HostWriteData
      BY <3>2 DEF HostOK
    <3>3. CASE ~(HostStart \/ HostWriteData)
      BY <3>3 DEF HostOK, hostVars
    <3> QED
      BY <3>1, <3>2, <3>3
  <2>4. answered' \in Nat
    <3>1. answered' \in {answered, answered + 1}
      BY DEF hostVars
    <3> QED
      BY <3>1 DEF HostOK
  <2>3. host' \in {"idle", "writing", "ending", "reading", "failed", "abort", "aborting1",
                   "aborting2"}
    BY DEF HostOK, hostVars
  <2> QED
    BY <2>1, <2>2, <2>3, <2>4 DEF HostOK
<1>9. enabled' \in BOOLEAN /\ left' \in [FaultKinds \cup {"any"} -> Nat]
  BY SpendType DEF FaultKinds
<1> QED
  BY <1>1, <1>2, <1>3, <1>4, <1>5, <1>6, <1>7, <1>8, <1>9

(* The variables always have their types; in particular the sequence       *)
(* number stays below MAX_SEQ_NO.                                          *)
THEOREM TypeCorrect == Spec => []TypeOK
<1>1. Init => TypeOK
  <2> SUFFICES ASSUME Init PROVE TypeOK
    OBVIOUS
  <2>1. RegistersOK
    <3>1. In("OTHER", 0) \in [code : Codes, txn : 0..MaxTxn]
      BY ConstantsAssumption DEF In, Codes
    <3> QED
      BY <3>1, OutBytesType DEF Init, RegistersOK, States
  <2>2. HandlerOK
    BY OutBytesType DEF Init, HandlerOK
  <2>3. <<>> \in Packets /\ NoRsp \in Responses
    BY ConstantsAssumption DEF Packets, Responses, NoRsp, Rsp, NoBody
  <2>4. PacketOK /\ SendingOK
    BY <2>3, ConstantsAssumption DEF Init, PacketOK, SendingOK
  <2>5. PhasesOK
    BY DEF Init, PhasesOK, Phases, ErrorCodes
  <2>6. FlagsOK
    BY DEF Init, FlagsOK
  <2>7. DaemonOK
    <3>1. <<>> \in Seq(Packets \ {<<>>})
      OBVIOUS
    <3> QED
      BY <3>1 DEF Init, DaemonOK
  <2>8. HostOK
    BY ConstantsAssumption DEF Init, HostOK
  <2>9. enabled \in BOOLEAN /\ left \in [FaultKinds \cup {"any"} -> Nat]
    BY ConstantsAssumption DEF Init
  <2> QED
    BY <2>1, <2>2, <2>4, <2>5, <2>6, <2>7, <2>8, <2>9 DEF TypeOK
<1>2. TypeOK /\ [Next]_vars => TypeOK'
  <2> SUFFICES ASSUME TypeOK, [Next]_vars PROVE TypeOK'
    OBVIOUS
  <2>1. CASE Irq
    BY <2>1, IrqType
  <2>2. CASE Calls
    BY <2>2, CallsType
  <2>3. CASE Host
    BY <2>3, HostType
  <2>4. CASE UNCHANGED vars
    BY <2>4 DEF vars, TypeOK, RegistersOK, HandlerOK, PacketOK, SendingOK, PhasesOK, FlagsOK,
                DaemonOK, HostOK, registers, handlerVars, packet, sending, phases, flags,
                daemon, hostVars
  <2> QED
    BY <2>1, <2>2, <2>3, <2>4 DEF Next, Calls, Host
<1> QED
  BY <1>1, <1>2, PTL DEF Spec

----------------------------------------------------------------------------
(* The host sees the phase.                                                *)

(* While the handler is between its two stores, IBF keeps the host from    *)
(* writing, the state is already that of the phase it is going to, and a   *)
(* branch that still owes an ERROR has a phase that may show one.          *)
HandlerInv ==
  /\ HostSeesPhase
  /\ irq = "take" =>
       /\ ibf
       /\ cd => str = "WRITE"
       /\ ~cd /\ phase = "WRITE" => str = "WRITE"
       /\ ~cd /\ phase = "WRITE_END" => str = "READ"
       /\ ~cd /\ phase = "READ" /\ sendIx # sendLen => str \in {"READ", "ERROR"}
       /\ ~cd /\ phase = "ABORT" /\ abortPhase = 1 => str = "READ"
  /\ irq = "error" => phase = "ERROR"
  /\ irq = "error-put" => phase \in {"READ", "IDLE", "ERROR"}

(* The handler moves state and phase together, and its debts with them.    *)
LEMMA IrqHandlerInv == ASSUME TypeOK, HandlerInv, Irq PROVE HandlerInv'
<1> USE DEF HandlerInv, HostSeesPhase, StateOf
<1>1. CASE IrqEnter
  BY <1>1 DEF IrqEnter, EntryState, packet, sending, phases
<1>2. CASE TakeWriteStart
  BY <1>2 DEF TakeWriteStart, ReadIdr, Command
<1>3. CASE TakeWriteEnd
  BY <1>3 DEF TakeWriteEnd, ReadIdr, Command
<1>4. CASE TakeAbort
  BY <1>4 DEF TakeAbort, ReadIdr, Command
<1>5. CASE TakeIllegal
  BY <1>5 DEF TakeIllegal, ReadIdr
<1>6. CASE TakeWriteByte
  BY <1>6 DEF TakeWriteByte, ReadIdr, DataIn, phases
<1>7. CASE TakeLastByte
  BY <1>7 DEF TakeLastByte, ReadIdr, DataIn
<1>8. CASE TakeReadError
  BY <1>8 DEF TakeReadError, ReadIdr, DataIn, phases
<1>9. CASE TakeReadDone
  BY <1>9 DEF TakeReadDone, ReadIdr, DataIn, TypeOK, RegistersOK
<1>10. CASE TakeReadNext
  BY <1>10 DEF TakeReadNext, ReadIdr, DataIn, phases
<1>11. CASE TakeAbort1
  BY <1>11 DEF TakeAbort1, ReadIdr, DataIn
<1>12. CASE TakeAbort2
  BY <1>12 DEF TakeAbort2, ReadIdr, DataIn, TypeOK, RegistersOK
<1>13. CASE TakeUnexpected
  BY <1>13 DEF TakeUnexpected, ReadIdr, phases
<1>14. CASE IrqSetError
  BY <1>14 DEF IrqSetError, phases, States
<1>15. CASE IrqPut
  BY <1>15 DEF IrqPut, phases
<1> QED
  BY <1>1, <1>2, <1>3, <1>4, <1>5, <1>6, <1>7, <1>8, <1>9, <1>10, <1>11, <1>12, <1>13,
     <1>14, <1>15 DEF Irq, IrqTake

(* A system call moves only while the handler does not, and only kcs_open  *)
(* changes the phase, to IDLE.                                             *)
LEMMA CallsHandlerInv == ASSUME TypeOK, HandlerInv, Calls PROVE HandlerInv'
<1>1. irq = "off" /\ irq' = "off" /\ str' = str
  BY DEF Calls, KcsOpen, KcsRelease, KcsEnable, KcsDisable, Reader, Responder, ReaderCall,
         ReaderWake, ReaderSignal, LeaveSleep, ReaderCopy, RespondCheck, RespondLen,
         RespondIndex, RespondPut, Process, registers, handlerVars
<1>2. phase' = "IDLE" \/ (phase' = phase /\ abortPhase' = abortPhase)
  BY DEF Calls, KcsOpen, KcsRelease, KcsEnable, KcsDisable, Reader, Responder, ReaderCall,
         ReaderWake, ReaderSignal, LeaveSleep, ReaderCopy, RespondCheck, RespondLen,
         RespondIndex, RespondPut, phases
<1> QED
  BY <1>1, <1>2 DEF HandlerInv, HostSeesPhase, StateOf, TypeOK, RegistersOK

(* The host leaves the state bits alone, and writes only when IBF is clear.*)
LEMMA HostHandlerInv == ASSUME TypeOK, HandlerInv, Host PROVE HandlerInv'
<1>1. str' = str /\ (ibf => ibf' /\ cd' = cd)
  BY DEF Host, HostTalk, HostRecover, HostStart, HostWriteData, HostWriteEnd,
         HostWriteLast, HostRead, HostFinish, HostError, HostTimeout, HostAbort,
         HostAbortDummy, HostAbortStatus, HostAbortDone, HostCrash, HostNoise, Write,
         Ready, registers
<1>2. UNCHANGED <<irq, phase, abortPhase, sendIx, sendLen>>
  BY DEF Host, HostTalk, HostRecover, HostStart, HostWriteData, HostWriteEnd,
         HostWriteLast, HostRead, HostFinish, HostError, HostTimeout, HostAbort,
         HostAbortDummy, HostAbortStatus, HostAbortDone, HostCrash, HostNoise, HostElse,
         handlerVars, sending, phases
<1> QED
  BY <1>1, <1>2 DEF HandlerInv, HostSeesPhase, StateOf

(* The handler begins outside a byte.                                      *)
LEMMA HandlerInit == Init => HandlerInv
  BY DEF Init, HandlerInv, HostSeesPhase, StateOf, States

(* HandlerInv is inductive.                                                *)
LEMMA HandlerNext == TypeOK /\ HandlerInv /\ [Next]_vars => HandlerInv'
<1> SUFFICES ASSUME TypeOK, HandlerInv, [Next]_vars PROVE HandlerInv'
  OBVIOUS
<1>1. CASE Irq
  BY <1>1, IrqHandlerInv
<1>2. CASE Calls
  BY <1>2, CallsHandlerInv
<1>3. CASE Host
  BY <1>3, HostHandlerInv
<1>4. CASE UNCHANGED vars
  BY <1>4 DEF vars, HandlerInv, HostSeesPhase, StateOf, registers, handlerVars, sending,
              phases
<1> QED
  BY <1>1, <1>2, <1>3, <1>4 DEF Next, Calls, Host

(* The state bits a host reads are always those of the driver's phase,     *)
(* whatever the faults and however the host and the daemon interleave.     *)
THEOREM PhaseShown == Spec => []HostSeesPhase
<1>1. HandlerInv => HostSeesPhase
  BY DEF HandlerInv
<1> QED
  BY <1>1, HandlerInit, HandlerNext, TypeCorrect, PTL DEF Spec

----------------------------------------------------------------------------
(* Requests.                                                               *)

Receiving == {"WRITE", "WRITE_END", "READ"}
Pending(command, code) == ibf /\ cd = command /\ idr.code = code
DataPending == ibf /\ ~cd
StartPending == Pending(TRUE, "WRITE_START")
BytesOf(t) ==
  /\ rcvPkt # <<>> /\ rcvPkt[1] = seqNo
  /\ \A i \in 2..Len(rcvPkt) : rcvPkt[i] = t
Received ==
  phase \in Receiving => \E t \in 1..MaxTxn :
    /\ BytesOf(t)
    /\ DataPending /\ phase # "READ" => idr.txn = t
    /\ host \in {"writing", "ending"} /\ ~StartPending => t = txn
Lengths ==
  /\ phase = "WRITE" => Len(rcvPkt) <= (IF DataPending THEN BodyLen - 1 ELSE BodyLen)
  /\ phase = "WRITE_END" => Len(rcvPkt) = BodyLen
  /\ phase = "READ" => Len(rcvPkt) = BodyLen + 1
  /\ Pending(TRUE, "WRITE_END") => phase = "WRITE" /\ Len(rcvPkt) = BodyLen
Charted ==
  /\ StartPending => txn >= 1
  /\ host = "writing" =>
       IF StartPending THEN sent = 0
       ELSE /\ phase = "WRITE" /\ ~(ibf /\ cd)
            /\ sent + 1 = Len(rcvPkt) + (IF ibf THEN 1 ELSE 0)
  /\ host = "ending" =>
       IF ibf THEN Pending(TRUE, "WRITE_END") ELSE phase = "WRITE_END"
  /\ host = "abort" => IF ibf THEN Pending(TRUE, "ABORT") ELSE phase = "ABORT"
Unopened == rd = "closed" => ~enabled /\ irq = "off" /\ phase = "IDLE"
Unaborted == phase \in Receiving => ~prevAborted
Whole == Received /\ Lengths /\ Charted /\ Unopened /\ Unaborted

Bounded == \A k \in FaultKinds \cup {"any"} : left[k] <= Budget[k]
Orderly == Spared({"noise", "exit"})
IntactInv == Bounded /\ (Orderly => Whole)

(* Faults only use the budget up: what ends orderly began so, and is       *)
(* neither a stray byte nor an exit of the daemon.                         *)
LEMMA BudgetSpent ==
  ASSUME TypeOK, Bounded, Next
  PROVE  /\ Bounded'
         /\ Orderly' => Orderly /\ ~KcsRelease /\ ~HostNoise
<1>0. left \in [FaultKinds \cup {"any"} -> Nat] /\ Budget \in [FaultKinds \cup {"any"} -> Nat]
  BY ConstantsAssumption DEF TypeOK
<1>1. ASSUME NEW kind \in FaultKinds, Spend(kind)
      PROVE  Bounded' /\ (Orderly' => Orderly /\ kind \notin {"noise", "exit"})
  <2>1. left'[kind] = left[kind] - 1
    BY <1>0, <1>1 DEF Spend, FaultKinds
  <2>2. \A k \in FaultKinds \ {kind} : left'[k] = left[k]
    BY <1>0, <1>1 DEF Spend, FaultKinds
  <2>3. left'["any"] = left["any"] - 1
    BY <1>0, <1>1 DEF Spend, FaultKinds
  <2>4. Bounded'
    BY <1>0, <2>1, <2>2, <2>3 DEF Bounded
  <2>5. ASSUME Orderly' PROVE Orderly /\ kind \notin {"noise", "exit"}
    BY <1>0, <2>1, <2>2, <2>5 DEF Orderly, Spared, Bounded, FaultKinds
  <2> QED
    BY <2>4, <2>5
<1>2. CASE KcsRelease
  BY <1>1, <1>2 DEF KcsRelease, FaultKinds
<1>3. CASE HostNoise
  BY <1>1, <1>3 DEF HostNoise, FaultKinds
<1>4. CASE KcsDisable \/ ReaderSignal \/ HostTimeout \/ HostCrash
  <2>1. \E kind \in FaultKinds \ {"noise", "exit"} : Spend(kind)
    BY <1>4 DEF KcsDisable, ReaderSignal, HostTimeout, HostCrash, FaultKinds
  <2>2. ~KcsRelease /\ ~HostNoise
    BY <1>4 DEF KcsRelease, HostNoise, KcsDisable, ReaderSignal, HostTimeout, HostCrash,
      LeaveSleep, HostElse, Ready, Write, registers, daemon, hostVars
  <2> QED
    BY <1>1, <2>1, <2>2
<1>5. CASE Irq \/ KcsOpen \/ KcsEnable \/ Reader \/ Responder \/ HostStart \/ HostTalk \/ HostRecover
  <2>1. left' = left
    BY <1>5 DEF Irq, IrqTake, IrqEnter, ReadIdr, TakeWriteStart, TakeWriteEnd, TakeAbort,
      TakeIllegal, TakeWriteByte, TakeLastByte, TakeReadError, TakeReadDone, TakeReadNext,
      TakeAbort1, TakeAbort2, TakeUnexpected, IrqSetError, IrqPut, KcsOpen, KcsEnable, Reader,
      ReaderCall, ReaderWake, ReaderCopy, Responder, RespondCheck, RespondLen, RespondIndex,
      RespondPut, HostStart, HostTalk, HostWriteData, HostWriteEnd, HostWriteLast, HostRead,
      HostFinish, HostRecover, HostError, HostAbort, HostAbortDummy, HostAbortStatus,
      HostAbortDone
  <2>2. ASSUME KcsRelease \/ HostNoise PROVE FALSE
    <3>1. \E kind \in FaultKinds : Spend(kind)
      BY <2>2 DEF KcsRelease, HostNoise, FaultKinds
    <3> QED
      BY <1>0, <2>1, <3>1 DEF Spend, FaultKinds
  <2> QED
    BY <2>1, <2>2 DEF Bounded, Orderly, Spared
<1> QED
  BY <1>2, <1>3, <1>4, <1>5 DEF Next

(* A packet whose bytes are t's, and one more byte of t.                   *)
LEMMA BytesAppended ==
  ASSUME PacketOK, NEW t, BytesOf(t), rcvPkt' = Append(rcvPkt, t), seqNo' = seqNo
  PROVE  BytesOf(t)' /\ Len(rcvPkt') = Len(rcvPkt) + 1
  BY DEF PacketOK, Packets, BytesOf

(* A branch of the handler takes the byte that is pending.                 *)
LEMMA TakeWhole ==
  ASSUME TypeOK, HandlerInv, Whole, IrqTake
  PROVE  Whole'
<1>1. /\ irq = "take" /\ ibf /\ ~ibf' /\ cd' = cd /\ idr' = idr
      /\ UNCHANGED <<rd, host, txn, sent, enabled>>
  BY DEF IrqTake, TakeWriteStart, TakeWriteEnd, TakeAbort, TakeIllegal, TakeWriteByte,
    TakeLastByte, TakeReadError, TakeReadDone, TakeReadNext, TakeAbort1, TakeAbort2,
    TakeUnexpected, ReadIdr, HandlerInv, hostVars
<1>2. Len(rcvPkt) \in Nat /\ BodyLen \in Nat /\ sent \in Nat
  BY ConstantsAssumption DEF TypeOK, PacketOK, Packets, HostOK
<1>3. rd # "closed" /\ Unopened'
  BY <1>1 DEF Whole, Unopened
<1> USE DEF Whole, Lengths, Charted, Receiving, Pending, DataPending, StartPending
<1>4. CASE TakeWriteStart
  <2>1. /\ cd /\ idr.code = "WRITE_START" /\ phase' = "WRITE" /\ ~prevAborted'
        /\ rcvPkt' = <<seqNo'>>
    BY <1>4 DEF TakeWriteStart, Command
  <2>2. txn \in 1..MaxTxn
    BY <1>1, <2>1 DEF TypeOK, HostOK
  <2>3. BytesOf(txn)' /\ Len(rcvPkt') = 1
    BY <1>1, <2>1 DEF BytesOf
  <2>4. Received'
    BY <1>1, <2>1, <2>2, <2>3 DEF Received, BytesOf
  <2>5. Lengths' /\ Charted' /\ Unaborted'
    BY <1>1, <2>1, <2>3, ConstantsAssumption DEF Unaborted
  <2> QED
    BY <1>3, <2>4, <2>5
<1>5. CASE TakeWriteEnd
  <2>1. cd /\ idr.code = "WRITE_END" /\ phase' = "WRITE_END" /\ UNCHANGED <<rcvPkt, seqNo, prevAborted>>
    BY <1>5 DEF TakeWriteEnd, Command, packet, flags
  <2>2. Received'
    BY <1>1, <2>1 DEF Received, BytesOf
  <2>3. Lengths' /\ Charted' /\ Unaborted'
    BY <1>1, <2>1 DEF Unaborted
  <2> QED
    BY <1>3, <2>2, <2>3
<1>6. CASE TakeAbort \/ TakeIllegal \/ TakeAbort1 \/ TakeAbort2 \/ TakeReadDone
  <2>1. /\ phase' \notin Receiving
        /\ cd => idr.code # "WRITE_START" /\ idr.code # "WRITE_END"
        /\ cd /\ idr.code = "ABORT" => phase' = "ABORT"
        /\ ~cd => phase \in {"READ", "ABORT"}
    BY <1>6 DEF TakeAbort, TakeIllegal, TakeAbort1, TakeAbort2, TakeReadDone, Command, DataIn,
      phases
  <2> QED
    BY <1>1, <1>3, <2>1 DEF Received, Unaborted
<1>7. CASE TakeWriteByte
  <2>1. ~cd /\ phase = "WRITE" /\ phase' = "WRITE" /\ UNCHANGED <<seqNo, prevAborted>>
    BY <1>7 DEF TakeWriteByte, DataIn, phases, flags
  <2>2. Len(rcvPkt) <= BodyLen - 1 /\ BodyLen < MaxPktLen /\ MaxPktLen \in Nat
    BY <1>1, <2>1, ConstantsAssumption
  <2>3. rcvPkt' = Append(rcvPkt, idr.txn)
    BY <1>2, <1>7, <2>2 DEF TakeWriteByte
  <2>4. PICK t \in 1..MaxTxn :
          /\ BytesOf(t) /\ idr.txn = t
          /\ host \in {"writing", "ending"} => t = txn
    BY <1>1, <2>1 DEF Received
  <2>5. BytesOf(t)' /\ Len(rcvPkt') = Len(rcvPkt) + 1
    BY <2>1, <2>3, <2>4, BytesAppended DEF TypeOK
  <2>6. Received'
    BY <1>1, <2>1, <2>4, <2>5 DEF Received
  <2>7. Lengths' /\ Charted' /\ Unaborted'
    BY <1>1, <1>2, <2>1, <2>2, <2>5 DEF Unaborted
  <2> QED
    BY <1>3, <2>6, <2>7
<1>8. CASE TakeLastByte
  <2>1. /\ ~cd /\ phase = "WRITE_END" /\ phase' = "READ" /\ UNCHANGED <<seqNo, prevAborted>>
        /\ rcvPkt' = Append(rcvPkt, idr.txn)
    BY <1>8 DEF TakeLastByte, DataIn
  <2>2. PICK t \in 1..MaxTxn : BytesOf(t) /\ idr.txn = t
    BY <1>1, <2>1 DEF Received
  <2>3. BytesOf(t)' /\ Len(rcvPkt') = Len(rcvPkt) + 1
    BY <2>1, <2>2, BytesAppended DEF TypeOK
  <2>4. host \notin {"writing", "ending"} /\ host # "abort"
    BY <1>1, <2>1
  <2>5. Received'
    BY <1>1, <2>1, <2>2, <2>3, <2>4 DEF Received
  <2>6. Lengths' /\ Charted' /\ Unaborted'
    BY <1>1, <1>2, <2>1, <2>3, <2>4 DEF Unaborted
  <2> QED
    BY <1>3, <2>5, <2>6
<1>9. CASE TakeReadError \/ TakeReadNext \/ TakeUnexpected
  <2>1. /\ ~cd /\ phase \in {"READ", "IDLE", "ERROR"}
        /\ UNCHANGED <<phase, rcvPkt, seqNo, prevAborted>>
    BY <1>9 DEF TakeReadError, TakeReadNext, TakeUnexpected, DataIn, phases, packet, flags
  <2>2. Received'
    BY <1>1, <2>1 DEF Received, BytesOf
  <2> QED
    BY <1>1, <1>3, <2>1, <2>2 DEF Unaborted
<1> QED
  BY <1>4, <1>5, <1>6, <1>7, <1>8, <1>9 DEF IrqTake

(* What Whole is about.                                                    *)
Kept ==
  UNCHANGED <<ibf, cd, idr, phase, rcvPkt, seqNo, host, txn, sent>>

(* Whole needs of a step that leaves what it is about alone only that the  *)
(* daemon keeps the device open and forgets no abort.                      *)
LEMMA KeptWhole ==
  ASSUME Whole, Kept, Unopened', prevAborted' => prevAborted
  PROVE  Whole'
  BY DEF Whole, Kept, Received, BytesOf, Lengths, Charted, Unaborted, Receiving, Pending,
    DataPending, StartPending

(* The rest of the handler and the system calls move no byte of a request. *)
LEMMA OthersWhole ==
  ASSUME TypeOK, Whole, IrqEnter \/ IrqSetError \/ IrqPut \/ (Calls /\ ~KcsRelease)
  PROVE  Whole'
<1>1. CASE IrqEnter \/ IrqSetError \/ IrqPut
  <2>1. Kept /\ prevAborted' = prevAborted
    BY <1>1 DEF IrqEnter, IrqSetError, IrqPut, Kept, packet, phases, flags, hostVars
  <2>2. Unopened'
    BY <1>1 DEF Whole, Unopened, IrqEnter, IrqSetError, IrqPut, daemon, phases
  <2> QED
    BY <2>1, <2>2, KeptWhole
<1>2. CASE KcsOpen
  <2>1. phase = "IDLE" /\ phase' = "IDLE"
    BY <1>2 DEF KcsOpen, Whole, Unopened
  <2>2. UNCHANGED <<ibf, cd, idr, host, txn, sent>> /\ rd' = "user"
    BY <1>2 DEF KcsOpen, registers, hostVars
  <2> QED
    BY <2>1, <2>2 DEF Whole, Received, Lengths, Charted, Unopened, Unaborted, Receiving, Pending,
      DataPending, StartPending
<1>3. CASE Calls /\ ~KcsRelease /\ ~KcsOpen
  <2>1. Kept /\ (prevAborted' => prevAborted)
    BY <1>3 DEF Calls, KcsOpen, KcsRelease, KcsEnable, KcsDisable, Reader, Responder, ReaderCall,
    ReaderWake, ReaderSignal, LeaveSleep, ReaderCopy, RespondCheck, RespondLen, RespondIndex,
    RespondPut, Kept, registers, packet, phases,
    flags, hostVars
  <2>2. Unopened'
    BY <1>3 DEF Calls, KcsOpen, KcsRelease, KcsEnable, KcsDisable, Reader, Responder, ReaderCall,
    ReaderWake, ReaderSignal, LeaveSleep, ReaderCopy, RespondCheck, RespondLen, RespondIndex,
    RespondPut, Whole, Unopened, Process,
    handlerVars, daemon, phases
  <2> QED
    BY <2>1, <2>2, KeptWhole
<1> QED
  BY <1>1, <1>2, <1>3

(* A host that follows the charts writes the bytes of one request in       *)
(* order, each only when the handler has taken the one before.             *)
LEMMA HostWhole ==
  ASSUME TypeOK, HandlerInv, Whole, Host, ~HostNoise
  PROVE  Whole'
<1>1. /\ UNCHANGED <<phase, rcvPkt, seqNo, prevAborted, rd, enabled, irq>>
  BY DEF Host, HostTalk, HostRecover, HostStart, HostWriteData, HostWriteEnd, HostWriteLast,
    HostRead, HostFinish, HostError, HostTimeout, HostAbort, HostAbortDummy, HostAbortStatus,
    HostAbortDone, HostCrash, HostElse, packet, phases, flags, daemon, handlerVars
<1>2. Len(rcvPkt) \in Nat /\ BodyLen \in Nat /\ sent \in Nat /\ txn \in 0..MaxTxn
  BY ConstantsAssumption DEF TypeOK, PacketOK, Packets, HostOK
<1>3. Unopened' /\ Unaborted'
  BY <1>1 DEF Whole, Unopened, Unaborted
<1>4. ~ibf /\ str # "WRITE" => phase \notin {"WRITE", "WRITE_END"}
  BY DEF HandlerInv, HostSeesPhase, StateOf, TypeOK, HandlerOK
<1>5. \A t : BytesOf(t)' <=> BytesOf(t)
  BY <1>1 DEF BytesOf
<1> USE DEF Whole, Lengths, Charted, Receiving, Pending, DataPending, StartPending
<1>6. CASE HostStart
  <2>1. /\ ~ibf /\ ibf' /\ cd' /\ idr'.code = "WRITE_START"
        /\ host' = "writing" /\ txn' = txn + 1 /\ sent' = 0
    BY <1>6 DEF HostStart, Ready, Write, In
  <2> QED
    BY <1>1, <1>2, <1>3, <1>5, <2>1 DEF Received
<1>7. CASE HostWriteData
  <2>1. /\ ~ibf /\ ibf' /\ ~cd' /\ idr'.txn = txn /\ host = "writing" /\ host' = "writing"
        /\ txn' = txn /\ sent < BodyLen - 1 /\ sent' = sent + 1
    BY <1>7 DEF HostWriteData, Ready, Write, In
  <2> QED
    BY <1>1, <1>2, <1>3, <1>5, <2>1 DEF Received
<1>8. CASE HostWriteEnd
  <2>1. /\ ~ibf /\ ibf' /\ cd' /\ idr'.code = "WRITE_END" /\ host = "writing"
        /\ host' = "ending" /\ UNCHANGED <<txn, sent>> /\ sent = BodyLen - 1
    BY <1>8 DEF HostWriteEnd, Ready, Write, In
  <2> QED
    BY <1>1, <1>2, <1>3, <1>5, <2>1 DEF Received
<1>9. CASE HostWriteLast
  <2>1. /\ ~ibf /\ ibf' /\ ~cd' /\ idr'.txn = txn /\ host = "ending" /\ host' = "reading"
        /\ UNCHANGED <<txn, sent>>
    BY <1>9 DEF HostWriteLast, Ready, Write, In
  <2> QED
    BY <1>1, <1>2, <1>3, <1>5, <2>1 DEF Received
<1>10. CASE HostRead \/ HostAbortStatus \/ HostAbortDummy
  <2>1. /\ ~ibf /\ ibf' /\ ~cd' /\ host' \in {"reading", "aborting1", "aborting2"}
        /\ UNCHANGED <<txn, sent>>
    BY <1>10 DEF HostRead, HostAbortStatus, HostAbortDummy, Ready, Write
  <2>2. phase \notin {"WRITE", "WRITE_END"}
    BY <1>4, <1>10 DEF HostRead, HostAbortStatus, HostAbortDummy, Ready
  <2> QED
    BY <1>1, <1>3, <1>5, <2>1, <2>2 DEF Received
<1>11. CASE HostAbort
  <2>1. /\ ~ibf /\ ibf' /\ cd' /\ idr'.code = "ABORT" /\ host' = "abort"
        /\ UNCHANGED <<txn, sent>>
    BY <1>11 DEF HostAbort, Ready, Write, In
  <2> QED
    BY <1>1, <1>2, <1>3, <1>5, <2>1 DEF Received
<1>12. CASE HostFinish \/ HostError \/ HostTimeout \/ HostAbortDone \/ HostCrash
  <2>1. UNCHANGED <<ibf, cd, idr, txn, sent>> /\ host' \in {"idle", "failed"}
    BY <1>12 DEF HostFinish, HostError, HostTimeout, HostAbortDone, HostCrash, registers
  <2> QED
    BY <1>1, <1>3, <1>5, <2>1 DEF Received
<1> QED
  BY <1>6, <1>7, <1>8, <1>9, <1>10, <1>11, <1>12 DEF Host, HostTalk, HostRecover

(* IntactInv is inductive.                                                 *)
LEMMA IntactNext == TypeOK /\ HandlerInv /\ IntactInv /\ [Next]_vars => IntactInv'
<1> SUFFICES ASSUME TypeOK, HandlerInv, IntactInv, [Next]_vars PROVE IntactInv'
  OBVIOUS
<1>1. CASE UNCHANGED vars
  <2>1. Kept /\ UNCHANGED <<prevAborted, rd, enabled, irq, left>>
    BY <1>1 DEF vars, Kept, registers, handlerVars, packet, phases, flags, daemon, hostVars
  <2>2. Whole => Whole'
    BY <2>1, KeptWhole DEF Whole, Unopened, Kept
  <2> QED
    BY <2>1, <2>2 DEF IntactInv, Bounded, Orderly, Spared
<1>2. CASE Next
  <2>1. Bounded' /\ (Orderly' => Orderly /\ ~KcsRelease /\ ~HostNoise)
    BY <1>2, BudgetSpent DEF IntactInv
  <2>2. ASSUME Orderly' PROVE Whole'
    <3>1. Whole /\ ~KcsRelease /\ ~HostNoise
      BY <2>1, <2>2 DEF IntactInv
    <3> QED
      BY <1>2, <3>1, TakeWhole, OthersWhole, HostWhole DEF Next, Irq, Calls, Host
  <2> QED
    BY <2>1, <2>2 DEF IntactInv
<1> QED
  BY <1>1, <1>2

(* The driver comes up with nothing received.                              *)
LEMMA IntactInit == Init => IntactInv
  BY ConstantsAssumption
  DEF Init, IntactInv, Bounded, Whole, Received, Lengths, Charted, Unopened, Unaborted,
    Receiving, Pending, DataPending, StartPending

(* In the READ phase the receive buffer is the whole request of one        *)
(* transaction (kcs_recv_byte), through every abort and restart of the     *)
(* host.                                                                   *)
THEOREM RequestsIntact == Spec => []RequestIntact
<1>1. TypeOK /\ IntactInv => RequestIntact
  <2> SUFFICES ASSUME TypeOK, Whole, phase = "READ"
               PROVE  \E t \in 1..MaxTxn : rcvPkt = <<seqNo>> \o Body(t)
    BY DEF IntactInv, Orderly, RequestIntact
  <2>1. PICK t \in 1..MaxTxn : BytesOf(t)
    BY DEF Whole, Received, Receiving
  <2>2. Len(rcvPkt) = BodyLen + 1 /\ rcvPkt \in Seq(Int)
    BY ConstantsAssumption DEF Whole, Lengths, TypeOK, PacketOK, Packets
  <2>3. rcvPkt = <<seqNo>> \o Body(t)
    BY <2>1, <2>2, ConstantsAssumption DEF BytesOf, Body
  <2> QED
    BY <2>3
<1> QED
  BY <1>1, IntactInit, IntactNext, HandlerInit, HandlerNext, TypeCorrect, PTL DEF Spec

----------------------------------------------------------------------------
(* The way of a request from the handler to the daemon.                    *)

Held == \E i \in DOMAIN inbox : inbox[i] = rcvPkt
Noted == phase = "READ" /\ inUse /\ ~replied => wakeup \/ rd = "copy" \/ Held

(* The handler signals the reader of a device that is open.                *)
LEMMA IrqNoted == ASSUME TypeOK, Noted, Irq PROVE Noted'
<1> USE DEF Noted
<1>1. inbox' = inbox /\ rd' = rd
  BY DEF Irq, IrqTake, IrqEnter, ReadIdr, TakeWriteStart, TakeWriteEnd, TakeAbort, TakeIllegal,
    TakeWriteByte, TakeLastByte, TakeReadError, TakeReadDone, TakeReadNext, TakeAbort1,
    TakeAbort2, TakeUnexpected, IrqSetError, IrqPut, daemon
<1>2. CASE TakeLastByte
  <2>1. inUse' => wakeup'
    BY <1>2 DEF TakeLastByte
  <2> QED
    BY <2>1
<1>3. CASE IrqEnter \/ IrqSetError \/ IrqPut \/ TakeReadError \/ TakeReadNext \/ TakeUnexpected
  <2>1. UNCHANGED <<phase, inUse, replied, wakeup, rcvPkt>>
    BY <1>3 DEF IrqEnter, IrqSetError, IrqPut, TakeReadError, TakeReadNext, TakeUnexpected,
      phases, flags, daemon, packet
  <2> QED
    BY <1>1, <2>1 DEF Held
<1>4. CASE ~(TakeLastByte \/ IrqEnter \/ IrqSetError \/ IrqPut \/ TakeReadError \/ TakeReadNext
              \/ TakeUnexpected)
  <2>1. phase' # "READ"
    BY <1>4 DEF Irq, IrqTake, TakeWriteStart, TakeWriteEnd, TakeAbort, TakeIllegal,
      TakeWriteByte, TakeReadDone, TakeAbort1, TakeAbort2, DataIn, phases
  <2> QED
    BY <2>1
<1> QED
  BY <1>2, <1>3, <1>4

(* The responder does not pass over the request it is handed: no abort is  *)
(* remembered, and the sequence number is that of the packet.              *)
LEMMA CheckNoted == ASSUME TypeOK, Whole, Noted, RespondCheck PROVE Noted'
<1>1. UNCHANGED <<phase, inUse, wakeup, rd, rcvPkt, seqNo>> /\ inbox # <<>>
  BY DEF RespondCheck, phases, packet
<1>2. inbox' = Tail(inbox) /\ (replied' <=> replied \/ (wr' = "len" /\ Head(inbox) = rcvPkt))
  BY DEF RespondCheck
<1>3. inbox \in Seq(Packets \ {<<>>})
  BY DEF TypeOK, DaemonOK
<1> SUFFICES ASSUME phase = "READ", inUse, ~replied', ~wakeup, rd # "copy"
             PROVE  Held'
  BY <1>1 DEF Noted
<1>4. PICK i \in DOMAIN inbox : inbox[i] = rcvPkt
  BY <1>2 DEF Noted, Held
<1>5. CASE i = 1
  <2>1. Head(inbox) = rcvPkt
    BY <1>1, <1>3, <1>4, <1>5
  <2>2. ~prevAborted
    BY DEF Whole, Unaborted, Receiving
  <2>3. Head(rcvPkt) = seqNo
    BY DEF Whole, Received, Receiving, BytesOf
  <2>4. wr' = "len"
    BY <2>1, <2>2, <2>3 DEF RespondCheck
  <2> QED
    BY <1>2, <2>1, <2>4
<1>6. CASE i # 1
  <2>1. i - 1 \in DOMAIN Tail(inbox) /\ Tail(inbox)[i - 1] = inbox[i]
    BY <1>1, <1>3, <1>4, <1>6
  <2> QED
    BY <1>1, <1>2, <1>4, <2>1 DEF Held
<1> QED
  BY <1>5, <1>6

(* The reader copies what it was signalled, and leaves its sleep only to   *)
(* copy.                                                                   *)
LEMMA CallsNoted == ASSUME TypeOK, Whole, Noted, Calls, ~KcsRelease PROVE Noted'
<1>1. CASE KcsOpen
  BY <1>1 DEF KcsOpen, Noted
<1>2. CASE ReaderWake \/ ReaderSignal
  BY <1>2 DEF ReaderWake, ReaderSignal, LeaveSleep, Noted
<1>3. CASE ReaderCopy
  <2>1. CASE phase = "READ"
    <3>1. rcvPkt # <<>> /\ rcvPkt' = rcvPkt
      BY <1>3, <2>1 DEF Whole, Received, Receiving, BytesOf, ReaderCopy, packet
    <3>2. inbox' = Append(inbox, rcvPkt)
      BY <1>3, <3>1 DEF ReaderCopy
    <3>3. Held'
      BY <3>1, <3>2 DEF Held, TypeOK, DaemonOK
    <3> QED
      BY <3>3 DEF Noted
  <2>2. CASE phase # "READ"
    BY <1>3, <2>2 DEF ReaderCopy, phases, Noted
  <2> QED
    BY <2>1, <2>2
<1>4. CASE RespondCheck
  BY <1>4, CheckNoted
<1>5. CASE KcsEnable \/ KcsDisable \/ ReaderCall \/ RespondLen \/ RespondIndex \/ RespondPut
  <2>1. UNCHANGED <<phase, inUse, replied, wakeup, rcvPkt, inbox>> /\ (rd = "copy" => rd' = "copy")
    BY <1>5 DEF KcsEnable, KcsDisable, ReaderCall, RespondLen, RespondIndex, RespondPut, phases,
      flags, daemon, packet
  <2> QED
    BY <2>1 DEF Noted, Held
<1> QED
  BY <1>1, <1>2, <1>3, <1>4, <1>5 DEF Calls, Reader, Responder

(* A host changes nothing of it.                                           *)
LEMMA HostNoted == ASSUME Noted, Host PROVE Noted'
<1>1. UNCHANGED <<phase, inUse, replied, wakeup, rcvPkt, inbox, rd>>
  BY DEF Host, HostTalk, HostRecover, HostStart, HostWriteData, HostWriteEnd, HostWriteLast,
    HostRead, HostFinish, HostError, HostTimeout, HostAbort, HostAbortDummy, HostAbortStatus,
    HostAbortDone, HostCrash, HostNoise, HostElse, packet, phases, flags, daemon
<1> QED
  BY <1>1 DEF Noted, Held

(* A request received while the device is open, and not answered, is       *)
(* signalled, or about to be copied, or held by the daemon (kcs_request,   *)
(* kcs_write_request), through aborts, restarts of the host and signals.   *)
THEOREM NoneLost == Spec => []NoLostRequest
<1> DEFINE Inv == Orderly => Noted
<1>1. Init => Inv
  BY DEF Init, Noted
<1>2. TypeOK /\ IntactInv /\ Inv /\ [Next]_vars => Inv'
  <2> SUFFICES ASSUME TypeOK, IntactInv, Inv, [Next]_vars, Orderly' PROVE Noted'
    OBVIOUS
  <2>1. CASE UNCHANGED vars
    BY <2>1 DEF vars, flags, phases, packet, daemon, Orderly, Spared, Noted, Held
  <2>2. CASE Next
    <3>1. Whole /\ Noted /\ ~KcsRelease
      BY <2>2, BudgetSpent DEF IntactInv
    <3> QED
      BY <2>2, <3>1, IrqNoted, CallsNoted, HostNoted DEF Next, Calls, Host
  <2> QED
    BY <2>1, <2>2
<1>3. Inv => NoLostRequest
  BY DEF Orderly, Noted, Held, NoLostRequest
<1> QED
  BY <1>1, <1>2, <1>3, IntactInit, IntactNext, HandlerInit, HandlerNext, TypeCorrect, PTL
  DEF Spec

----------------------------------------------------------------------------
(* The exchange.                                                           *)

(* The packet is the request of the transaction, and the response answers  *)
(* it.                                                                     *)
Mine == BytesOf(txn) /\ Len(rcvPkt) = BodyLen + 1
Fitting == response \in Responses /\ response.body = Body(txn) /\ response.len >= 1
Untouched == inbox = <<>> /\ wr = "idle"
Listening == ~wakeup /\ rd \in {"closed", "user", "sleep"}
Asking == Listening /\ Untouched /\ delivered = answered
Begun == txn = answered + 1

(* Without a fault the request is in one place at a time: the host is idle *)
(* or sends it, the last byte is on its way, the reader is signalled.      *)
Idle == host = "idle" /\ ~ibf /\ irq = "off" /\ Asking /\ txn = answered
Sending ==
  /\ host \in {"writing", "ending"} /\ irq \in {"off", "take"} /\ ~obf /\ got = <<>>
  /\ Asking /\ Begun
Last ==
  /\ host = "reading" /\ phase = "WRITE_END" /\ DataPending /\ idr.txn = txn
  /\ irq \in {"off", "take"} /\ ~obf /\ got = <<>>
  /\ Asking /\ Begun
(* The host waits for the first byte of the answer.                        *)
Awaiting ==
  /\ host = "reading" /\ phase = "READ" /\ str = "READ" /\ ~ibf /\ irq = "off"
  /\ ~obf /\ got = <<>> /\ Begun /\ inUse
Signalled ==
  /\ Awaiting /\ Mine /\ wakeup /\ rd \in {"user", "sleep"} /\ Untouched
  /\ delivered = answered
Copied ==
  /\ Awaiting /\ Mine /\ ~wakeup /\ rd = "copy" /\ Untouched /\ delivered = answered
Delivered ==
  /\ Awaiting /\ Mine /\ Listening /\ inbox = <<rcvPkt>> /\ wr = "idle"
  /\ delivered = txn
Answering ==
  /\ Awaiting /\ Listening /\ inbox = <<>> /\ wr \in {"len", "index", "put"} /\ Fitting
  /\ delivered = txn
  /\ wr # "len" => sendLen = response.len
  /\ wr = "put" => sendIx = 1
(* The host reads the answer: what it has is the beginning of it.          *)
Beginning ==
  /\ host = "reading" /\ Begun /\ delivered = txn /\ Listening /\ Untouched /\ Fitting
  /\ inUse /\ sendLen = response.len
  /\ \A i \in 1..Len(got) : got[i] = RspByte(response, i - 1)
Offered ==
  /\ Beginning /\ phase = "READ" /\ str = "READ" /\ ~ibf
  /\ sendIx = Len(got) + 1 /\ sendIx <= sendLen
  /\ \/ irq = "put" /\ ~obf /\ out = RspByte(response, Len(got))
     \/ irq = "off" /\ obf /\ odr = RspByte(response, Len(got))
Requested ==
  /\ Beginning /\ phase = "READ" /\ DataPending /\ idr.code = "READ" /\ ~obf
  /\ sendIx = Len(got) /\ sendIx <= sendLen
  /\ \/ irq = "off" /\ str = "READ"
     \/ irq = "take" /\ str = (IF sendIx = sendLen THEN "IDLE" ELSE "READ")
Done ==
  /\ Beginning /\ phase = "IDLE" /\ str = "IDLE" /\ ~ibf /\ Len(got) = sendLen
  /\ \/ irq = "put" /\ ~obf
     \/ irq = "off"

Places ==
  \/ Idle \/ Sending \/ Last \/ Signalled \/ Copied \/ Delivered \/ Answering
  \/ Offered \/ Requested \/ Done
InUse == inUse <=> rd # "closed"
LockStep == left = Budget => InUse /\ Places

(* What happens without a fault, the steps that move no request apart.     *)
Background == KcsOpen \/ KcsEnable \/ ReaderCall
Moves ==
  \/ Irq \/ ReaderWake \/ ReaderCopy \/ Responder \/ HostStart \/ HostTalk \/ HostRecover

(* What ends with the whole budget began with it and is no fault.          *)
LEMMA NoFault ==
  ASSUME TypeOK, Bounded, Next, left' = Budget
  PROVE  left = Budget /\ (Background \/ Moves)
<1>1. left \in [FaultKinds \cup {"any"} -> Nat] /\ Budget \in [FaultKinds \cup {"any"} -> Nat]
  BY ConstantsAssumption DEF TypeOK
<1>2. ASSUME NEW kind \in FaultKinds, Spend(kind) PROVE FALSE
  <2>1. left'["any"] = left["any"] - 1 /\ left["any"] <= Budget["any"]
    BY <1>1, <1>2 DEF Spend, FaultKinds, Bounded
  <2> QED
    BY <1>1, <2>1
<1>3. ~(KcsRelease \/ KcsDisable \/ ReaderSignal \/ HostTimeout \/ HostCrash \/ HostNoise)
  BY <1>2 DEF KcsRelease, KcsDisable, ReaderSignal, HostTimeout, HostCrash, HostNoise, FaultKinds
<1>4. Background \/ Moves
  BY <1>3 DEF Next, Background, Moves, Reader
<1>5. left' = left
  BY <1>4 DEF Background, Moves, KcsOpen, KcsEnable, ReaderCall, Irq, IrqTake, IrqEnter, ReadIdr,
    TakeWriteStart, TakeWriteEnd, TakeAbort, TakeIllegal, TakeWriteByte, TakeLastByte,
    TakeReadError, TakeReadDone, TakeReadNext, TakeAbort1, TakeAbort2, TakeUnexpected,
    IrqSetError, IrqPut, ReaderWake, ReaderCopy, Responder, RespondCheck, RespondLen,
    RespondIndex, RespondPut, HostStart, HostTalk, HostWriteData, HostWriteEnd, HostWriteLast,
    HostRead, HostFinish, HostRecover, HostError, HostAbort, HostAbortDummy, HostAbortStatus,
    HostAbortDone
<1> QED
  BY <1>4, <1>5

(* Opening, enabling and calling in move no request.                       *)
LEMMA BackgroundKeeps ==
  ASSUME Whole, InUse, Places, Background
  PROVE  InUse' /\ Places' /\ UNCHANGED Exchange!vars
<1>1. /\ UNCHANGED <<str, ibf, cd, idr, obf, odr, irq, out, response, wakeup, inbox, wr,
                    delivered, host, txn, got, answered, seqNo>>
      /\ irq = "off"
  BY DEF Background, KcsOpen, KcsEnable, ReaderCall, Process, registers, handlerVars, packet,
    sending, flags, daemon, hostVars
<1>2. UNCHANGED Exchange!vars
  BY <1>1 DEF Exchange!vars
<1>3. InUse'
  BY DEF Background, KcsOpen, KcsEnable, ReaderCall, InUse, flags, daemon
<1>4. rd' = rd \/ (rd \in {"closed", "user"} /\ rd' \in {"user", "sleep"})
  BY DEF Background, KcsOpen, KcsEnable, ReaderCall, daemon
<1>5. CASE Idle \/ Sending
  BY <1>1, <1>3, <1>4, <1>5, <1>2 DEF Places, Idle, Sending, Asking, Begun, Listening, Untouched
<1>6. CASE Places /\ ~Idle /\ ~Sending
  <2>1. inUse \/ phase = "WRITE_END"
    BY <1>6 DEF Places, Last, Awaiting, Signalled, Copied, Delivered, Answering, Beginning,
      Offered, Requested, Done
  <2>2. ~KcsOpen
    BY <2>1 DEF Whole, Unopened, InUse, KcsOpen
  <2>3. UNCHANGED <<rcvPkt, sendIx, sendLen, phase, inUse>>
    BY <2>2 DEF Background, KcsEnable, ReaderCall, packet, sending, phases, flags
  <2> USE <1>1, <1>4, <2>3 DEF Begun, Listening, Untouched
  <2>4. Last => Last'
    BY DEF Last, Asking, DataPending
  <2>5. (Awaiting => Awaiting') /\ (Mine => Mine') /\ (Fitting => Fitting')
    BY DEF Awaiting, Mine, BytesOf, Fitting, Responses, Packets
  <2>6. (Signalled => Signalled') /\ (Copied => Copied') /\ (Delivered => Delivered')
    BY <2>5 DEF Signalled, Copied, Delivered
  <2>7. Answering => Answering'
    BY <2>5 DEF Answering
  <2>8. Beginning => Beginning'
    BY <2>5 DEF Beginning
  <2>9. (Offered => Offered') /\ (Requested => Requested') /\ (Done => Done')
    BY <2>8 DEF Offered, Requested, Done, DataPending
  <2> QED
    BY <1>2, <1>3, <1>6, <2>4, <2>6, <2>7, <2>9 DEF Places
<1> QED
  BY <1>5, <1>6

(* In each place only the one who has the request can move it.             *)
LEMMA MoversOnly ==
  ASSUME TypeOK, HandlerInv, Whole, Moves
  PROVE  /\ Idle => HostStart
         /\ Sending => \/ HostWriteData \/ HostWriteEnd \/ HostWriteLast
                       \/ IrqEnter \/ TakeWriteStart \/ TakeWriteByte \/ TakeWriteEnd
         /\ Last => IrqEnter \/ TakeLastByte
         /\ Signalled => ReaderWake
         /\ Copied => ReaderCopy
         /\ Delivered => RespondCheck
         /\ Answering => RespondLen \/ RespondIndex \/ RespondPut
         /\ Offered => IrqPut \/ HostRead
         /\ Requested => IrqEnter \/ TakeReadNext \/ TakeReadDone
         /\ Done => IrqPut \/ HostFinish
<1>1. Irq => \/ IrqEnter /\ irq = "off" /\ ibf
             \/ IrqTake /\ irq = "take" /\ ibf
             \/ IrqSetError /\ irq \in {"error", "error-put"}
             \/ IrqPut /\ irq = "put"
  BY DEF Irq, IrqTake, IrqEnter, ReadIdr, TakeWriteStart, TakeWriteEnd, TakeAbort, TakeIllegal,
    TakeWriteByte, TakeLastByte, TakeReadError, TakeReadDone, TakeReadNext, TakeAbort1, TakeAbort2,
    TakeUnexpected, IrqSetError, IrqPut, HandlerInv
<1>2. /\ ReaderWake => irq = "off" /\ wakeup
      /\ ReaderCopy => irq = "off" /\ rd = "copy"
      /\ RespondCheck => irq = "off" /\ wr = "idle" /\ inbox # <<>>
      /\ RespondLen \/ RespondIndex \/ RespondPut => irq = "off" /\ wr # "idle"
  BY DEF ReaderWake, LeaveSleep, ReaderCopy, RespondCheck, RespondLen, RespondIndex, RespondPut,
    Process
<1>3. /\ HostStart => host = "idle" /\ ~ibf
      /\ HostWriteData \/ HostWriteEnd => host = "writing" /\ ~ibf
      /\ HostWriteLast => host = "ending" /\ ~ibf
      /\ HostRead => host = "reading" /\ ~ibf /\ str = "READ" /\ obf
      /\ HostFinish => host = "reading" /\ ~ibf /\ str = "IDLE" /\ obf
  BY DEF HostStart, HostWriteData, HostWriteEnd, HostWriteLast, HostRead, HostFinish, Ready
<1>4. HostRecover => \/ host \in {"writing", "ending"} /\ str # "WRITE" /\ ~ibf
                     \/ host = "reading" /\ str \notin {"READ", "IDLE"} /\ ~ibf
                     \/ host \notin {"idle", "writing", "ending", "reading"}
  BY DEF HostRecover, HostError, HostAbort, HostAbortDummy, HostAbortStatus, HostAbortDone, Ready
<1> USE <1>1, <1>2, <1>3, <1>4 DEF Moves, Responder, HostTalk, Begun, Listening, Untouched
<1>5. Idle => HostStart
  BY DEF Idle, Asking
<1>6. Sending => \/ HostWriteData \/ HostWriteEnd \/ HostWriteLast
                 \/ IrqEnter \/ TakeWriteStart \/ TakeWriteByte \/ TakeWriteEnd
  <2> SUFFICES ASSUME Sending
               PROVE  \/ HostWriteData \/ HostWriteEnd \/ HostWriteLast
                      \/ IrqEnter \/ TakeWriteStart \/ TakeWriteByte \/ TakeWriteEnd
    OBVIOUS
  <2>1. CASE IrqTake /\ irq = "take" /\ ibf
    <3>1. \/ cd /\ idr.code \in {"WRITE_START", "WRITE_END"}
          \/ ~cd /\ phase = "WRITE"
      BY <2>1 DEF Sending, Whole, Charted, Pending, StartPending
    <3> QED
      BY <2>1, <3>1 DEF IrqTake, TakeAbort, TakeIllegal, TakeLastByte, TakeReadError,
        TakeReadDone, TakeReadNext, TakeAbort1, TakeAbort2, TakeUnexpected, Command, DataIn
  <2>2. CASE HostRecover
    <3>1. ~ibf /\ str # "WRITE" /\ irq = "off"
      BY <2>2 DEF Sending, HandlerInv
    <3>2. phase \in {"WRITE", "WRITE_END"}
      BY <3>1 DEF Sending, Whole, Charted, Pending, StartPending
    <3> QED
      BY <3>1, <3>2 DEF HandlerInv, HostSeesPhase, StateOf
  <2> QED
    BY <2>1, <2>2 DEF Sending, Asking
<1>7. Last => IrqEnter \/ TakeLastByte
  BY DEF Last, Asking, DataPending, IrqTake, TakeWriteStart, TakeWriteEnd, TakeAbort, TakeIllegal,
    TakeWriteByte, TakeReadError, TakeReadDone, TakeReadNext, TakeAbort1, TakeAbort2,
    TakeUnexpected, Command, DataIn
<1>8. Signalled => ReaderWake
  BY DEF Signalled, Awaiting
<1>9. Copied => ReaderCopy
  BY DEF Copied, Awaiting
<1>10. Delivered => RespondCheck
  BY DEF Delivered, Awaiting
<1>11. Answering => RespondLen \/ RespondIndex \/ RespondPut
  BY DEF Answering, Awaiting
<1>12. Offered => IrqPut \/ HostRead
  BY DEF Offered, Beginning
<1>13. Requested => IrqEnter \/ TakeReadNext \/ TakeReadDone
  BY DEF Requested, Beginning, DataPending, IrqTake, TakeWriteStart, TakeWriteEnd, TakeAbort,
    TakeIllegal, TakeWriteByte, TakeLastByte, TakeReadError, TakeAbort1, TakeAbort2,
    TakeUnexpected, Command, DataIn
<1>14. Done => IrqPut \/ HostFinish
  BY DEF Done, Beginning
<1> QED
  BY <1>5, <1>6, <1>7, <1>8, <1>9, <1>10, <1>11, <1>12, <1>13, <1>14

(* The host begins a request and writes it byte by byte, and the handler   *)
(* takes each byte but the last.                                           *)
LEMMA AskingStep ==
  ASSUME TypeOK, HandlerInv, Whole, InUse,
         \/ Idle /\ HostStart
         \/ Sending /\ \/ HostWriteData \/ HostWriteEnd \/ HostWriteLast
                       \/ IrqEnter \/ TakeWriteStart \/ TakeWriteByte \/ TakeWriteEnd
  PROVE  InUse' /\ Places' /\ (Exchange!Next \/ UNCHANGED Exchange!vars)
<1>1. UNCHANGED <<wakeup, rd, inbox, wr, delivered, inUse, answered>>
  BY DEF HostStart, HostWriteData, HostWriteEnd, HostWriteLast, HostElse, IrqEnter,
    TakeWriteStart, TakeWriteByte, TakeWriteEnd, ReadIdr, flags, daemon, hostVars
<1>2. InUse'
  BY <1>1 DEF InUse
<1> USE <1>1 DEF Asking, Begun, Listening, Untouched
<1>3. CASE Idle /\ HostStart
  <2>1. Sending'
    BY <1>3 DEF Idle, Sending, HostStart, Write, HostElse, handlerVars
  <2>2. Exchange!Ask
    BY <1>3 DEF Idle, HostStart, Exchange!Ask
  <2> QED
    BY <1>2, <2>1, <2>2 DEF Places, Exchange!Next
<1>4. CASE Sending /\ (HostWriteData \/ HostWriteEnd)
  <2>1. Sending' /\ txn' = txn
    BY <1>4 DEF Sending, HostWriteData, HostWriteEnd, Write, HostElse, handlerVars
  <2> QED
    BY <1>2, <2>1 DEF Places, Exchange!vars
<1>5. CASE Sending /\ HostWriteLast
  <2>1. phase = "WRITE_END" /\ irq = "off"
    BY <1>5 DEF Sending, HostWriteLast, Ready, Whole, Charted, HandlerInv
  <2>2. Last' /\ txn' = txn
    BY <1>5, <2>1 DEF Sending, Last, HostWriteLast, Write, In, DataPending, HostElse, handlerVars,
      phases
  <2> QED
    BY <1>2, <2>2 DEF Places, Exchange!vars
<1>6. CASE Sending /\ (IrqEnter \/ TakeWriteStart \/ TakeWriteByte \/ TakeWriteEnd)
  <2>1. Sending' /\ txn' = txn
    BY <1>6 DEF Sending, IrqEnter, TakeWriteStart, TakeWriteByte, TakeWriteEnd, ReadIdr, hostVars
  <2> QED
    BY <1>2, <2>1 DEF Places, Exchange!vars
<1> QED
  BY <1>3, <1>4, <1>5, <1>6

(* The handler takes the last byte, and signals the reader: the device is  *)
(* open, or its interrupt would be off.                                    *)
LEMMA LastStep ==
  ASSUME TypeOK, HandlerInv, Whole, InUse, Last, IrqEnter \/ TakeLastByte
  PROVE  InUse' /\ Places' /\ UNCHANGED Exchange!vars
<1> USE DEF Last, Asking, Begun, Listening, Untouched, DataPending
<1>1. CASE IrqEnter
  <2>1. Last' /\ UNCHANGED <<rd, inUse, txn, delivered, answered>>
    BY <1>1 DEF IrqEnter, phases, flags, daemon, hostVars
  <2> QED
    BY <2>1 DEF Places, InUse, Exchange!vars
<1>2. CASE TakeLastByte
  <2>1. /\ irq = "take" /\ UNCHANGED <<str, rd, inbox, wr, delivered, host, txn, got, answered>>
        /\ obf' = obf /\ ~ibf' /\ irq' = "off" /\ phase' = "READ"
        /\ rcvPkt' = Append(rcvPkt, idr.txn) /\ seqNo' = seqNo
        /\ wakeup' = (wakeup \/ inUse) /\ inUse' = inUse
    BY <1>2 DEF TakeLastByte, ReadIdr, hostVars
  <2>2. str = "READ" /\ rd # "closed" /\ inUse
    BY <2>1 DEF HandlerInv, Whole, Unopened, InUse
  <2>3. BytesOf(txn) /\ Len(rcvPkt) = BodyLen
    BY DEF Whole, Received, Receiving, Lengths
  <2>4. Mine'
    <3>1. (BytesOf(txn))' /\ Len(rcvPkt') = Len(rcvPkt) + 1
      BY <2>1, <2>3, BytesAppended DEF TypeOK, BytesOf
    <3> QED
      BY <2>3, <3>1, ConstantsAssumption DEF Mine
  <2>5. Signalled'
    BY <2>1, <2>2, <2>4 DEF Signalled, Awaiting
  <2> QED
    BY <2>1, <2>2, <2>5 DEF Places, InUse, Exchange!vars
<1> QED
  BY <1>1, <1>2

(* The reader copies the request to the daemon.                            *)
LEMMA ReaderStep ==
  ASSUME TypeOK, InUse, (Signalled /\ ReaderWake) \/ (Copied /\ ReaderCopy)
  PROVE  InUse' /\ Places' /\ (Exchange!Next \/ UNCHANGED Exchange!vars)
<1>1. UNCHANGED <<str, ibf, obf, irq, rcvPkt, seqNo, phase, inUse, wr, host, txn, got, answered>>
  BY DEF ReaderWake, LeaveSleep, ReaderCopy, registers, handlerVars, packet, phases, flags, hostVars
<1>2. (Awaiting => Awaiting') /\ (Mine => Mine')
  BY <1>1 DEF Awaiting, Mine, BytesOf, Begun
<1>3. CASE Signalled /\ ReaderWake
  <2>1. Copied' /\ delivered' = delivered
    BY <1>1, <1>2, <1>3 DEF Signalled, Copied, Untouched, ReaderWake, LeaveSleep
  <2>2. InUse'
    BY <1>1, <1>3 DEF InUse, ReaderWake, LeaveSleep
  <2> QED
    BY <1>1, <2>1, <2>2 DEF Places, Exchange!vars
<1>4. CASE Copied /\ ReaderCopy
  <2>1. /\ rd' = "user" /\ delivered' = delivered + 1 /\ wakeup' = wakeup
        /\ inbox' = Append(inbox, rcvPkt)
    BY <1>4 DEF Copied, Mine, BytesOf, ReaderCopy, flags
  <2>2. inbox' = <<rcvPkt'>>
    BY <1>1, <1>4, <2>1 DEF Copied, Untouched
  <2>3. delivered' = txn' /\ Exchange!Deliver
    BY <1>1, <1>4, <2>1 DEF Copied, Awaiting, Begun, Exchange!Deliver, TypeOK, HostOK
  <2>4. Delivered'
    BY <1>1, <1>2, <1>4, <2>1, <2>2, <2>3 DEF Copied, Delivered, Untouched, Listening
  <2>5. InUse'
    BY <1>1, <1>4, <2>1 DEF InUse, Copied, Awaiting
  <2> QED
    BY <2>3, <2>4, <2>5 DEF Places, Exchange!Next
<1> QED
  BY <1>3, <1>4

(* The sequence number goes before the body of a request.                  *)
LEMMA MineParts ==
  ASSUME TypeOK, Mine
  PROVE  Head(rcvPkt) = seqNo /\ Tail(rcvPkt) = Body(txn)
<1>1. rcvPkt \in Seq(Int) /\ rcvPkt # <<>> /\ BodyLen \in Nat /\ Len(rcvPkt) = BodyLen + 1
  BY ConstantsAssumption DEF TypeOK, PacketOK, Packets, Mine, BytesOf
<1>2. Tail(rcvPkt) \in Seq(Int) /\ Len(Tail(rcvPkt)) = BodyLen
  BY <1>1
<1>3. ASSUME NEW i \in 1..BodyLen PROVE Tail(rcvPkt)[i] = txn
  <2>1. Tail(rcvPkt)[i] = rcvPkt[i + 1] /\ i + 1 \in 2..Len(rcvPkt)
    BY <1>1, <1>2
  <2> QED
    BY <2>1 DEF Mine, BytesOf
<1>4. Body(txn) \in Seq(Int) /\ Len(Body(txn)) = BodyLen
      /\ \A i \in 1..BodyLen : Body(txn)[i] = txn
  BY <1>1 DEF Body, TypeOK, HostOK
<1>5. Tail(rcvPkt) = Body(txn)
  BY <1>2, <1>3, <1>4, SeqEqual
<1> QED
  BY <1>1, <1>5 DEF Mine, BytesOf

(* The responder lets the response to it through and offers its first      *)
(* byte: no abort is remembered, and the sequence number has not moved.    *)
LEMMA ResponderStep ==
  ASSUME TypeOK, TypeOK', Whole, InUse,
         \/ Delivered /\ RespondCheck
         \/ Answering /\ (RespondLen \/ RespondIndex \/ RespondPut)
  PROVE  InUse' /\ Places' /\ UNCHANGED Exchange!vars
<1>1. /\ UNCHANGED <<str, ibf, irq, rcvPkt, seqNo, phase, inUse, wakeup, rd, delivered, host, txn,
                    got, answered>>
      /\ ~RespondPut => obf' = obf
  BY DEF RespondCheck, RespondLen, RespondIndex, RespondPut, registers, handlerVars, packet,
    phases, flags, daemon, hostVars
<1>2. InUse' /\ UNCHANGED Exchange!vars
  BY <1>1 DEF InUse, Exchange!vars
<1> USE DEF Begun, Listening
<1>3. CASE Delivered /\ RespondCheck
  <2>1. inbox = <<rcvPkt>> /\ Mine /\ phase = "READ" /\ ~prevAborted
    BY <1>3 DEF Delivered, Awaiting, Whole, Unaborted, Receiving
  <2>2. Head(inbox) = rcvPkt /\ Tail(inbox) = <<>>
    BY <2>1
  <2>3. Head(rcvPkt) = seqNo /\ Tail(rcvPkt) = Body(txn)
    BY <2>1, MineParts
  <2>4. wr' = "len" /\ inbox' = <<>>
    BY <1>3, <2>1, <2>2, <2>3 DEF RespondCheck
  <2>5. Fitting'
    <3>1. PICK n \in 1..MaxRspLen : response' = Rsp(Body(txn), n)
      BY <1>3, <2>2, <2>3 DEF RespondCheck
    <3>2. response' \in Responses
      BY DEF TypeOK, SendingOK
    <3> QED
      BY <1>1, <3>1, <3>2, ConstantsAssumption DEF Fitting, Rsp
  <2>6. Answering'
    BY <1>1, <1>3, <2>4, <2>5 DEF Delivered, Answering, Awaiting, RespondCheck, RespondPut
  <2> QED
    BY <1>2, <2>6 DEF Places
<1>4. CASE Answering /\ (RespondLen \/ RespondIndex)
  <2>1. Answering'
    BY <1>1, <1>4 DEF Answering, Awaiting, Fitting, RespondLen, RespondIndex, registers
  <2> QED
    BY <1>2, <2>1 DEF Places
<1>5. CASE Answering /\ RespondPut
  <2>1. /\ wr = "put" /\ wr' = "idle" /\ odr' = RspByte(response, 0) /\ obf'
        /\ UNCHANGED <<sendIx, sendLen, response, inbox>>
    BY <1>5 DEF RespondPut, sending
  <2>2. Beginning' /\ Len(got') = 0 /\ sendIx' = 1 /\ sendIx' <= sendLen'
    BY <1>1, <1>5, <2>1 DEF Answering, Awaiting, Fitting, Beginning, Untouched, Responses
  <2>3. Offered'
    BY <1>1, <1>5, <2>1, <2>2 DEF Answering, Awaiting, Offered
  <2> QED
    BY <1>2, <2>3 DEF Places
<1> QED
  BY <1>3, <1>4, <1>5

(* Host and handler pass the answer over byte by byte.                     *)
LEMMA AnswerStep ==
  ASSUME TypeOK, InUse,
         \/ Offered /\ (IrqPut \/ HostRead)
         \/ Requested /\ (IrqEnter \/ TakeReadNext \/ TakeReadDone)
         \/ Done /\ IrqPut
  PROVE  InUse' /\ Places' /\ UNCHANGED Exchange!vars
<1>1. UNCHANGED <<response, sendLen, inUse, wakeup, rd, inbox, wr, delivered, host, txn, answered>>
  BY DEF IrqPut, HostRead, IrqEnter, TakeReadNext, TakeReadDone, ReadIdr, HostElse, sending, flags,
    daemon, hostVars
<1>2. InUse' /\ UNCHANGED Exchange!vars
  BY <1>1 DEF InUse, Exchange!vars
<1>3. Beginning /\ got' = got => Beginning'
  BY <1>1 DEF Beginning, Begun, Listening, Untouched, Fitting
<1>4. CASE Offered /\ IrqPut
  <2>1. Offered'
    BY <1>1, <1>3, <1>4 DEF Offered, IrqPut, sending, phases, hostVars
  <2> QED
    BY <1>2, <2>1 DEF Places
<1>5. CASE Offered /\ HostRead
  <2>1. /\ got' = Append(got, odr) /\ odr = RspByte(response, Len(got)) /\ irq = "off"
        /\ ~obf' /\ ibf' /\ ~cd' /\ idr'.code = "READ"
        /\ UNCHANGED <<str, irq, phase, sendIx>>
    BY <1>5 DEF Offered, HostRead, Write, In, HostElse, handlerVars, sending, phases
  <2>2. got \in Seq(OutBytes) /\ odr \in OutBytes
    BY DEF TypeOK, HostOK, RegistersOK
  <2>3. Len(got') = Len(got) + 1 /\ \A i \in 1..Len(got') : got'[i] = RspByte(response, i - 1)
    BY <1>5, <2>1, <2>2 DEF Offered, Beginning
  <2>4. Beginning'
    BY <1>1, <1>5, <2>3 DEF Offered, Beginning, Begun, Listening, Untouched, Fitting
  <2>5. Requested'
    BY <1>1, <1>5, <2>1, <2>3, <2>4 DEF Offered, Requested, DataPending
  <2> QED
    BY <1>2, <2>5 DEF Places
<1>6. CASE Requested /\ IrqEnter
  <2>1. str' = IF sendIx = sendLen THEN "IDLE" ELSE "READ"
    BY <1>6 DEF Requested, DataPending, IrqEnter, EntryState
  <2>2. Requested'
    BY <1>1, <1>3, <1>6, <2>1 DEF Requested, DataPending, IrqEnter, sending, phases, hostVars
  <2> QED
    BY <1>2, <2>2 DEF Places
<1>7. CASE Requested /\ TakeReadNext
  <2>1. /\ irq = "take" /\ sendIx # sendLen /\ sendIx' = sendIx + 1 /\ irq' = "put"
        /\ out' = RspByte(response, sendIx) /\ ~ibf'
        /\ UNCHANGED <<str, obf, phase, got>>
    BY <1>7 DEF TakeReadNext, ReadIdr, phases, hostVars
  <2>2. sendIx \in Nat /\ sendLen \in Nat
    BY ConstantsAssumption DEF TypeOK, SendingOK
  <2>3. Offered'
    BY <1>1, <1>3, <1>7, <2>1, <2>2 DEF Requested, Offered
  <2> QED
    BY <1>2, <2>3 DEF Places
<1>8. CASE Requested /\ TakeReadDone
  <2>1. Done'
    BY <1>1, <1>3, <1>8 DEF Requested, Done, TakeReadDone, ReadIdr, hostVars
  <2> QED
    BY <1>2, <2>1 DEF Places
<1>9. CASE Done /\ IrqPut
  <2>1. Done'
    BY <1>1, <1>3, <1>9 DEF Done, IrqPut, phases, hostVars
  <2> QED
    BY <1>2, <2>1 DEF Places
<1> QED
  BY <1>4, <1>5, <1>6, <1>7, <1>8, <1>9

(* The host finds the whole answer and ends the transaction.               *)
LEMMA FinishStep ==
  ASSUME TypeOK, InUse, Done, HostFinish
  PROVE  InUse' /\ Places' /\ Exchange!Next
<1>1. Answered(txn, got)
  <2>1. response = Rsp(Body(txn), sendLen) /\ sendLen \in 1..MaxRspLen
    BY DEF Done, Beginning, Fitting, Responses, Rsp, TypeOK, SendingOK
  <2>2. got \in Seq(OutBytes) /\ Len(got) = sendLen
    BY DEF TypeOK, HostOK, Done
  <2>3. \A i \in 1..sendLen : got[i] = RspByte(Rsp(Body(txn), sendLen), i - 1)
    BY <2>1, <2>2 DEF Done, Beginning
  <2>4. got = Answer(txn, sendLen)
    BY <2>1, <2>2, <2>3 DEF Answer
  <2> QED
    BY <2>1, <2>4 DEF Answered
<1>2. /\ answered' = answered + 1 /\ host' = "idle" /\ ~ibf' /\ irq = "off"
      /\ UNCHANGED <<txn, irq, wakeup, rd, inbox, wr, delivered, inUse>>
  BY <1>1 DEF Done, HostFinish, Ready, HostElse, handlerVars, flags, daemon
<1>3. Idle'
  BY <1>2 DEF Done, Beginning, Begun, Idle, Asking, Listening, Untouched
<1>4. Exchange!Answer
  BY <1>2 DEF Done, Beginning, Begun, Exchange!Answer, TypeOK, HostOK
<1> QED
  BY <1>2, <1>3, <1>4 DEF Places, InUse, Exchange!Next

(* LockStep is inductive, and its steps are those of the exchange.         *)
LEMMA LockStepNext ==
  ASSUME TypeOK, TypeOK', HandlerInv, IntactInv, LockStep, Next
  PROVE  /\ LockStep'
         /\ left' = Budget => Exchange!Next \/ UNCHANGED Exchange!vars
<1> SUFFICES ASSUME left' = Budget
             PROVE  InUse' /\ Places' /\ (Exchange!Next \/ UNCHANGED Exchange!vars)
  BY DEF LockStep
<1>1. left = Budget /\ (Background \/ Moves)
  BY NoFault DEF IntactInv
<1>2. InUse /\ Places /\ Whole
  BY <1>1 DEF LockStep, IntactInv, Orderly, Spared
<1>3. CASE Background
  BY <1>2, <1>3, BackgroundKeeps
<1>4. CASE Moves
  <2>1. CASE Idle \/ Sending
    BY <1>2, <1>4, <2>1, MoversOnly, AskingStep
  <2>2. CASE Last
    BY <1>2, <1>4, <2>2, MoversOnly, LastStep
  <2>3. CASE Signalled \/ Copied
    <3>1. (Signalled /\ ReaderWake) \/ (Copied /\ ReaderCopy)
      BY <1>2, <1>4, <2>3, MoversOnly
    <3> QED
      BY <1>2, <3>1, ReaderStep
  <2>4. CASE Delivered \/ Answering
    BY <1>2, <1>4, <2>4, MoversOnly, ResponderStep
  <2>5. CASE Offered \/ Requested
    BY <1>2, <1>4, <2>5, MoversOnly, AnswerStep
  <2>6. CASE Done
    <3>1. IrqPut \/ HostFinish
      BY <1>2, <1>4, <2>6, MoversOnly
    <3> QED
      BY <1>2, <2>6, <3>1, AnswerStep, FinishStep
  <2> QED
    BY <1>2, <2>1, <2>2, <2>3, <2>4, <2>5, <2>6 DEF Places
<1> QED
  BY <1>1, <1>3, <1>4

(* Until the first fault the channel (kcsmain.c) is a lock-step exchange,  *)
(* across the wrap of the sequence number and for every length: each       *)
(* request is delivered once and answered by its own answer.               *)
THEOREM ExchangeImplemented == Spec => ImplementsExchange
<1> DEFINE Inv == TypeOK /\ HandlerInv /\ IntactInv /\ LockStep
<1>1. Init => LockStep /\ Exchange!Init
  <2> SUFFICES ASSUME Init PROVE LockStep /\ Exchange!Init
    OBVIOUS
  <2>1. Idle /\ InUse
    BY DEF Init, Idle, Asking, Listening, Untouched, InUse
  <2> QED
    BY <2>1 DEF LockStep, Places, Init, Exchange!Init
<1>2. TypeOK /\ TypeOK' /\ HandlerInv /\ IntactInv /\ LockStep /\ [Next]_vars
        => LockStep' /\ [left' = Budget => Exchange!Next]_(Exchange!vars)
  <2> SUFFICES ASSUME TypeOK, TypeOK', HandlerInv, IntactInv, LockStep, [Next]_vars
               PROVE  LockStep' /\ [left' = Budget => Exchange!Next]_(Exchange!vars)
    OBVIOUS
  <2>1. CASE Next
    BY <2>1, LockStepNext
  <2>2. CASE UNCHANGED vars
    <3>1. UNCHANGED Exchange!vars
      BY <2>2 DEF vars, Exchange!vars, daemon, hostVars
    <3>2. LockStep'
      <4> USE <2>2 DEF vars, registers, handlerVars, packet, sending, phases, flags, daemon,
        hostVars, Begun, Listening, Untouched, DataPending
      <4>1. (Idle => Idle') /\ (Sending => Sending') /\ (Last => Last')
        BY DEF Idle, Sending, Last, Asking
      <4>2. (Awaiting => Awaiting') /\ (Mine => Mine') /\ (Fitting => Fitting')
        BY DEF Awaiting, Mine, BytesOf, Fitting
      <4>3. (Signalled => Signalled') /\ (Copied => Copied') /\ (Delivered => Delivered')
        BY <4>2 DEF Signalled, Copied, Delivered
      <4>4. Answering => Answering'
        BY <4>2 DEF Answering
      <4>5. Beginning => Beginning'
        BY <4>2 DEF Beginning
      <4>6. (Offered => Offered') /\ (Requested => Requested') /\ (Done => Done')
        BY <4>5 DEF Offered, Requested, Done
      <4> QED
        BY <4>1, <4>3, <4>4, <4>6 DEF LockStep, InUse, Places
    <3> QED
      BY <3>1, <3>2
  <2> QED
    BY <2>1, <2>2
<1> QED
  BY <1>1, <1>2, IntactInit, IntactNext, HandlerInit, HandlerNext, TypeCorrect, PTL
  DEF Spec, ImplementsExchange
====
