---- MODULE VirtualMediaProofs ----
(***************************************************************************)
(* Theorems about the remote drives of VirtualMedia, for any number of     *)
(* commands and faults: the states are well typed, the deferred call       *)
(* leaves no command behind, no command is taken for data, what a drive    *)
(* sends and what a server answers is for the command its host waits for,  *)
(* a complete read is of its own data, and the error case of a transfer is *)
(* that of its command as long as the one global flag was not used for     *)
(* another drive.                                                          *)
(***************************************************************************)
EXTENDS VirtualMedia, TLAPS

Pc == {"off", "idle", "busy", "visit", "picked", "data", "stall", "go", "csw"}
Working == {"data", "stall", "go", "csw"}

HostRec == [pc : {"off", "idle", "out", "wait", "confused"}, tag : Tag, op : Op,
            got : Seq(Tag), status : {"passed", "failed"}, residue : BOOLEAN]
EpRec == [cfg : BOOLEAN, ready : BOOLEAN, rest : BOOLEAN, fifo : Sent, stalled : BOOLEAN]
BotRec == [tag : Tag, op : Op, outLen : BOOLEAN, lastSeq : Nat, unhalted : BOOLEAN,
           flag : BOOLEAN]
IusbRec == [active : BOOLEAN, wakeup : BOOLEAN, pkt : Packet]
ThrRec == [pc : Pc, drive : 1..(NumDrives + 1), pkt : Packet, csw : Sent]

(* What the state is made of.                                              *)
HostInv ==
  /\ host \in [Drive -> HostRec]
  /\ \A d \in Drive : host[d].tag[1] = d /\ Len(host[d].got) <= 2
BotInv == bot \in [Drive -> BotRec] /\ \A d \in Drive : bot[d].lastSeq <= seqNo
(* A server never acts for the deferred call, and only a drive is worked   *)
(* for.                                                                    *)
ThrInv ==
  /\ thr \in [Thread -> ThrRec]
  /\ thr[0].pc \in {"idle", "visit", "picked"} \cup Working
  /\ thr[0].pc \in {"picked"} \cup Working => thr[0].drive \in Drive
  /\ \A d \in Drive : thr[d].pc \in {"off", "idle", "busy"} \cup Working /\ thr[d].drive \in Drive
HistInv ==
  /\ budget \in [Fault -> Nat]
  /\ old \in [Drive -> BOOLEAN] /\ stray \in [Drive -> BOOLEAN]
  /\ crossed \in [Drive -> BOOLEAN] /\ left \in [Drive -> BOOLEAN]
GlobalInv == setting \in Settings /\ cbwErr \in 0..2 /\ seqNo \in Nat /\ sem \in Nat
IusbInv == iusb \in [Drive -> IusbRec] /\ kbuf \in [{"cd", "hd"} -> Packet]
EpInv == ep \in [Drive -> EpRec]
TypeInv == HostInv /\ EpInv /\ BotInv /\ IusbInv /\ ThrInv /\ GlobalInv /\ HistInv

----------------------------------------------------------------------------
(* What the operators return.                                              *)

(* A drive's number is a thread's, and its kind names a reply buffer.      *)
LEMMA Constants ==
  /\ NumDrives \in Nat /\ NumDrives >= 1 /\ 1 \in Drive
  /\ 0 \in Thread /\ 0 \notin Drive /\ NoTag \in Tag
  /\ \A d \in Drive : d \in Thread /\ d \in Nat /\ <<d, 0>> \in Tag /\ Buffer(d) \in {"cd", "hd"}
                      /\ d \in 1..(NumDrives + 1)
BY MediaAssumption DEF Drive, Thread, Tag, NoTag, Buffer

(* Packets of data and statuses are packets.                               *)
LEMMA SentTypes ==
  ASSUME NEW tag \in Tag
  PROVE  /\ Nothing \in Sent /\ Data(tag) \in Sent
         /\ \A st \in {"passed", "failed", "phase"}, r \in BOOLEAN : CSW(tag, st, r) \in Sent
BY Constants DEF Nothing, Data, CSW, Sent

(* A packet is of its type; so is what TagNow finds for it.                *)
LEMMA TagNowType ==
  ASSUME TypeInv, NEW t \in Thread, NEW d \in Drive
  PROVE  TagNow(t, d) \in Tag
<1>1. CASE t = 0 BY <1>1 DEF TypeInv, BotInv, BotRec, TagNow
<1>2. CASE t # 0
  <2>1. t \in Drive BY <1>2 DEF Thread
  <2>2. kbuf[Buffer(t)] \in Packet BY <2>1, Constants DEF TypeInv, IusbInv
  <2> QED BY <1>2, <2>2 DEF TagNow, Packet
<1> QED BY <1>1, <1>2

(* An endpoint that is written to stays configured.                        *)
LEMMA WrittenType ==
  ASSUME NEW e \in EpRec, NEW p \in Sent, NEW r \in BOOLEAN
  PROVE  Written(e, p, r) \in EpRec /\ Written(e, p, r).cfg = e.cfg
BY DEF Written, EpRec

(* A step in which thread t sends for drive d, whose data of the transport *)
(* are b but for UnHalted, and waits for that or is done.                  *)
Sends(t, d, b) ==
  /\ EpInv' /\ ThrInv'
  /\ \A e \in Drive : ep'[e].cfg = ep[e].cfg
  /\ \E u \in BOOLEAN : bot' = [bot EXCEPT ![d] = [b EXCEPT !.unhalted = u]]
  /\ \A s \in Thread \ {t} : thr'[s] = thr[s]
  /\ thr'[t].pkt = thr[t].pkt
  /\ \/ thr'[t].pc \in {"data", "stall", "csw"} /\ thr'[t].drive = d
     \/ t = 0 /\ thr'[0].pc = "visit" /\ thr'[0].drive = d + 1
     \/ t # 0 /\ thr'[t].pc = "idle"

(* Returning: to the next drive, or to user space (Returned).              *)
LEMMA ReturnedType ==
  ASSUME TypeInv, NEW t \in Thread, t = 0 => thr[0].drive \in Drive
  PROVE  /\ Returned(t) \in ThrRec /\ Returned(t).pkt = thr[t].pkt
         /\ t = 0 => Returned(t).pc = "visit" /\ Returned(t).drive = thr[0].drive + 1
         /\ t # 0 => Returned(t).pc = "idle" /\ Returned(t).drive = thr[t].drive
<1>1. thr[t] \in ThrRec BY DEF TypeInv, ThrInv
<1>2. CASE t = 0
  <2>1. thr[0].drive + 1 \in 1..(NumDrives + 1) BY <1>2, Constants DEF Drive
  <2> QED BY <1>1, <1>2, <2>1 DEF Returned, ThrRec, Pc
<1>3. CASE t # 0 BY <1>1, <1>3 DEF Returned, ThrRec, Pc
<1> QED BY <1>2, <1>3

(* A thread that takes on a new state keeps the threads well typed.        *)
LEMMA ThrStep ==
  ASSUME TypeInv, NEW t \in Thread, NEW r \in ThrRec, thr' = [thr EXCEPT ![t] = r],
         t = 0 => /\ r.pc \in {"idle", "visit", "picked"} \cup Working
                  /\ r.pc \in {"picked"} \cup Working => r.drive \in Drive,
         t # 0 => r.pc \in {"off", "idle", "busy"} \cup Working /\ r.drive \in Drive
  PROVE  ThrInv' /\ thr'[t] = r /\ \A s \in Thread \ {t} : thr'[s] = thr[s]
<1>1. thr \in [Thread -> ThrRec] BY DEF TypeInv, ThrInv
<1>2. thr' \in [Thread -> ThrRec] /\ thr'[t] = r /\ \A s \in Thread \ {t} : thr'[s] = thr[s]
  BY <1>1
<1>3. /\ thr'[0].pc \in {"idle", "visit", "picked"} \cup Working
      /\ thr'[0].pc \in {"picked"} \cup Working => thr'[0].drive \in Drive
  BY <1>2, Constants DEF TypeInv, ThrInv
<1>4. \A d \in Drive :
        thr'[d].pc \in {"off", "idle", "busy"} \cup Working /\ thr'[d].drive \in Drive
  BY <1>2, Constants DEF TypeInv, ThrInv
<1> QED BY <1>2, <1>3, <1>4 DEF ThrInv

(* Writing a CSW (BotSendCSW after a STALL, or without one).               *)
LEMMA WriteCSWSends ==
  ASSUME TypeInv, NEW t \in Thread, NEW d \in Drive, NEW csw \in Sent, NEW b \in BotRec,
         t = 0 => d = thr[0].drive,
         WriteCSW(t, d, csw), NEW u \in BOOLEAN,
         bot' = [bot EXCEPT ![d] = [b EXCEPT !.unhalted = u]]
  PROVE  Sends(t, d, b)
<1>1. /\ ep \in [Drive -> EpRec] /\ thr[t] \in ThrRec
  BY DEF TypeInv, EpInv, ThrInv
<1>2. Written(ep[d], csw, FALSE) \in EpRec /\ Written(ep[d], csw, FALSE).cfg = ep[d].cfg
  BY <1>1, WrittenType
<1>3. ep' = [ep EXCEPT ![d] = Written(ep[d], csw, FALSE)] BY DEF WriteCSW
<1>4. EpInv' /\ \A e \in Drive : ep'[e].cfg = ep[e].cfg BY <1>1, <1>2, <1>3 DEF EpInv
<1> DEFINE r == IF ep[d].cfg THEN [thr[t] EXCEPT !.pc = "csw", !.drive = d, !.csw = csw]
                ELSE Returned(t)
<1>5. thr' = [thr EXCEPT ![t] = r] BY DEF WriteCSW
<1>6. t # 0 => t \in Drive /\ thr[t].drive \in Drive BY DEF Thread, TypeInv, ThrInv
<1>7. /\ r \in ThrRec /\ r.pkt = thr[t].pkt
      /\ \/ r.pc = "csw" /\ r.drive = d
         \/ t = 0 /\ r.pc = "visit" /\ r.drive = d + 1
         \/ t # 0 /\ r.pc = "idle" /\ r.drive \in Drive
  <2>1. CASE ep[d].cfg
    BY <2>1, <1>1, Constants DEF ThrRec, Pc
  <2>2. CASE ~ep[d].cfg
    BY <2>2, <1>6, ReturnedType
  <2> QED BY <2>1, <2>2
<1> HIDE DEF r
<1>8. ThrInv' /\ thr'[t] = r /\ \A s \in Thread \ {t} : thr'[s] = thr[s]
  BY <1>5, <1>7, ThrStep DEF Working
<1> QED BY <1>4, <1>7, <1>8 DEF Sends

(* BotSendCSW, with its STALL or without.                                  *)
LEMMA SendCSWSends ==
  ASSUME TypeInv, NEW t \in Thread, NEW d \in Drive, NEW csw \in Sent, NEW b \in BotRec,
         t = 0 => d = thr[0].drive, BotSendCSW(t, d, b, csw)
  PROVE  Sends(t, d, b)
<1>1. CASE csw.residue
  <2>1. ep \in [Drive -> EpRec] /\ thr[t] \in ThrRec BY DEF TypeInv, EpInv, ThrInv
  <2>2. ep' = [ep EXCEPT ![d] = [ep[d] EXCEPT !.stalled = TRUE]] BY <1>1 DEF BotSendCSW
  <2>3. [ep[d] EXCEPT !.stalled = TRUE] \in EpRec /\ [ep[d] EXCEPT !.stalled = TRUE].cfg = ep[d].cfg
    BY <2>1 DEF EpRec
  <2>4. EpInv' /\ \A e \in Drive : ep'[e].cfg = ep[e].cfg BY <2>1, <2>2, <2>3 DEF EpInv
  <2>5. bot' = [bot EXCEPT ![d] = [b EXCEPT !.unhalted = FALSE]] BY <1>1 DEF BotSendCSW
  <2> DEFINE r == [thr[t] EXCEPT !.pc = "stall", !.drive = d, !.csw = csw]
  <2>6. thr' = [thr EXCEPT ![t] = r] BY <1>1 DEF BotSendCSW
  <2>7. r \in ThrRec /\ r.pkt = thr[t].pkt /\ r.pc = "stall" /\ r.drive = d
    BY <2>1, Constants DEF ThrRec, Pc
  <2> HIDE DEF r
  <2>8. ThrInv' /\ thr'[t] = r /\ \A s \in Thread \ {t} : thr'[s] = thr[s]
    BY <2>6, <2>7, ThrStep DEF Working
  <2> QED BY <2>4, <2>5, <2>7, <2>8 DEF Sends
<1>2. CASE ~csw.residue
  <2>1. bot' = [bot EXCEPT ![d] = b] /\ WriteCSW(t, d, csw) BY <1>2 DEF BotSendCSW
  <2>2. b.unhalted \in BOOLEAN /\ b = [b EXCEPT !.unhalted = b.unhalted] BY DEF BotRec
  <2> QED BY <2>1, <2>2, WriteCSWSends
<1> QED BY <1>1, <1>2

(* Data of a server or of BotInquiry.                                      *)
LEMMA SendDataSends ==
  ASSUME TypeInv, NEW t \in Thread, NEW d \in Drive, NEW csw \in Sent, NEW b \in BotRec,
         NEW source \in Tag, NEW rest \in BOOLEAN,
         t = 0 => d = thr[0].drive, SendData(t, d, b, csw, source, rest)
  PROVE  Sends(t, d, b)
<1>1. CASE ep[d].cfg
  <2>1. ep \in [Drive -> EpRec] /\ thr[t] \in ThrRec BY DEF TypeInv, EpInv, ThrInv
  <2>2. /\ Written(ep[d], Data(source), rest) \in EpRec
        /\ Written(ep[d], Data(source), rest).cfg = ep[d].cfg
    BY <2>1, WrittenType, SentTypes
  <2>3. ep' = [ep EXCEPT ![d] = Written(ep[d], Data(source), rest)] BY <1>1 DEF SendData
  <2>4. EpInv' /\ \A e \in Drive : ep'[e].cfg = ep[e].cfg BY <2>1, <2>2, <2>3 DEF EpInv
  <2>5. bot' = [bot EXCEPT ![d] = [b EXCEPT !.unhalted = b.unhalted]] /\ b.unhalted \in BOOLEAN
    BY <1>1 DEF SendData, BotRec
  <2> DEFINE r == [thr[t] EXCEPT !.pc = "data", !.drive = d, !.csw = csw]
  <2>6. thr' = [thr EXCEPT ![t] = r] BY <1>1 DEF SendData
  <2>7. r \in ThrRec /\ r.pkt = thr[t].pkt /\ r.pc = "data" /\ r.drive = d
    BY <2>1, Constants DEF ThrRec, Pc
  <2> HIDE DEF r
  <2>8. ThrInv' /\ thr'[t] = r /\ \A s \in Thread \ {t} : thr'[s] = thr[s]
    BY <2>6, <2>7, ThrStep DEF Working
  <2> QED BY <2>4, <2>5, <2>7, <2>8 DEF Sends
<1>2. CASE ~ep[d].cfg
  <2>1. [csw EXCEPT !.residue = TRUE] \in Sent BY DEF Sent
  <2>2. BotSendCSW(t, d, b, [csw EXCEPT !.residue = TRUE]) BY <1>2 DEF SendData
  <2> QED BY <2>1, <2>2, SendCSWSends
<1> QED BY <1>1, <1>2

(* A spent fault leaves a budget, and so does a timeout.                   *)
LEMMA BudgetType ==
  ASSUME TypeInv
  PROVE  /\ \A f \in Fault : Spend(f) => budget' \in [Fault -> Nat]
         /\ \A d \in Drive, a \in BOOLEAN : Timeout(d, a) => budget' \in [Fault -> Nat]
<1>1. budget \in [Fault -> Nat] BY DEF TypeInv, HistInv
<1>2. ASSUME NEW f \in Fault, Spend(f) PROVE budget' \in [Fault -> Nat]
  <2>1. budget[f] - 1 \in Nat BY <1>1, <1>2 DEF Spend
  <2> QED BY <1>1, <1>2, <2>1 DEF Spend
<1>3. "timeout" \in Fault BY DEF Fault
<1> QED BY <1>1, <1>2, <1>3 DEF Timeout

Transmit(t) ==
  \/ DataSent(t) \/ CSWSent(t) \/ Unstalled(t)
  \/ StallTimeout(t) \/ DataTimeout(t) \/ CSWTimeout(t)

(* A thread that goes on sending does so for the same drive and changes    *)
(* nothing else of it than UnHalted.                                       *)
LEMMA TransmitSends ==
  ASSUME TypeInv, NEW t \in Thread, Transmit(t)
  PROVE  /\ thr[t].pc \in Working /\ thr[t].drive \in Drive
         /\ Sends(t, thr[t].drive, bot[thr[t].drive])
         /\ budget' \in [Fault -> Nat]
         /\ UNCHANGED <<setting, host, iusb, kbuf, cbwErr, seqNo, sem, hist>>
<1> DEFINE d == thr[t].drive
<1>1. thr[t].pc \in Working
  BY DEF Transmit, DataSent, CSWSent, Unstalled, StallTimeout, DataTimeout, CSWTimeout, Working
<1>2. d \in Drive BY <1>1 DEF TypeInv, ThrInv, Thread
<1>3. /\ thr[t] \in ThrRec /\ bot[d] \in BotRec /\ ep[d] \in EpRec
      /\ thr[t].csw \in Sent /\ TagNow(t, d) \in Tag
      /\ ep \in [Drive -> EpRec] /\ bot \in [Drive -> BotRec]
      /\ bot = [bot EXCEPT ![d] = [bot[d] EXCEPT !.unhalted = bot[d].unhalted]]
      /\ bot[d].unhalted \in BOOLEAN
  BY <1>2, TagNowType DEF TypeInv, ThrInv, ThrRec, BotInv, EpInv, BotRec
<1>4. budget \in [Fault -> Nat] BY DEF TypeInv, HistInv
<1>5. UNCHANGED <<setting, host, iusb, kbuf, cbwErr, seqNo, sem, hist>>
  BY DEF Transmit, DataSent, CSWSent, Unstalled, StallTimeout, DataTimeout, CSWTimeout, EndStall
<1>6. budget' \in [Fault -> Nat]
  <2>1. \/ UNCHANGED budget
        \/ Timeout(d, ep[d].stalled) /\ ep[d].stalled \in BOOLEAN
        \/ Timeout(d, TRUE)
    BY <1>3 DEF Transmit, DataSent, CSWSent, Unstalled, StallTimeout, DataTimeout, CSWTimeout, EpRec
  <2> QED BY <2>1, <1>2, <1>4, BudgetType
<1> HIDE DEF d
<1>7. CASE DataSent(t)
  <2>1. [thr[t].csw EXCEPT !.tag = TagNow(t, d)] \in Sent BY <1>3 DEF Sent
  <2>2. BotSendCSW(t, d, bot[d], [thr[t].csw EXCEPT !.tag = TagNow(t, d)])
    BY <1>7 DEF DataSent, d
  <2> QED BY <2>1, <2>2, <1>1, <1>2, <1>3, <1>5, <1>6, SendCSWSends DEF d
<1>8. ASSUME thr' = [thr EXCEPT ![t] = Returned(t)], EpInv',
             \A e \in Drive : ep'[e].cfg = ep[e].cfg, UNCHANGED bot
      PROVE  Sends(t, d, bot[d])
  <2> DEFINE r == Returned(t)
  <2>1. /\ r \in ThrRec /\ r.pkt = thr[t].pkt
        /\ t = 0 => r.pc = "visit" /\ r.drive = d + 1
        /\ t # 0 => r.pc = "idle" /\ r.drive = d
    BY <1>2, ReturnedType DEF d
  <2> HIDE DEF r
  <2>2. ThrInv' /\ thr'[t] = r /\ \A s \in Thread \ {t} : thr'[s] = thr[s]
    BY <1>8, <1>2, <2>1, ThrStep DEF Working, r
  <2>3. t = 0 \/ t # 0 OBVIOUS
  <2>4. \E u \in BOOLEAN : bot' = [bot EXCEPT ![d] = [bot[d] EXCEPT !.unhalted = u]]
    BY <1>3, <1>8
  <2> QED BY <2>1, <2>2, <2>3, <2>4, <1>8 DEF Sends
<1>9. CASE CSWSent(t)
  <2>1. EpInv' /\ \A e \in Drive : ep'[e].cfg = ep[e].cfg
    BY <1>9 DEF CSWSent, TypeInv, EpInv
  <2>2. Sends(t, d, bot[d]) BY <1>8, <1>9, <2>1 DEF CSWSent
  <2> QED BY <2>2, <1>1, <1>2, <1>5, <1>6 DEF d
<1>10. CASE Unstalled(t) \/ StallTimeout(t)
  <2>1. WriteCSW(t, d, thr[t].csw) /\ bot' = [bot EXCEPT ![d].unhalted = TRUE]
    BY <1>10 DEF Unstalled, StallTimeout, EndStall, d
  <2>2. Sends(t, d, bot[d]) BY <2>1, <1>2, <1>3, WriteCSWSends DEF d
  <2> QED BY <2>2, <1>1, <1>2, <1>5, <1>6 DEF d
<1>11. CASE DataTimeout(t)
  <2> DEFINE e1 == [ep[d] EXCEPT !.rest = FALSE, !.ready = TRUE, !.stalled = TRUE]
             c1 == CSW(TagNow(t, d), IF t = 0 THEN "failed" ELSE "passed", TRUE)
             r == [thr[t] EXCEPT !.pc = "stall", !.csw = c1]
  <2>1. e1 \in EpRec /\ e1.cfg = ep[d].cfg BY <1>3 DEF EpRec
  <2>2. ep' = [ep EXCEPT ![d] = e1] BY <1>11 DEF DataTimeout, d
  <2>3. EpInv' /\ \A e \in Drive : ep'[e].cfg = ep[e].cfg
    <3> HIDE DEF e1
    <3> QED BY <2>1, <2>2, <1>2, <1>3 DEF EpInv
  <2>4. c1 \in Sent
    <3>1. (IF t = 0 THEN "failed" ELSE "passed") \in {"passed", "failed", "phase"} OBVIOUS
    <3> QED BY <3>1, <1>3, SentTypes
  <2>5. thr' = [thr EXCEPT ![t] = r] BY <1>11 DEF DataTimeout, d
  <2> HIDE DEF c1
  <2>6. r \in ThrRec /\ r.pkt = thr[t].pkt /\ r.pc = "stall" /\ r.drive = d
    BY <2>4, <1>2, <1>3 DEF ThrRec, Pc, d
  <2> HIDE DEF r
  <2>7. ThrInv' /\ thr'[t] = r /\ \A s \in Thread \ {t} : thr'[s] = thr[s]
    BY <2>5, <2>6, <1>2, ThrStep DEF Working
  <2>8. bot' = [bot EXCEPT ![d] = [bot[d] EXCEPT !.unhalted = FALSE]]
    BY <1>11 DEF DataTimeout, d
  <2>9. Sends(t, d, bot[d]) BY <2>3, <2>6, <2>7, <2>8 DEF Sends
  <2> QED BY <2>9, <1>1, <1>2, <1>5, <1>6 DEF d
<1>12. CASE CSWTimeout(t)
  <2> DEFINE e1 == [ep[d] EXCEPT !.ready = TRUE]
  <2>1. e1 \in EpRec /\ e1.cfg = ep[d].cfg BY <1>3 DEF EpRec
  <2>2. ep' = [ep EXCEPT ![d] = e1] BY <1>12 DEF CSWTimeout, d
  <2>3. EpInv' /\ \A e \in Drive : ep'[e].cfg = ep[e].cfg
    <3> HIDE DEF e1
    <3> QED BY <2>1, <2>2, <1>2, <1>3 DEF EpInv
  <2>4. Sends(t, d, bot[d]) BY <1>8, <1>12, <2>3 DEF CSWTimeout
  <2> QED BY <2>4, <1>1, <1>2, <1>5, <1>6 DEF d
<1> QED BY <1>7, <1>9, <1>10, <1>11, <1>12 DEF Transmit

(* The deferred call answers a command itself, or forms a packet for its   *)
(* server, with a new number and an error case of its own.                 *)
LEMMA DpcProcessSends ==
  ASSUME TypeInv, DpcProcess, NEW d, d = thr[0].drive
  PROVE  /\ thr[0].pc = "picked" /\ d \in Drive
         /\ UNCHANGED <<setting, host, kbuf, sem, budget, old, stray, left>>
         /\ \/ Sends(0, d, bot[d]) /\ UNCHANGED <<iusb, cbwErr, seqNo, crossed>>
            \/ /\ Sends(0, d, [bot[d] EXCEPT !.lastSeq = seqNo + 1])
               /\ Form(d)
               /\ cbwErr' \in 0..2 /\ (cbwErr' = 1 <=> bot[d].op = "short")
<1>1. thr[0].pc = "picked" /\ d \in Drive BY DEF DpcProcess, TypeInv, ThrInv
<1>2. UNCHANGED <<setting, host, kbuf, sem, budget, old, stray, left>> BY DEF DpcProcess
<1>3. /\ bot \in [Drive -> BotRec] /\ bot[d] \in BotRec /\ bot[d].tag \in Tag /\ seqNo \in Nat
      /\ bot[d].unhalted \in BOOLEAN
  BY <1>1 DEF TypeInv, BotInv, BotRec, GlobalInv
<1> DEFINE b1 == [bot[d] EXCEPT !.lastSeq = seqNo + 1]
<1>4. b1 \in BotRec /\ b1 = [b1 EXCEPT !.unhalted = bot[d].unhalted]
  <2>1. seqNo + 1 \in Nat BY <1>3
  <2>2. b1 \in BotRec /\ b1.unhalted = bot[d].unhalted BY <2>1, <1>3 DEF BotRec
  <2> HIDE DEF b1
  <2> QED BY <2>2 DEF BotRec
<1>5. \A st \in {"passed", "failed", "phase"}, r \in BOOLEAN : CSW(bot[d].tag, st, r) \in Sent
  BY <1>3, SentTypes
<1>6. CASE bot[d].op = "local" /\ UNCHANGED <<iusb, cbwErr, seqNo, crossed>>
           /\ SendData(0, d, bot[d], CSW(bot[d].tag, "passed", FALSE), bot[d].tag, FALSE)
  BY <1>1, <1>2, <1>3, <1>5, <1>6, Constants, SendDataSends
<1>7. CASE UNCHANGED <<iusb, cbwErr, seqNo, crossed>>
           /\ BotSendCSW(0, d, bot[d], CSW(bot[d].tag, "failed", TRUE))
  BY <1>1, <1>2, <1>3, <1>5, <1>7, Constants, SendCSWSends
<1>8. CASE /\ bot[d].op = "phase" /\ Form(d) /\ cbwErr' = 0
           /\ BotSendCSW(0, d, b1, CSW(bot[d].tag, "phase", TRUE))
  <2>1. Sends(0, d, b1) BY <1>1, <1>3, <1>4, <1>5, <1>8, Constants, SendCSWSends
  <2> QED BY <2>1, <1>1, <1>2, <1>8
<1>9. CASE /\ Form(d) /\ cbwErr' = ErrorCase(bot[d].op)
           /\ bot' = [bot EXCEPT ![d].lastSeq = seqNo + 1]
           /\ thr' = [thr EXCEPT ![0] = Returned(0)] /\ UNCHANGED ep
  <2> DEFINE r == Returned(0)
  <2>1. r \in ThrRec /\ r.pkt = thr[0].pkt /\ r.pc = "visit" /\ r.drive = d + 1
    BY <1>1, Constants, ReturnedType
  <2> HIDE DEF r
  <2>2. ThrInv' /\ thr'[0] = r /\ \A s \in Thread \ {0} : thr'[s] = thr[s]
    BY <1>9, <2>1, Constants, ThrStep DEF Working, r
  <2>3. EpInv' /\ \A e \in Drive : ep'[e].cfg = ep[e].cfg BY <1>9 DEF TypeInv, EpInv
  <2>4. bot' = [bot EXCEPT ![d] = [b1 EXCEPT !.unhalted = bot[d].unhalted]]
    BY <1>4, <1>9
  <2>5. Sends(0, d, b1)
    <3> HIDE DEF b1
    <3> QED BY <2>1, <2>2, <2>3, <2>4, <1>3 DEF Sends
  <2>6. cbwErr' \in 0..2 /\ (cbwErr' = 1 <=> bot[d].op = "short") BY <1>9 DEF ErrorCase
  <2> QED BY <2>5, <2>6, <1>1, <1>2, <1>9
<1> HIDE DEF b1
<1> QED BY <1>6, <1>7, <1>8, <1>9 DEF DpcProcess, b1

(* A response goes on to the host if its number is that of the command,    *)
(* which is then answered.                                                 *)
LEMMA ResponseSends ==
  ASSUME TypeInv, NEW d \in Drive, NEW status \in {"passed", "failed"},
         ScsiSendResponse(d, status)
  PROVE  /\ thr[d].pc = "busy"
         /\ UNCHANGED <<setting, host, iusb, seqNo, sem, budget, old, stray, left>>
         /\ kbuf' = [kbuf EXCEPT ![Buffer(d)] = thr[d].pkt] /\ IusbInv'
         /\ cbwErr' \in 0..2 /\ crossed' \in [Drive -> BOOLEAN]
         /\ \/ /\ thr[d].pkt.seq # bot[d].lastSeq
               /\ EpInv' /\ ThrInv'
               /\ thr'[d].pc = "idle" /\ thr'[d].pkt = thr[d].pkt
               /\ \A s \in Thread \ {d} : thr'[s] = thr[s]
               /\ UNCHANGED <<ep, bot, cbwErr, crossed>>
            \/ /\ thr[d].pkt.seq = bot[d].lastSeq
               /\ Sends(d, d, [bot[d] EXCEPT !.lastSeq = 0])
               /\ \/ UNCHANGED <<cbwErr, crossed>>
                  \/ crossed' = [e \in Drive |-> crossed[e] \/ e # d]
<1> DEFINE b == [bot[d] EXCEPT !.lastSeq = 0]
           pkt == thr[d].pkt
<1>1. /\ thr[d] \in ThrRec /\ thr[d].drive \in Drive /\ pkt \in Packet /\ pkt.tag \in Tag
      /\ b \in BotRec /\ d \in Thread /\ d # 0
  <2>1. d \in Thread /\ d # 0 BY Constants
  <2>2. thr[d] \in ThrRec /\ thr[d].drive \in Drive BY <2>1 DEF TypeInv, ThrInv
  <2>3. pkt \in Packet BY <2>2 DEF ThrRec
  <2>4. pkt.tag \in Tag BY <2>3 DEF Packet
  <2>5. bot[d] \in BotRec BY DEF TypeInv, BotInv
  <2>6. b \in BotRec BY <2>5 DEF BotRec
  <2> QED BY <2>1, <2>2, <2>3, <2>4, <2>6
<1>2. \A st \in {"passed", "failed", "phase"}, r \in BOOLEAN : CSW(pkt.tag, st, r) \in Sent
  BY <1>1, SentTypes
<1>3. /\ thr[d].pc = "busy"
      /\ UNCHANGED <<setting, host, iusb, seqNo, sem, budget, old, stray, left>>
      /\ kbuf' = [kbuf EXCEPT ![Buffer(d)] = pkt]
  BY DEF ScsiSendResponse
<1>4. IusbInv' BY <1>1, <1>3, Constants DEF TypeInv, IusbInv
<1>5. crossed \in [Drive -> BOOLEAN] /\ cbwErr \in 0..2 BY DEF TypeInv, HistInv, GlobalInv
<1>6. CASE /\ pkt.seq # bot[d].lastSeq /\ thr' = [thr EXCEPT ![d] = Returned(d)]
           /\ UNCHANGED <<ep, bot, cbwErr, crossed>>
  <2> DEFINE r == Returned(d)
  <2>1. r \in ThrRec /\ r.pkt = thr[d].pkt /\ r.pc = "idle" /\ r.drive = thr[d].drive
    BY <1>1, ReturnedType
  <2> HIDE DEF r
  <2>2. ThrInv' /\ thr'[d] = r /\ \A s \in Thread \ {d} : thr'[s] = thr[s]
    BY <1>1, <1>6, <2>1, ThrStep DEF Working, r
  <2>3. EpInv' BY <1>6 DEF TypeInv, EpInv
  <2> QED BY <2>1, <2>2, <2>3, <1>3, <1>4, <1>5, <1>6
<1>7. ASSUME NEW csw \in Sent, BotSendCSW(d, d, b, csw) PROVE Sends(d, d, b)
  BY <1>1, <1>7, SendCSWSends
<1>8. CASE /\ pkt.seq = bot[d].lastSeq /\ cbwErr' = 0
           /\ crossed' = [e \in Drive |-> crossed[e] \/ e # d]
           /\ BotSendCSW(d, d, b, CSW(pkt.tag, "failed", TRUE))
  <2>1. Sends(d, d, b) BY <1>2, <1>7, <1>8
  <2> QED BY <2>1, <1>3, <1>4, <1>5, <1>8
<1>9. CASE /\ pkt.seq = bot[d].lastSeq /\ UNCHANGED <<cbwErr, crossed>>
           /\ IF pkt.op = "write" THEN BotSendCSW(d, d, b, CSW(pkt.tag, status, FALSE))
              ELSE IF status = "failed" THEN BotSendCSW(d, d, b, CSW(pkt.tag, "failed", TRUE))
              ELSE SendData(d, d, b, CSW(pkt.tag, "passed", pkt.op = "short"), pkt.tag, TRUE)
  <2>1. (pkt.op = "short") \in BOOLEAN OBVIOUS
  <2>2. ASSUME SendData(d, d, b, CSW(pkt.tag, "passed", pkt.op = "short"), pkt.tag, TRUE)
        PROVE  Sends(d, d, b)
    BY <1>1, <1>2, <2>1, <2>2, SendDataSends
  <2>3. Sends(d, d, b) BY <1>2, <1>7, <1>9, <2>2
  <2> QED BY <2>3, <1>3, <1>4, <1>5, <1>9
<1> HIDE DEF b, pkt
<1> QED BY <1>6, <1>8, <1>9 DEF ScsiSendResponse, b, pkt

(* What sending makes of the transports' data.                             *)
LEMMA SendsBot ==
  ASSUME TypeInv, NEW t \in Thread, NEW d \in Drive, NEW b \in BotRec, Sends(t, d, b),
         seqNo' \in Nat, seqNo <= seqNo', b.lastSeq <= seqNo'
  PROVE  /\ BotInv'
         /\ \A e \in Drive : LET a == IF e = d THEN b ELSE bot[e] IN
              /\ bot'[e].tag = a.tag /\ bot'[e].op = a.op /\ bot'[e].outLen = a.outLen
              /\ bot'[e].lastSeq = a.lastSeq /\ bot'[e].flag = a.flag
<1>1. PICK u \in BOOLEAN : bot' = [bot EXCEPT ![d] = [b EXCEPT !.unhalted = u]] BY DEF Sends
<1> DEFINE c == [b EXCEPT !.unhalted = u]
<1>2. /\ c \in BotRec /\ c.tag = b.tag /\ c.op = b.op /\ c.outLen = b.outLen
      /\ c.lastSeq = b.lastSeq /\ c.flag = b.flag
  BY DEF BotRec
<1>3. bot' = [bot EXCEPT ![d] = c] BY <1>1
<1>4. bot \in [Drive -> BotRec] /\ \A e \in Drive : bot[e].lastSeq <= seqNo
  BY DEF TypeInv, BotInv
<1> HIDE DEF c
<1>5. \A e \in Drive : bot'[e] = IF e = d THEN c ELSE bot[e] BY <1>3, <1>4
<1>6. bot' \in [Drive -> BotRec] BY <1>2, <1>3, <1>4
<1>7. \A e \in Drive : bot'[e].lastSeq <= seqNo'
  <2> TAKE e \in Drive
  <2>1. bot[e].lastSeq \in Nat /\ seqNo \in Nat BY <1>4 DEF BotRec, TypeInv, GlobalInv
  <2>2. b.lastSeq \in Nat BY DEF BotRec
  <2> QED BY <2>1, <2>2, <1>2, <1>4, <1>5
<1> QED BY <1>2, <1>5, <1>6, <1>7 DEF BotInv

(* A packet for a server has a number above all earlier ones, and what it  *)
(* uses is no longer the other drives' (FormiUsbScsiPacket).               *)
LEMMA FormType ==
  ASSUME TypeInv, NEW d \in Drive, Form(d)
  PROVE  /\ iusb' \in [Drive -> IusbRec] /\ seqNo' = seqNo + 1 /\ seqNo \in Nat
         /\ crossed' = [e \in Drive |-> e # d]
         /\ iusb'[d].pkt = [seq |-> seqNo + 1, tag |-> bot[d].tag, op |-> bot[d].op]
         /\ \A e \in Drive : e # d => iusb'[e] = iusb[e]
<1> DEFINE w == iusb[d].wakeup \/ ~(bot[d].op = "phase" /\ Kind[d] = "hd")
           p == [seq |-> seqNo + 1, tag |-> bot[d].tag, op |-> bot[d].op]
           r == [iusb[d] EXCEPT !.wakeup = w, !.pkt = p]
<1>1. /\ iusb \in [Drive -> IusbRec] /\ iusb[d] \in IusbRec /\ bot[d] \in BotRec /\ seqNo \in Nat
  BY DEF TypeInv, IusbInv, BotInv, GlobalInv
<1>2. p \in Packet
  <2>1. seqNo + 1 \in Nat BY <1>1
  <2> QED BY <2>1, <1>1 DEF Packet, BotRec
<1>3. w \in BOOLEAN BY <1>1, Zenon DEF IusbRec
<1>4. iusb' = [iusb EXCEPT ![d] = r] /\ seqNo' = seqNo + 1 /\ crossed' = [e \in Drive |-> e # d]
  <2>1. iusb' = [iusb EXCEPT ![d] = r] BY <1>1 DEF Form
  <2>2. crossed' = [e \in Drive |-> e # d] BY Zenon DEF Form, Others
  <2>3. seqNo' = seqNo + 1 BY DEF Form
  <2> QED BY <2>1, <2>2, <2>3
<1> HIDE DEF w, p
<1>5. r \in IusbRec /\ r.pkt = p BY <1>1, <1>2, <1>3 DEF IusbRec
<1> HIDE DEF r
<1>6. iusb' \in [Drive -> IusbRec] /\ iusb'[d] = r /\ \A e \in Drive : e # d => iusb'[e] = iusb[e]
  BY <1>1, <1>4, <1>5
<1> QED BY <1>1, <1>4, <1>5, <1>6 DEF IusbInv, p

(* What a received packet makes of the transport (BotRxHandler).           *)
LEMMA RxType ==
  ASSUME TypeInv, NEW d \in Drive, NEW isCBW \in BOOLEAN, NEW tag \in Tag, NEW op \in Op,
         BotRxHandler(d, isCBW, tag, op), seqNo' = seqNo
  PROVE  /\ BotInv' /\ sem' \in Nat /\ sem' >= sem /\ old' \in [Drive -> BOOLEAN]
         /\ \A e \in Drive : e # d => bot'[e] = bot[e]
         /\ bot'[d].lastSeq = bot[d].lastSeq
         /\ bot'[d].flag => bot[d].flag \/ sem' > 0
         /\ \/ bot[d].outLen /\ ~bot'[d].outLen /\ sem' > 0
            \/ ~bot[d].outLen /\ isCBW /\ op = "write" /\ bot'[d].outLen
            \/ ~bot[d].outLen /\ isCBW /\ op # "write" /\ ~bot'[d].outLen /\ sem' > 0
            \/ ~bot[d].outLen /\ ~isCBW /\ ~bot'[d].outLen
<1>1. /\ bot \in [Drive -> BotRec] /\ bot[d] \in BotRec
      /\ \A e \in Drive : bot[e].lastSeq <= seqNo
      /\ sem \in Nat /\ old \in [Drive -> BOOLEAN]
  BY DEF TypeInv, BotInv, GlobalInv, HistInv
<1>2. sem + 1 \in Nat /\ sem + 1 > 0 /\ sem + 1 >= sem /\ sem >= sem BY <1>1
<1>3. ASSUME NEW c \in BotRec, bot' = [bot EXCEPT ![d] = c], c.lastSeq = bot[d].lastSeq
      PROVE  BotInv' /\ bot'[d] = c /\ \A e \in Drive : e # d => bot'[e] = bot[e]
  BY <1>1, <1>3 DEF BotInv
<1>4. CASE /\ bot[d].outLen
           /\ bot' = [bot EXCEPT ![d] = [bot[d] EXCEPT !.outLen = FALSE, !.flag = TRUE]]
           /\ sem' = sem + 1 /\ old' = [old EXCEPT ![d] = FALSE]
  <2> DEFINE c == [bot[d] EXCEPT !.outLen = FALSE, !.flag = TRUE]
  <2>1. c \in BotRec /\ c.lastSeq = bot[d].lastSeq /\ c.outLen = FALSE BY <1>1 DEF BotRec
  <2> HIDE DEF c
  <2>2. bot' = [bot EXCEPT ![d] = c] BY <1>4 DEF c
  <2>3. old' \in [Drive -> BOOLEAN] BY <1>1, <1>4
  <2> QED BY <2>1, <2>2, <2>3, <1>2, <1>3, <1>4
<1>5. CASE /\ ~bot[d].outLen /\ isCBW /\ op = "write"
           /\ bot' = [bot EXCEPT ![d] = [bot[d] EXCEPT !.tag = tag, !.op = op, !.outLen = TRUE]]
           /\ UNCHANGED <<sem, old>>
  <2> DEFINE c == [bot[d] EXCEPT !.tag = tag, !.op = op, !.outLen = TRUE]
  <2>1. c \in BotRec /\ c.lastSeq = bot[d].lastSeq /\ c.outLen = TRUE /\ c.flag = bot[d].flag
    BY <1>1 DEF BotRec
  <2> HIDE DEF c
  <2>2. bot' = [bot EXCEPT ![d] = c] BY <1>5 DEF c
  <2> QED BY <2>1, <2>2, <1>1, <1>2, <1>3, <1>5
<1>6. CASE /\ ~bot[d].outLen /\ isCBW /\ op # "write"
           /\ bot' = [bot EXCEPT ![d] = [bot[d] EXCEPT !.tag = tag, !.op = op, !.flag = TRUE]]
           /\ old' = [old EXCEPT ![d] = FALSE] /\ sem' = sem + 1
  <2> DEFINE c == [bot[d] EXCEPT !.tag = tag, !.op = op, !.flag = TRUE]
  <2>1. c \in BotRec /\ c.lastSeq = bot[d].lastSeq /\ c.outLen = bot[d].outLen
    BY <1>1 DEF BotRec
  <2> HIDE DEF c
  <2>2. bot' = [bot EXCEPT ![d] = c] BY <1>6 DEF c
  <2>3. old' \in [Drive -> BOOLEAN] BY <1>1, <1>6
  <2> QED BY <2>1, <2>2, <2>3, <1>2, <1>3, <1>6
<1>7. CASE ~bot[d].outLen /\ ~isCBW /\ UNCHANGED <<bot, sem, old>>
  BY <1>1, <1>2, <1>7 DEF BotInv
<1> QED BY <1>4, <1>5, <1>6, <1>7 DEF BotRxHandler, WakeDpc

----------------------------------------------------------------------------
(* The states are well typed.                                              *)

(* A port reset leaves the drive unconfigured, expecting a command and     *)
(* without one outstanding.                                                *)
LEMMA BusResetType ==
  ASSUME TypeInv, NEW d \in Drive, UsbBusReset(d)
  PROVE  /\ HostInv' /\ EpInv' /\ BotInv'
         /\ old' \in [Drive -> BOOLEAN] /\ stray' \in [Drive -> BOOLEAN]
         /\ host'[d].pc = "off" /\ ~bot'[d].outLen /\ bot'[d].lastSeq = 0
         /\ \A e \in Drive : e # d =>
              host'[e] = host[e] /\ ep'[e] = ep[e] /\ bot'[e] = bot[e] /\ stray'[e] = stray[e]
<1>1. /\ host \in [Drive -> HostRec] /\ ep \in [Drive -> EpRec] /\ bot \in [Drive -> BotRec]
      /\ host[d] \in HostRec /\ bot[d] \in BotRec /\ seqNo \in Nat
      /\ \A e \in Drive : host[e].tag[1] = e /\ Len(host[e].got) <= 2 /\ bot[e].lastSeq <= seqNo
      /\ old \in [Drive -> BOOLEAN] /\ stray \in [Drive -> BOOLEAN]
  BY DEF TypeInv, HostInv, EpInv, BotInv, HistInv, GlobalInv
<1> DEFINE h == [host[d] EXCEPT !.pc = "off"]
           e1 == [cfg |-> FALSE, ready |-> TRUE, rest |-> FALSE, fifo |-> Nothing,
                  stalled |-> FALSE]
           b == BotRemHandler(bot[d])
           x == \E t \in Thread : Lingers(t, d)
<1>2. h \in HostRec /\ h.pc = "off" /\ h.tag = host[d].tag /\ h.got = host[d].got
  BY <1>1 DEF HostRec
<1>3. e1 \in EpRec BY Constants, SentTypes DEF EpRec
<1>4. b \in BotRec /\ ~b.outLen /\ b.lastSeq = 0 BY <1>1 DEF BotRec, BotRemHandler
<1>5. host' = [host EXCEPT ![d] = h] BY DEF UsbBusReset
<1>6. ep' = [ep EXCEPT ![d] = e1] BY DEF UsbBusReset
<1>7. bot' = [bot EXCEPT ![d] = b] BY DEF UsbBusReset
<1>8. seqNo' = seqNo /\ old' \in [Drive -> BOOLEAN]
  <2>1. bot[d].flag \in BOOLEAN BY <1>1 DEF BotRec
  <2> QED BY <2>1, <1>1 DEF UsbBusReset
<1>9. stray' \in [Drive -> BOOLEAN] /\ \A e \in Drive : e # d => stray'[e] = stray[e]
  <2>1. (stray[d] \/ x) \in BOOLEAN OBVIOUS
  <2>2. stray' = [stray EXCEPT ![d] = stray[d] \/ x] BY DEF UsbBusReset
  <2> HIDE DEF x
  <2> QED BY <2>1, <2>2, <1>1
<1> HIDE DEF h, e1, b, x
<1>10. HostInv' /\ host'[d].pc = "off" /\ \A e \in Drive : e # d => host'[e] = host[e]
  BY <1>1, <1>2, <1>5 DEF HostInv
<1>11. EpInv' /\ \A e \in Drive : e # d => ep'[e] = ep[e] BY <1>1, <1>3, <1>6 DEF EpInv
<1>12. BotInv' /\ ~bot'[d].outLen /\ bot'[d].lastSeq = 0
       /\ \A e \in Drive : e # d => bot'[e] = bot[e]
  BY <1>1, <1>4, <1>7, <1>8 DEF BotInv
<1> QED BY <1>8, <1>9, <1>10, <1>11, <1>12

(* A packet the host collects (HostIn).                                    *)
LEMMA HostInType ==
  ASSUME TypeInv, NEW d \in Drive, HostIn(d)
  PROVE  /\ HostInv' /\ EpInv' /\ host[d].pc = "wait"
         /\ \A e \in Drive : ep'[e].cfg = ep[e].cfg /\ (e # d => host'[e] = host[e])
         /\ host'[d].pc \in {"wait", "idle", "confused"}
<1> DEFINE p == ep[d].fifo
           h == host[d]
           h1 == [h EXCEPT !.got = Append(h.got, p.tag)]
           h2 == [h EXCEPT !.pc = "idle", !.status = p.status, !.residue = p.residue]
           h3 == [h EXCEPT !.pc = "confused"]
           f == Data(kbuf[Buffer(d)].tag)
           e1 == [ep[d] EXCEPT !.rest = FALSE, !.fifo = f]
           e2 == [ep[d] EXCEPT !.ready = TRUE, !.fifo = Nothing]
<1>1. /\ host \in [Drive -> HostRec] /\ ep \in [Drive -> EpRec]
      /\ h \in HostRec /\ ep[d] \in EpRec /\ p \in Sent
      /\ \A e \in Drive : host[e].tag[1] = e /\ Len(host[e].got) <= 2
      /\ kbuf[Buffer(d)] \in Packet
  BY Constants DEF TypeInv, HostInv, EpInv, IusbInv, EpRec
<1>2. f \in Sent /\ Nothing \in Sent BY <1>1, SentTypes, Constants DEF Packet
<1>3. h.pc = "wait" BY DEF HostIn
<1>4. \E g \in EpRec : ep' = [ep EXCEPT ![d] = g] /\ g.cfg = ep[d].cfg
  <2>1. e1 \in EpRec /\ e1.cfg = ep[d].cfg /\ e2 \in EpRec /\ e2.cfg = ep[d].cfg
    <3> HIDE DEF f
    <3> QED BY <1>1, <1>2 DEF EpRec
  <2>2. ep' = [ep EXCEPT ![d] = IF ep[d].rest THEN e1 ELSE e2] BY DEF HostIn
  <2> HIDE DEF e1, e2
  <2> QED BY <2>1, <2>2
<1>5. EpInv' /\ \A e \in Drive : ep'[e].cfg = ep[e].cfg BY <1>1, <1>4 DEF EpInv
<1>6. \E g \in HostRec : /\ host' = [host EXCEPT ![d] = g]
                         /\ g.pc \in {"wait", "idle", "confused"}
                         /\ g.tag = h.tag /\ Len(g.got) <= 2
  <2>1. ASSUME Len(h.got) < Packets(h.op)
        PROVE  h1 \in HostRec /\ h1.tag = h.tag /\ Len(h1.got) <= 2 /\ h1.pc = "wait"
    <3>1. h.got \in Seq(Tag) /\ p.tag \in Tag BY <1>1 DEF HostRec, Sent
    <3>2. Append(h.got, p.tag) \in Seq(Tag) /\ Len(Append(h.got, p.tag)) = Len(h.got) + 1
          /\ Len(h.got) \in Nat
      BY <3>1
    <3>3. Packets(h.op) \in {0, 1, 2} BY DEF Packets
    <3>4. Len(h.got) + 1 <= 2 BY <2>1, <3>2, <3>3
    <3> QED BY <1>1, <1>3, <3>2, <3>4 DEF HostRec
  <2>2. ASSUME p.status # "phase"
        PROVE  h2 \in HostRec /\ h2.tag = h.tag /\ h2.got = h.got /\ h2.pc = "idle"
    BY <1>1, <2>2 DEF HostRec, Sent
  <2>3. h3 \in HostRec /\ h3.tag = h.tag /\ h3.got = h.got /\ h3.pc = "confused"
    BY <1>1 DEF HostRec
  <2>4. host' = [host EXCEPT ![d] =
                   IF p.kind = "data" /\ Len(h.got) < Packets(h.op) THEN h1
                   ELSE IF p.kind = "csw" /\ p.tag = h.tag /\ p.status # "phase" THEN h2 ELSE h3]
    BY DEF HostIn
  <2>5. Len(h.got) <= 2 BY <1>1
  <2> HIDE DEF h1, h2, h3, h, p
  <2> QED BY <2>1, <2>2, <2>3, <2>4, <2>5
<1>7. HostInv' /\ host'[d].pc \in {"wait", "idle", "confused"}
      /\ \A e \in Drive : e # d => host'[e] = host[e]
  <2>1. PICK g \in HostRec : /\ host' = [host EXCEPT ![d] = g]
                             /\ g.pc \in {"wait", "idle", "confused"}
                             /\ g.tag = h.tag /\ Len(g.got) <= 2
    BY <1>6
  <2> QED BY <1>1, <2>1 DEF HostInv
<1> QED BY <1>3, <1>5, <1>7

(* A command the host sends (HostCommand).                                 *)
LEMMA HostCommandType ==
  ASSUME TypeInv, NEW d \in Drive, NEW op \in Op, HostCommand(d, op)
  PROVE  \E tag \in Tag :
           /\ BotRxHandler(d, TRUE, tag, op)
           /\ HostInv' /\ host[d].pc = "idle"
           /\ host'[d].pc = (IF op = "write" THEN "out" ELSE "wait")
           /\ \A e \in Drive : e # d => host'[e] = host[e]
           /\ UNCHANGED <<setting, ep, iusb, kbuf, cbwErr, seqNo, thr, budget, stray, crossed, left>>
<1> DEFINE tag == <<d, host[d].tag[2] + 1>>
           h == [host[d] EXCEPT !.pc = IF op = "write" THEN "out" ELSE "wait",
                                !.tag = tag, !.op = op, !.got = <<>>, !.status = "failed"]
<1>1. /\ host \in [Drive -> HostRec] /\ host[d] \in HostRec /\ host[d].tag \in Tag
      /\ \A e \in Drive : host[e].tag[1] = e /\ Len(host[e].got) <= 2
  BY DEF TypeInv, HostInv, HostRec
<1>2. setting.cmds[d] \in 0..MaxCmd
  <2>1. setting \in [ops : [Drive -> SUBSET Op], cmds : [Drive -> 0..MaxCmd],
                     faults : [Fault -> Nat]]
    BY MediaAssumption DEF TypeInv, GlobalInv
  <2> QED BY <2>1
<1>3. host[d].tag[2] \in 0..MaxCmd BY <1>1 DEF Tag
<1>4. tag \in Tag /\ tag[1] = d
  <2>1. host[d].tag[2] + 1 \in 0..MaxCmd
    BY <1>2, <1>3, MediaAssumption DEF HostCommand
  <2> QED BY <2>1 DEF Tag
<1>5. host' = [host EXCEPT ![d] = h] /\ BotRxHandler(d, TRUE, tag, op) /\ host[d].pc = "idle"
      /\ UNCHANGED <<setting, ep, iusb, kbuf, cbwErr, seqNo, thr, budget, stray, crossed, left>>
  BY DEF HostCommand
<1> HIDE DEF tag
<1>6. /\ h \in HostRec /\ h.pc = (IF op = "write" THEN "out" ELSE "wait") /\ h.tag = tag
      /\ h.got = <<>> /\ Len(<<>>) <= 2
  <2>1. <<>> \in Seq(Tag) /\ Len(<<>>) = 0 OBVIOUS
  <2>2. (IF op = "write" THEN "out" ELSE "wait") \in {"off", "idle", "out", "wait", "confused"}
    OBVIOUS
  <2>3. h \in HostRec BY <2>1, <2>2, <1>1, <1>4 DEF HostRec
  <2>4. /\ h.pc = (IF op = "write" THEN "out" ELSE "wait") /\ h.tag = tag /\ h.got = <<>>
    BY <1>1 DEF HostRec
  <2> QED BY <2>1, <2>3, <2>4
<1> HIDE DEF h
<1>7. HostInv' /\ host'[d] = h /\ \A e \in Drive : e # d => host'[e] = host[e]
  BY <1>1, <1>4, <1>5, <1>6 DEF HostInv
<1> QED BY <1>4, <1>5, <1>6, <1>7

(* What happens to a server leaves its transport's data as they are but    *)
(* for UnHalted.                                                           *)
LEMMA CrashType ==
  ASSUME TypeInv, NEW d \in Drive, Crash(d)
  PROVE  /\ EpInv' /\ BotInv' /\ ThrInv' /\ HistInv'
         /\ \A e \in Drive : /\ ep'[e].cfg = ep[e].cfg
                             /\ bot'[e].outLen = bot[e].outLen /\ bot'[e].flag = bot[e].flag
                             /\ bot'[e].lastSeq = bot[e].lastSeq
         /\ thr'[d].pc = "off" /\ thr'[d].pkt = thr[d].pkt
         /\ \A s \in Thread \ {d} : thr'[s] = thr[s]
<1> DEFINE on == thr[d].drive
           csw == CSW(TagNow(d, on), "passed", TRUE)
           r == [thr[d] EXCEPT !.pc = "off"]
<1>1. /\ on \in Drive /\ d \in Thread /\ d # 0 /\ thr[d] \in ThrRec /\ thr[d].csw \in Sent
      /\ ep \in [Drive -> EpRec] /\ bot \in [Drive -> BotRec] /\ seqNo \in Nat
      /\ \A e \in Drive : bot[e].lastSeq <= seqNo
  BY Constants DEF TypeInv, ThrInv, ThrRec, EpInv, BotInv, GlobalInv
<1>2. csw \in Sent BY <1>1, TagNowType, SentTypes
<1>3. ThrInv' /\ thr'[d] = r /\ r.pkt = thr[d].pkt /\ r.pc = "off"
      /\ \A s \in Thread \ {d} : thr'[s] = thr[s]
  <2>1. thr' = [thr EXCEPT ![d] = r] BY DEF Crash
  <2>2. r \in ThrRec /\ r.pc = "off" /\ r.drive = on /\ r.pkt = thr[d].pkt
    BY <1>1 DEF ThrRec, Pc
  <2> HIDE DEF r
  <2> QED BY <2>1, <2>2, <1>1, ThrStep
<1>4. HistInv'
  <2>1. budget' \in [Fault -> Nat] BY BudgetType DEF Crash, Fault
  <2>2. left' \in [Drive -> BOOLEAN] /\ UNCHANGED <<old, stray, crossed>>
    BY DEF Crash, TypeInv, HistInv
  <2> QED BY <2>1, <2>2 DEF TypeInv, HistInv
<1>5. seqNo' = seqNo BY DEF Crash
<1>6. ASSUME UNCHANGED <<ep, bot>>
      PROVE  /\ EpInv' /\ BotInv'
             /\ \A e \in Drive : /\ ep'[e].cfg = ep[e].cfg
                                 /\ bot'[e].outLen = bot[e].outLen /\ bot'[e].flag = bot[e].flag
                                 /\ bot'[e].lastSeq = bot[e].lastSeq
  BY <1>1, <1>5, <1>6 DEF EpInv, BotInv
<1>7. ASSUME NEW e1 \in EpRec, e1.cfg = ep[on].cfg, ep' = [ep EXCEPT ![on] = e1],
             bot' = [bot EXCEPT ![on].unhalted = TRUE]
      PROVE  /\ EpInv' /\ BotInv'
             /\ \A e \in Drive : /\ ep'[e].cfg = ep[e].cfg
                                 /\ bot'[e].outLen = bot[e].outLen /\ bot'[e].flag = bot[e].flag
                                 /\ bot'[e].lastSeq = bot[e].lastSeq
  <2> DEFINE b == [bot[on] EXCEPT !.unhalted = TRUE]
  <2>1. /\ b \in BotRec /\ b.outLen = bot[on].outLen /\ b.flag = bot[on].flag
        /\ b.lastSeq = bot[on].lastSeq
    BY <1>1 DEF BotRec
  <2>2. bot' = [bot EXCEPT ![on] = b] BY <1>7
  <2> HIDE DEF b, on
  <2> QED BY <2>1, <2>2, <1>1, <1>5, <1>7 DEF EpInv, BotInv
<1>8. CASE /\ bot' = [bot EXCEPT ![on].unhalted = TRUE]
           /\ ep' = [ep EXCEPT ![on] = Written(ep[on], thr[d].csw, FALSE)]
  <2>1. Written(ep[on], thr[d].csw, FALSE) \in EpRec
        /\ Written(ep[on], thr[d].csw, FALSE).cfg = ep[on].cfg
    BY <1>1, WrittenType
  <2> QED BY <2>1, <1>3, <1>4, <1>7, <1>8
<1>9. CASE /\ bot' = [bot EXCEPT ![on].unhalted = TRUE]
           /\ ep' = [ep EXCEPT ![on] = Written([ep[on] EXCEPT !.stalled = TRUE], csw, FALSE)]
  <2> DEFINE e0 == [ep[on] EXCEPT !.stalled = TRUE]
  <2>1. e0 \in EpRec /\ e0.cfg = ep[on].cfg BY <1>1 DEF EpRec
  <2> HIDE DEF e0
  <2>2. Written(e0, csw, FALSE) \in EpRec /\ Written(e0, csw, FALSE).cfg = ep[on].cfg
    BY <2>1, <1>2, WrittenType
  <2>3. ep' = [ep EXCEPT ![on] = Written(e0, csw, FALSE)] BY <1>9 DEF e0
  <2> QED BY <2>2, <2>3, <1>3, <1>4, <1>7, <1>9
<1>10. CASE UNCHANGED <<ep, bot>> BY <1>3, <1>4, <1>6, <1>10
<1> QED BY <1>8, <1>9, <1>10 DEF Crash

(* The steps that deal with one drive only, and send nothing.              *)
Plain ==
  \/ DpcWake \/ DpcVisit
  \/ \E d \in Drive : Activate(d) \/ WaitRequest(d) \/ Exit(d) \/ HostConfigure(d)
                      \/ HostClearHalt(d)

(* Such a step keeps the types.                                            *)
LEMMA PlainType == ASSUME TypeInv, Plain PROVE TypeInv'
<1>1. /\ thr \in [Thread -> ThrRec] /\ ep \in [Drive -> EpRec] /\ bot \in [Drive -> BotRec]
      /\ iusb \in [Drive -> IusbRec] /\ host \in [Drive -> HostRec] /\ sem \in Nat
      /\ \A d \in Drive : /\ d \in Thread /\ thr[d] \in ThrRec /\ ep[d] \in EpRec
                          /\ bot[d] \in BotRec /\ iusb[d] \in IusbRec /\ host[d] \in HostRec
      /\ thr[0] \in ThrRec
      /\ seqNo \in Nat /\ \A e \in Drive : bot[e].lastSeq <= seqNo
      /\ old \in [Drive -> BOOLEAN] /\ stray \in [Drive -> BOOLEAN] /\ left \in [Drive -> BOOLEAN]
  BY Constants DEF TypeInv, ThrInv, EpInv, BotInv, IusbInv, HostInv, GlobalInv, HistInv
<1>2. CASE DpcWake
  <2> DEFINE r == [thr[0] EXCEPT !.pc = "visit", !.drive = 1]
  <2>1. r \in ThrRec /\ r.pc = "visit" /\ r.drive = 1 BY <1>1, Constants DEF ThrRec, Pc
  <2>2. thr' = [thr EXCEPT ![0] = r] BY <1>2 DEF DpcWake
  <2> HIDE DEF r
  <2>3. ThrInv' BY <2>1, <2>2, Constants, ThrStep DEF Working
  <2>4. sem' \in Nat BY <1>1, <1>2 DEF DpcWake
  <2> QED BY <2>3, <2>4, <1>2
       DEF DpcWake, TypeInv, HostInv, EpInv, BotInv, IusbInv, GlobalInv, HistInv, hist
<1>3. CASE DpcVisit
  <2> DEFINE d == thr[0].drive
  <2>1. /\ thr[0] \in ThrRec /\ thr[0].pc = "visit" /\ d \in 1..(NumDrives + 1)
    BY <1>1, <1>3 DEF ThrRec, DpcVisit
  <2>2. /\ UNCHANGED <<setting, host, ep, iusb, kbuf, cbwErr, seqNo, sem, budget, crossed, left>>
    BY <1>3 DEF DpcVisit
  <2>3. ASSUME ThrInv', BotInv', old' \in [Drive -> BOOLEAN], stray' \in [Drive -> BOOLEAN]
        PROVE  TypeInv'
    BY <2>2, <2>3 DEF TypeInv, HostInv, EpInv, IusbInv, GlobalInv, HistInv
  <2>4. CASE d > NumDrives
    <3> DEFINE r == [thr[0] EXCEPT !.pc = "idle", !.drive = 1]
    <3>1. r \in ThrRec /\ r.pc = "idle" BY <2>1, Constants DEF ThrRec, Pc
    <3>2. thr' = [thr EXCEPT ![0] = r] /\ UNCHANGED <<bot, old, stray>>
      BY <1>3, <2>4 DEF DpcVisit
    <3> HIDE DEF r
    <3>3. ThrInv' BY <3>1, <3>2, Constants, ThrStep DEF Working
    <3> QED BY <3>2, <3>3, <2>2, <2>3, <1>1 DEF TypeInv, BotInv
  <2>5. CASE d <= NumDrives
    <3>1. d \in Drive /\ d + 1 \in 1..(NumDrives + 1) /\ ~(d > NumDrives)
      BY <2>1, <2>5, Constants DEF Drive
    <3>2. CASE ep[d].cfg /\ bot[d].flag
      <4> DEFINE r == [thr[0] EXCEPT !.pc = "picked"]
                 b == [bot[d] EXCEPT !.flag = FALSE]
      <4>1. r \in ThrRec /\ r.pc = "picked" /\ r.drive = d BY <2>1 DEF ThrRec, Pc
      <4>2. b \in BotRec /\ b.lastSeq = bot[d].lastSeq
        <5>1. bot[d] \in BotRec BY <3>1, <1>1
        <5> HIDE DEF d
        <5> QED BY <5>1 DEF BotRec
      <4>3. /\ thr' = [thr EXCEPT ![0] = r] /\ bot' = [bot EXCEPT ![d] = b]
            /\ old' = [old EXCEPT ![d] = FALSE]
            /\ stray' = [stray EXCEPT ![d] = stray[d] \/ old[d]]
        BY <1>3, <2>1, <3>1, <3>2 DEF DpcVisit
      <4> HIDE DEF r, b, d
      <4>4. ThrInv' BY <3>1, <4>1, <4>3, Constants, ThrStep DEF Working
      <4>5. BotInv' BY <3>1, <4>2, <4>3, <2>2, <1>1 DEF BotInv
      <4>6. (stray[d] \/ old[d]) \in BOOLEAN OBVIOUS
      <4>7. old' \in [Drive -> BOOLEAN] /\ stray' \in [Drive -> BOOLEAN]
        BY <4>3, <4>6, <1>1
      <4> QED BY <4>4, <4>5, <4>7, <2>3
    <3>3. CASE ~(ep[d].cfg /\ bot[d].flag)
      <4> DEFINE r == [thr[0] EXCEPT !.drive = d + 1]
      <4>1. r \in ThrRec /\ r.pc = "visit" BY <2>1, <3>1 DEF ThrRec, Pc
      <4>2. thr' = [thr EXCEPT ![0] = r] /\ UNCHANGED <<bot, old, stray>>
        BY <1>3, <2>1, <3>1, <3>3 DEF DpcVisit
      <4> HIDE DEF r
      <4>3. ThrInv' BY <4>1, <4>2, Constants, ThrStep DEF Working
      <4> QED BY <4>2, <4>3, <2>2, <2>3, <1>1 DEF TypeInv, BotInv
    <3> QED BY <3>2, <3>3
  <2> QED BY <2>1, <2>4, <2>5, Constants
<1>4. ASSUME NEW d \in Drive, Activate(d) PROVE TypeInv'
  <2> DEFINE r == [thr[d] EXCEPT !.pc = "idle", !.drive = d]
             i == [iusb[d] EXCEPT !.active = TRUE, !.wakeup = FALSE]
  <2>1. r \in ThrRec /\ r.pc = "idle" /\ r.drive = d BY <1>1, Constants DEF ThrRec, Pc
  <2>2. i \in IusbRec BY <1>1 DEF IusbRec
  <2>3. thr' = [thr EXCEPT ![d] = r] /\ iusb' = [iusb EXCEPT ![d] = i]
        /\ UNCHANGED <<setting, host, ep, bot, kbuf, cbwErr, seqNo, sem, budget, hist>>
    BY <1>4 DEF Activate
  <2> HIDE DEF r, i
  <2>4. ThrInv' BY <2>1, <2>3, Constants, ThrStep
  <2>5. IusbInv' BY <2>2, <2>3, <1>1 DEF TypeInv, IusbInv
  <2> QED BY <2>3, <2>4, <2>5 DEF TypeInv, HostInv, EpInv, BotInv, GlobalInv, HistInv, hist
<1>5. ASSUME NEW d \in Drive, WaitRequest(d) PROVE TypeInv'
  <2> DEFINE r == IF iusb[d].active THEN [thr[d] EXCEPT !.pc = "busy", !.pkt = iusb[d].pkt]
                  ELSE [thr[d] EXCEPT !.pc = "off"]
             i == [iusb[d] EXCEPT !.wakeup = FALSE]
             x == iusb[d].active /\ Refused(d)
  <2>1. r \in ThrRec /\ r.pc \in {"off", "busy"} /\ r.drive \in Drive
    BY <1>1, Constants DEF ThrRec, Pc, IusbRec, TypeInv, ThrInv
  <2>2. i \in IusbRec BY <1>1 DEF IusbRec
  <2>3. thr' = [thr EXCEPT ![d] = r] /\ iusb' = [iusb EXCEPT ![d] = i]
        /\ UNCHANGED <<setting, host, ep, bot, kbuf, cbwErr, seqNo, sem, budget, old, crossed, left>>
    BY <1>5 DEF WaitRequest
  <2>4. stray' = [stray EXCEPT ![d] = stray[d] \/ x] BY <1>5 DEF WaitRequest
  <2>5. (stray[d] \/ x) \in BOOLEAN OBVIOUS
  <2> HIDE DEF r, i, x
  <2>6. ThrInv' BY <2>1, <2>3, Constants, ThrStep
  <2>7. IusbInv' BY <2>2, <2>3, <1>1 DEF TypeInv, IusbInv
  <2>8. stray' \in [Drive -> BOOLEAN] BY <2>4, <2>5, <1>1
  <2> QED BY <2>3, <2>6, <2>7, <2>8 DEF TypeInv, HostInv, EpInv, BotInv, GlobalInv, HistInv
<1>6. ASSUME NEW d \in Drive, Exit(d) PROVE TypeInv'
  <2> DEFINE i == [iusb[d] EXCEPT !.active = FALSE]
  <2>1. i \in IusbRec BY <1>1 DEF IusbRec
  <2>2. iusb' = [iusb EXCEPT ![d] = i] /\ left' = [left EXCEPT ![d] = TRUE]
        /\ UNCHANGED <<setting, host, ep, bot, kbuf, cbwErr, seqNo, sem, thr, old, stray, crossed>>
    BY <1>6 DEF Exit
  <2> HIDE DEF i
  <2>3. IusbInv' BY <2>1, <2>2, <1>1 DEF TypeInv, IusbInv
  <2>4. budget' \in [Fault -> Nat] BY <1>6, BudgetType DEF Exit, Fault
  <2>5. left' \in [Drive -> BOOLEAN] BY <2>2, <1>1
  <2> QED BY <2>2, <2>3, <2>4, <2>5
       DEF TypeInv, HostInv, EpInv, BotInv, ThrInv, GlobalInv, HistInv
<1>7. ASSUME NEW d \in Drive, HostConfigure(d) PROVE TypeInv'
  <2> DEFINE h == [host[d] EXCEPT !.pc = "idle"]
             e1 == [ep[d] EXCEPT !.cfg = TRUE, !.fifo = Nothing, !.stalled = FALSE]
  <2>0. host[d] \in HostRec /\ ep[d] \in EpRec /\ Nothing \in Sent
    BY <1>1, Constants, SentTypes
  <2>1. h \in HostRec /\ h.tag = host[d].tag /\ h.got = host[d].got BY <2>0 DEF HostRec
  <2>2. e1 \in EpRec BY <2>0 DEF EpRec
  <2>3. host' = [host EXCEPT ![d] = h] /\ ep' = [ep EXCEPT ![d] = e1]
        /\ UNCHANGED <<setting, bot, iusb, kbuf, cbwErr, seqNo, sem, thr, budget, hist>>
    BY <1>7 DEF HostConfigure
  <2> HIDE DEF h, e1
  <2>4. HostInv' BY <2>1, <2>3, <1>1 DEF TypeInv, HostInv
  <2>5. EpInv' BY <2>2, <2>3, <1>1 DEF EpInv
  <2> QED BY <2>3, <2>4, <2>5 DEF TypeInv, BotInv, IusbInv, ThrInv, GlobalInv, HistInv, hist
<1>8. ASSUME NEW d \in Drive, HostClearHalt(d) PROVE TypeInv'
  <2> DEFINE e1 == [ep[d] EXCEPT !.stalled = FALSE]
             b == [bot[d] EXCEPT !.unhalted = TRUE]
             r(t) == IF thr[t].pc = "stall" /\ thr[t].drive = d
                     THEN [thr[t] EXCEPT !.pc = "go"] ELSE thr[t]
  <2>0. bot[d] \in BotRec /\ ep[d] \in EpRec BY <1>1
  <2>1. e1 \in EpRec BY <2>0 DEF EpRec
  <2>2. b \in BotRec /\ b.lastSeq = bot[d].lastSeq BY <2>0 DEF BotRec
  <2>3. \A t \in Thread : /\ r(t) \in ThrRec /\ r(t).drive = thr[t].drive
                          /\ r(t).pc = thr[t].pc \/ (r(t).pc = "go" /\ thr[t].pc = "stall")
    BY <1>1, Constants DEF ThrRec, Pc
  <2>4. /\ ep' = [ep EXCEPT ![d] = e1] /\ bot' = [bot EXCEPT ![d] = b]
        /\ thr' = [t \in Thread |-> r(t)]
        /\ UNCHANGED <<setting, host, iusb, kbuf, cbwErr, seqNo, sem, budget, hist>>
    BY <1>8 DEF HostClearHalt
  <2> HIDE DEF e1, b, r
  <2>5. EpInv' BY <2>1, <2>4, <1>1 DEF EpInv
  <2>6. BotInv' BY <2>2, <2>4, <1>1 DEF BotInv
  <2>7. ThrInv'
    <3>1. thr' \in [Thread -> ThrRec] /\ \A t \in Thread : thr'[t] = r(t) BY <2>3, <2>4
    <3>2. 0 \in Thread /\ \A e \in Drive : e \in Thread BY Constants
    <3>3. /\ thr'[0].pc \in {"idle", "visit", "picked"} \cup Working
          /\ thr'[0].pc \in {"picked"} \cup Working => thr'[0].drive \in Drive
      BY <3>1, <3>2, <2>3 DEF TypeInv, ThrInv, Working
    <3>4. \A e \in Drive :
            thr'[e].pc \in {"off", "idle", "busy"} \cup Working /\ thr'[e].drive \in Drive
      BY <3>1, <3>2, <2>3 DEF TypeInv, ThrInv, Working
    <3> QED BY <3>1, <3>3, <3>4 DEF ThrInv
  <2> QED BY <2>4, <2>5, <2>6, <2>7 DEF TypeInv, HostInv, IusbInv, GlobalInv, HistInv, hist
<1> QED BY <1>2, <1>3, <1>4, <1>5, <1>6, <1>7, <1>8 DEF Plain

(* The steps, as the lemmas above group them.                              *)
LEMMA Steps ==
  Next => \/ Plain \/ DpcProcess \/ \E t \in Thread : Transmit(t)
          \/ \E d \in Drive :
               \/ Crash(d) \/ \E status \in {"passed", "failed"} : ScsiSendResponse(d, status)
               \/ HostData(d) \/ HostIn(d) \/ \E op \in Op : HostCommand(d, op)
               \/ HostReset(d) \/ HostRecovers(d)
BY DEF Next, Plain, Transmit

(* Every step keeps the states well typed.                                 *)
LEMMA TypeStep == ASSUME TypeInv, Next PROVE TypeInv'
<1> HostInv /\ EpInv /\ BotInv /\ IusbInv /\ ThrInv /\ GlobalInv /\ HistInv BY DEF TypeInv
<1>1. ASSUME UNCHANGED host PROVE HostInv' BY <1>1 DEF HostInv
<1>2. ASSUME UNCHANGED ep PROVE EpInv' BY <1>2 DEF EpInv
<1>3. ASSUME UNCHANGED <<bot, seqNo>> PROVE BotInv' BY <1>3 DEF BotInv
<1>4. ASSUME UNCHANGED <<iusb, kbuf>> PROVE IusbInv' BY <1>4 DEF IusbInv
<1>5. ASSUME UNCHANGED thr PROVE ThrInv' BY <1>5 DEF ThrInv
<1>6. ASSUME UNCHANGED <<setting, cbwErr, seqNo, sem>> PROVE GlobalInv' BY <1>6 DEF GlobalInv
<1>7. ASSUME UNCHANGED hist, budget' \in [Fault -> Nat] PROVE HistInv'
  BY <1>7 DEF HistInv, hist
<1>8. seqNo \in Nat /\ seqNo <= seqNo BY DEF GlobalInv
<1>9. CASE Plain BY <1>9, PlainType
<1>10. CASE DpcProcess
  <2> DEFINE d == thr[0].drive
  <2>1. /\ d \in Drive
        /\ UNCHANGED <<setting, host, kbuf, sem, budget, old, stray, left>>
        /\ \/ Sends(0, d, bot[d]) /\ UNCHANGED <<iusb, cbwErr, seqNo, crossed>>
           \/ /\ Sends(0, d, [bot[d] EXCEPT !.lastSeq = seqNo + 1])
              /\ Form(d) /\ cbwErr' \in 0..2
    BY <1>10, DpcProcessSends
  <2> HIDE DEF d
  <2>2. bot[d] \in BotRec /\ bot[d].lastSeq <= seqNo BY <2>1 DEF BotInv
  <2>3. CASE Sends(0, d, bot[d]) /\ UNCHANGED <<iusb, cbwErr, seqNo, crossed>>
    <3>1. BotInv' BY <2>1, <2>2, <2>3, <1>8, Constants, SendsBot
    <3>2. EpInv' /\ ThrInv' BY <2>3 DEF Sends
    <3>3. GlobalInv' /\ HistInv' /\ HostInv' /\ IusbInv'
      BY <2>1, <2>3, <1>1, <1>4, <1>6, <1>7 DEF HistInv, hist
    <3> QED BY <3>1, <3>2, <3>3 DEF TypeInv
  <2>4. CASE /\ Sends(0, d, [bot[d] EXCEPT !.lastSeq = seqNo + 1])
             /\ Form(d) /\ cbwErr' \in 0..2
    <3> DEFINE b == [bot[d] EXCEPT !.lastSeq = seqNo + 1]
    <3>1. seqNo' = seqNo + 1 /\ iusb' \in [Drive -> IusbRec] /\ crossed' = [e \in Drive |-> e # d]
      BY <2>1, <2>4, FormType
    <3>2. seqNo' \in Nat /\ seqNo <= seqNo' BY <3>1, <1>8
    <3>3. b \in BotRec /\ b.lastSeq = seqNo' BY <2>2, <3>1, <3>2 DEF BotRec
    <3>4. b.lastSeq <= seqNo' BY <3>2, <3>3
    <3> HIDE DEF b
    <3>5. Sends(0, d, b) BY <2>4 DEF b
    <3>6. BotInv' BY <2>1, <3>2, <3>3, <3>4, <3>5, Constants, SendsBot
    <3>7. EpInv' /\ ThrInv' BY <3>5 DEF Sends
    <3>8. GlobalInv' /\ IusbInv' BY <2>1, <2>4, <3>1, <3>2 DEF GlobalInv, IusbInv
    <3>9. crossed' \in [Drive -> BOOLEAN]
      <4>1. \A e \in Drive : (e # d) \in BOOLEAN OBVIOUS
      <4> QED BY <3>1, <4>1
    <3>10. HistInv' BY <2>1, <3>9 DEF HistInv
    <3> QED BY <2>1, <3>6, <3>7, <3>8, <3>10, <1>1 DEF TypeInv
  <2> QED BY <2>1, <2>3, <2>4
<1>11. ASSUME NEW t \in Thread, Transmit(t) PROVE TypeInv'
  <2> DEFINE d == thr[t].drive
  <2>1. /\ d \in Drive /\ Sends(t, d, bot[d]) /\ budget' \in [Fault -> Nat]
        /\ UNCHANGED <<setting, host, iusb, kbuf, cbwErr, seqNo, sem, hist>>
    BY <1>11, TransmitSends
  <2>2. bot[d] \in BotRec /\ bot[d].lastSeq <= seqNo BY <2>1 DEF BotInv
  <2> HIDE DEF d
  <2>3. BotInv' BY <2>1, <2>2, <1>8, SendsBot
  <2>4. EpInv' /\ ThrInv' BY <2>1 DEF Sends
  <2> QED BY <2>1, <2>3, <2>4, <1>1, <1>4, <1>6, <1>7 DEF TypeInv
<1>12. ASSUME NEW d \in Drive, Crash(d) PROVE TypeInv'
  <2>1. UNCHANGED <<setting, host, iusb, kbuf, cbwErr, seqNo, sem>> BY <1>12 DEF Crash
  <2>2. EpInv' /\ BotInv' /\ ThrInv' /\ HistInv' BY <1>12, CrashType
  <2> QED BY <2>1, <2>2, <1>1, <1>4, <1>6 DEF TypeInv
<1>13. ASSUME NEW d \in Drive, NEW status \in {"passed", "failed"}, ScsiSendResponse(d, status)
       PROVE  TypeInv'
  <2> DEFINE b == [bot[d] EXCEPT !.lastSeq = 0]
  <2>1. /\ UNCHANGED <<setting, host, iusb, seqNo, sem, budget, old, stray, left>>
        /\ IusbInv' /\ cbwErr' \in 0..2 /\ crossed' \in [Drive -> BOOLEAN]
        /\ \/ EpInv' /\ ThrInv' /\ UNCHANGED bot
           \/ Sends(d, d, b)
    BY <1>13, ResponseSends
  <2>2. b \in BotRec /\ b.lastSeq = 0 BY DEF BotInv, BotRec
  <2> HIDE DEF b
  <2>3. b.lastSeq <= seqNo BY <2>2, <1>8
  <2>4. BotInv' /\ EpInv' /\ ThrInv'
    <3>1. CASE EpInv' /\ ThrInv' /\ UNCHANGED bot BY <3>1, <2>1, <1>3
    <3>2. CASE Sends(d, d, b)
      <4>1. BotInv' BY <3>2, <2>1, <2>2, <2>3, <1>8, Constants, SendsBot
      <4> QED BY <4>1, <3>2 DEF Sends
    <3> QED BY <3>1, <3>2, <2>1
  <2>5. GlobalInv' /\ HistInv' BY <2>1 DEF GlobalInv, HistInv
  <2> QED BY <2>1, <2>4, <2>5, <1>1 DEF TypeInv
<1>14. ASSUME NEW d \in Drive, HostData(d) PROVE TypeInv'
  <2> DEFINE h == [host[d] EXCEPT !.pc = "wait"]
  <2>1. /\ host' = [host EXCEPT ![d] = h] /\ BotRxHandler(d, FALSE, NoTag, "write")
        /\ UNCHANGED <<setting, ep, iusb, kbuf, cbwErr, seqNo, thr, budget, stray, crossed, left>>
    BY <1>14 DEF HostData
  <2>2. host[d] \in HostRec BY DEF HostInv
  <2>3. h \in HostRec /\ h.tag = host[d].tag /\ h.got = host[d].got BY <2>2 DEF HostRec
  <2> HIDE DEF h
  <2>4. HostInv' BY <2>1, <2>3 DEF HostInv
  <2>5. BotInv' /\ sem' \in Nat /\ old' \in [Drive -> BOOLEAN]
    BY <2>1, Constants, RxType DEF Op
  <2>6. GlobalInv' /\ HistInv' BY <2>1, <2>5 DEF GlobalInv, HistInv
  <2> QED BY <2>1, <2>4, <2>5, <2>6, <1>2, <1>4, <1>5 DEF TypeInv
<1>15. ASSUME NEW d \in Drive, NEW op \in Op, HostCommand(d, op) PROVE TypeInv'
  <2>1. PICK tag \in Tag :
          /\ BotRxHandler(d, TRUE, tag, op) /\ HostInv'
          /\ UNCHANGED <<setting, ep, iusb, kbuf, cbwErr, seqNo, thr, budget, stray, crossed, left>>
    BY <1>15, HostCommandType
  <2>2. BotInv' /\ sem' \in Nat /\ old' \in [Drive -> BOOLEAN] BY <2>1, RxType
  <2>3. GlobalInv' /\ HistInv' BY <2>1, <2>2 DEF GlobalInv, HistInv
  <2> QED BY <2>1, <2>2, <2>3, <1>2, <1>4, <1>5 DEF TypeInv
<1>16. ASSUME NEW d \in Drive, HostIn(d) PROVE TypeInv'
  <2>1. HostInv' /\ EpInv' BY <1>16, HostInType
  <2>2. UNCHANGED <<setting, bot, iusb, kbuf, cbwErr, seqNo, sem, thr, budget, hist>>
    BY <1>16 DEF HostIn
  <2> QED BY <2>1, <2>2, <1>3, <1>4, <1>5, <1>6, <1>7 DEF TypeInv, HistInv
<1>17. ASSUME NEW d \in Drive, HostReset(d) \/ HostRecovers(d) PROVE TypeInv'
  <2>1. UsbBusReset(d) BY <1>17 DEF HostReset, HostRecovers
  <2>2. HostInv' /\ EpInv' /\ BotInv' /\ old' \in [Drive -> BOOLEAN] /\ stray' \in [Drive -> BOOLEAN]
    BY <2>1, BusResetType
  <2>3. UNCHANGED <<setting, iusb, kbuf, cbwErr, seqNo, sem, thr, crossed, left>>
    BY <2>1 DEF UsbBusReset
  <2>4. budget' \in [Fault -> Nat]
    BY <1>17, BudgetType DEF HostReset, HostRecovers, Fault, HistInv
  <2> QED BY <2>2, <2>3, <2>4, <1>4, <1>5, <1>6 DEF TypeInv, HistInv
<1> QED BY <1>9, <1>10, <1>11, <1>12, <1>13, <1>14, <1>15, <1>16, <1>17, Steps

(* The invariant holds throughout.                                         *)
LEMMA TypeHolds == Spec => []TypeInv
<1>1. Init => TypeInv
  <2> SUFFICES ASSUME Init PROVE TypeInv OBVIOUS
  <2>1. NoPkt \in Packet /\ Nothing \in Sent
    BY Constants, SentTypes DEF NoPkt, Packet, Op
  <2>2. <<>> \in Seq(Tag) /\ Len(<<>>) = 0 OBVIOUS
  <2>3. HostInv
    <3> DEFINE h(d) == [pc |-> "off", tag |-> <<d, 0>>, op |-> "local", got |-> <<>>,
                        status |-> "failed", residue |-> FALSE]
    <3>1. host = [d \in Drive |-> h(d)] BY DEF Init
    <3>2. \A d \in Drive : h(d) \in HostRec /\ h(d).tag[1] = d /\ h(d).got = <<>>
      BY <2>2, Constants DEF HostRec, Op
    <3> HIDE DEF h
    <3> QED BY <3>1, <3>2, <2>2 DEF HostInv
  <2>4. EpInv BY <2>1 DEF Init, EpInv, EpRec
  <2>5. seqNo = 0 /\ sem = 0 /\ cbwErr = 0 /\ setting \in Settings BY DEF Init
  <2>6. BotInv BY <2>5, Constants DEF Init, BotInv, BotRec, Op
  <2>7. IusbInv BY <2>1 DEF Init, IusbInv, IusbRec
  <2>8. ThrInv
    <3> DEFINE r(t) == [pc |-> IF t = 0 THEN "idle" ELSE "off", drive |-> 1, pkt |-> NoPkt,
                        csw |-> Nothing]
    <3>1. thr = [t \in Thread |-> r(t)] BY DEF Init
    <3>2. \A t \in Thread : r(t) \in ThrRec BY <2>1, Constants DEF ThrRec, Pc
    <3>3. thr \in [Thread -> ThrRec] BY <3>1, <3>2
    <3>4. thr[0].pc = "idle" /\ \A d \in Drive : thr[d].pc = "off" /\ thr[d].drive = 1
      BY <3>1, Constants
    <3> QED BY <3>3, <3>4, Constants DEF ThrInv, Working
  <2>9. GlobalInv BY <2>5 DEF GlobalInv
  <2>10. HistInv
    <3>1. setting.faults \in [Fault -> Nat]
      BY <2>5, MediaAssumption
    <3> QED BY <3>1 DEF Init, HistInv
  <2> QED BY <2>3, <2>4, <2>6, <2>7, <2>8, <2>9, <2>10 DEF TypeInv
<1>2. TypeInv /\ UNCHANGED vars => TypeInv'
  BY DEF TypeInv, HostInv, EpInv, BotInv, IusbInv, ThrInv, GlobalInv, HistInv, vars, hist
<1>3. TypeInv /\ [Next]_vars => TypeInv' BY <1>2, TypeStep
<1> QED BY <1>1, <1>3, PTL DEF Spec

(* Every reachable state is well typed, for any number of drives, commands *)
(* and faults: no thread sends for a drive that does not exist.            *)
THEOREM TypeCorrect == Spec => []TypeOK
<1>1. TypeInv => TypeOK
  <2> SUFFICES ASSUME TypeInv PROVE TypeOK OBVIOUS
  <2>1. bot \in [Drive -> [tag : Tag, op : Op, outLen : BOOLEAN, lastSeq : 0..seqNo,
                           unhalted : BOOLEAN, flag : BOOLEAN]]
    <3>1. \A d \in Drive : bot[d].lastSeq \in 0..seqNo
      BY DEF TypeInv, BotInv, BotRec, GlobalInv
    <3>2. \A d \in Drive : bot[d] \in BotRec /\ bot \in [Drive -> BotRec] BY DEF TypeInv, BotInv
    <3>3. \A d \in Drive : bot[d] \in [tag : Tag, op : Op, outLen : BOOLEAN, lastSeq : 0..seqNo,
                                       unhalted : BOOLEAN, flag : BOOLEAN]
      BY <3>1, <3>2 DEF BotRec
    <3> QED BY <3>2, <3>3, Constants
  <2>2. /\ setting \in Settings /\ host \in [Drive -> HostRec] /\ ep \in [Drive -> EpRec]
        /\ iusb \in [Drive -> IusbRec] /\ kbuf \in [{"cd", "hd"} -> Packet]
        /\ cbwErr \in 0..2 /\ seqNo \in Nat /\ sem \in Nat /\ thr \in [Thread -> ThrRec]
        /\ \A d \in Drive : host[d].tag[1] = d /\ Len(host[d].got) <= 2
    BY DEF TypeInv, HostInv, EpInv, IusbInv, GlobalInv, ThrInv
  <2>3. HistInv BY DEF TypeInv
  <2> QED BY <2>1, <2>2, <2>3, Zenon DEF TypeOK, HostRec, EpRec, IusbRec, ThrRec, Pc, HistInv
<1> QED BY <1>1, TypeHolds, PTL

----------------------------------------------------------------------------
(* Commands and data, and the deferred call.                               *)

(* Data are expected exactly while the host is about to send them.         *)
OutInv == \A d \in Drive : bot[d].outLen <=> host[d].pc = "out"
(* A host sends commands to a configured drive only.                       *)
CfgInv == \A d \in Drive : host[d].pc # "off" <=> ep[d].cfg
(* A command for which the flag is raised will be visited: by a pass of    *)
(* the deferred call that is to come, or by the one that runs.             *)
Ahead(d) ==
  \/ sem > 0
  \/ thr[0].pc = "visit" /\ thr[0].drive <= d
  \/ thr[0].pc \in {"picked"} \cup Working /\ thr[0].drive < d
VisitInv == \A d \in Drive : host[d].pc = "wait" /\ bot[d].flag => Ahead(d)
CommandInv == OutInv /\ CfgInv /\ VisitInv

(* A step that neither takes a command nor moves the deferred call back.   *)
LEMMA CommandKept ==
  ASSUME TypeInv, CommandInv, UNCHANGED host, sem' \in Nat, sem' >= sem,
         \A d \in Drive : /\ bot'[d].outLen = bot[d].outLen
                          /\ bot'[d].flag => bot[d].flag
                          /\ ep'[d].cfg = ep[d].cfg,
         \A d \in Drive : host[d].pc = "wait" /\ bot'[d].flag /\ sem = 0 => Ahead(d)'
  PROVE  CommandInv'
<1>1. sem \in Nat BY DEF TypeInv, GlobalInv
<1>2. OutInv' /\ CfgInv' BY DEF CommandInv, OutInv, CfgInv
<1>3. ASSUME NEW d \in Drive, host'[d].pc = "wait", bot'[d].flag PROVE Ahead(d)'
  <2>1. CASE sem = 0 BY <1>3, <2>1
  <2>2. CASE sem > 0
    <3>1. sem' > 0 BY <1>1, <2>2
    <3> QED BY <3>1 DEF Ahead
  <2> QED BY <1>1, <2>1, <2>2
<1> QED BY <1>2, <1>3 DEF CommandInv, VisitInv

(* Every step keeps it.                                                    *)
LEMMA CommandStep == ASSUME TypeInv, CommandInv, Next PROVE CommandInv'
<1>1. /\ sem \in Nat /\ sem >= sem /\ thr \in [Thread -> ThrRec] /\ bot \in [Drive -> BotRec]
      /\ ep \in [Drive -> EpRec] /\ host \in [Drive -> HostRec] /\ seqNo \in Nat /\ seqNo <= seqNo
      /\ thr[0].drive \in Int /\ \A d \in Drive : bot[d].lastSeq <= seqNo /\ d \in Int
  <2>1. thr[0] \in ThrRec BY Constants DEF TypeInv, ThrInv
  <2>2. thr[0].drive \in Int BY <2>1, Constants DEF ThrRec
  <2>3. sem \in Nat /\ seqNo \in Nat BY DEF TypeInv, GlobalInv
  <2>4. sem >= sem /\ seqNo <= seqNo BY <2>3
  <2>5. \A d \in Drive : d \in Int BY DEF Drive
  <2> QED BY <2>2, <2>3, <2>4, <2>5 DEF TypeInv, ThrInv, BotInv, EpInv, HostInv
<1>2. ASSUME UNCHANGED <<host, sem>>, thr'[0] = thr[0],
             \A d \in Drive : /\ bot'[d].outLen = bot[d].outLen /\ bot'[d].flag = bot[d].flag
                              /\ ep'[d].cfg = ep[d].cfg
      PROVE  CommandInv'
  <2>1. ASSUME NEW d \in Drive, host[d].pc = "wait", bot'[d].flag, sem = 0 PROVE Ahead(d)'
    BY <1>1, <1>2, <2>1 DEF CommandInv, VisitInv, Ahead
  <2> QED BY <1>1, <1>2, <2>1, CommandKept
<1>3. ASSUME NEW t \in Thread, NEW d \in Drive, NEW b \in BotRec, Sends(t, d, b),
             UNCHANGED <<host, sem>>, seqNo' \in Nat, seqNo <= seqNo', b.lastSeq <= seqNo',
             b.outLen = bot[d].outLen, b.flag = bot[d].flag,
             t = 0 => d = thr[0].drive /\ thr[0].pc \in {"picked"} \cup Working
      PROVE  CommandInv'
  <2>1. \A e \in Drive : /\ bot'[e].outLen = bot[e].outLen /\ bot'[e].flag = bot[e].flag
                         /\ ep'[e].cfg = ep[e].cfg
    BY <1>3, SendsBot DEF Sends
  <2>2. CASE t # 0
    <3>1. thr'[0] = thr[0] BY <1>3, <2>2, Constants DEF Sends
    <3> QED BY <1>2, <1>3, <2>1, <3>1
  <2>3. CASE t = 0
    <3>1. ASSUME NEW e \in Drive, host[e].pc = "wait", bot'[e].flag, sem = 0 PROVE Ahead(e)'
      <4>1. thr[0].drive < e
        BY <1>3, <2>1, <2>3, <3>1 DEF CommandInv, VisitInv, Ahead, Working
      <4>2. \/ thr'[0].pc \in Working /\ thr'[0].drive = d
            \/ thr'[0].pc = "visit" /\ thr'[0].drive = d + 1
        BY <1>3, <2>3 DEF Sends, Working
      <4>3. d + 1 <= e /\ d < e BY <4>1, <1>1, <1>3, <2>3
      <4> QED BY <4>2, <4>3 DEF Ahead
    <3> QED BY <1>1, <1>3, <2>1, <3>1, CommandKept
  <2> QED BY <2>2, <2>3
<1>4. CASE DpcWake
  <2>1. UNCHANGED <<host, bot, ep>> /\ thr'[0].pc = "visit" /\ thr'[0].drive = 1
    BY <1>4, <1>1, Constants DEF DpcWake, ThrRec
  <2>2. OutInv' /\ CfgInv' BY <2>1 DEF CommandInv, OutInv, CfgInv
  <2>3. \A d \in Drive : Ahead(d)' BY <2>1, Constants DEF Ahead, Drive
  <2> QED BY <2>2, <2>3 DEF CommandInv, VisitInv
<1>5. CASE DpcVisit
  <2> DEFINE d == thr[0].drive
  <2>1. UNCHANGED <<host, ep, sem>> /\ thr[0].pc = "visit" /\ thr[0] \in ThrRec /\ d \in Int
    BY <1>5, <1>1, Constants DEF DpcVisit
  <2>2. \A e \in Drive : bot'[e].outLen = bot[e].outLen /\ (bot'[e].flag => bot[e].flag)
    <3>1. CASE UNCHANGED bot BY <3>1
    <3>2. ASSUME d \in Drive, bot' = [bot EXCEPT ![d].flag = FALSE]
          PROVE  \A e \in Drive : bot'[e].outLen = bot[e].outLen /\ (bot'[e].flag => bot[e].flag)
      BY <3>2, <1>1 DEF BotRec
    <3>3. d <= NumDrives => d \in Drive BY <2>1, Constants DEF Drive, ThrRec
    <3>4. d > NumDrives \/ d <= NumDrives BY <2>1, Constants
    <3> QED BY <3>1, <3>2, <3>3, <3>4, <1>5 DEF DpcVisit
  <2>3. ASSUME NEW e \in Drive, host[e].pc = "wait", bot'[e].flag, sem = 0 PROVE Ahead(e)'
    <3>1. d <= e
      BY <2>1, <2>2, <2>3 DEF CommandInv, VisitInv, Ahead, Working
    <3>2. d \in Drive /\ ~(d > NumDrives) BY <3>1, <2>1, Constants DEF Drive, ThrRec
    <3>3. CASE ep[d].cfg /\ bot[d].flag
      <4>1. thr'[0].pc = "picked" /\ thr'[0].drive = d /\ bot'[d].flag = FALSE
        BY <3>2, <3>3, <1>1, <1>5, Constants DEF DpcVisit, BotRec, ThrRec
      <4>2. d < e
        <5>1. d # e BY <4>1, <2>3
        <5> QED BY <5>1, <3>1, <2>1, <1>1
      <4> QED BY <4>1, <4>2 DEF Ahead
    <3>4. CASE ~(ep[d].cfg /\ bot[d].flag)
      <4>1. thr'[0].pc = "visit" /\ thr'[0].drive = d + 1 /\ UNCHANGED bot
        BY <3>2, <3>4, <1>1, <1>5, <2>1, Constants DEF DpcVisit, ThrRec
      <4>2. d # e BY <4>1, <3>4, <2>3 DEF CommandInv, CfgInv
      <4>3. d + 1 <= e BY <4>2, <3>1, <2>1, <1>1
      <4> QED BY <4>1, <4>3 DEF Ahead
    <3> QED BY <3>3, <3>4
  <2> HIDE DEF d
  <2> QED BY <2>1, <2>2, <2>3, <1>1, CommandKept
<1>6. CASE DpcProcess
  <2> DEFINE d == thr[0].drive
             b1 == [bot[d] EXCEPT !.lastSeq = seqNo + 1]
  <2>1. /\ thr[0].pc = "picked" /\ d \in Drive /\ UNCHANGED <<host, sem>>
        /\ \/ Sends(0, d, bot[d]) /\ UNCHANGED seqNo
           \/ Sends(0, d, b1) /\ Form(d)
    BY <1>6, DpcProcessSends
  <2>2. CASE Sends(0, d, bot[d]) /\ UNCHANGED seqNo
    <3> HIDE DEF b1
    <3> QED BY <1>1, <1>3, <2>1, <2>2, Constants
  <2>3. CASE Sends(0, d, b1) /\ Form(d)
    <3>1. seqNo' = seqNo + 1 BY <2>3 DEF Form
    <3>2. seqNo' \in Nat /\ seqNo <= seqNo' BY <3>1, <1>1
    <3>3. bot[d] \in BotRec BY <2>1, <1>1
    <3>4. /\ b1 \in BotRec /\ b1.lastSeq = seqNo' /\ b1.outLen = bot[d].outLen
          /\ b1.flag = bot[d].flag
      BY <3>1, <3>2, <3>3 DEF BotRec
    <3>5. b1.lastSeq <= seqNo' BY <3>2, <3>4
    <3> HIDE DEF b1
    <3> QED BY <1>3, <2>1, <2>3, <3>2, <3>4, <3>5, Constants
  <2> QED BY <2>1, <2>2, <2>3
<1>7. ASSUME NEW t \in Thread, Transmit(t) PROVE CommandInv'
  <2> DEFINE d == thr[t].drive
  <2>1. /\ thr[t].pc \in Working /\ d \in Drive /\ Sends(t, d, bot[d])
        /\ UNCHANGED <<host, seqNo, sem>>
    BY <1>7, TransmitSends
  <2>2. bot[d] \in BotRec /\ bot[d].lastSeq <= seqNo BY <2>1, <1>1
  <2> QED BY <1>1, <1>3, <2>1, <2>2
<1>8. ASSUME NEW d \in Drive, Crash(d) PROVE CommandInv'
  <2>1. thr'[0] = thr[0] BY <1>8, CrashType, Constants
  <2>2. UNCHANGED <<host, sem>> BY <1>8 DEF Crash
  <2> QED BY <2>1, <2>2, <1>2, <1>8, CrashType
<1>9. ASSUME NEW d \in Drive, NEW status \in {"passed", "failed"}, ScsiSendResponse(d, status)
      PROVE  CommandInv'
  <2> DEFINE b == [bot[d] EXCEPT !.lastSeq = 0]
  <2>1. /\ UNCHANGED <<host, seqNo, sem>>
        /\ \/ UNCHANGED <<ep, bot>> /\ \A s \in Thread \ {d} : thr'[s] = thr[s]
           \/ Sends(d, d, b)
    BY <1>9, ResponseSends
  <2>2. CASE UNCHANGED <<ep, bot>> /\ \A s \in Thread \ {d} : thr'[s] = thr[s]
    BY <2>1, <2>2, <1>2, Constants
  <2>3. CASE Sends(d, d, b)
    <3>1. bot[d] \in BotRec BY <1>1
    <3>2. b \in BotRec /\ b.lastSeq = 0 /\ b.outLen = bot[d].outLen /\ b.flag = bot[d].flag
      BY <3>1 DEF BotRec
    <3> HIDE DEF b
    <3>3. d \in Thread /\ d # 0 BY Constants
    <3>4. seqNo' = seqNo /\ b.lastSeq <= seqNo' BY <2>1, <3>2, <1>1
    <3> QED BY <2>1, <2>3, <3>2, <3>3, <3>4, <1>1, <1>3
  <2> QED BY <2>1, <2>2, <2>3
<1>10. ASSUME NEW d \in Drive, Activate(d) \/ WaitRequest(d) \/ Exit(d) PROVE CommandInv'
  <2>1. UNCHANGED <<host, ep, bot, sem>>
    BY <1>10 DEF Activate, WaitRequest, Exit
  <2>2. thr'[0] = thr[0]
    BY <1>10, <1>1, Constants DEF Activate, WaitRequest, Exit
  <2> QED BY <2>1, <2>2, <1>2
<1>11. ASSUME NEW d \in Drive, HostClearHalt(d) PROVE CommandInv'
  <2>1. UNCHANGED <<host, sem>> BY <1>11 DEF HostClearHalt
  <2>2. \A e \in Drive : /\ bot'[e].outLen = bot[e].outLen /\ bot'[e].flag = bot[e].flag
                         /\ ep'[e].cfg = ep[e].cfg
    BY <1>11, <1>1 DEF HostClearHalt, BotRec, EpRec
  <2>3. thr'[0].drive = thr[0].drive
        /\ (thr'[0].pc = thr[0].pc \/ (thr[0].pc \in Working /\ thr'[0].pc \in Working))
    BY <1>11, <1>1, Constants DEF HostClearHalt, ThrRec, Working
  <2>4. ASSUME NEW e \in Drive, host[e].pc = "wait", bot'[e].flag, sem = 0 PROVE Ahead(e)'
    BY <2>1, <2>2, <2>3, <2>4, <1>1 DEF CommandInv, VisitInv, Ahead, Working
  <2> QED BY <2>1, <2>2, <2>4, <1>1, CommandKept
<1>12. ASSUME NEW d \in Drive,
              \A e \in Drive : e # d => /\ host'[e] = host[e] /\ ep'[e].cfg = ep[e].cfg
                                        /\ bot'[e].outLen = bot[e].outLen
                                        /\ bot'[e].flag = bot[e].flag,
              thr'[0] = thr[0], sem' >= sem, sem' \in Nat,
              bot'[d].outLen <=> host'[d].pc = "out",
              host'[d].pc # "off" <=> ep'[d].cfg,
              host'[d].pc = "wait" /\ bot'[d].flag =>
                sem' > 0 \/ (host[d].pc = "wait" /\ bot[d].flag)
       PROVE  CommandInv'
  <2>1. OutInv' BY <1>12 DEF CommandInv, OutInv
  <2>2. CfgInv' BY <1>12 DEF CommandInv, CfgInv
  <2>3. ASSUME NEW e \in Drive, host'[e].pc = "wait", bot'[e].flag PROVE Ahead(e)'
    <3>1. sem' > 0 \/ (host[e].pc = "wait" /\ bot[e].flag) BY <1>12, <2>3
    <3>2. sem > 0 => sem' > 0 BY <1>1, <1>12
    <3> QED BY <3>1, <3>2, <1>12 DEF CommandInv, VisitInv, Ahead
  <2> QED BY <2>1, <2>2, <2>3 DEF CommandInv, VisitInv
<1>13. ASSUME NEW d \in Drive, HostConfigure(d) PROVE CommandInv'
  <2>1. /\ host[d].pc = "off" /\ host'[d].pc = "idle" /\ ep'[d].cfg = TRUE
        /\ \A e \in Drive : e # d => host'[e] = host[e] /\ ep'[e] = ep[e]
        /\ UNCHANGED <<bot, thr, sem>>
    BY <1>13, <1>1 DEF HostConfigure, HostRec, EpRec
  <2>2. ~bot'[d].outLen BY <2>1 DEF CommandInv, OutInv
  <2> QED BY <2>1, <2>2, <1>1, <1>12
<1>14. ASSUME NEW d \in Drive, HostData(d) PROVE CommandInv'
  <2>1. /\ BotRxHandler(d, FALSE, NoTag, "write") /\ UNCHANGED <<ep, thr, seqNo>>
        /\ host[d].pc = "out" /\ host'[d].pc = "wait"
        /\ \A e \in Drive : e # d => host'[e] = host[e]
    BY <1>14, <1>1 DEF HostData, HostRec
  <2>2. bot[d].outLen BY <2>1 DEF CommandInv, OutInv
  <2>3. /\ sem' \in Nat /\ sem' >= sem /\ \A e \in Drive : e # d => bot'[e] = bot[e]
        /\ ~bot'[d].outLen /\ sem' > 0
    BY <2>1, <2>2, Constants, RxType DEF Op
  <2>4. ep[d].cfg BY <2>1 DEF CommandInv, CfgInv
  <2> QED BY <2>1, <2>3, <2>4, <1>1, <1>12
<1>15. ASSUME NEW d \in Drive, NEW op \in Op, HostCommand(d, op) PROVE CommandInv'
  <2>1. PICK tag \in Tag :
          /\ BotRxHandler(d, TRUE, tag, op) /\ UNCHANGED <<ep, thr, seqNo>>
          /\ host[d].pc = "idle" /\ host'[d].pc = (IF op = "write" THEN "out" ELSE "wait")
          /\ \A e \in Drive : e # d => host'[e] = host[e]
    BY <1>15, HostCommandType
  <2>2. ~bot[d].outLen BY <2>1 DEF CommandInv, OutInv
  <2>3. /\ sem' \in Nat /\ sem' >= sem /\ \A e \in Drive : e # d => bot'[e] = bot[e]
        /\ \/ op = "write" /\ bot'[d].outLen
           \/ op # "write" /\ ~bot'[d].outLen /\ sem' > 0
    BY <2>1, <2>2, RxType
  <2>4. ep[d].cfg BY <2>1 DEF CommandInv, CfgInv
  <2>5. bot'[d].outLen <=> host'[d].pc = "out" BY <2>1, <2>3
  <2>6. host'[d].pc = "wait" => sem' > 0 BY <2>1, <2>3
  <2>7. host'[d].pc # "off" <=> ep'[d].cfg BY <2>1, <2>4
  <2> QED BY <2>1, <2>3, <2>5, <2>6, <2>7, <1>12
<1>16. ASSUME NEW d \in Drive, HostIn(d) PROVE CommandInv'
  <2>1. /\ host[d].pc = "wait" /\ host'[d].pc \in {"wait", "idle", "confused"}
        /\ \A e \in Drive : ep'[e].cfg = ep[e].cfg /\ (e # d => host'[e] = host[e])
    BY <1>16, HostInType
  <2>2. UNCHANGED <<bot, thr, sem>> BY <1>16 DEF HostIn
  <2>3. ~bot[d].outLen /\ ep[d].cfg BY <2>1 DEF CommandInv, OutInv, CfgInv
  <2>4. bot'[d].outLen <=> host'[d].pc = "out" BY <2>1, <2>2, <2>3
  <2>5. host'[d].pc # "off" <=> ep'[d].cfg BY <2>1, <2>3
  <2> QED BY <2>1, <2>2, <2>4, <2>5, <1>1, <1>12
<1>17. ASSUME NEW d \in Drive, HostReset(d) \/ HostRecovers(d) PROVE CommandInv'
  <2>1. UsbBusReset(d) BY <1>17 DEF HostReset, HostRecovers
  <2>2. /\ host'[d].pc = "off" /\ ~bot'[d].outLen
        /\ \A e \in Drive : e # d => host'[e] = host[e] /\ ep'[e] = ep[e] /\ bot'[e] = bot[e]
    BY <2>1, BusResetType
  <2>3. UNCHANGED <<thr, sem>> /\ ep'[d].cfg = FALSE BY <2>1, <1>1 DEF UsbBusReset
  <2> QED BY <2>2, <2>3, <1>1, <1>12
<1> QED BY <1>4, <1>5, <1>6, <1>7, <1>8, <1>9, <1>10, <1>11, <1>13, <1>14, <1>15, <1>16, <1>17,
           Steps DEF Plain

(* The invariant holds throughout.                                         *)
LEMMA CommandHolds == Spec => []CommandInv
<1>1. Init => CommandInv
  BY DEF Init, CommandInv, OutInv, CfgInv, VisitInv
<1>2. CommandInv /\ UNCHANGED vars => CommandInv'
  BY DEF CommandInv, OutInv, CfgInv, VisitInv, Ahead, vars
<1>3. TypeInv /\ CommandInv /\ [Next]_vars => CommandInv' BY <1>2, CommandStep
<1> QED BY <1>1, <1>3, TypeHolds, PTL DEF Spec

(* A drive whose host is ready to send a command takes it as one, after    *)
(* any resets between a command and its data (BotRxHandler, BotRemHandler).*)
THEOREM CommandsTaken == Spec => []CommandNotData
<1>1. CommandInv => CommandNotData BY DEF CommandInv, OutInv, CommandNotData
<1> QED BY <1>1, CommandHolds, PTL

(* When the deferred call goes back to sleep, no drive is left with a      *)
(* command that no later pass is announced for, however commands of other  *)
(* drives and resets interleave with its pass.                             *)
THEOREM NothingLeft == Spec => []NoLostCommand
<1>1. CommandInv => NoLostCommand BY DEF CommandInv, VisitInv, NoLostCommand, Ahead, Working
<1> QED BY <1>1, CommandHolds, PTL

----------------------------------------------------------------------------
(* Sequence numbers, and the one flag for the error case.                  *)

(* The outstanding command of a drive is the one in its packet, a server   *)
(* works on that packet or an earlier one, and the flag is about it until  *)
(* another drive uses the flag.                                            *)
Numbered(d) ==
  /\ bot[d].lastSeq > 0 => bot[d].lastSeq = iusb[d].pkt.seq
  /\ iusb[d].pkt.seq <= seqNo
  /\ thr[d].pkt.seq <= iusb[d].pkt.seq
  /\ thr[d].pkt.seq = iusb[d].pkt.seq => thr[d].pkt = iusb[d].pkt
  /\ iusb[d].wakeup => iusb[d].pkt.seq > 0
  /\ thr[d].pc = "busy" => thr[d].pkt.seq > 0
CaseKept(d) ==
  bot[d].lastSeq > 0 /\ ~crossed[d] => (iusb[d].pkt.op = "short" <=> cbwErr = 1)
CaseInv == \A d \in Drive : Numbered(d) /\ CaseKept(d)

(* Numbers can be compared.                                                *)
LEMMA Seqs ==
  ASSUME TypeInv, NEW d \in Drive
  PROVE  /\ seqNo \in Nat /\ bot[d].lastSeq \in Nat
         /\ iusb[d].pkt.seq \in Nat /\ thr[d].pkt.seq \in Nat
<1>1. bot[d] \in BotRec /\ iusb[d] \in IusbRec /\ thr[d] \in ThrRec /\ seqNo \in Nat
  BY Constants DEF TypeInv, BotInv, IusbInv, ThrInv, GlobalInv
<1>2. bot[d].lastSeq \in Nat BY <1>1 DEF BotRec
<1>3. iusb[d].pkt \in Packet /\ thr[d].pkt \in Packet BY <1>1 DEF IusbRec, ThrRec
<1> QED BY <1>1, <1>2, <1>3 DEF Packet

(* Every step keeps it.                                                    *)
LEMMA CaseStep == ASSUME TypeInv, CaseInv, Next PROVE CaseInv'
<1>1. /\ thr \in [Thread -> ThrRec] /\ bot \in [Drive -> BotRec] /\ iusb \in [Drive -> IusbRec]
      /\ seqNo \in Nat /\ seqNo <= seqNo /\ \A d \in Drive : bot[d].lastSeq <= seqNo
  <2>1. seqNo \in Nat BY DEF TypeInv, GlobalInv
  <2>2. seqNo <= seqNo BY <2>1
  <2> QED BY <2>1, <2>2 DEF TypeInv, ThrInv, BotInv, IusbInv
(* A drive that is not concerned by the step.                              *)
<1>2. ASSUME NEW d \in Drive, UNCHANGED seqNo, bot'[d].lastSeq \in {0, bot[d].lastSeq},
             iusb'[d].pkt = iusb[d].pkt, iusb'[d].wakeup => iusb[d].wakeup,
             thr'[d].pkt = thr[d].pkt, thr'[d].pc = "busy" => thr[d].pc = "busy",
             bot'[d].lastSeq > 0 =>
               \/ crossed'[d]
               \/ crossed'[d] = crossed[d] /\ cbwErr' = cbwErr
      PROVE  Numbered(d)' /\ CaseKept(d)'
  <2>1. Numbered(d)' BY <1>2, Seqs DEF CaseInv, Numbered
  <2>2. CaseKept(d)' BY <1>2, Seqs DEF CaseInv, CaseKept
  <2> QED BY <2>1, <2>2
<1>3. ASSUME UNCHANGED <<seqNo, iusb, cbwErr, crossed>>,
             \A d \in Drive : /\ bot'[d].lastSeq \in {0, bot[d].lastSeq}
                              /\ thr'[d].pkt = thr[d].pkt
                              /\ thr'[d].pc = "busy" => thr[d].pc = "busy"
      PROVE  CaseInv'
  BY <1>2, <1>3 DEF CaseInv
<1>4. CASE DpcWake \/ DpcVisit
  <2>1. UNCHANGED <<seqNo, iusb, cbwErr, crossed>> BY <1>4 DEF DpcWake, DpcVisit, hist
  <2>2. \A d \in Drive : thr'[d] = thr[d] BY <1>1, <1>4, Constants DEF DpcWake, DpcVisit
  <2>3. \A d \in Drive : bot'[d].lastSeq = bot[d].lastSeq
    <3>1. CASE UNCHANGED bot BY <3>1
    <3>2. ASSUME NEW d \in Drive, bot' = [bot EXCEPT ![d].flag = FALSE]
          PROVE  \A e \in Drive : bot'[e].lastSeq = bot[e].lastSeq
      BY <3>2, <1>1 DEF BotRec
    <3>3. thr[0].drive <= NumDrives => thr[0].drive \in Drive
      BY <1>1, Constants DEF ThrRec, Drive
    <3>4. thr[0].drive > NumDrives \/ thr[0].drive <= NumDrives
      <4>1. thr[0] \in ThrRec BY <1>1, Constants
      <4>2. thr[0].drive \in Int BY <4>1, Constants DEF ThrRec
      <4> QED BY <4>2, Constants
    <3> QED BY <3>1, <3>2, <3>3, <3>4, <1>4 DEF DpcVisit, DpcWake
  <2> QED BY <2>1, <2>2, <2>3, <1>3
<1>5. CASE DpcProcess
  <2>0. PICK d : d = thr[0].drive OBVIOUS
  <2> DEFINE b1 == [bot[d] EXCEPT !.lastSeq = seqNo + 1]
  <2>1. /\ d \in Drive
        /\ \/ Sends(0, d, bot[d]) /\ UNCHANGED <<iusb, cbwErr, seqNo, crossed>>
           \/ /\ Sends(0, d, b1) /\ Form(d) /\ (cbwErr' = 1 <=> bot[d].op = "short")
    BY <1>5, <2>0, DpcProcessSends
  <2>2. ASSUME NEW b, Sends(0, d, b) PROVE \A e \in Drive : thr'[e] = thr[e]
    BY <2>2, Constants DEF Sends
  <2>3. CASE Sends(0, d, bot[d]) /\ UNCHANGED <<iusb, cbwErr, seqNo, crossed>>
    <3>1. bot[d] \in BotRec BY <2>1, <1>1
    <3>2. \A e \in Drive : bot'[e].lastSeq = bot[e].lastSeq
      BY <2>1, <2>3, <3>1, <1>1, Constants, SendsBot
    <3>3. \A e \in Drive : thr'[e] = thr[e] BY <2>2, <2>3
    <3> QED BY <2>3, <3>2, <3>3, <1>3
  <2>4. CASE Sends(0, d, b1) /\ Form(d) /\ (cbwErr' = 1 <=> bot[d].op = "short")
    <3>1. /\ seqNo' = seqNo + 1 /\ crossed' = [e \in Drive |-> e # d]
          /\ iusb'[d].pkt = [seq |-> seqNo + 1, tag |-> bot[d].tag, op |-> bot[d].op]
          /\ \A e \in Drive : e # d => iusb'[e] = iusb[e]
      BY <2>1, <2>4, FormType
    <3>2. seqNo' \in Nat /\ seqNo <= seqNo' /\ seqNo < seqNo' /\ seqNo' > 0 BY <3>1, <1>1
    <3>3. bot[d] \in BotRec BY <2>1, <1>1
    <3>4. b1 \in BotRec /\ b1.lastSeq = seqNo' BY <3>1, <3>2, <3>3 DEF BotRec
    <3>5. b1.lastSeq <= seqNo' BY <3>2, <3>4
    <3> HIDE DEF b1
    <3>6. \A e \in Drive : bot'[e].lastSeq = IF e = d THEN seqNo' ELSE bot[e].lastSeq
      BY <2>1, <2>4, <3>2, <3>4, <3>5, Constants, SendsBot
    <3>7. \A e \in Drive : thr'[e] = thr[e] BY <2>2, <2>4
    <3>8. Numbered(d)'
      <4>1. thr'[d].pkt.seq < seqNo'
        BY <2>1, <3>2, <3>7, Seqs DEF CaseInv, Numbered
      <4>2. iusb'[d].pkt.seq = seqNo' /\ thr'[d].pkt.seq \in Nat BY <3>1, <3>7, <2>1, Seqs
      <4>3. thr'[d].pc = "busy" => thr'[d].pkt.seq > 0 BY <2>1, <3>7 DEF CaseInv, Numbered
      <4> QED BY <4>1, <4>2, <4>3, <3>2, <3>6, <2>1 DEF Numbered
    <3>9. CaseKept(d)' BY <2>4, <3>1, <2>1 DEF CaseKept
    <3>10. ASSUME NEW e \in Drive, e # d PROVE Numbered(e)' /\ CaseKept(e)'
      <4>1. Numbered(e)' BY <3>1, <3>2, <3>6, <3>7, <3>10, <1>1, Seqs DEF CaseInv, Numbered
      <4>2. crossed'[e] BY <3>1, <3>10
      <4> QED BY <4>1, <4>2 DEF CaseKept
    <3> QED BY <3>8, <3>9, <3>10 DEF CaseInv
  <2> QED BY <2>1, <2>3, <2>4
<1>6. ASSUME NEW t \in Thread, Transmit(t) PROVE CaseInv'
  <2> DEFINE d == thr[t].drive
  <2>1. /\ d \in Drive /\ Sends(t, d, bot[d]) /\ UNCHANGED <<iusb, cbwErr, seqNo, crossed>>
    BY <1>6, TransmitSends DEF hist
  <2>2. bot[d] \in BotRec BY <2>1, <1>1
  <2>3. \A e \in Drive : bot'[e].lastSeq = bot[e].lastSeq BY <2>1, <2>2, <1>1, SendsBot
  <2>4. \A e \in Drive : thr'[e].pkt = thr[e].pkt /\ (thr'[e].pc = "busy" => thr[e].pc = "busy")
    BY <2>1, Constants DEF Sends
  <2> QED BY <2>1, <2>3, <2>4, <1>3
<1>7. ASSUME NEW d \in Drive, Crash(d) PROVE CaseInv'
  <2>1. UNCHANGED <<iusb, cbwErr, seqNo, crossed>> BY <1>7 DEF Crash
  <2>2. \A e \in Drive : /\ bot'[e].lastSeq = bot[e].lastSeq /\ thr'[e].pkt = thr[e].pkt
                         /\ (thr'[e].pc = "busy" => thr[e].pc = "busy")
    BY <1>7, CrashType, Constants
  <2> QED BY <2>1, <2>2, <1>3
<1>8. ASSUME NEW d \in Drive, NEW status \in {"passed", "failed"}, ScsiSendResponse(d, status)
      PROVE  CaseInv'
  <2> DEFINE b == [bot[d] EXCEPT !.lastSeq = 0]
  <2>1. UNCHANGED <<iusb, seqNo>> BY <1>8 DEF ScsiSendResponse
  <2>2. CASE /\ \A s \in Thread \ {d} : thr'[s] = thr[s]
             /\ thr'[d].pc = "idle" /\ thr'[d].pkt = thr[d].pkt
             /\ UNCHANGED <<bot, cbwErr, crossed>>
    BY <2>1, <2>2, <1>3, Constants
  <2>3. CASE /\ Sends(d, d, b)
             /\ \/ UNCHANGED <<cbwErr, crossed>>
                \/ crossed' = [e \in Drive |-> crossed[e] \/ e # d]
    <3>1. bot[d] \in BotRec BY <1>1
    <3>2. b \in BotRec /\ b.lastSeq = 0 BY <3>1 DEF BotRec
    <3> HIDE DEF b
    <3>3. /\ seqNo' = seqNo /\ seqNo' \in Nat /\ seqNo <= seqNo' /\ b.lastSeq <= seqNo'
          /\ d \in Thread
      <4>1. seqNo \in Nat /\ seqNo' = seqNo BY <1>1, <2>1
      <4>2. d \in Thread BY Constants
      <4> QED BY <4>1, <4>2, <3>2
    <3>4. \A e \in Drive : bot'[e].lastSeq = IF e = d THEN 0 ELSE bot[e].lastSeq
      BY <2>3, <3>2, <3>3, SendsBot
    <3>5. \A e \in Drive : thr'[e].pkt = thr[e].pkt /\ (thr'[e].pc = "busy" => thr[e].pc = "busy")
      BY <2>3, Constants DEF Sends
    <3>6. \A e \in Drive : bot'[e].lastSeq > 0 =>
            crossed'[e] \/ (crossed'[e] = crossed[e] /\ cbwErr' = cbwErr)
      <4> TAKE e \in Drive
      <4>1. CASE e = d BY <4>1, <3>4
      <4>2. CASE e # d /\ UNCHANGED <<cbwErr, crossed>> BY <4>2
      <4>3. CASE e # d /\ crossed' = [f \in Drive |-> crossed[f] \/ f # d]
        <5>1. crossed'[e] = (crossed[e] \/ e # d) BY <4>3
        <5> QED BY <5>1, <4>3
      <4> QED BY <4>1, <4>2, <4>3, <2>3
    <3> QED BY <2>1, <3>4, <3>5, <3>6, <1>2 DEF CaseInv
  <2> QED BY <2>2, <2>3, <1>8, ResponseSends
<1>9. ASSUME NEW d \in Drive, WaitRequest(d) PROVE CaseInv'
  <2>1. /\ UNCHANGED <<bot, seqNo, cbwErr, crossed>>
        /\ iusb' = [iusb EXCEPT ![d].wakeup = FALSE]
        /\ \A e \in Drive : e # d => thr'[e] = thr[e]
    BY <1>1, <1>9 DEF WaitRequest
  <2>2. \A e \in Drive : iusb'[e].pkt = iusb[e].pkt /\ (iusb'[e].wakeup => iusb[e].wakeup)
    BY <1>1, <2>1 DEF IusbRec
  <2>3. ASSUME NEW e \in Drive, e # d PROVE Numbered(e)' /\ CaseKept(e)'
    BY <2>1, <2>2, <2>3, <1>2
  <2>4. CASE iusb[d].active
    <3>1. thr'[d].pkt = iusb[d].pkt /\ iusb[d].wakeup
      BY <1>1, <1>9, <2>4, Constants DEF WaitRequest, ThrRec
    <3>2. Numbered(d)' BY <2>1, <2>2, <3>1, <1>1, Seqs DEF CaseInv, Numbered
    <3>3. CaseKept(d)' BY <2>1, <2>2 DEF CaseInv, CaseKept
    <3> QED BY <2>3, <3>2, <3>3 DEF CaseInv
  <2>5. CASE ~iusb[d].active
    <3>1. thr'[d].pkt = thr[d].pkt /\ thr'[d].pc = "off"
      BY <1>1, <1>9, <2>5, Constants DEF WaitRequest, ThrRec
    <3>2. Numbered(d)' /\ CaseKept(d)' BY <2>1, <2>2, <3>1, <1>2
    <3> QED BY <2>3, <3>2 DEF CaseInv
  <2> QED BY <2>4, <2>5
<1>10. ASSUME NEW d \in Drive, Activate(d) \/ Exit(d) PROVE CaseInv'
  <2>1. UNCHANGED <<bot, seqNo, cbwErr, crossed>> BY <1>10 DEF Activate, Exit, hist
  <2>2. \A e \in Drive : iusb'[e].pkt = iusb[e].pkt /\ (iusb'[e].wakeup => iusb[e].wakeup)
    <3>1. \A e \in Drive : e # d => iusb'[e] = iusb[e] BY <1>1, <1>10 DEF Activate, Exit
    <3>2. iusb[d] \in IusbRec BY <1>1
    <3>3. CASE Activate(d)
      <4>1. iusb'[d] = [iusb[d] EXCEPT !.active = TRUE, !.wakeup = FALSE]
        BY <3>3, <1>1 DEF Activate
      <4> QED BY <3>1, <3>2, <4>1 DEF IusbRec
    <3>4. CASE Exit(d)
      <4>1. iusb'[d] = [iusb[d] EXCEPT !.active = FALSE] BY <3>4, <1>1 DEF Exit
      <4> QED BY <3>1, <3>2, <4>1 DEF IusbRec
    <3> QED BY <3>3, <3>4, <1>10
  <2>3. \A e \in Drive : thr'[e].pkt = thr[e].pkt /\ (thr'[e].pc = "busy" => thr[e].pc = "busy")
    <3>1. thr[d] \in ThrRec BY <1>1, Constants
    <3>2. CASE Activate(d)
      <4>1. thr' = [thr EXCEPT ![d] = [thr[d] EXCEPT !.pc = "idle", !.drive = d]]
        BY <3>2 DEF Activate
      <4>2. thr'[d].pkt = thr[d].pkt /\ thr'[d].pc = "idle"
        BY <4>1, <3>1, <1>1, Constants DEF ThrRec
      <4> QED BY <4>1, <4>2, <1>1
    <3>3. CASE Exit(d) BY <3>3 DEF Exit
    <3> QED BY <3>2, <3>3, <1>10
  <2> QED BY <2>1, <2>2, <2>3, <1>2 DEF CaseInv
<1>11. ASSUME NEW d \in Drive, HostClearHalt(d) PROVE CaseInv'
  <2>1. UNCHANGED <<iusb, cbwErr, seqNo, crossed>> BY <1>11 DEF HostClearHalt, hist
  <2>2. \A e \in Drive : bot'[e].lastSeq = bot[e].lastSeq
    BY <1>11, <1>1 DEF HostClearHalt, BotRec
  <2>3. \A e \in Drive : thr'[e].pkt = thr[e].pkt /\ (thr'[e].pc = "busy" => thr[e].pc = "busy")
    BY <1>11, <1>1, Constants DEF HostClearHalt, ThrRec
  <2> QED BY <2>1, <2>2, <2>3, <1>3
<1>12. ASSUME NEW d \in Drive, HostConfigure(d) \/ HostIn(d) PROVE CaseInv'
  <2>1. UNCHANGED <<bot, thr, iusb, cbwErr, seqNo, crossed>>
    BY <1>12 DEF HostConfigure, HostIn, hist
  <2> QED BY <2>1, <1>3
<1>13. ASSUME NEW d \in Drive, NEW isCBW \in BOOLEAN, NEW tag \in Tag, NEW op \in Op,
              BotRxHandler(d, isCBW, tag, op), UNCHANGED <<thr, iusb, cbwErr, seqNo, crossed>>
       PROVE  CaseInv'
  <2>1. bot'[d].lastSeq = bot[d].lastSeq /\ \A e \in Drive : e # d => bot'[e] = bot[e]
    BY <1>13, RxType
  <2> QED BY <2>1, <1>3, <1>13
<1>14. ASSUME NEW d \in Drive, HostData(d) PROVE CaseInv'
  <2>1. BotRxHandler(d, FALSE, NoTag, "write") /\ UNCHANGED <<thr, iusb, cbwErr, seqNo, crossed>>
    BY <1>14 DEF HostData
  <2> QED BY <2>1, <1>13, Constants DEF Op
<1>15. ASSUME NEW d \in Drive, NEW op \in Op, HostCommand(d, op) PROVE CaseInv'
  <2>1. PICK tag \in Tag :
          BotRxHandler(d, TRUE, tag, op) /\ UNCHANGED <<thr, iusb, cbwErr, seqNo, crossed>>
    BY <1>15, HostCommandType
  <2> QED BY <2>1, <1>13
<1>16. ASSUME NEW d \in Drive, HostReset(d) \/ HostRecovers(d) PROVE CaseInv'
  <2>1. UsbBusReset(d) BY <1>16 DEF HostReset, HostRecovers
  <2>2. UNCHANGED <<thr, iusb, cbwErr, seqNo, crossed>> BY <2>1 DEF UsbBusReset
  <2>3. \A e \in Drive : bot'[e].lastSeq \in {0, bot[e].lastSeq} BY <2>1, BusResetType
  <2> QED BY <2>2, <2>3, <1>3
<1> QED BY <1>4, <1>5, <1>6, <1>7, <1>8, <1>9, <1>10, <1>11, <1>12, <1>14, <1>15, <1>16,
           Steps DEF Plain

(* The invariant holds throughout.                                         *)
LEMMA CaseHolds == Spec => []CaseInv
<1>1. Init => CaseInv
  <2> SUFFICES ASSUME Init PROVE CaseInv OBVIOUS
  <2>1. \A d \in Drive : /\ bot[d].lastSeq = 0 /\ iusb[d].pkt = NoPkt /\ thr[d].pkt = NoPkt
                         /\ iusb[d].wakeup = FALSE /\ thr[d].pc = "off"
    BY Constants DEF Init
  <2>2. seqNo = 0 /\ NoPkt.seq = 0 BY DEF Init, NoPkt
  <2> QED BY <2>1, <2>2 DEF CaseInv, Numbered, CaseKept
<1>2. CaseInv /\ UNCHANGED vars => CaseInv'
  BY DEF CaseInv, Numbered, CaseKept, vars, hist
<1>3. TypeInv /\ CaseInv /\ [Next]_vars => CaseInv' BY <1>2, CaseStep
<1> QED BY <1>1, <1>3, TypeHolds, PTL DEF Spec

(* A server that starts to send does so in ScsiSendResponse, for the       *)
(* outstanding command.                                                    *)
LEMMA Answers ==
  ASSUME TypeInv, Next, NEW d \in Drive, thr[d].pc = "busy",
         thr'[d].pc \in {"data", "stall", "csw"}
  PROVE  thr[d].pkt.seq = bot[d].lastSeq
<1>1. thr \in [Thread -> ThrRec] BY DEF TypeInv, ThrInv
<1>2. CASE Plain
  BY <1>1, <1>2, Constants
     DEF Plain, DpcWake, DpcVisit, Activate, WaitRequest, Exit, HostConfigure, HostClearHalt, ThrRec
<1>3. CASE DpcProcess BY <1>3, DpcProcessSends, Constants DEF Sends
<1>4. ASSUME NEW t \in Thread, Transmit(t) PROVE FALSE
  <2>1. thr[t].pc \in Working BY <1>4, TransmitSends
  <2>2. t # d BY <2>1 DEF Working
  <2>3. thr'[d] = thr[d] BY <2>2, <1>4, TransmitSends, Constants DEF Sends
  <2> QED BY <2>3
<1>5. ASSUME NEW e \in Drive, Crash(e) PROVE FALSE
  <2>1. thr'[e].pc = "off" /\ \A s \in Thread \ {e} : thr'[s] = thr[s] BY <1>5, CrashType
  <2> QED BY <2>1, Constants
<1>6. ASSUME NEW e \in Drive, NEW status \in {"passed", "failed"}, ScsiSendResponse(e, status)
      PROVE  thr[d].pkt.seq = bot[d].lastSeq
  BY <1>6, ResponseSends, Constants DEF Sends
<1>7. ASSUME NEW e \in Drive,
             \/ HostData(e) \/ HostIn(e) \/ \E op \in Op : HostCommand(e, op)
             \/ HostReset(e) \/ HostRecovers(e)
      PROVE  FALSE
  <2>1. UNCHANGED thr
    BY <1>7 DEF HostData, HostIn, HostCommand, HostReset, HostRecovers, UsbBusReset
  <2> QED BY <2>1
<1> QED BY <1>2, <1>3, <1>4, <1>5, <1>6, <1>7, Steps

(* The error case that decides what a server's answer becomes is that of   *)
(* the command it answers, unless another drive has used the global flag   *)
(* in between, whatever resets, late answers and restarts of servers came  *)
(* (FormiUsbScsiPacket, ScsiSendResponse).                                 *)
THEOREM CaseOwned == Spec => CaseIsOwn
<1>1. ASSUME TypeInv, CaseInv, Next, NEW d \in Drive, thr[d].pc = "busy",
             thr'[d].pc \in {"data", "stall", "csw"}, ~crossed[d]
      PROVE  (thr[d].pkt.op = "short") <=> (cbwErr = 1)
  <2>1. thr[d].pkt.seq = bot[d].lastSeq BY <1>1, Answers
  <2>2. thr[d].pkt.seq > 0 /\ bot[d].lastSeq > 0 BY <1>1, <2>1 DEF CaseInv, Numbered
  <2>3. thr[d].pkt = iusb[d].pkt BY <1>1, <2>1, <2>2 DEF CaseInv, Numbered
  <2> QED BY <1>1, <2>2, <2>3 DEF CaseInv, CaseKept
<1> DEFINE Own == \A d \in Drive :
             thr[d].pc = "busy" /\ thr'[d].pc \in {"data", "stall", "csw"} /\ ~crossed[d] =>
               ((thr[d].pkt.op = "short") <=> (cbwErr = 1))
<1>2. TypeInv /\ CaseInv /\ [Next]_vars => [Own]_vars BY <1>1
<1>3. CaseIsOwn <=> [][Own]_vars BY DEF CaseIsOwn
<1> HIDE DEF Own
<1> QED BY <1>2, <1>3, TypeHolds, CaseHolds, PTL DEF Spec

----------------------------------------------------------------------------
(* What lies in an endpoint is for the command its host waits for.  The    *)
(* invariant follows a command from the flag to its CSW.                   *)

(* A thread that has something to send yet; a host that is to get it.      *)
Writing == {"data", "stall", "go"}
Waiting == {"wait", "confused"}

(* Where the deferred call is in its work for a drive.                     *)
Dpc(d) == IF thr[0].drive = d /\ thr[0].pc \in {"picked"} \cup Working THEN thr[0].pc ELSE "idle"

(* At any time: a server works for its own drive, the CSW it will send has *)
(* the tag of its packet, and the transport has the host's command.        *)
Owned(d) ==
  /\ thr[d].pc # "off" => thr[d].drive = d
  /\ thr[d].pc \in Writing => kbuf[Buffer(d)].tag = thr[d].pkt.tag /\ thr[d].csw.kind = "csw"
  /\ thr[d].pc \in {"stall", "go"} => thr[d].csw.tag = thr[d].pkt.tag /\ thr[d].csw.residue
  /\ Dpc(d) \in Writing => thr[0].csw.kind = "csw"
  /\ Dpc(d) \in {"stall", "go"} => thr[0].csw.residue
  /\ host[d].pc \in {"out"} \cup Waiting =>
       bot[d].tag = host[d].tag /\ bot[d].op = host[d].op /\ host[d].status = "failed"

(* While the host waits for nothing, nothing of a command is left, except  *)
(* for threads that a reset is about to send home.                         *)
Quiet(d) == host[d].pc \notin Waiting =>
  /\ ep[d].fifo.kind = "none" /\ ~ep[d].rest /\ bot[d].lastSeq = 0
  /\ bot[d].flag => old[d]
  /\ Dpc(d) \notin {"picked", "stall", "go"} /\ thr[d].pc \notin {"stall", "go"}
  /\ Dpc(d) = "data" => host[d].pc = "off" /\ ~thr[0].csw.residue
  /\ thr[d].pc = "data" => host[d].pc = "off" /\ ~thr[d].csw.residue
  /\ host[d].pc = "off" => ep[d].ready
  /\ host[d].pc = "out" => host[d].got = <<>>

(* The command is the deferred call's, or with the server, and nothing has *)
(* been sent for it.                                                       *)
Untouched(d) ==
  /\ host[d].pc = "wait" /\ host[d].got = <<>>
  /\ ep[d].fifo.kind = "none" /\ thr[d].pc \notin Writing
Outstanding(d) == bot[d].lastSeq # 0 /\ ~Refused(d)

(* A command the host waits for is in one place: the flag, the hands of    *)
(* the deferred call, the packet of the server, or the server that answers *)
(* it; and what is in the endpoint is about it.                            *)
Placed(d) == host[d].pc \in Waiting =>
  /\ bot[d].flag => Untouched(d) /\ bot[d].lastSeq = 0 /\ ~old[d] /\ Dpc(d) \notin Writing \cup {"picked"}
  /\ Dpc(d) = "picked" => Untouched(d) /\ bot[d].lastSeq = 0
  /\ Dpc(d) \in Writing =>
       /\ thr[d].pc \notin Writing /\ ~Outstanding(d) /\ ep[d].fifo.kind # "csw"
       /\ Dpc(d) = "data" => host[d].op = "local" /\ bot[d].lastSeq = 0
       /\ Dpc(d) # "data" => /\ thr[0].csw.tag = host[d].tag
                             /\ bot[d].lastSeq # 0 => thr[0].csw.status = "phase"
  /\ Outstanding(d) =>
       /\ Untouched(d) /\ Dpc(d) = "idle"
       /\ iusb[d].pkt.tag = host[d].tag /\ iusb[d].pkt.op = host[d].op
  /\ thr[d].pc \in Writing =>
       /\ bot[d].lastSeq = 0 /\ Dpc(d) = "idle" /\ ep[d].fifo.kind # "csw"
       /\ thr[d].pkt.tag = host[d].tag
InFifo(d) == host[d].pc \in Waiting =>
  /\ ep[d].fifo.kind # "none" => ep[d].fifo.tag = host[d].tag
  /\ ep[d].fifo.kind # "none" /\ bot[d].lastSeq # 0 =>
       ep[d].fifo.kind = "csw" /\ ep[d].fifo.status = "phase"
  /\ ep[d].rest => thr[d].pc = "data" /\ ~ep[d].ready /\ ep[d].fifo.kind = "data"
(* A server does not work on a command that was refused.                   *)
NotRefused(d) == thr[d].pc = "busy" /\ thr[d].pkt.seq = iusb[d].pkt.seq => ~Refused(d)

(* How far a read has come.                                                *)
ReadSoFar(d) ==
  LET h == host[d]
      e == ep[d]
      own == Data(h.tag)
  IN
  /\ h.op = "read" /\ h.status = "passed" /\ ~h.residue => h.got = <<h.tag, h.tag>>
  /\ h.pc = "wait" /\ h.op = "read" =>
       /\ thr[d].pc = "data" =>
            \/ e.rest /\ ~e.ready /\ e.fifo = own /\ h.got = <<>>
            \/ ~e.rest /\ ~e.ready /\ e.fifo = own /\ h.got = <<h.tag>>
            \/ ~e.rest /\ e.ready /\ e.fifo.kind = "none" /\ h.got = <<h.tag, h.tag>>
       /\ e.fifo.kind = "csw" /\ e.fifo.status = "passed" /\ ~e.fifo.residue =>
            h.got = <<h.tag, h.tag>>

Healthy(d) == Quiet(d) /\ Placed(d) /\ InFifo(d) /\ NotRefused(d) /\ ReadSoFar(d)
AwaitInv == \A d \in Drive : Owned(d) /\ (~stray[d] => Healthy(d))

----------------------------------------------------------------------------
(* What sending leaves in the endpoint.                                    *)

SamePacket(d) ==
  ep'[d].fifo = ep[d].fifo /\ ep'[d].ready = ep[d].ready /\ ep'[d].rest = ep[d].rest
Stalls(t, d, csw) == thr'[t].pc = "stall" /\ thr'[t].csw = csw /\ SamePacket(d)
PutsCSW(t, d, csw) ==
  \/ /\ ep[d].cfg /\ thr'[t].pc = "csw"
     /\ ep'[d].fifo = csw /\ ~ep'[d].ready /\ ~ep'[d].rest
  \/ /\ ~ep[d].cfg /\ thr'[t].pc = (IF t = 0 THEN "visit" ELSE "idle")
     /\ (t # 0 => thr'[t].drive = thr[t].drive) /\ SamePacket(d)
PutsData(t, d, csw, source, rest) ==
  /\ thr'[t].pc = "data" /\ thr'[t].csw = csw
  /\ ep'[d].fifo = Data(source) /\ ~ep'[d].ready /\ (ep'[d].rest <=> rest)
OtherEps(d) == \A e \in Drive : e # d => ep'[e] = ep[e]

(* Writing puts the packet where the one before it was.                    *)
LEMMA WrittenFields ==
  ASSUME NEW e \in EpRec, e.cfg, NEW p \in Sent, NEW r \in BOOLEAN
  PROVE  /\ Written(e, p, r).fifo = p /\ ~Written(e, p, r).ready /\ (Written(e, p, r).rest <=> r)
         /\ Written(e, p, r) \in EpRec
BY DEF Written, EpRec

(* The CSW is in the endpoint, or was left out (WriteCSW).                 *)
LEMMA WriteCSWPuts ==
  ASSUME TypeInv, NEW t \in Thread, NEW d \in Drive, NEW csw \in Sent, WriteCSW(t, d, csw)
  PROVE  PutsCSW(t, d, csw) /\ OtherEps(d)
<1>1. ep \in [Drive -> EpRec] /\ ep[d] \in EpRec /\ thr \in [Thread -> ThrRec] /\ thr[t] \in ThrRec
  BY DEF TypeInv, EpInv, ThrInv
<1>2. ep' = [ep EXCEPT ![d] = Written(ep[d], csw, FALSE)] BY DEF WriteCSW
<1>3. ep'[d] = Written(ep[d], csw, FALSE) /\ OtherEps(d) BY <1>1, <1>2 DEF OtherEps
<1>4. CASE ep[d].cfg
  <2>1. ep'[d].fifo = csw /\ ~ep'[d].ready /\ ~ep'[d].rest
    BY <1>1, <1>3, <1>4 DEF Written, EpRec
  <2>2. thr'[t].pc = "csw" BY <1>1, <1>4 DEF WriteCSW, ThrRec
  <2> QED BY <2>1, <2>2, <1>3, <1>4 DEF PutsCSW
<1>5. CASE ~ep[d].cfg
  <2>1. ep'[d] = ep[d] BY <1>3, <1>5 DEF Written
  <2>2. thr' = [thr EXCEPT ![t] = Returned(t)] BY <1>5 DEF WriteCSW
  <2>3. thr'[t] = Returned(t) BY <2>2, <1>1
  <2>4. /\ Returned(t).pc = (IF t = 0 THEN "visit" ELSE "idle")
        /\ t # 0 => Returned(t).drive = thr[t].drive
    BY <1>1 DEF Returned, ThrRec
  <2> QED BY <2>1, <2>3, <2>4, <1>3, <1>5 DEF PutsCSW, SamePacket
<1> QED BY <1>4, <1>5

(* With a residue a thread waits for the STALL, else it writes the CSW     *)
(* (BotSendCSW).                                                           *)
LEMMA SendCSWPuts ==
  ASSUME TypeInv, NEW t \in Thread, NEW d \in Drive, NEW csw \in Sent, NEW b,
         BotSendCSW(t, d, b, csw)
  PROVE  /\ OtherEps(d)
         /\ \/ csw.residue /\ Stalls(t, d, csw)
            \/ ~csw.residue /\ PutsCSW(t, d, csw)
<1>1. ep \in [Drive -> EpRec] /\ ep[d] \in EpRec /\ thr \in [Thread -> ThrRec] /\ thr[t] \in ThrRec
  BY DEF TypeInv, EpInv, ThrInv
<1>2. CASE csw.residue
  <2>1. ep' = [ep EXCEPT ![d] = [ep[d] EXCEPT !.stalled = TRUE]] BY <1>2 DEF BotSendCSW
  <2>2. SamePacket(d) /\ OtherEps(d) BY <2>1, <1>1 DEF SamePacket, OtherEps, EpRec
  <2> DEFINE r == [thr[t] EXCEPT !.pc = "stall", !.drive = d, !.csw = csw]
  <2>3. thr' = [thr EXCEPT ![t] = r] BY <1>2 DEF BotSendCSW
  <2>4. r.pc = "stall" /\ r.csw = csw BY <1>1 DEF ThrRec
  <2> HIDE DEF r
  <2>5. thr'[t] = r BY <2>3, <1>1
  <2> QED BY <2>2, <2>4, <2>5, <1>2 DEF Stalls
<1>3. CASE ~csw.residue
  <2>1. WriteCSW(t, d, csw) BY <1>3 DEF BotSendCSW
  <2> QED BY <2>1, <1>3, WriteCSWPuts
<1> QED BY <1>2, <1>3

(* Data to a configured endpoint (SendData).                               *)
LEMMA SendDataPuts ==
  ASSUME TypeInv, NEW t \in Thread, NEW d \in Drive, NEW csw \in Sent, NEW b,
         NEW source \in Tag, NEW rest \in BOOLEAN, ep[d].cfg,
         SendData(t, d, b, csw, source, rest)
  PROVE  OtherEps(d) /\ PutsData(t, d, csw, source, rest)
<1>1. ep \in [Drive -> EpRec] /\ ep[d] \in EpRec /\ thr \in [Thread -> ThrRec] /\ thr[t] \in ThrRec
  BY DEF TypeInv, EpInv, ThrInv
<1>2. Data(source) \in Sent BY SentTypes
<1>3. ep' = [ep EXCEPT ![d] = Written(ep[d], Data(source), rest)] BY DEF SendData
<1>4. ep'[d] = Written(ep[d], Data(source), rest) /\ OtherEps(d) BY <1>1, <1>3 DEF OtherEps
<1>5. ep'[d].fifo = Data(source) /\ ~ep'[d].ready /\ (ep'[d].rest <=> rest)
  BY <1>1, <1>2, <1>4, WrittenFields
<1> DEFINE r == [thr[t] EXCEPT !.pc = "data", !.drive = d, !.csw = csw]
<1>6. thr' = [thr EXCEPT ![t] = r] BY DEF SendData
<1>7. r.pc = "data" /\ r.csw = csw BY <1>1 DEF ThrRec
<1> HIDE DEF r
<1>8. thr'[t] = r BY <1>6, <1>1
<1> QED BY <1>4, <1>5, <1>7, <1>8 DEF PutsData

(* A step that is not about drive d: at most the deferred call is done     *)
(* with it, or its server goes from one place where it sends nothing to    *)
(* another.                                                                *)
Aside(d) ==
  /\ host'[d] = host[d] /\ iusb'[d].pkt = iusb[d].pkt
  /\ ep'[d].fifo = ep[d].fifo /\ (ep'[d].rest <=> ep[d].rest)
  /\ (ep'[d].ready <=> ep[d].ready) \/ (ep'[d].ready /\ (stray[d] \/ thr[d].pc # "data"))
  /\ bot'[d].tag = bot[d].tag /\ bot'[d].op = bot[d].op
  /\ bot'[d].lastSeq = bot[d].lastSeq /\ (bot'[d].flag <=> bot[d].flag)
  /\ \/ thr'[d] = thr[d] /\ kbuf'[Buffer(d)] = kbuf[Buffer(d)]
     \/ /\ thr[d].pc \notin Writing /\ thr'[d].pc \notin Writing
        /\ thr'[d].pc # "off" => thr'[d].drive = d
        /\ ~stray'[d] => NotRefused(d)'
  /\ Dpc(d)' = "idle" \/ (Dpc(d)' = Dpc(d) /\ thr'[0].csw = thr[0].csw)
  /\ (old'[d] <=> old[d]) /\ (stray[d] => stray'[d])

(* Such a step keeps what is known of the drive.                         *)
LEMMA AsideKeeps ==
  ASSUME NEW d \in Drive, Owned(d), ~stray[d] => Healthy(d), Aside(d)
  PROVE  Owned(d)' /\ (~stray'[d] => Healthy(d)')
<1>1. Owned(d)' BY DEF Owned, Aside, Writing
<1>2. ASSUME ~stray'[d] PROVE Healthy(d)'
  <2>1. ~stray[d] /\ Healthy(d) BY <1>2 DEF Aside
  <2>2. Quiet(d)' BY <2>1 DEF Healthy, Quiet, Aside, Writing
  <2>3. Untouched(d)' <=> Untouched(d) BY DEF Untouched, Aside
  <2>4. Outstanding(d)' <=> Outstanding(d) BY DEF Outstanding, Refused, Aside
  <2>5. Placed(d)' BY <2>1, <2>3, <2>4 DEF Healthy, Placed, Aside, Writing
  <2>6. InFifo(d)' BY <2>1 DEF Healthy, InFifo, Aside, Writing
  <2>7. NotRefused(d)' BY <1>2, <2>1 DEF Healthy, NotRefused, Refused, Aside
  <2>8. ReadSoFar(d)' BY <2>1 DEF Healthy, ReadSoFar, Aside, Writing
  <2> QED BY <2>2, <2>5, <2>6, <2>7, <2>8 DEF Healthy
<1> QED BY <1>1, <1>2

(* Two drives have two reply buffers.                                      *)
LEMMA BuffersApart ==
  ASSUME NEW d \in Drive, NEW e \in Drive, d # e PROVE Buffer(d) # Buffer(e)
BY MediaAssumption DEF Buffer

(* A thread that sends for one drive is no concern of the others.          *)
LEMMA SenderAside ==
  ASSUME TypeInv, NEW t \in Thread, NEW d \in Drive, t = 0 \/ t = d, t = 0 => thr[0].drive = d,
         NEW b \in BotRec, Sends(t, d, b), seqNo' \in Nat, seqNo <= seqNo', b.lastSeq <= seqNo',
         OtherEps(d), UNCHANGED <<host, old, stray>>,
         NEW e \in Drive, e # d, iusb'[e].pkt = iusb[e].pkt, kbuf'[Buffer(e)] = kbuf[Buffer(e)]
  PROVE  Aside(e)
<1>1. /\ bot'[e].tag = bot[e].tag /\ bot'[e].op = bot[e].op
      /\ bot'[e].lastSeq = bot[e].lastSeq /\ bot'[e].flag = bot[e].flag
  BY SendsBot
<1>2. ep'[e] = ep[e] BY DEF OtherEps
<1>3. e \in Thread /\ e # 0 /\ 0 \in Thread BY Constants
<1>4. thr'[e] = thr[e] BY <1>3 DEF Sends
<1>5. Dpc(e)' = "idle" \/ (Dpc(e)' = Dpc(e) /\ thr'[0].csw = thr[0].csw)
  <2>1. CASE t = 0 BY <2>1 DEF Sends, Dpc, Working
  <2>2. CASE t # 0
    <3>1. thr'[0] = thr[0] BY <2>2, <1>3 DEF Sends
    <3> QED BY <3>1 DEF Dpc
  <2> QED BY <2>1, <2>2
<1> QED BY <1>1, <1>2, <1>4, <1>5 DEF Aside

(* What a thread that goes on sending does.                                *)
Continues(t, d) ==
  LET c == [thr[t].csw EXCEPT !.tag = TagNow(t, d)] IN
  \/ /\ thr[t].pc = "data" /\ ep[d].ready
     /\ (c.residue /\ Stalls(t, d, c)) \/ (~c.residue /\ PutsCSW(t, d, c))
  \/ thr[t].pc \in {"stall", "go"} /\ PutsCSW(t, d, thr[t].csw)
  \/ /\ thr[t].pc = "data" /\ ~ep[d].ready /\ thr'[t].pc = "stall"
     /\ thr'[t].csw = CSW(TagNow(t, d), IF t = 0 THEN "failed" ELSE "passed", TRUE)
     /\ ep'[d].fifo = ep[d].fifo /\ ep'[d].ready /\ ~ep'[d].rest
  \/ /\ thr[t].pc = "csw" /\ thr'[t].pc = (IF t = 0 THEN "visit" ELSE "idle")
     /\ thr'[t].drive = (IF t = 0 THEN d + 1 ELSE d)
     /\ ep'[d].fifo = ep[d].fifo /\ (ep'[d].rest <=> ep[d].rest)
     /\ ep'[d].ready

(* So do the steps of Transmit.                                          *)
LEMMA TransmitContinues ==
  ASSUME TypeInv, NEW t \in Thread, Transmit(t), NEW d, d = thr[t].drive
  PROVE  OtherEps(d) /\ Continues(t, d)
<1>1. /\ d \in Drive BY TransmitSends
<1>2. /\ ep \in [Drive -> EpRec] /\ ep[d] \in EpRec /\ thr \in [Thread -> ThrRec] /\ thr[t] \in ThrRec
      /\ thr[t].csw \in Sent /\ TagNow(t, d) \in Tag
  BY <1>1, TagNowType DEF TypeInv, EpInv, ThrInv, ThrRec
<1> DEFINE c == [thr[t].csw EXCEPT !.tag = TagNow(t, d)]
<1>3. c \in Sent BY <1>2 DEF Sent
<1>4. CASE DataSent(t)
  <2>1. BotSendCSW(t, d, bot[d], c) /\ thr[t].pc = "data" /\ ep[d].ready BY <1>4 DEF DataSent
  <2> HIDE DEF c
  <2>2. OtherEps(d) /\ ((c.residue /\ Stalls(t, d, c)) \/ (~c.residue /\ PutsCSW(t, d, c)))
    BY <2>1, <1>1, <1>3, SendCSWPuts
  <2> QED BY <2>1, <2>2 DEF Continues, c
<1>5. CASE Unstalled(t) \/ StallTimeout(t)
  <2>1. WriteCSW(t, d, thr[t].csw) /\ thr[t].pc \in {"stall", "go"}
    BY <1>5 DEF Unstalled, StallTimeout, EndStall
  <2> QED BY <2>1, <1>1, <1>2, WriteCSWPuts DEF Continues
<1>6. CASE DataTimeout(t)
  <2> DEFINE x == CSW(TagNow(t, d), IF t = 0 THEN "failed" ELSE "passed", TRUE)
             r == [thr[t] EXCEPT !.pc = "stall", !.csw = x]
             e1 == [ep[d] EXCEPT !.rest = FALSE, !.ready = TRUE, !.stalled = TRUE]
  <2>1. thr[t].pc = "data" /\ ~ep[d].ready /\ thr' = [thr EXCEPT ![t] = r]
        /\ ep' = [ep EXCEPT ![d] = e1]
    BY <1>6 DEF DataTimeout
  <2>2. e1.fifo = ep[d].fifo /\ e1.ready /\ ~e1.rest BY <1>2 DEF EpRec
  <2>3. r.pc = "stall" /\ r.csw = x
    <3> HIDE DEF x
    <3> QED BY <1>2 DEF ThrRec
  <2> HIDE DEF r, e1, x
  <2>4. thr'[t] = r /\ ep'[d] = e1 /\ OtherEps(d) BY <2>1, <1>1, <1>2 DEF OtherEps
  <2> QED BY <2>1, <2>2, <2>3, <2>4 DEF Continues, x
<1>7. CASE CSWSent(t) \/ CSWTimeout(t)
  <2>1. thr[t].pc = "csw" /\ thr' = [thr EXCEPT ![t] = Returned(t)]
    BY <1>7 DEF CSWSent, CSWTimeout
  <2>2. OtherEps(d) /\ ep'[d].fifo = ep[d].fifo /\ (ep'[d].rest <=> ep[d].rest) /\ ep'[d].ready
    <3>1. CASE CSWSent(t) BY <3>1 DEF CSWSent, OtherEps
    <3>2. CASE CSWTimeout(t)
      BY <3>2, <1>1, <1>2 DEF CSWTimeout, OtherEps, EpRec
    <3> QED BY <3>1, <3>2, <1>7
  <2>3. thr'[t] = Returned(t) BY <2>1, <1>2
  <2>4. Returned(t).pc = (IF t = 0 THEN "visit" ELSE "idle")
        /\ Returned(t).drive = (IF t = 0 THEN d + 1 ELSE d)
    BY <1>2 DEF Returned, ThrRec
  <2> QED BY <2>1, <2>2, <2>3, <2>4 DEF Continues
<1> QED BY <1>4, <1>5, <1>6, <1>7 DEF Transmit

SameHost(d) ==
  /\ host'[d] = host[d] /\ iusb'[d].pkt = iusb[d].pkt /\ kbuf'[Buffer(d)] = kbuf[Buffer(d)]
  /\ bot'[d].tag = bot[d].tag /\ bot'[d].op = bot[d].op
  /\ bot'[d].lastSeq = bot[d].lastSeq /\ (bot'[d].flag <=> bot[d].flag)
  /\ (old'[d] <=> old[d]) /\ (stray'[d] <=> stray[d])

(* Where the CSW goes: nowhere after a reset, else into the endpoint.      *)
LEMMA DpcPutsCSW ==
  ASSUME CommandInv, NEW d \in Drive, Owned(d), ~stray[d] => Healthy(d), SameHost(d),
         thr'[d] = thr[d], thr[0].drive = d, thr[0].pc \in Writing,
         NEW csw, csw.kind = "csw", PutsCSW(0, d, csw), thr'[0].pc = "csw" => thr'[0].drive = d,
         ~stray[d] /\ host[d].pc \in Waiting =>
           /\ csw.tag = host[d].tag
           /\ bot[d].lastSeq # 0 => csw.status = "phase"
           /\ host[d].op = "read" => csw.residue
         PROVE  Owned(d)' /\ (~stray'[d] => Healthy(d)')
<1>1. Dpc(d) = thr[0].pc BY DEF Dpc, Writing, Working
<1>2. CASE ~ep[d].cfg /\ thr'[0].pc = "visit" /\ SamePacket(d)
  <2>1. Dpc(d)' = "idle" BY <1>2 DEF Dpc, Working
  <2>2. Aside(d) BY <1>2, <2>1 DEF Aside, SameHost, SamePacket
  <2> QED BY <2>2, AsideKeeps
<1>3. CASE /\ ep[d].cfg /\ thr'[0].pc = "csw"
           /\ ep'[d].fifo = csw /\ ~ep'[d].ready /\ ~ep'[d].rest
  <2>1. Dpc(d)' = "csw" BY <1>3 DEF Dpc, Working
  <2>2. Owned(d)' BY <2>1 DEF Owned, SameHost, Writing
  <2>3. ASSUME ~stray'[d] PROVE Healthy(d)'
    <3>1. ~stray[d] /\ Healthy(d) BY <2>3 DEF SameHost
    <3>2. host[d].pc \in Waiting
      BY <3>1, <1>1, <1>3 DEF Healthy, Quiet, Writing, CommandInv, CfgInv
    <3>3. /\ thr[d].pc \notin Writing /\ ~Outstanding(d) /\ ~bot[d].flag
      BY <3>1, <3>2, <1>1 DEF Healthy, Placed, Writing
    <3>4. Outstanding(d)' <=> Outstanding(d) BY DEF Outstanding, Refused, SameHost
    <3>5. Quiet(d)' BY <3>2 DEF Quiet, SameHost
    <3>6. Placed(d)' BY <3>3, <3>4, <2>1 DEF Placed, SameHost, Writing
    <3>7. InFifo(d)' BY <3>1, <3>2, <1>3 DEF InFifo, SameHost
    <3>8. NotRefused(d)' BY <3>1 DEF Healthy, NotRefused, Refused, SameHost
    <3>9. ReadSoFar(d)' BY <3>1, <3>2, <3>3, <1>3 DEF Healthy, ReadSoFar, SameHost, Writing
    <3> QED BY <3>5, <3>6, <3>7, <3>8, <3>9 DEF Healthy
  <2> QED BY <2>2, <2>3
<1> QED BY <1>2, <1>3 DEF PutsCSW

(* Where it waits for the STALL first.                                     *)
LEMMA DpcStalls ==
  ASSUME NEW d \in Drive, Owned(d), ~stray[d] => Healthy(d), SameHost(d),
         thr'[d] = thr[d], thr[0].drive = d, thr[0].pc \in {"data"},
         thr'[0].pc = "stall", thr'[0].drive = d,
         thr'[0].csw.kind = "csw", thr'[0].csw.residue, thr'[0].csw.tag = bot[d].tag,
         ep'[d].fifo = ep[d].fifo, ep'[d].rest => ep[d].rest,
         ~stray[d] => host[d].pc \in Waiting
  PROVE  Owned(d)' /\ (~stray'[d] => Healthy(d)')
<1>1. Dpc(d) = "data" /\ Dpc(d)' = "stall" BY DEF Dpc, Working
<1>2. Owned(d)' BY <1>1 DEF Owned, SameHost, Writing
<1>3. ASSUME ~stray'[d] PROVE Healthy(d)'
  <2>1. ~stray[d] /\ Healthy(d) /\ host[d].pc \in Waiting BY <1>3 DEF SameHost
  <2>2. /\ thr[d].pc \notin Writing /\ ~Outstanding(d) /\ ~bot[d].flag
        /\ bot[d].lastSeq = 0 /\ host[d].op = "local" /\ ep[d].fifo.kind # "csw"
    BY <2>1, <1>1 DEF Healthy, Placed, Writing
  <2>3. Outstanding(d)' <=> Outstanding(d) BY DEF Outstanding, Refused, SameHost
  <2>4. bot[d].tag = host[d].tag BY <2>1 DEF Owned
  <2>5. Quiet(d)' BY <2>1 DEF Quiet, SameHost
  <2>6. Placed(d)' BY <2>2, <2>3, <2>4, <1>1 DEF Placed, SameHost, Writing
  <2>7. InFifo(d)' BY <2>1, <2>2 DEF Healthy, InFifo, SameHost, Writing
  <2>8. NotRefused(d)' BY <2>1 DEF Healthy, NotRefused, Refused, SameHost
  <2>9. ReadSoFar(d)' BY <2>1, <2>2 DEF Healthy, ReadSoFar, SameHost
  <2> QED BY <2>5, <2>6, <2>7, <2>8, <2>9 DEF Healthy
<1> QED BY <1>2, <1>3

(* The same for a server.                                                  *)
LEMMA ServerPutsCSW ==
  ASSUME CommandInv, NEW d \in Drive, Owned(d), ~stray[d] => Healthy(d), SameHost(d), d # 0,
         thr'[0] = thr[0], thr[d].pc \in Writing, thr'[d].pkt = thr[d].pkt,
         thr'[d].pc = "csw" => thr'[d].drive = d,
         NEW csw, csw.kind = "csw", csw.tag = thr[d].pkt.tag, PutsCSW(d, d, csw),
         ~stray[d] /\ host[d].pc = "wait" /\ host[d].op = "read" =>
           csw.residue \/ host[d].got = <<host[d].tag, host[d].tag>>
  PROVE  Owned(d)' /\ (~stray'[d] => Healthy(d)')
<1>1. Dpc(d)' = Dpc(d) BY DEF Dpc
<1>2. CASE ~ep[d].cfg /\ thr'[d].pc = "idle" /\ thr'[d].drive = thr[d].drive /\ SamePacket(d)
  <2>1. Owned(d)' BY <1>1, <1>2 DEF Owned, SameHost, Writing
  <2>2. ASSUME ~stray'[d] PROVE Healthy(d)'
    <3>1. ~stray[d] /\ Healthy(d) BY <2>2 DEF SameHost
    <3>2. host[d].pc = "off" BY <1>2 DEF CommandInv, CfgInv
    <3>3. Quiet(d)' BY <3>1, <3>2, <1>1, <1>2 DEF Healthy, Quiet, SameHost, SamePacket
    <3>4. Placed(d)' /\ InFifo(d)' BY <3>2 DEF Placed, InFifo, SameHost, Waiting
    <3>5. NotRefused(d)' BY <1>2 DEF NotRefused
    <3>6. ReadSoFar(d)' BY <3>1, <3>2 DEF Healthy, ReadSoFar, SameHost
    <3> QED BY <3>3, <3>4, <3>5, <3>6 DEF Healthy
  <2> QED BY <2>1, <2>2
<1>3. CASE /\ ep[d].cfg /\ thr'[d].pc = "csw"
           /\ ep'[d].fifo = csw /\ ~ep'[d].ready /\ ~ep'[d].rest
  <2>1. Owned(d)' BY <1>1, <1>3 DEF Owned, SameHost, Writing
  <2>2. ASSUME ~stray'[d] PROVE Healthy(d)'
    <3>1. ~stray[d] /\ Healthy(d) BY <2>2 DEF SameHost
    <3>2. host[d].pc \in Waiting
      BY <3>1, <1>3 DEF Healthy, Quiet, Writing, CommandInv, CfgInv
    <3>3. /\ ~bot[d].flag /\ bot[d].lastSeq = 0 /\ Dpc(d) = "idle"
          /\ thr[d].pkt.tag = host[d].tag
      BY <3>1, <3>2 DEF Healthy, Placed, Untouched
    <3>4. ~Outstanding(d)' BY <3>3 DEF Outstanding, SameHost
    <3>5. Quiet(d)' BY <3>2 DEF Quiet, SameHost
    <3>6. Placed(d)' BY <3>3, <3>4, <1>1, <1>3 DEF Placed, SameHost, Writing
    <3>7. InFifo(d)' BY <3>2, <3>3, <1>3 DEF InFifo, SameHost
    <3>8. NotRefused(d)' BY <1>3 DEF NotRefused
    <3>9. ReadSoFar(d)' BY <3>1, <1>3 DEF Healthy, ReadSoFar, SameHost
    <3> QED BY <3>5, <3>6, <3>7, <3>8, <3>9 DEF Healthy
  <2> QED BY <2>1, <2>2
<1> QED BY <1>2, <1>3 DEF PutsCSW

(* A server that waits for the STALL first.                              *)
LEMMA ServerStalls ==
  ASSUME NEW d \in Drive, Owned(d), ~stray[d] => Healthy(d), SameHost(d),
         thr'[0] = thr[0], thr[d].pc = "data", thr'[d].pkt = thr[d].pkt,
         thr'[d].pc = "stall", thr'[d].drive = d,
         thr'[d].csw.kind = "csw", thr'[d].csw.residue, thr'[d].csw.tag = thr[d].pkt.tag,
         ep'[d].fifo = ep[d].fifo, ep'[d].rest => ep[d].rest /\ ep[d].ready,
         ~stray[d] => host[d].pc \in Waiting
  PROVE  Owned(d)' /\ (~stray'[d] => Healthy(d)')
<1>1. Dpc(d)' = Dpc(d) BY DEF Dpc
<1>2. Owned(d)' BY <1>1 DEF Owned, SameHost, Writing
<1>3. ASSUME ~stray'[d] PROVE Healthy(d)'
  <2>1. ~stray[d] /\ Healthy(d) /\ host[d].pc \in Waiting BY <1>3 DEF SameHost
  <2>2. /\ ~bot[d].flag /\ bot[d].lastSeq = 0 /\ Dpc(d) = "idle"
        /\ thr[d].pkt.tag = host[d].tag /\ ep[d].fifo.kind # "csw"
    BY <2>1 DEF Healthy, Placed, Untouched, Writing
  <2>3. ~Outstanding(d)' BY <2>2 DEF Outstanding, SameHost
  <2>4. Quiet(d)' BY <2>1 DEF Quiet, SameHost
  <2>5. Placed(d)' BY <2>2, <2>3, <1>1 DEF Placed, SameHost, Writing
  <2>6. InFifo(d)' BY <2>1, <2>2 DEF Healthy, InFifo, SameHost
  <2>7. NotRefused(d)' BY DEF NotRefused
  <2>8. ReadSoFar(d)' BY <2>1, <2>2 DEF Healthy, ReadSoFar, SameHost
  <2> QED BY <2>4, <2>5, <2>6, <2>7, <2>8 DEF Healthy
<1> QED BY <1>2, <1>3

(* A thread that goes on sending keeps what lies in the endpoint the       *)
(* host's.                                                                 *)
LEMMA TransmitKeeps ==
  ASSUME TypeInv, CommandInv, AwaitInv, NEW t \in Thread, Transmit(t),
         NEW d \in Drive, d = thr[t].drive
  PROVE  AwaitInv'
<1>1. /\ thr[t].pc \in Working /\ d \in Drive /\ Sends(t, d, bot[d])
      /\ UNCHANGED <<setting, host, iusb, kbuf, cbwErr, seqNo, sem, hist>>
  BY TransmitSends
<1>2. OtherEps(d) /\ Continues(t, d) BY TransmitContinues
<1>3. t = 0 \/ t = d
  BY <1>1, Constants DEF Thread, AwaitInv, Owned, Working
<1>4. t = 0 => thr[0].drive = d OBVIOUS
<1>5. bot[d] \in BotRec /\ bot[d].lastSeq <= seqNo /\ seqNo \in Nat
  BY <1>1 DEF TypeInv, BotInv, GlobalInv
<1>6. seqNo' \in Nat /\ seqNo <= seqNo' /\ bot[d].lastSeq <= seqNo' BY <1>1, <1>5
<1>7. Owned(d) /\ (~stray[d] => Healthy(d)) BY <1>1 DEF AwaitInv
<1>8. SameHost(d) BY <1>1, <1>5, <1>6, SendsBot DEF SameHost, hist
<1>9. thr[t] \in ThrRec /\ thr[t].csw \in Sent BY DEF TypeInv, ThrInv, ThrRec
<1> DEFINE c == [thr[t].csw EXCEPT !.tag = TagNow(t, d)]
<1>10. c.kind = thr[t].csw.kind /\ c.tag = TagNow(t, d) /\ (c.residue <=> thr[t].csw.residue)
  BY <1>9 DEF Sent
<1>11. ~stray[d] /\ thr[t].pc = "data" /\ thr[t].csw.residue => host[d].pc \in Waiting
  BY <1>3, <1>4, <1>7 DEF Healthy, Quiet, Dpc, Working
<1>12. ~stray[d] /\ thr[t].pc = "data" /\ ~ep[d].ready => host[d].pc \in Waiting
  BY <1>3, <1>4, <1>7 DEF Healthy, Quiet, Dpc, Working
<1> HIDE DEF c
<1>13. ASSUME t = 0 PROVE Owned(d)' /\ (~stray'[d] => Healthy(d)')
  <2>1. thr'[d] = thr[d] /\ thr[0].drive = d
    BY <1>1, <1>4, <1>13, Constants DEF Sends
  <2>2. Dpc(d) = thr[0].pc BY <2>1, <1>1, <1>13 DEF Dpc
  <2>3. /\ thr[0].pc \in Writing => thr[0].csw.kind = "csw"
        /\ thr[0].pc \in {"stall", "go"} => thr[0].csw.residue
        /\ ~stray[d] /\ host[d].pc \in Waiting => bot[d].tag = host[d].tag
    BY <2>2, <1>7 DEF Owned
  <2>4. ~stray[d] /\ host[d].pc \in Waiting /\ thr[0].pc = "data" =>
          host[d].op = "local" /\ bot[d].lastSeq = 0
    BY <2>2, <1>7 DEF Healthy, Placed, Writing
  <2>5. ~stray[d] /\ host[d].pc \in Waiting /\ thr[0].pc \in {"stall", "go"} =>
          thr[0].csw.tag = host[d].tag /\ (bot[d].lastSeq # 0 => thr[0].csw.status = "phase")
    BY <2>2, <1>7 DEF Healthy, Placed, Writing
  <2>6. TagNow(0, d) = bot[d].tag BY DEF TagNow
  <2>7. thr'[0].pc \in {"data", "stall", "csw"} => thr'[0].drive = d
    BY <1>1, <1>13 DEF Sends
  <2>8. CASE thr[0].pc = "data" /\ ep[d].ready /\ c.residue /\ Stalls(0, d, c)
    BY <2>1, <2>3, <2>6, <2>7, <2>8, <1>1, <1>7, <1>8, <1>10, <1>11, <1>13, DpcStalls
       DEF Stalls, SamePacket, Writing
  <2>9. CASE thr[0].pc = "data" /\ ep[d].ready /\ ~c.residue /\ PutsCSW(0, d, c)
    BY <2>1, <2>3, <2>4, <2>6, <2>7, <2>9, <1>1, <1>7, <1>8, <1>10, <1>13, DpcPutsCSW
       DEF Writing
  <2>10. CASE thr[0].pc \in {"stall", "go"} /\ PutsCSW(0, d, thr[0].csw)
    BY <2>1, <2>3, <2>5, <2>7, <2>10, <1>1, <1>7, <1>8, <1>13, DpcPutsCSW DEF Writing
  <2>11. CASE /\ thr[0].pc = "data" /\ ~ep[d].ready /\ thr'[0].pc = "stall"
              /\ thr'[0].csw = CSW(TagNow(0, d), "failed", TRUE)
              /\ ep'[d].fifo = ep[d].fifo /\ ep'[d].ready /\ ~ep'[d].rest
    <3>1. thr'[0].csw.kind = "csw" /\ thr'[0].csw.residue /\ thr'[0].csw.tag = bot[d].tag
      BY <2>6, <2>11 DEF CSW
    <3> QED BY <3>1, <2>1, <2>7, <2>11, <1>1, <1>7, <1>8, <1>12, <1>13, DpcStalls
  <2>12. CASE /\ thr[0].pc = "csw" /\ thr'[0].pc = "visit"
              /\ ep'[d].fifo = ep[d].fifo /\ (ep'[d].rest <=> ep[d].rest) /\ ep'[d].ready
    <3>1. Dpc(d)' = "idle" BY <2>12 DEF Dpc, Working
    <3>2. ~stray[d] /\ ~ep[d].ready => thr[d].pc # "data"
      BY <2>2, <2>12, <1>7 DEF Healthy, Quiet, Placed, Writing
    <3>3. Aside(d) BY <3>1, <3>2, <2>1, <2>12, <1>8 DEF Aside, SameHost
    <3> QED BY <3>3, <1>1, <1>7, AsideKeeps
  <2> QED BY <2>8, <2>9, <2>10, <2>11, <2>12, <1>2, <1>13 DEF Continues, c
<1>14. ASSUME t = d, t # 0 PROVE Owned(d)' /\ (~stray'[d] => Healthy(d)')
  <2>1. thr'[0] = thr[0] /\ thr'[d].pkt = thr[d].pkt
    BY <1>1, <1>14, Constants DEF Sends
  <2>2. thr'[d].pc \in {"data", "stall", "csw"} => thr'[d].drive = d
    BY <1>1, <1>14 DEF Sends
  <2>3. thr[d].drive = d BY <1>14
  <2>4. /\ thr[d].pc \in Writing => thr[d].csw.kind = "csw" /\ TagNow(d, d) = thr[d].pkt.tag
        /\ thr[d].pc \in {"stall", "go"} => thr[d].csw.tag = thr[d].pkt.tag /\ thr[d].csw.residue
    BY <1>7, <1>14 DEF Owned, TagNow
  <2>5. CASE thr[d].pc = "data" /\ ep[d].ready /\ c.residue /\ Stalls(d, d, c)
    <3>1. c.kind = "csw" /\ c.tag = thr[d].pkt.tag BY <2>4, <2>5, <1>10, <1>14 DEF Writing
    <3>2. /\ thr'[d].pc = "stall" /\ thr'[d].csw = c /\ ep'[d].fifo = ep[d].fifo
          /\ (ep'[d].rest => ep[d].rest /\ ep[d].ready)
      BY <2>5 DEF Stalls, SamePacket
    <3>3. ~stray[d] => host[d].pc \in Waiting BY <2>5, <1>10, <1>11, <1>14
    <3>4. thr'[d].drive = d BY <2>2, <3>2
    <3> QED BY <3>1, <3>2, <3>3, <3>4, <2>1, <2>5, <1>1, <1>7, <1>8, ServerStalls
  <2>6. CASE thr[d].pc = "data" /\ ep[d].ready /\ ~c.residue /\ PutsCSW(d, d, c)
    <3>1. ~stray[d] /\ host[d].pc = "wait" /\ host[d].op = "read" =>
            host[d].got = <<host[d].tag, host[d].tag>>
      BY <2>6, <1>7 DEF Healthy, ReadSoFar
    <3> QED BY <3>1, <2>1, <2>2, <2>4, <2>6, <1>1, <1>7, <1>8, <1>10, <1>14, ServerPutsCSW
         DEF Writing
  <2>7. CASE thr[d].pc \in {"stall", "go"} /\ PutsCSW(d, d, thr[d].csw)
    BY <2>1, <2>2, <2>4, <2>7, <1>1, <1>7, <1>8, <1>14, ServerPutsCSW DEF Writing
  <2>8. CASE /\ thr[d].pc = "data" /\ ~ep[d].ready /\ thr'[d].pc = "stall"
             /\ thr'[d].csw = CSW(TagNow(d, d), "passed", TRUE)
             /\ ep'[d].fifo = ep[d].fifo /\ ep'[d].ready /\ ~ep'[d].rest
    <3>1. thr'[d].csw.kind = "csw" /\ thr'[d].csw.residue /\ thr'[d].csw.tag = thr[d].pkt.tag
      BY <2>4, <2>8 DEF CSW, Writing
    <3> QED BY <3>1, <2>1, <2>2, <2>8, <1>1, <1>7, <1>8, <1>12, <1>14, ServerStalls
  <2>9. CASE /\ thr[d].pc = "csw" /\ thr'[d].pc = "idle" /\ thr'[d].drive = d
             /\ ep'[d].fifo = ep[d].fifo /\ (ep'[d].rest <=> ep[d].rest) /\ ep'[d].ready
    <3>1. Dpc(d)' = Dpc(d) BY <2>1 DEF Dpc
    <3>2. Aside(d) BY <3>1, <2>1, <2>9, <1>8 DEF Aside, SameHost, Writing, NotRefused
    <3> QED BY <3>2, <1>1, <1>7, AsideKeeps
  <2> QED BY <2>5, <2>6, <2>7, <2>8, <2>9, <1>2, <1>14 DEF Continues, c
<1>15. ASSUME NEW e \in Drive, e # d PROVE Owned(e)' /\ (~stray'[e] => Healthy(e)')
  <2>1. UNCHANGED <<host, old, stray>> BY <1>1 DEF hist
  <2>2. Aside(e) BY <2>1, <1>1, <1>2, <1>3, <1>4, <1>5, <1>6, <1>15, SenderAside
  <2> QED BY <2>2, AsideKeeps DEF AwaitInv
<1> QED BY <1>3, <1>13, <1>14, <1>15 DEF AwaitInv

(* The deferred call has taken on a command: what becomes of it.           *)
SameButDpc(d) ==
  /\ host'[d] = host[d] /\ thr'[d] = thr[d] /\ kbuf'[Buffer(d)] = kbuf[Buffer(d)]
  /\ bot'[d].tag = bot[d].tag /\ bot'[d].op = bot[d].op /\ (bot'[d].flag <=> bot[d].flag)
  /\ (old'[d] <=> old[d]) /\ (stray'[d] <=> stray[d])
TakenOn(d) ==
  \/ /\ Dpc(d)' = "data" /\ thr'[0].csw.kind = "csw" /\ bot[d].op = "local"
     /\ ep'[d].fifo = Data(bot[d].tag) /\ ~ep'[d].rest
     /\ bot'[d].lastSeq = bot[d].lastSeq /\ iusb'[d].pkt = iusb[d].pkt
  \/ /\ Dpc(d)' = "stall" /\ thr'[0].csw.kind = "csw" /\ thr'[0].csw.residue
     /\ thr'[0].csw.tag = bot[d].tag /\ SamePacket(d)
     /\ bot'[d].lastSeq = bot[d].lastSeq /\ iusb'[d].pkt = iusb[d].pkt
  \/ /\ Dpc(d)' = "stall" /\ thr'[0].csw = CSW(bot[d].tag, "phase", TRUE) /\ SamePacket(d)
     /\ Refused(d)' /\ bot'[d].lastSeq # 0 /\ thr[d].pkt.seq # iusb'[d].pkt.seq
  \/ /\ Dpc(d)' = "idle" /\ SamePacket(d)
     /\ ~Refused(d)' /\ bot'[d].lastSeq # 0
     /\ iusb'[d].pkt.tag = bot[d].tag /\ iusb'[d].pkt.op = bot[d].op

(* In each case the command stays in one place.                          *)
LEMMA TakenOnKeeps ==
  ASSUME NEW d \in Drive, Owned(d), ~stray[d] => Healthy(d), Dpc(d) = "picked",
         SameButDpc(d), TakenOn(d)
  PROVE  Owned(d)' /\ (~stray'[d] => Healthy(d)')
<1>1. Owned(d)' BY DEF Owned, SameButDpc, TakenOn, Writing, CSW
<1>2. ASSUME ~stray'[d] PROVE Healthy(d)'
  <2>1. ~stray[d] /\ Healthy(d) BY <1>2 DEF SameButDpc
  <2>2. host[d].pc \in Waiting BY <2>1 DEF Healthy, Quiet
  <2>3. /\ host[d].pc = "wait" /\ host[d].got = <<>> /\ ep[d].fifo.kind = "none"
        /\ thr[d].pc \notin Writing /\ bot[d].lastSeq = 0 /\ ~bot[d].flag
    BY <2>1, <2>2 DEF Healthy, Placed, Untouched
  <2>4. ~ep[d].rest BY <2>1, <2>2, <2>3 DEF Healthy, InFifo, Writing
  <2>5. /\ bot[d].tag = host[d].tag /\ bot[d].op = host[d].op /\ host[d].status = "failed"
    BY <2>2 DEF Owned
  <2>6. thr[d].pc # "data" BY <2>3 DEF Writing
  <2>7. Quiet(d)' BY <2>2 DEF Quiet, SameButDpc
  <2>8. CASE /\ Dpc(d)' = "data" /\ bot[d].op = "local"
             /\ ep'[d].fifo = Data(bot[d].tag) /\ ~ep'[d].rest
             /\ bot'[d].lastSeq = bot[d].lastSeq /\ iusb'[d].pkt = iusb[d].pkt
    <3>1. ep'[d].fifo.kind = "data" /\ ep'[d].fifo.tag = host[d].tag
      BY <2>5, <2>8 DEF Data, Nothing
    <3>2. ~Outstanding(d)' BY <2>3, <2>8 DEF Outstanding
    <3>3. Placed(d)' BY <2>3, <2>5, <2>8, <3>1, <3>2 DEF Placed, SameButDpc, Writing
    <3>4. InFifo(d)' BY <2>3, <2>8, <3>1 DEF InFifo, SameButDpc
    <3>5. NotRefused(d)' BY <2>1, <2>8 DEF Healthy, NotRefused, Refused, SameButDpc
    <3>6. ReadSoFar(d)' BY <2>5, <2>8 DEF ReadSoFar, SameButDpc
    <3> QED BY <2>7, <3>3, <3>4, <3>5, <3>6 DEF Healthy
  <2>9. CASE /\ Dpc(d)' = "stall" /\ thr'[0].csw.tag = bot[d].tag /\ SamePacket(d)
             /\ bot'[d].lastSeq = bot[d].lastSeq /\ iusb'[d].pkt = iusb[d].pkt
    <3>2. ~Outstanding(d)' BY <2>3, <2>9 DEF Outstanding
    <3>3. Placed(d)' BY <2>3, <2>5, <2>9, <3>2 DEF Placed, SameButDpc, SamePacket, Writing
    <3>4. InFifo(d)' BY <2>3, <2>4, <2>9 DEF InFifo, SamePacket
    <3>5. NotRefused(d)' BY <2>1, <2>9 DEF Healthy, NotRefused, Refused, SameButDpc
    <3>6. ReadSoFar(d)' BY <2>3, <2>5, <2>6, <2>9 DEF ReadSoFar, SameButDpc, SamePacket
    <3> QED BY <2>7, <3>3, <3>4, <3>5, <3>6 DEF Healthy
  <2>10. CASE /\ Dpc(d)' = "stall" /\ thr'[0].csw = CSW(bot[d].tag, "phase", TRUE) /\ SamePacket(d)
              /\ Refused(d)' /\ thr[d].pkt.seq # iusb'[d].pkt.seq
    <3>1. thr'[0].csw.tag = host[d].tag /\ thr'[0].csw.status = "phase"
      BY <2>5, <2>10 DEF CSW
    <3>2. ~Outstanding(d)' BY <2>10 DEF Outstanding
    <3>3. Placed(d)' BY <2>3, <2>10, <3>1, <3>2 DEF Placed, SameButDpc, SamePacket, Writing
    <3>4. InFifo(d)' BY <2>3, <2>4, <2>10 DEF InFifo, SamePacket
    <3>5. NotRefused(d)' BY <2>10 DEF NotRefused, SameButDpc
    <3>6. ReadSoFar(d)' BY <2>3, <2>5, <2>6, <2>10 DEF ReadSoFar, SameButDpc, SamePacket
    <3> QED BY <2>7, <3>3, <3>4, <3>5, <3>6 DEF Healthy
  <2>11. CASE /\ Dpc(d)' = "idle" /\ SamePacket(d) /\ ~Refused(d)'
              /\ iusb'[d].pkt.tag = bot[d].tag /\ iusb'[d].pkt.op = bot[d].op
    <3>1. Untouched(d)' BY <2>3, <2>11 DEF Untouched, SameButDpc, SamePacket
    <3>3. Placed(d)' BY <2>3, <2>5, <2>11, <3>1 DEF Placed, SameButDpc, SamePacket, Writing
    <3>4. InFifo(d)' BY <2>3, <2>4, <2>11 DEF InFifo, SamePacket
    <3>5. NotRefused(d)' BY <2>11 DEF NotRefused
    <3>6. ReadSoFar(d)' BY <2>3, <2>5, <2>6, <2>11 DEF ReadSoFar, SameButDpc, SamePacket
    <3> QED BY <2>7, <3>3, <3>4, <3>5, <3>6 DEF Healthy
  <2> QED BY <2>8, <2>9, <2>10, <2>11 DEF TakenOn
<1> QED BY <1>1, <1>2

(* BotProcessHandler answers the command, refuses it, or hands it over.    *)
LEMMA ProcessTakesOn ==
  ASSUME TypeInv, CaseInv, DpcProcess, NEW d \in Drive, d = thr[0].drive
  PROVE  Dpc(d) = "picked" /\ SameButDpc(d) /\ OtherEps(d) /\ TakenOn(d)
<1>1. /\ thr[0].pc = "picked"
      /\ UNCHANGED <<setting, host, kbuf, sem, budget, old, stray, left>>
      /\ \/ Sends(0, d, bot[d]) /\ UNCHANGED <<iusb, cbwErr, seqNo, crossed>>
         \/ Sends(0, d, [bot[d] EXCEPT !.lastSeq = seqNo + 1]) /\ Form(d)
  BY DpcProcessSends
<1>2. /\ thr \in [Thread -> ThrRec] /\ bot \in [Drive -> BotRec] /\ bot[d] \in BotRec
      /\ bot[d].tag \in Tag /\ 0 \in Thread /\ d \in Thread \ {0}
  BY Constants DEF TypeInv, ThrInv, BotInv, BotRec
<1>3. thr'[d] = thr[d] BY <1>1, <1>2 DEF Sends
<1>4. /\ bot'[d].tag = bot[d].tag /\ bot'[d].op = bot[d].op /\ (bot'[d].flag <=> bot[d].flag)
      /\ UNCHANGED seqNo => bot'[d].lastSeq = bot[d].lastSeq
      /\ Form(d) => bot'[d].lastSeq = seqNo + 1
  <2>1. CASE Sends(0, d, bot[d]) /\ UNCHANGED <<iusb, cbwErr, seqNo, crossed>>
    <3>1. /\ seqNo' = seqNo /\ seqNo' \in Nat /\ seqNo <= seqNo' /\ bot[d].lastSeq <= seqNo'
          /\ bot[d].lastSeq \in Nat
      BY <2>1, Seqs DEF TypeInv, BotInv
    <3>2. ~Form(d)
      <4>1. seqNo' # seqNo + 1 BY <3>1
      <4> QED BY <4>1 DEF Form
    <3> QED BY <2>1, <3>1, <3>2, <1>2, SendsBot
  <2>2. CASE Sends(0, d, [bot[d] EXCEPT !.lastSeq = seqNo + 1]) /\ Form(d)
    <3> DEFINE b == [bot[d] EXCEPT !.lastSeq = seqNo + 1]
    <3>1. seqNo \in Nat /\ seqNo' = seqNo + 1 BY <2>2, FormType
    <3>2. seqNo' \in Nat /\ seqNo <= seqNo' /\ seqNo + 1 <= seqNo' /\ seqNo' # seqNo BY <3>1
    <3>3. /\ b \in BotRec /\ b.tag = bot[d].tag /\ b.op = bot[d].op /\ b.flag = bot[d].flag
          /\ b.lastSeq = seqNo + 1
      BY <3>1, <1>2 DEF BotRec
    <3>4. Sends(0, d, b) BY <2>2
    <3> HIDE DEF b
    <3>5. /\ bot'[d].tag = b.tag /\ bot'[d].op = b.op /\ bot'[d].flag = b.flag
          /\ bot'[d].lastSeq = b.lastSeq
      BY <3>2, <3>3, <3>4, <1>2, SendsBot
    <3> QED BY <3>2, <3>3, <3>5
  <2> QED BY <1>1, <2>1, <2>2
<1>5. Dpc(d) = "picked" /\ SameButDpc(d) BY <1>1, <1>3, <1>4 DEF Dpc, SameButDpc
<1>6. thr'[0].pc \in {"data", "stall"} => Dpc(d)' = thr'[0].pc
  BY <1>1 DEF Sends, Dpc, Working
<1>7. iusb[d] \in IusbRec /\ seqNo \in Nat /\ thr[d].pkt.seq <= seqNo
  BY Seqs DEF TypeInv, IusbInv, CaseInv, Numbered
<1> DEFINE csw(status, residue) == CSW(bot[d].tag, status, residue)
<1>8. /\ csw("passed", FALSE) \in Sent /\ csw("failed", TRUE) \in Sent /\ csw("phase", TRUE) \in Sent
  BY <1>2, SentTypes
<1>9. \A st \in {"passed", "failed", "phase"}, r \in BOOLEAN :
        csw(st, r).kind = "csw" /\ csw(st, r).tag = bot[d].tag /\ (csw(st, r).residue <=> r)
  BY DEF CSW
<1>10. ASSUME Form(d)
       PROVE  /\ iusb'[d].pkt.tag = bot[d].tag /\ iusb'[d].pkt.op = bot[d].op
              /\ thr[d].pkt.seq # iusb'[d].pkt.seq /\ seqNo + 1 # 0
  <2>1. iusb'[d].pkt = [seq |-> seqNo + 1, tag |-> bot[d].tag, op |-> bot[d].op]
    BY <1>10, FormType
  <2>2. thr[d].pkt.seq \in Nat BY Seqs
  <2> QED BY <2>1, <2>2, <1>7
<1>11. CASE /\ bot[d].op = "local" /\ UNCHANGED <<iusb, seqNo>>
            /\ SendData(0, d, bot[d], csw("passed", FALSE), bot[d].tag, FALSE)
  <2>1. CASE ep[d].cfg
    <3>1. OtherEps(d) /\ PutsData(0, d, csw("passed", FALSE), bot[d].tag, FALSE)
      BY <2>1, <1>2, <1>8, <1>11, SendDataPuts
    <3> QED BY <3>1, <1>4, <1>5, <1>6, <1>9, <1>11 DEF PutsData, TakenOn
  <2>2. CASE ~ep[d].cfg
    <3> DEFINE r == [csw("passed", FALSE) EXCEPT !.residue = TRUE]
    <3>1. BotSendCSW(0, d, bot[d], r) BY <2>2, <1>11 DEF SendData
    <3>2. r \in Sent /\ r.kind = "csw" /\ r.tag = bot[d].tag /\ r.residue
      <4> HIDE DEF csw
      <4> QED BY <1>8, <1>9 DEF Sent
    <3> HIDE DEF r
    <3>3. OtherEps(d) /\ Stalls(0, d, r) BY <3>1, <3>2, <1>2, SendCSWPuts
    <3> QED BY <3>2, <3>3, <1>4, <1>5, <1>6, <1>11 DEF Stalls, TakenOn
  <2> QED BY <2>1, <2>2
<1>12. CASE BotSendCSW(0, d, bot[d], csw("failed", TRUE)) /\ UNCHANGED <<iusb, seqNo>>
  <2>1. OtherEps(d) /\ Stalls(0, d, csw("failed", TRUE))
    BY <1>2, <1>8, <1>9, <1>12, SendCSWPuts
  <2> QED BY <2>1, <1>4, <1>5, <1>6, <1>9, <1>12 DEF Stalls, TakenOn
<1>13. CASE /\ bot[d].op = "phase" /\ Kind[d] = "hd" /\ Form(d)
            /\ BotSendCSW(0, d, [bot[d] EXCEPT !.lastSeq = seqNo + 1], csw("phase", TRUE))
  <2>1. OtherEps(d) /\ Stalls(0, d, csw("phase", TRUE))
    BY <1>2, <1>8, <1>9, <1>13, SendCSWPuts
  <2>2. Refused(d)' BY <1>10, <1>13 DEF Refused
  <2> QED BY <2>1, <2>2, <1>4, <1>5, <1>6, <1>10, <1>13 DEF Stalls, TakenOn
<1>14. CASE /\ ~(bot[d].op = "phase" /\ Kind[d] = "hd") /\ Form(d)
            /\ thr' = [thr EXCEPT ![0] = Returned(0)] /\ UNCHANGED ep
  <2>1. thr'[0].pc = "visit" BY <1>2, <1>14 DEF Returned, ThrRec
  <2>2. Dpc(d)' = "idle" BY <2>1 DEF Dpc, Working
  <2>3. ~Refused(d)' BY <1>10, <1>14 DEF Refused
  <2>4. SamePacket(d) /\ OtherEps(d) BY <1>14 DEF SamePacket, OtherEps
  <2> QED BY <2>2, <2>3, <2>4, <1>4, <1>5, <1>10, <1>14 DEF TakenOn
<1> QED BY <1>11, <1>12, <1>13, <1>14 DEF DpcProcess

(* BotProcessHandler does that for its drive, and nothing to the others. *)
LEMMA ProcessKeeps ==
  ASSUME TypeInv, CaseInv, AwaitInv, DpcProcess, NEW d \in Drive, d = thr[0].drive
  PROVE  AwaitInv'
<1>1. Owned(d)' /\ (~stray'[d] => Healthy(d)')
  BY ProcessTakesOn, TakenOnKeeps DEF AwaitInv
<1>2. ASSUME NEW e \in Drive, e # d PROVE Owned(e)' /\ (~stray'[e] => Healthy(e)')
  <2>1. OtherEps(d) /\ UNCHANGED <<host, old, stray, kbuf>>
    BY ProcessTakesOn, DpcProcessSends
  <2>2. bot[d] \in BotRec /\ seqNo \in Nat /\ bot[d].lastSeq <= seqNo /\ 0 \in Thread
    BY Constants, Seqs DEF TypeInv, BotInv
  <2>3. CASE Sends(0, d, bot[d]) /\ UNCHANGED <<iusb, cbwErr, seqNo, crossed>>
    <3>1. seqNo' \in Nat /\ seqNo <= seqNo' /\ bot[d].lastSeq <= seqNo' BY <2>2, <2>3
    <3>2. Aside(e) BY <2>1, <2>2, <2>3, <3>1, <1>2, SenderAside
    <3> QED BY <3>2, <1>2, AsideKeeps DEF AwaitInv
  <2>4. CASE Sends(0, d, [bot[d] EXCEPT !.lastSeq = seqNo + 1]) /\ Form(d)
    <3> DEFINE b == [bot[d] EXCEPT !.lastSeq = seqNo + 1]
    <3>1. b \in BotRec /\ b.lastSeq = seqNo + 1 BY <2>2 DEF BotRec
    <3>2. Sends(0, d, b) BY <2>4
    <3> HIDE DEF b
    <3>3. seqNo' = seqNo + 1 /\ iusb'[e] = iusb[e] BY <2>4, <1>2, FormType
    <3>4. seqNo' \in Nat /\ seqNo <= seqNo' /\ b.lastSeq <= seqNo' BY <3>1, <3>3, <2>2
    <3>5. Aside(e) BY <2>1, <2>2, <3>1, <3>2, <3>3, <3>4, <1>2, SenderAside
    <3> QED BY <3>5, <1>2, AsideKeeps DEF AwaitInv
  <2> QED BY <2>3, <2>4, DpcProcessSends
<1> QED BY <1>1, <1>2 DEF AwaitInv

(* The deferred call takes a command from the flag, once                 *)
(* (ProcessInterfaceHandler).                                            *)
LEMMA VisitKeeps ==
  ASSUME TypeInv, AwaitInv, DpcVisit PROVE AwaitInv'
<1>1. /\ thr \in [Thread -> ThrRec] /\ bot \in [Drive -> BotRec] /\ 0 \in Thread
      /\ \A e \in Drive : e \in Thread \ {0}
      /\ old \in [Drive -> BOOLEAN] /\ stray \in [Drive -> BOOLEAN]
  BY Constants DEF TypeInv, ThrInv, BotInv, HistInv
<1>2. UNCHANGED <<host, ep, iusb, kbuf>> /\ thr[0].pc = "visit" BY DEF DpcVisit
<1>3. CASE UNCHANGED <<bot, old, stray>> /\ thr'[0].pc \in {"idle", "visit"}
  <2>1. ASSUME NEW e \in Drive PROVE Aside(e)
    <3>1. thr'[e] = thr[e] BY <1>1 DEF DpcVisit
    <3>2. Dpc(e)' = "idle" BY <1>3 DEF Dpc, Working
    <3> QED BY <3>1, <3>2, <1>2, <1>3 DEF Aside
  <2> QED BY <2>1, AsideKeeps DEF AwaitInv
<1>4. ASSUME NEW d \in Drive, d = thr[0].drive, bot[d].flag, thr' = [thr EXCEPT ![0].pc = "picked"],
             bot' = [bot EXCEPT ![d].flag = FALSE], old' = [old EXCEPT ![d] = FALSE],
             stray' = [stray EXCEPT ![d] = @ \/ old[d]]
      PROVE  AwaitInv'
  <2>1. thr'[0].pc = "picked" /\ thr'[0].drive = d /\ \A e \in Drive : thr'[e] = thr[e]
    BY <1>1, <1>4 DEF ThrRec
  <2>2. Dpc(d)' = "picked" /\ \A e \in Drive : e # d => Dpc(e)' = "idle" BY <2>1 DEF Dpc
  <2>3. bot'[d].tag = bot[d].tag /\ bot'[d].op = bot[d].op /\ bot'[d].lastSeq = bot[d].lastSeq
        /\ ~bot'[d].flag
    BY <1>1, <1>4 DEF BotRec
  <2>4. ASSUME NEW e \in Drive, e # d PROVE Owned(e)' /\ (~stray'[e] => Healthy(e)')
    <3>1. bot'[e] = bot[e] /\ old'[e] = old[e] /\ stray'[e] = stray[e] BY <1>1, <1>4, <2>4
    <3>2. Aside(e) BY <3>1, <2>1, <2>2, <2>4, <1>2 DEF Aside
    <3> QED BY <3>2, AsideKeeps DEF AwaitInv
  <2>5. Owned(d)' BY <2>1, <2>2, <2>3, <1>2 DEF AwaitInv, Owned, Writing
  <2>6. ASSUME ~stray'[d] PROVE Healthy(d)'
    <3>1. ~stray[d] /\ ~old[d] /\ Healthy(d) BY <1>1, <1>4, <2>6 DEF AwaitInv
    <3>2. host[d].pc \in Waiting BY <3>1, <1>4 DEF Healthy, Quiet
    <3>3. Untouched(d) /\ bot[d].lastSeq = 0 BY <3>1, <3>2, <1>4 DEF Healthy, Placed
    <3>4. Untouched(d)' BY <3>3, <2>1, <1>2 DEF Untouched
    <3>5. ~Outstanding(d)' BY <3>3, <2>3 DEF Outstanding
    <3>6. Quiet(d)' BY <3>2, <1>2 DEF Quiet
    <3>7. Placed(d)' BY <3>3, <3>4, <3>5, <2>1, <2>2, <2>3 DEF Placed, Untouched, Writing
    <3>8. InFifo(d)' BY <3>1, <2>1, <2>3, <1>2 DEF Healthy, InFifo
    <3>9. NotRefused(d)' BY <3>1, <2>1, <1>2 DEF Healthy, NotRefused, Refused
    <3>10. ReadSoFar(d)' BY <3>1, <2>1, <1>2 DEF Healthy, ReadSoFar
    <3> QED BY <3>6, <3>7, <3>8, <3>9, <3>10 DEF Healthy
  <2> QED BY <2>4, <2>5, <2>6 DEF AwaitInv
<1>5. thr[0].drive <= NumDrives => thr[0].drive \in Drive
  BY <1>1, Constants DEF ThrRec, Drive
<1>6. thr[0].drive > NumDrives \/ thr[0].drive <= NumDrives
  <2>1. thr[0].drive \in Int BY <1>1, Constants DEF ThrRec
  <2> QED BY <2>1, Constants
<1>7. CASE thr' = [thr EXCEPT ![0] = [@ EXCEPT !.pc = "idle", !.drive = 1]] /\ UNCHANGED <<bot, old, stray>>
  <2>1. thr'[0].pc = "idle" BY <1>1, <1>7 DEF ThrRec
  <2> QED BY <2>1, <1>3, <1>7
<1>8. CASE thr' = [thr EXCEPT ![0].drive = thr[0].drive + 1] /\ UNCHANGED <<bot, old, stray>>
  <2>1. thr'[0].pc = "visit" BY <1>1, <1>2, <1>8 DEF ThrRec
  <2> QED BY <2>1, <1>3, <1>8
<1> QED BY <1>4, <1>5, <1>6, <1>7, <1>8 DEF DpcVisit

(* A drive that is configured again finds its threads at home.           *)
LEMMA ConfigureKeeps ==
  ASSUME TypeInv, AwaitInv, NEW d \in Drive, HostConfigure(d) PROVE AwaitInv'
<1>1. /\ host \in [Drive -> HostRec] /\ ep \in [Drive -> EpRec]
      /\ thr \in [Thread -> ThrRec] /\ 0 \in Thread /\ d \in Thread
  BY Constants DEF TypeInv, HostInv, EpInv, ThrInv
<1>2. UNCHANGED <<bot, iusb, kbuf, thr, hist>> /\ host[d].pc = "off" /\ Settled(d)
  BY DEF HostConfigure
<1>3. /\ \A e \in Drive : e # d => host'[e] = host[e] /\ ep'[e] = ep[e]
      /\ host'[d].pc = "idle" /\ host'[d].tag = host[d].tag /\ host'[d].op = host[d].op
      /\ host'[d].got = host[d].got /\ host'[d].status = host[d].status
      /\ host'[d].residue = host[d].residue
  BY <1>1 DEF HostConfigure, HostRec
<1>4. ep'[d].fifo = Nothing /\ (ep'[d].rest <=> ep[d].rest) /\ (ep'[d].ready <=> ep[d].ready)
  BY <1>1 DEF HostConfigure, EpRec
<1>5. \A e \in Drive : Dpc(e)' = Dpc(e) BY <1>2 DEF Dpc
<1>6. Owned(d) /\ (~stray[d] => Healthy(d)) BY DEF AwaitInv
<1>7. Owned(d)' BY <1>2, <1>3, <1>5, <1>6 DEF Owned, Waiting
<1>8. ASSUME ~stray'[d] PROVE Healthy(d)'
  <2>1. Healthy(d) /\ Quiet(d) BY <1>2, <1>6, <1>8 DEF hist, Healthy
  <2>2. Dpc(d) # "data" /\ thr[d].pc # "data"
    BY <1>1, <1>2, <1>6 DEF Settled, Owned, Dpc
  <2>3. Quiet(d)' BY <2>1, <2>2, <1>2, <1>3, <1>4, <1>5 DEF Quiet, Waiting, Nothing, hist
  <2>4. Placed(d)' /\ InFifo(d)' BY <1>3 DEF Placed, InFifo, Waiting
  <2>5. NotRefused(d)' BY <2>1, <1>2 DEF Healthy, NotRefused, Refused
  <2>6. ReadSoFar(d)' BY <2>1, <1>3 DEF Healthy, ReadSoFar
  <2> QED BY <2>3, <2>4, <2>5, <2>6 DEF Healthy
<1>9. ASSUME NEW e \in Drive, e # d PROVE Owned(e)' /\ (~stray'[e] => Healthy(e)')
  <2>1. Aside(e) BY <1>2, <1>3, <1>5, <1>9 DEF Aside, hist
  <2> QED BY <2>1, AsideKeeps DEF AwaitInv
<1> QED BY <1>7, <1>8, <1>9 DEF AwaitInv

(* Clearing the STALL lets the sleeper of the drive go on.               *)
LEMMA ClearHaltKeeps ==
  ASSUME TypeInv, AwaitInv, NEW d \in Drive, HostClearHalt(d) PROVE AwaitInv'
<1>1. /\ ep \in [Drive -> EpRec] /\ bot \in [Drive -> BotRec]
      /\ thr \in [Thread -> ThrRec] /\ 0 \in Thread /\ \A e \in Drive : e \in Thread
  BY Constants DEF TypeInv, BotInv, EpInv, ThrInv
<1>2. UNCHANGED <<host, iusb, kbuf, hist>> /\ host[d].pc = "wait" BY DEF HostClearHalt
<1>3. /\ \A e \in Drive : e # d => bot'[e] = bot[e] /\ ep'[e] = ep[e]
      /\ ep'[d].fifo = ep[d].fifo /\ (ep'[d].rest <=> ep[d].rest)
      /\ (ep'[d].ready <=> ep[d].ready)
      /\ bot'[d].tag = bot[d].tag /\ bot'[d].op = bot[d].op
      /\ bot'[d].lastSeq = bot[d].lastSeq /\ (bot'[d].flag <=> bot[d].flag)
  BY <1>1 DEF HostClearHalt, EpRec, BotRec
<1>4. ASSUME NEW t \in Thread
      PROVE  /\ thr'[t].drive = thr[t].drive /\ thr'[t].pkt = thr[t].pkt /\ thr'[t].csw = thr[t].csw
             /\ thr'[t].pc = (IF thr[t].pc = "stall" /\ thr[t].drive = d THEN "go" ELSE thr[t].pc)
             /\ thr[t].drive # d => thr'[t] = thr[t]
             /\ thr[t].pc # "stall" => thr'[t] = thr[t]
  BY <1>1 DEF HostClearHalt, ThrRec
<1>5. \A e \in Drive : Owned(e) /\ (~stray[e] => Healthy(e)) BY DEF AwaitInv
<1>6. Dpc(d)' = IF Dpc(d) = "stall" THEN "go" ELSE Dpc(d) BY <1>1, <1>4 DEF Dpc, Working
<1>7. Owned(d)' BY <1>1, <1>2, <1>3, <1>4, <1>5, <1>6 DEF Owned, Writing
<1>8. ASSUME ~stray'[d] PROVE Healthy(d)'
  <2>1. Healthy(d) BY <1>2, <1>5, <1>8 DEF hist
  <2>2. thr'[d].pc \in Writing <=> thr[d].pc \in Writing BY <1>1, <1>4 DEF Writing
  <2>3. Dpc(d)' \in Writing <=> Dpc(d) \in Writing BY <1>6 DEF Writing
  <2>4. /\ (thr'[d].pc = "data") <=> (thr[d].pc = "data")
        /\ (thr'[d].pc = "busy") <=> (thr[d].pc = "busy")
        /\ (Dpc(d)' = "data") <=> (Dpc(d) = "data")
        /\ (Dpc(d)' = "picked") <=> (Dpc(d) = "picked")
        /\ (Dpc(d)' = "idle") <=> (Dpc(d) = "idle")
        /\ thr'[d].pkt = thr[d].pkt /\ thr'[0].csw = thr[0].csw
    BY <1>1, <1>4, <1>6
  <2>5. Quiet(d)' BY <1>2 DEF Quiet, Waiting
  <2>6. Untouched(d)' <=> Untouched(d) BY <2>2, <1>2, <1>3 DEF Untouched
  <2>7. Outstanding(d)' <=> Outstanding(d) BY <1>2, <1>3 DEF Outstanding, Refused
  <2>8. Placed(d)'
    BY <2>1, <2>2, <2>3, <2>4, <2>6, <2>7, <1>2, <1>3 DEF Healthy, Placed, hist, Writing
  <2>9. InFifo(d)' BY <2>1, <2>4, <1>2, <1>3 DEF Healthy, InFifo
  <2>10. NotRefused(d)' BY <2>1, <2>4, <1>2 DEF Healthy, NotRefused, Refused
  <2>11. ReadSoFar(d)' BY <2>1, <2>4, <1>2, <1>3 DEF Healthy, ReadSoFar
  <2> QED BY <2>5, <2>8, <2>9, <2>10, <2>11 DEF Healthy
<1>9. ASSUME NEW e \in Drive, e # d PROVE Owned(e)' /\ (~stray'[e] => Healthy(e)')
  <2>1. thr'[e] = thr[e] BY <1>1, <1>4, <1>5, <1>9 DEF Owned
  <2>2. Dpc(e)' = Dpc(e) /\ thr'[0].csw = thr[0].csw BY <1>1, <1>4, <1>9 DEF Dpc, Working
  <2>3. Aside(e) BY <2>1, <2>2, <1>2, <1>3, <1>9 DEF Aside, hist
  <2> QED BY <2>3, <1>5, AsideKeeps
<1> QED BY <1>7, <1>8, <1>9 DEF AwaitInv

(* The steps that send nothing.                                          *)
LEMMA PlainKeeps ==
  ASSUME TypeInv, AwaitInv, Plain PROVE AwaitInv'
<1>1. /\ iusb \in [Drive -> IusbRec] /\ stray \in [Drive -> BOOLEAN]
      /\ thr \in [Thread -> ThrRec] /\ 0 \in Thread /\ \A e \in Drive : e \in Thread \ {0}
  BY Constants DEF TypeInv, IusbInv, ThrInv, HistInv
<1>2. CASE DpcWake
  <2>1. ASSUME NEW e \in Drive PROVE Aside(e)
    <3>1. thr'[e] = thr[e] BY <1>1, <1>2 DEF DpcWake
    <3>2. Dpc(e)' = "idle" BY <1>1, <1>2 DEF DpcWake, Dpc, Working, ThrRec
    <3> QED BY <3>1, <3>2, <1>2 DEF Aside, DpcWake, hist
  <2> QED BY <2>1, AsideKeeps DEF AwaitInv
<1>3. ASSUME NEW d \in Drive, Activate(d) PROVE AwaitInv'
  <2> DEFINE r == [thr[d] EXCEPT !.pc = "idle", !.drive = d]
             i == [iusb[d] EXCEPT !.active = TRUE, !.wakeup = FALSE]
  <2>1. thr' = [thr EXCEPT ![d] = r] /\ iusb' = [iusb EXCEPT ![d] = i] BY <1>3 DEF Activate
  <2>2. r.pc = "idle" /\ r.drive = d /\ i.pkt = iusb[d].pkt BY <1>1 DEF ThrRec, IusbRec
  <2> HIDE DEF r, i
  <2>3. /\ thr[d].pc = "off" /\ thr'[d].pc = "idle" /\ thr'[d].drive = d
        /\ \A s \in Thread : s # d => thr'[s] = thr[s]
        /\ \A e \in Drive : iusb'[e].pkt = iusb[e].pkt
    BY <2>1, <2>2, <1>1, <1>3 DEF Activate
  <2>4. ASSUME NEW e \in Drive PROVE Aside(e)
    <3>1. Dpc(e)' = Dpc(e) /\ thr'[0] = thr[0] BY <2>3, <1>1 DEF Dpc
    <3>2. thr'[e] = thr[e] \/ (e = d /\ NotRefused(d)') BY <2>3, <1>1 DEF NotRefused
    <3> QED BY <3>1, <3>2, <2>3, <1>3 DEF Aside, Activate, hist, Writing
  <2> QED BY <2>4, AsideKeeps DEF AwaitInv
<1>4. ASSUME NEW d \in Drive, WaitRequest(d) PROVE AwaitInv'
  <2>1. /\ thr'[d].pc \in {"busy", "off"} /\ thr'[d].drive = thr[d].drive
        /\ \A s \in Thread : s # d => thr'[s] = thr[s]
        /\ \A e \in Drive : iusb'[e].pkt = iusb[e].pkt
        /\ \A e \in Drive : e # d => stray'[e] = stray[e]
        /\ stray[d] => stray'[d]
        /\ thr'[d].pc = "busy" /\ ~stray'[d] => ~Refused(d)
    BY <1>1, <1>4 DEF WaitRequest, ThrRec, IusbRec
  <2>2. thr[d].pc = "idle" /\ UNCHANGED <<host, ep, bot, kbuf, old>> BY <1>4 DEF WaitRequest
  <2>3. thr[d].drive = d BY <2>2 DEF AwaitInv, Owned
  <2>4. ~stray'[d] => NotRefused(d)' BY <2>1 DEF NotRefused, Refused
  <2>5. ASSUME NEW e \in Drive PROVE Aside(e)
    <3>1. Dpc(e)' = Dpc(e) /\ thr'[0] = thr[0] BY <2>1, <1>1 DEF Dpc
    <3>2. e # d => thr'[e] = thr[e] BY <2>1, <1>1
    <3> QED BY <3>1, <3>2, <2>1, <2>2, <2>3, <2>4 DEF Aside, Writing
  <2> QED BY <2>5, AsideKeeps DEF AwaitInv
<1>5. ASSUME NEW d \in Drive, Exit(d) PROVE AwaitInv'
  <2>1. \A e \in Drive : iusb'[e].pkt = iusb[e].pkt BY <1>1, <1>5 DEF Exit, IusbRec
  <2>2. UNCHANGED <<host, ep, bot, kbuf, thr, old, stray>> BY <1>5 DEF Exit
  <2>3. ASSUME NEW e \in Drive PROVE Aside(e)
    <3>1. Dpc(e)' = Dpc(e) BY <2>2 DEF Dpc
    <3> QED BY <3>1, <2>1, <2>2 DEF Aside
  <2> QED BY <2>3, AsideKeeps DEF AwaitInv
<1> QED BY <1>2, <1>3, <1>4, <1>5, VisitKeeps, ConfigureKeeps, ClearHaltKeeps DEF Plain

(* What a server's answer to the outstanding command puts in the endpoint. *)
Answered(d) ==
  \/ \E csw \in Sent : /\ csw.kind = "csw" /\ csw.tag = thr[d].pkt.tag /\ csw.residue
                       /\ Stalls(d, d, csw)
  \/ /\ thr[d].pkt.op = "write"
     /\ \E csw \in Sent : csw.kind = "csw" /\ csw.tag = thr[d].pkt.tag /\ PutsCSW(d, d, csw)
  \/ \E csw \in Sent, r \in BOOLEAN :
       csw.kind = "csw" /\ PutsData(d, d, csw, thr[d].pkt.tag, TRUE)

(* ScsiSendResponse does that, when the numbers agree.                   *)
LEMMA ResponseAnswers ==
  ASSUME TypeInv, NEW d \in Drive, NEW status \in {"passed", "failed"},
         ScsiSendResponse(d, status), thr[d].pkt.seq = bot[d].lastSeq
  PROVE  OtherEps(d) /\ Answered(d)
<1> DEFINE pkt == thr[d].pkt
           b == [bot[d] EXCEPT !.lastSeq = 0]
           csw(st, residue) == CSW(pkt.tag, st, residue)
<1>1. thr[d] \in ThrRec /\ pkt.tag \in Tag /\ d \in Thread
  BY Constants DEF TypeInv, ThrInv, ThrRec, Packet
<1>2. /\ \A st \in {"passed", "failed", "phase"}, r \in BOOLEAN :
           csw(st, r) \in Sent /\ csw(st, r).kind = "csw" /\ csw(st, r).tag = pkt.tag
           /\ (csw(st, r).residue <=> r)
  BY <1>1, SentTypes DEF CSW
<1>3. \/ BotSendCSW(d, d, b, csw("failed", TRUE))
      \/ pkt.op = "write" /\ BotSendCSW(d, d, b, csw(status, FALSE))
      \/ pkt.op # "write" /\ SendData(d, d, b, csw("passed", pkt.op = "short"), pkt.tag, TRUE)
  BY DEF ScsiSendResponse
<1> HIDE DEF b, csw
<1>4. CASE BotSendCSW(d, d, b, csw("failed", TRUE))
  <2>1. csw("failed", TRUE) \in Sent /\ csw("failed", TRUE).residue BY <1>2
  <2>2. OtherEps(d) /\ Stalls(d, d, csw("failed", TRUE)) BY <2>1, <1>1, <1>4, SendCSWPuts
  <2> QED BY <2>1, <2>2, <1>2 DEF Answered
<1>5. CASE pkt.op = "write" /\ BotSendCSW(d, d, b, csw(status, FALSE))
  <2>1. csw(status, FALSE) \in Sent /\ ~csw(status, FALSE).residue
        /\ csw(status, FALSE).kind = "csw" /\ csw(status, FALSE).tag = pkt.tag
    BY <1>2
  <2>2. OtherEps(d) /\ PutsCSW(d, d, csw(status, FALSE)) BY <2>1, <1>1, <1>5, SendCSWPuts
  <2> QED BY <2>1, <2>2, <1>5 DEF Answered
<1>6. CASE SendData(d, d, b, csw("passed", pkt.op = "short"), pkt.tag, TRUE)
  <2> DEFINE c == csw("passed", pkt.op = "short")
  <2>1. c \in Sent /\ c.kind = "csw" /\ c.tag = pkt.tag BY <1>2
  <2>2. CASE ep[d].cfg
    <3>1. OtherEps(d) /\ PutsData(d, d, c, pkt.tag, TRUE)
      BY <2>1, <2>2, <1>1, <1>6, SendDataPuts
    <3> QED BY <3>1, <2>1 DEF Answered
  <2>3. CASE ~ep[d].cfg
    <3> DEFINE r == [c EXCEPT !.residue = TRUE]
    <3>1. BotSendCSW(d, d, b, r) BY <2>3, <1>6 DEF SendData
    <3>2. r \in Sent /\ r.kind = "csw" /\ r.tag = pkt.tag /\ r.residue
      <4> HIDE DEF c
      <4> QED BY <2>1 DEF Sent
    <3> HIDE DEF r
    <3>3. OtherEps(d) /\ Stalls(d, d, r) BY <3>1, <3>2, <1>1, SendCSWPuts
    <3> QED BY <3>2, <3>3 DEF Answered
  <2> QED BY <2>2, <2>3
<1> QED BY <1>3, <1>4, <1>5, <1>6

(* The server's answer goes to the host that waits for it.                 *)
LEMMA AnsweredKeeps ==
  ASSUME NEW d \in Drive, d # 0, Owned(d), ~stray[d] => Healthy(d), Answered(d),
         thr[d].pc = "busy", bot[d].lastSeq # 0, thr[d].pkt = iusb[d].pkt,
         UNCHANGED <<host, iusb, old, stray>>, kbuf'[Buffer(d)] = thr[d].pkt,
         thr'[0] = thr[0], thr'[d].pkt = thr[d].pkt,
         thr'[d].pc \in {"data", "stall", "csw"} => thr'[d].drive = d,
         bot'[d].tag = bot[d].tag, bot'[d].op = bot[d].op, bot'[d].flag = bot[d].flag,
         bot'[d].lastSeq = 0
  PROVE  Owned(d)' /\ (~stray'[d] => Healthy(d)')
<1>1. Dpc(d)' = Dpc(d) BY DEF Dpc
<1>2. Owned(d)'
  <2>1. thr'[d].pc # "off" => thr'[d].drive = d
    BY DEF Owned, Answered, Stalls, PutsCSW, PutsData
  <2>2. thr'[d].pc \in Writing => thr'[d].csw.kind = "csw"
    BY DEF Answered, Stalls, PutsCSW, PutsData, Writing
  <2>3. thr'[d].pc \in {"stall", "go"} => thr'[d].csw.tag = thr[d].pkt.tag /\ thr'[d].csw.residue
    BY DEF Answered, Stalls, PutsCSW, PutsData
  <2> QED BY <2>1, <2>2, <2>3, <1>1 DEF Owned
<1>3. ASSUME ~stray'[d] PROVE Healthy(d)'
  <2>1. ~stray[d] /\ Healthy(d) BY <1>3
  <2>2. host[d].pc \in Waiting /\ Outstanding(d)
    BY <2>1 DEF Healthy, Quiet, NotRefused, Outstanding
  <2>3. /\ Untouched(d) /\ Dpc(d) = "idle" /\ ~bot[d].flag
        /\ thr[d].pkt.tag = host[d].tag /\ thr[d].pkt.op = host[d].op
    BY <2>1, <2>2 DEF Healthy, Placed
  <2>4. ~ep[d].rest BY <2>1, <2>2 DEF Healthy, InFifo
  <2>5. Quiet(d)' BY <2>2 DEF Quiet
  <2>6. NotRefused(d)'
    BY DEF NotRefused, Answered, Stalls, PutsCSW, PutsData
  <2>7. ~Outstanding(d)' BY DEF Outstanding
  <2>8. host[d].status = "failed" BY <2>2 DEF Owned
  <2>9. CASE thr'[d].pc = "stall" /\ SamePacket(d)
    <3>1. Placed(d)' BY <2>3, <2>7, <2>9, <1>1 DEF Placed, Untouched, SamePacket, Writing
    <3>2. InFifo(d)' BY <2>3, <2>4, <2>9 DEF InFifo, Untouched, SamePacket
    <3>3. ReadSoFar(d)' BY <2>3, <2>8, <2>9 DEF ReadSoFar, Untouched, SamePacket
    <3> QED BY <2>5, <2>6, <3>1, <3>2, <3>3 DEF Healthy
  <2>10. ASSUME NEW csw, csw.tag = thr[d].pkt.tag, thr[d].pkt.op = "write", PutsCSW(d, d, csw)
         PROVE  Healthy(d)'
    <3>1. thr'[d].pc \in {"csw", "idle"} BY <2>10 DEF PutsCSW
    <3>2. Placed(d)' BY <2>3, <2>7, <3>1, <1>1 DEF Placed, Writing
    <3>3. InFifo(d)' BY <2>3, <2>4, <2>10 DEF InFifo, Untouched, PutsCSW, SamePacket
    <3>4. ReadSoFar(d)' BY <2>3, <2>8, <2>10 DEF ReadSoFar
    <3> QED BY <2>5, <2>6, <3>2, <3>3, <3>4 DEF Healthy
  <2>11. ASSUME NEW csw, PutsData(d, d, csw, thr[d].pkt.tag, TRUE) PROVE Healthy(d)'
    <3>1. /\ thr'[d].pc = "data" /\ ep'[d].fifo = Data(host[d].tag) /\ ~ep'[d].ready /\ ep'[d].rest
      BY <2>3, <2>11 DEF PutsData
    <3>2. ep'[d].fifo.kind = "data" /\ ep'[d].fifo.tag = host[d].tag
      BY <3>1 DEF Data, Nothing
    <3>3. Placed(d)' BY <2>3, <2>7, <3>1, <3>2, <1>1 DEF Placed, Writing
    <3>4. InFifo(d)' BY <3>1, <3>2 DEF InFifo
    <3>5. ReadSoFar(d)' BY <2>3, <2>8, <3>1, <3>2 DEF ReadSoFar, Untouched
    <3> QED BY <2>5, <2>6, <3>3, <3>4, <3>5 DEF Healthy
  <2> QED BY <2>9, <2>10, <2>11 DEF Answered, Stalls
<1> QED BY <1>2, <1>3

(* An answer goes to the host that waits for it, or nowhere.             *)
LEMMA ResponseKeeps ==
  ASSUME TypeInv, CaseInv, AwaitInv, NEW d \in Drive, NEW status \in {"passed", "failed"},
         ScsiSendResponse(d, status)
  PROVE  AwaitInv'
<1>1. /\ thr[d].pc = "busy" /\ UNCHANGED <<host, iusb, seqNo, old, stray>>
      /\ kbuf' = [kbuf EXCEPT ![Buffer(d)] = thr[d].pkt]
      /\ kbuf \in [{"cd", "hd"} -> Packet] /\ Buffer(d) \in {"cd", "hd"}
      /\ d \in Thread /\ d # 0 /\ 0 \in Thread
  BY ResponseSends, Constants DEF TypeInv, IusbInv
<1>2. \A e \in Drive : e # d => kbuf'[Buffer(e)] = kbuf[Buffer(e)]
  BY <1>1, BuffersApart, Constants
<1>3. kbuf'[Buffer(d)] = thr[d].pkt BY <1>1
<1>4. CASE /\ thr'[d].pc = "idle" /\ thr' = [thr EXCEPT ![d] = Returned(d)]
           /\ UNCHANGED <<ep, bot>>
  <2>1. /\ thr'[d].drive = thr[d].drive
        /\ \A s \in Thread : s # d => thr'[s] = thr[s]
    BY <1>1, <1>4 DEF TypeInv, ThrInv, ThrRec, Returned
  <2>2. ASSUME NEW e \in Drive PROVE Aside(e)
    <3>1. Dpc(e)' = Dpc(e) /\ thr'[0] = thr[0] BY <2>1, <1>1 DEF Dpc
    <3>2. e # d => thr'[e] = thr[e] BY <2>1, Constants
    <3>3. thr[d].drive = d BY <1>1 DEF AwaitInv, Owned
    <3> QED BY <3>1, <3>2, <3>3, <2>1, <1>1, <1>2, <1>4 DEF Aside, Writing, NotRefused
  <2> QED BY <2>2, AsideKeeps DEF AwaitInv
<1>5. CASE thr[d].pkt.seq = bot[d].lastSeq /\ Sends(d, d, [bot[d] EXCEPT !.lastSeq = 0])
  <2> DEFINE b == [bot[d] EXCEPT !.lastSeq = 0]
  <2>1. bot[d] \in BotRec /\ seqNo \in Nat BY DEF TypeInv, BotInv, GlobalInv
  <2>2. /\ b \in BotRec /\ b.lastSeq = 0 /\ b.tag = bot[d].tag /\ b.op = bot[d].op
        /\ b.flag = bot[d].flag
    BY <2>1 DEF BotRec
  <2>3. Sends(d, d, b) BY <1>5
  <2> HIDE DEF b
  <2>4. seqNo' \in Nat /\ seqNo <= seqNo' /\ b.lastSeq <= seqNo' BY <2>1, <2>2, <1>1
  <2>5. /\ bot'[d].tag = bot[d].tag /\ bot'[d].op = bot[d].op /\ bot'[d].flag = bot[d].flag
        /\ bot'[d].lastSeq = 0
    BY <2>2, <2>3, <2>4, <1>1, SendsBot
  <2>6. /\ thr'[0] = thr[0] /\ thr'[d].pkt = thr[d].pkt
        /\ thr'[d].pc \in {"data", "stall", "csw"} => thr'[d].drive = d
    BY <2>3, <1>1 DEF Sends
  <2>7. bot[d].lastSeq # 0 /\ thr[d].pkt = iusb[d].pkt
    <3>1. thr[d].pkt.seq > 0 BY <1>1 DEF CaseInv, Numbered
    <3>2. bot[d].lastSeq > 0 /\ bot[d].lastSeq # 0 BY <3>1, <1>5
    <3> QED BY <3>2, <1>5 DEF CaseInv, Numbered
  <2>8. OtherEps(d) /\ Answered(d) BY <1>5, ResponseAnswers
  <2>9. Owned(d)' /\ (~stray'[d] => Healthy(d)')
    BY <2>5, <2>6, <2>7, <2>8, <1>1, <1>3, AnsweredKeeps DEF AwaitInv
  <2>10. ASSUME NEW e \in Drive, e # d PROVE Owned(e)' /\ (~stray'[e] => Healthy(e)')
    <3>1. Aside(e) BY <2>2, <2>3, <2>4, <2>8, <2>10, <1>1, <1>2, SenderAside
    <3> QED BY <3>1, AsideKeeps DEF AwaitInv
  <2> QED BY <2>9, <2>10 DEF AwaitInv
<1>6. \/ thr' = [thr EXCEPT ![d] = Returned(d)] /\ UNCHANGED <<ep, bot>>
      \/ thr[d].pkt.seq = bot[d].lastSeq
  BY DEF ScsiSendResponse
<1> QED BY <1>4, <1>5, <1>6, ResponseSends

(* A signal leaves at most the CSW of the server's command in the          *)
(* endpoint.                                                               *)
LEMMA CrashLeaves ==
  ASSUME TypeInv, NEW d \in Drive, Crash(d), thr[d].drive = d
  PROVE  /\ OtherEps(d)
         /\ \/ thr[d].pc \notin Writing /\ UNCHANGED ep
            \/ /\ thr[d].pc = "stall" \/ (thr[d].pc = "data" /\ ~ep[d].ready)
               /\ ep[d].cfg => /\ ~ep'[d].rest
                               /\ \/ thr[d].pc = "stall" /\ ep'[d].fifo = thr[d].csw
                                  \/ ep'[d].fifo = CSW(kbuf[Buffer(d)].tag, "passed", TRUE)
<1>1. /\ ep \in [Drive -> EpRec] /\ ep[d] \in EpRec /\ thr[d] \in ThrRec /\ thr[d].csw \in Sent
      /\ d \in Thread /\ d # 0 /\ TagNow(d, d) = kbuf[Buffer(d)].tag /\ TagNow(d, d) \in Tag
  BY TagNowType, Constants DEF TypeInv, EpInv, ThrInv, ThrRec, TagNow
<1>2. CASE thr[d].pc \in {"idle", "busy", "csw"} /\ UNCHANGED ep
  BY <1>2 DEF OtherEps, Writing
<1>3. CASE thr[d].pc = "stall" /\ ep' = [ep EXCEPT ![d] = Written(ep[d], thr[d].csw, FALSE)]
  <2>1. ep'[d] = Written(ep[d], thr[d].csw, FALSE) /\ OtherEps(d) BY <1>1, <1>3 DEF OtherEps
  <2>2. ASSUME ep[d].cfg PROVE ep'[d].fifo = thr[d].csw /\ ~ep'[d].rest
    BY <2>1, <2>2, <1>1 DEF Written, EpRec
  <2> QED BY <2>1, <2>2, <1>3
<1>4. CASE /\ thr[d].pc = "data" /\ ~ep[d].ready
           /\ ep' = [ep EXCEPT ![d] = Written([ep[d] EXCEPT !.stalled = TRUE],
                                              CSW(TagNow(d, d), "passed", TRUE), FALSE)]
  <2> DEFINE e1 == [ep[d] EXCEPT !.stalled = TRUE]
             c == CSW(TagNow(d, d), "passed", TRUE)
  <2>1. e1 \in EpRec /\ (e1.cfg <=> ep[d].cfg) BY <1>1 DEF EpRec
  <2>2. c \in Sent BY <1>1, SentTypes
  <2> HIDE DEF e1, c
  <2>3. ep'[d] = Written(e1, c, FALSE) /\ OtherEps(d) BY <1>1, <1>4 DEF OtherEps, e1, c
  <2>4. ASSUME ep[d].cfg PROVE ep'[d].fifo = c /\ ~ep'[d].rest
    BY <2>1, <2>2, <2>3, <2>4 DEF Written, EpRec
  <2> QED BY <2>3, <2>4, <1>1, <1>4 DEF c
<1> QED BY <1>2, <1>3, <1>4 DEF Crash

(* That CSW is the one the host waits for.                               *)
LEMMA CrashKeeps ==
  ASSUME TypeInv, CommandInv, AwaitInv, NEW d \in Drive, Crash(d)
  PROVE  AwaitInv'
<1>1. /\ UNCHANGED <<host, iusb, kbuf, old, stray>> /\ thr'[d].pc = "off" /\ thr'[d].pkt = thr[d].pkt
      /\ \A s \in Thread \ {d} : thr'[s] = thr[s]
      /\ \A e \in Drive : e \in Thread /\ e # 0
      /\ 0 \in Thread
  BY CrashType, Constants DEF Crash
<1>2. Owned(d) /\ (~stray[d] => Healthy(d)) /\ thr[d].drive = d
  BY DEF AwaitInv, Owned, Crash
<1>3. bot \in [Drive -> BotRec] BY DEF TypeInv, BotInv
<1>4. ASSUME NEW e \in Drive
      PROVE  /\ bot'[e].tag = bot[e].tag /\ bot'[e].op = bot[e].op
             /\ bot'[e].lastSeq = bot[e].lastSeq /\ (bot'[e].flag <=> bot[e].flag)
  <2>1. CASE UNCHANGED bot BY <2>1
  <2>2. CASE bot' = [bot EXCEPT ![d].unhalted = TRUE] BY <2>2, <1>3 DEF BotRec
  <2> QED BY <2>1, <2>2, <1>2 DEF Crash
<1>5. \A e \in Drive : Dpc(e)' = Dpc(e) /\ thr'[0] = thr[0] BY <1>1 DEF Dpc
<1>6. ASSUME NEW e \in Drive, e # d PROVE Owned(e)' /\ (~stray'[e] => Healthy(e)')
  <2>1. ep'[e] = ep[e] BY <1>2, <1>6, CrashLeaves DEF OtherEps
  <2>2. thr'[e] = thr[e] BY <1>1, <1>6
  <2>3. Aside(e) BY <2>1, <2>2, <1>1, <1>4, <1>5 DEF Aside
  <2> QED BY <2>3, AsideKeeps DEF AwaitInv
<1>7. CASE thr[d].pc \notin Writing /\ UNCHANGED ep
  <2>1. Aside(d) BY <1>1, <1>4, <1>5, <1>7 DEF Aside, Writing, NotRefused
  <2> QED BY <2>1, <1>2, <1>6, AsideKeeps DEF AwaitInv
<1>8. CASE /\ thr[d].pc = "stall" \/ (thr[d].pc = "data" /\ ~ep[d].ready)
           /\ ep[d].cfg => /\ ~ep'[d].rest
                           /\ \/ thr[d].pc = "stall" /\ ep'[d].fifo = thr[d].csw
                              \/ ep'[d].fifo = CSW(kbuf[Buffer(d)].tag, "passed", TRUE)
  <2>1. Owned(d)' BY <1>1, <1>2, <1>4, <1>5 DEF Owned, Writing
  <2>2. ASSUME ~stray'[d] PROVE Healthy(d)'
    <3>1. ~stray[d] /\ Healthy(d) BY <2>2, <1>1, <1>2
    <3>2. host[d].pc \in Waiting BY <3>1, <1>8 DEF Healthy, Quiet
    <3>3. /\ ~bot[d].flag /\ bot[d].lastSeq = 0 /\ Dpc(d) = "idle"
          /\ thr[d].pkt.tag = host[d].tag
      BY <3>1, <3>2, <1>8 DEF Healthy, Placed, Untouched, Writing
    <3>4. ep[d].cfg BY <3>2 DEF CommandInv, CfgInv, Waiting
    <3>5. /\ ~ep'[d].rest /\ ep'[d].fifo.kind = "csw" /\ ep'[d].fifo.residue
          /\ ep'[d].fifo.tag = host[d].tag
      <4>1. CASE thr[d].pc = "stall" /\ ep'[d].fifo = thr[d].csw
        BY <4>1, <3>3, <3>4, <1>2, <1>8 DEF Owned, Writing
      <4>2. CASE ep'[d].fifo = CSW(kbuf[Buffer(d)].tag, "passed", TRUE)
        <5>1. kbuf[Buffer(d)].tag = thr[d].pkt.tag BY <1>2, <1>8 DEF Owned, Writing
        <5> QED BY <5>1, <4>2, <3>3, <3>4, <1>8 DEF CSW
      <4> QED BY <4>1, <4>2, <3>4, <1>8
    <3>6. ~Outstanding(d)' BY <3>3, <1>4 DEF Outstanding
    <3>7. Quiet(d)' BY <3>2, <1>1 DEF Quiet
    <3>8. Placed(d)' BY <3>3, <3>6, <1>1, <1>4, <1>5 DEF Placed, Writing
    <3>9. InFifo(d)' BY <3>3, <3>5, <1>1, <1>4 DEF InFifo
    <3>10. NotRefused(d)' BY <1>1 DEF NotRefused
    <3>11. ReadSoFar(d)' BY <3>1, <3>5, <1>1 DEF Healthy, ReadSoFar
    <3> QED BY <3>7, <3>8, <3>9, <3>10, <3>11 DEF Healthy
  <2> QED BY <2>1, <2>2, <1>6 DEF AwaitInv
<1> QED BY <1>2, <1>7, <1>8, CrashLeaves

(* While the host waits for nothing, no thread is in the middle of sending *)
(* for it, unless it is off.                                               *)
LEMMA NobodySends ==
  ASSUME NEW d \in Drive, Owned(d), Quiet(d), host[d].pc \in {"idle", "out"}
  PROVE  /\ Dpc(d) \notin Writing \cup {"picked"} /\ thr[d].pc \notin Writing
         /\ ep[d].fifo.kind = "none" /\ ~ep[d].rest /\ bot[d].lastSeq = 0
         /\ bot[d].flag => old[d]
         /\ host[d].pc = "out" => host[d].got = <<>>
BY DEF Quiet, Waiting, Writing

(* A command is complete, and raises the flag.                             *)
LEMMA FlagKeeps ==
  ASSUME NEW d \in Drive, Owned(d), ~stray[d] => Healthy(d), host[d].pc \in {"idle", "out"},
         UNCHANGED <<ep, iusb, kbuf, thr, stray>>,
         host'[d].pc = "wait", host'[d].got = <<>>, host'[d].status = "failed",
         bot'[d].tag = host'[d].tag, bot'[d].op = host'[d].op,
         bot'[d].lastSeq = bot[d].lastSeq, ~old'[d]
  PROVE  Owned(d)' /\ (~stray'[d] => Healthy(d)')
<1>1. Dpc(d)' = Dpc(d) BY DEF Dpc
<1>2. Owned(d)' BY <1>1 DEF Owned
<1>3. ASSUME ~stray'[d] PROVE Healthy(d)'
  <2>1. Healthy(d) BY <1>3
  <2>2. /\ Dpc(d) \notin Writing \cup {"picked"} /\ thr[d].pc \notin Writing
        /\ ep[d].fifo.kind = "none" /\ ~ep[d].rest /\ bot[d].lastSeq = 0
    BY <2>1, NobodySends DEF Healthy
  <2>3. Untouched(d)' BY <2>2 DEF Untouched
  <2>4. ~Outstanding(d)' BY <2>2 DEF Outstanding
  <2>5. Quiet(d)' BY DEF Quiet, Waiting
  <2>6. Placed(d)' BY <2>2, <2>3, <2>4, <1>1 DEF Placed
  <2>7. InFifo(d)' BY <2>2 DEF InFifo
  <2>8. NotRefused(d)' BY <2>1 DEF Healthy, NotRefused, Refused
  <2>9. ReadSoFar(d)' BY <2>2 DEF ReadSoFar, Writing
  <2> QED BY <2>5, <2>6, <2>7, <2>8, <2>9 DEF Healthy
<1> QED BY <1>2, <1>3

(* What the host does with one drive is no concern of the others.          *)
LEMMA HostAside ==
  ASSUME AwaitInv, NEW d \in Drive, UNCHANGED <<iusb, kbuf, thr>>,
         \A e \in Drive : e # d => /\ host'[e] = host[e] /\ ep'[e] = ep[e] /\ bot'[e] = bot[e]
                                   /\ old'[e] = old[e] /\ stray'[e] = stray[e],
         Owned(d)' /\ (~stray'[d] => Healthy(d)')
  PROVE  AwaitInv'
<1>1. ASSUME NEW e \in Drive, e # d PROVE Owned(e)' /\ (~stray'[e] => Healthy(e)')
  <2>1. Dpc(e)' = Dpc(e) BY DEF Dpc
  <2>2. Aside(e) BY <2>1, <1>1 DEF Aside
  <2> QED BY <2>2, AsideKeeps DEF AwaitInv
<1> QED BY <1>1 DEF AwaitInv

(* A new command finds nothing left of the one before.                   *)
LEMMA CommandKeeps ==
  ASSUME TypeInv, CommandInv, AwaitInv, NEW d \in Drive, NEW op \in Op, HostCommand(d, op)
  PROVE  AwaitInv'
<1> DEFINE tag == <<d, host[d].tag[2] + 1>>
           h == [host[d] EXCEPT !.pc = IF op = "write" THEN "out" ELSE "wait",
                                !.tag = tag, !.op = op, !.got = <<>>, !.status = "failed"]
<1>1. /\ host \in [Drive -> HostRec] /\ bot \in [Drive -> BotRec] /\ old \in [Drive -> BOOLEAN]
  BY DEF TypeInv, HostInv, BotInv, HistInv
<1>2. /\ host' = [host EXCEPT ![d] = h] /\ BotRxHandler(d, TRUE, tag, op) /\ host[d].pc = "idle"
      /\ UNCHANGED <<ep, iusb, kbuf, thr, stray>>
  BY DEF HostCommand
<1> HIDE DEF tag
<1>3. /\ h.pc = (IF op = "write" THEN "out" ELSE "wait") /\ h.tag = tag /\ h.op = op
      /\ h.got = <<>> /\ h.status = "failed"
  BY <1>1 DEF HostRec
<1> HIDE DEF h
<1>4. host'[d] = h /\ \A e \in Drive : e # d => host'[e] = host[e] BY <1>1, <1>2
<1>5. ~bot[d].outLen BY <1>2 DEF CommandInv, OutInv
<1>6. Owned(d) /\ (~stray[d] => Healthy(d)) BY DEF AwaitInv
<1>7. CASE /\ op = "write" /\ UNCHANGED old
           /\ bot' = [bot EXCEPT ![d] = [bot[d] EXCEPT !.tag = tag, !.op = op, !.outLen = TRUE]]
  <2>1. /\ \A e \in Drive : e # d => bot'[e] = bot[e]
        /\ bot'[d].tag = tag /\ bot'[d].op = op /\ bot'[d].lastSeq = bot[d].lastSeq
        /\ bot'[d].flag = bot[d].flag
    BY <1>1, <1>7 DEF BotRec
  <2>2. Dpc(d)' = Dpc(d) BY <1>2 DEF Dpc
  <2>3. Owned(d)' BY <2>1, <2>2, <1>2, <1>3, <1>4, <1>6 DEF Owned
  <2>4. ASSUME ~stray'[d] PROVE Healthy(d)'
    <3>1. Healthy(d) BY <2>4, <1>2, <1>6
    <3>2. /\ Dpc(d) \notin Writing \cup {"picked"} /\ thr[d].pc \notin Writing
          /\ ep[d].fifo.kind = "none" /\ ~ep[d].rest /\ bot[d].lastSeq = 0
          /\ bot[d].flag => old[d]
      BY <3>1, <1>2, <1>6, NobodySends DEF Healthy
    <3>3. host'[d].pc = "out" /\ host'[d].got = <<>> /\ host'[d].op = "write"
      BY <1>3, <1>4, <1>7
    <3>4. Quiet(d)' BY <3>2, <3>3, <2>1, <2>2, <1>2, <1>7 DEF Quiet, Writing
    <3>5. Placed(d)' /\ InFifo(d)' BY <3>3 DEF Placed, InFifo, Waiting
    <3>6. NotRefused(d)' BY <3>1, <1>2 DEF Healthy, NotRefused, Refused
    <3>7. ReadSoFar(d)' BY <3>3 DEF ReadSoFar
    <3> QED BY <3>4, <3>5, <3>6, <3>7 DEF Healthy
  <2> QED BY <2>1, <2>3, <2>4, <1>2, <1>4, <1>7, HostAside
<1>8. CASE /\ op # "write" /\ old' = [old EXCEPT ![d] = FALSE]
           /\ bot' = [bot EXCEPT ![d] = [bot[d] EXCEPT !.tag = tag, !.op = op, !.flag = TRUE]]
  <2>1. /\ \A e \in Drive : e # d => bot'[e] = bot[e] /\ old'[e] = old[e]
        /\ bot'[d].tag = tag /\ bot'[d].op = op /\ bot'[d].lastSeq = bot[d].lastSeq
        /\ ~old'[d]
    BY <1>1, <1>8 DEF BotRec
  <2>2. Owned(d)' /\ (~stray'[d] => Healthy(d)')
    BY <2>1, <1>2, <1>3, <1>4, <1>6, <1>8, FlagKeeps
  <2> QED BY <2>1, <2>2, <1>2, <1>4, HostAside
<1> QED BY <1>2, <1>5, <1>7, <1>8 DEF BotRxHandler

(* The data of a write complete the command.                             *)
LEMMA DataKeeps ==
  ASSUME TypeInv, CommandInv, AwaitInv, NEW d \in Drive, HostData(d)
  PROVE  AwaitInv'
<1>1. /\ host \in [Drive -> HostRec] /\ bot \in [Drive -> BotRec] /\ old \in [Drive -> BOOLEAN]
  BY DEF TypeInv, HostInv, BotInv, HistInv
<1>2. /\ host[d].pc = "out" /\ UNCHANGED <<ep, iusb, kbuf, thr, stray>>
      /\ \A e \in Drive : e # d => host'[e] = host[e]
      /\ host'[d].pc = "wait" /\ host'[d].tag = host[d].tag /\ host'[d].op = host[d].op
      /\ host'[d].got = host[d].got /\ host'[d].status = host[d].status
      /\ host'[d].residue = host[d].residue
  BY <1>1 DEF HostData, HostRec
<1>3. bot[d].outLen BY <1>2 DEF CommandInv, OutInv
<1>4. /\ bot' = [bot EXCEPT ![d] = [bot[d] EXCEPT !.outLen = FALSE, !.flag = TRUE]]
      /\ old' = [old EXCEPT ![d] = FALSE]
  BY <1>3 DEF HostData, BotRxHandler
<1>5. /\ \A e \in Drive : e # d => bot'[e] = bot[e] /\ old'[e] = old[e]
      /\ bot'[d].tag = bot[d].tag /\ bot'[d].op = bot[d].op /\ bot'[d].lastSeq = bot[d].lastSeq
      /\ ~old'[d]
  BY <1>1, <1>4 DEF BotRec
<1>6. Owned(d) /\ (~stray[d] => Healthy(d)) BY DEF AwaitInv
<1>7. bot[d].tag = host[d].tag /\ bot[d].op = host[d].op /\ host[d].status = "failed"
  BY <1>2, <1>6 DEF Owned
<1>8. ~stray[d] => host[d].got = <<>>
  BY <1>2, <1>6 DEF Healthy, Quiet, Waiting
<1>9. Owned(d)' /\ (~stray'[d] => Healthy(d)')
  <2>1. CASE stray[d]
    <3>1. Dpc(d)' = Dpc(d) BY <1>2 DEF Dpc
    <3> QED BY <2>1, <3>1, <1>2, <1>5, <1>6, <1>7 DEF Owned
  <2>2. CASE ~stray[d]
    BY <2>2, <1>2, <1>5, <1>6, <1>7, <1>8, FlagKeeps
  <2> QED BY <2>1, <2>2
<1> QED BY <1>2, <1>5, <1>9, HostAside

(* What the host collects, and what lies in the endpoint then.             *)
Collects(d) ==
  LET p == ep[d].fifo
      h == host[d]
  IN
  /\ host'[d].tag = h.tag /\ host'[d].op = h.op
  /\ \/ /\ p.kind = "data" /\ Len(h.got) < Packets(h.op)
        /\ host'[d].pc = "wait" /\ host'[d].got = Append(h.got, p.tag)
        /\ host'[d].status = h.status
     \/ /\ p.kind = "csw" /\ p.status # "phase"
        /\ host'[d].pc = "idle" /\ host'[d].got = h.got
        /\ host'[d].status = p.status /\ host'[d].residue = p.residue
     \/ /\ host'[d].pc = "confused" /\ host'[d].got = h.got
        /\ host'[d].status = h.status
  /\ \/ /\ ep[d].rest /\ ~ep'[d].rest /\ ep'[d].fifo = Data(kbuf[Buffer(d)].tag)
        /\ (ep'[d].ready <=> ep[d].ready)
     \/ ~ep[d].rest /\ ~ep'[d].rest /\ ep'[d].fifo = Nothing /\ ep'[d].ready

(* HostIn does that, and nothing to other drives.                        *)
LEMMA HostInCollects ==
  ASSUME TypeInv, NEW d \in Drive, HostIn(d)
  PROVE  /\ Collects(d) /\ OtherEps(d) /\ \A e \in Drive : e # d => host'[e] = host[e]
         /\ UNCHANGED <<bot, iusb, kbuf, thr, hist>>
         /\ host[d].pc = "wait" /\ ep[d].fifo.kind # "none"
<1> DEFINE p == ep[d].fifo
           h == host[d]
           h1 == [h EXCEPT !.got = Append(h.got, p.tag)]
           h2 == [h EXCEPT !.pc = "idle", !.status = p.status, !.residue = p.residue]
           h3 == [h EXCEPT !.pc = "confused"]
           f == Data(kbuf[Buffer(d)].tag)
           e1 == [ep[d] EXCEPT !.rest = FALSE, !.fifo = f]
           e2 == [ep[d] EXCEPT !.ready = TRUE, !.fifo = Nothing]
<1>1. host \in [Drive -> HostRec] /\ ep \in [Drive -> EpRec] /\ ep[d] \in EpRec
  BY DEF TypeInv, HostInv, EpInv
<1>2. /\ host' = [host EXCEPT ![d] =
                    IF p.kind = "data" /\ Len(h.got) < Packets(h.op) THEN h1
                    ELSE IF p.kind = "csw" /\ p.tag = h.tag /\ p.status # "phase" THEN h2 ELSE h3]
      /\ ep' = [ep EXCEPT ![d] = IF ep[d].rest THEN e1 ELSE e2]
      /\ h.pc = "wait" /\ p.kind # "none" /\ UNCHANGED <<bot, iusb, kbuf, thr, hist>>
  BY DEF HostIn
<1>3. /\ h1.pc = h.pc /\ h1.tag = h.tag /\ h1.op = h.op /\ h1.got = Append(h.got, p.tag)
      /\ h1.status = h.status
      /\ h2.pc = "idle" /\ h2.tag = h.tag /\ h2.op = h.op /\ h2.got = h.got
      /\ h2.status = p.status /\ h2.residue = p.residue
      /\ h3.pc = "confused" /\ h3.tag = h.tag /\ h3.op = h.op /\ h3.got = h.got
      /\ h3.status = h.status
  BY <1>1 DEF HostRec
<1>4. /\ ~e1.rest /\ e1.fifo = f /\ (e1.ready <=> ep[d].ready)
      /\ (e2.rest <=> ep[d].rest) /\ e2.fifo = Nothing /\ e2.ready
  BY <1>1 DEF EpRec
<1> HIDE DEF h1, h2, h3, e1, e2
<1>5. OtherEps(d) /\ \A e \in Drive : e # d => host'[e] = host[e]
  BY <1>1, <1>2 DEF OtherEps
<1>6. /\ host'[d] = (IF p.kind = "data" /\ Len(h.got) < Packets(h.op) THEN h1
                     ELSE IF p.kind = "csw" /\ p.tag = h.tag /\ p.status # "phase" THEN h2 ELSE h3)
      /\ ep'[d] = (IF ep[d].rest THEN e1 ELSE e2)
  BY <1>1, <1>2
<1> QED BY <1>2, <1>3, <1>4, <1>5, <1>6 DEF Collects

(* The two packets of a read.                                              *)
LEMMA Appended ==
  ASSUME NEW tag \in Tag
  PROVE  Append(<<>>, tag) = <<tag>> /\ Append(<<tag>>, tag) = <<tag, tag>>
<1>1. Append(<<>>, tag) = <<tag>>
  <2>1. <<>> \in Seq(Tag) OBVIOUS
  <2> QED BY <2>1
<1>2. Append(<<tag>>, tag) = <<tag, tag>>
  <2> DEFINE s == Append(<<tag>>, tag)
             u == <<tag, tag>>
  <2>1. <<tag>> \in Seq(Tag) /\ u \in Seq(Tag) /\ Len(<<tag>>) = 1 /\ Len(u) = 2
        /\ u[1] = tag /\ u[2] = tag
    OBVIOUS
  <2>2. s \in Seq(Tag) /\ Len(s) = 2 BY <2>1
  <2>3. s[1] = tag /\ s[2] = tag BY <2>1
  <2> HIDE DEF s, u
  <2>4. \A i \in 1..2 : s[i] = u[i]
    <3>1. \A i \in 1..2 : i = 1 \/ i = 2 OBVIOUS
    <3> QED BY <2>1, <2>3, <3>1
  <2>5. s = u BY <2>1, <2>2, <2>4
  <2> QED BY <2>5 DEF s, u
<1> QED BY <1>1, <1>2

(* What is left after the host has collected a packet is still for it.   *)
LEMMA InKeeps ==
  ASSUME TypeInv, AwaitInv, NEW d \in Drive, HostIn(d) PROVE AwaitInv'
<1>1. /\ Collects(d) /\ OtherEps(d) /\ \A e \in Drive : e # d => host'[e] = host[e]
      /\ UNCHANGED <<bot, iusb, kbuf, thr, hist>>
      /\ host[d].pc = "wait" /\ ep[d].fifo.kind # "none"
  BY HostInCollects
<1>2. host'[d].pc \in {"wait", "idle", "confused"} /\ host'[d].tag = host[d].tag
      /\ host'[d].op = host[d].op
  BY <1>1 DEF Collects
<1>3. host'[d].pc \in Waiting => host'[d].status = host[d].status
  BY <1>1 DEF Collects, Waiting
<1>4. Dpc(d)' = Dpc(d) BY <1>1 DEF Dpc
<1>5. Owned(d) /\ (~stray[d] => Healthy(d)) BY DEF AwaitInv
<1>6. Owned(d)' BY <1>1, <1>2, <1>3, <1>4, <1>5 DEF Owned, Waiting
<1>7. ASSUME ~stray'[d] PROVE Healthy(d)'
  <2>1. Healthy(d) /\ host[d].pc \in Waiting BY <1>1, <1>5, <1>7 DEF hist, Waiting
  <2>2. /\ ~bot[d].flag /\ Dpc(d) # "picked" /\ ~Outstanding(d) /\ ~Untouched(d)
    BY <2>1, <1>1 DEF Healthy, Placed, Untouched
  <2>3. /\ ep[d].fifo.tag = host[d].tag
        /\ bot[d].lastSeq # 0 => ep[d].fifo.kind = "csw" /\ ep[d].fifo.status = "phase"
        /\ ep[d].rest => thr[d].pc = "data" /\ ~ep[d].ready /\ ep[d].fifo.kind = "data"
    BY <2>1, <1>1 DEF Healthy, InFifo
  <2>4. thr[d].pc \in Writing =>
          /\ bot[d].lastSeq = 0 /\ Dpc(d) = "idle" /\ ep[d].fifo.kind # "csw"
          /\ thr[d].pkt.tag = host[d].tag /\ kbuf[Buffer(d)].tag = host[d].tag
    BY <2>1, <1>5 DEF Healthy, Placed, Owned
  <2>5. host[d].status = "failed" BY <2>1, <1>5 DEF Owned
  <2>6. ~ep'[d].rest BY <1>1 DEF Collects
  <2>7. \/ /\ ep[d].rest /\ ep'[d].fifo = Data(host[d].tag) /\ ~ep'[d].ready
           /\ thr[d].pc = "data" /\ bot[d].lastSeq = 0
        \/ ~ep[d].rest /\ ep'[d].fifo = Nothing /\ ep'[d].ready
    BY <2>3, <2>4, <1>1 DEF Collects, Writing
  <2>8. ep'[d].fifo.kind \in {"none", "data"}
        /\ (ep'[d].fifo.kind # "none" => ep'[d].fifo.tag = host[d].tag /\ bot[d].lastSeq = 0)
    <3>1. CASE ep'[d].fifo = Data(host[d].tag) /\ bot[d].lastSeq = 0
      <4>1. Data(host[d].tag).kind = "data" /\ Data(host[d].tag).tag = host[d].tag
        BY DEF Data, Nothing
      <4> QED BY <3>1, <4>1
    <3>2. CASE ep'[d].fifo = Nothing BY <3>2 DEF Nothing
    <3> QED BY <3>1, <3>2, <2>7
  <2>9. ~Outstanding(d)' BY <2>2, <1>1 DEF Outstanding, Refused
  <2>10. NotRefused(d)' BY <2>1, <1>1 DEF Healthy, NotRefused, Refused
  <2>11. InFifo(d)' BY <2>6, <2>8, <1>1, <1>2 DEF InFifo
  <2>12. Placed(d)'
    <3>1. ASSUME Dpc(d) \in Writing
          PROVE  /\ thr[d].pc \notin Writing
                 /\ Dpc(d) = "data" => host[d].op = "local" /\ bot[d].lastSeq = 0
                 /\ Dpc(d) # "data" => /\ thr[0].csw.tag = host[d].tag
                                       /\ bot[d].lastSeq # 0 => thr[0].csw.status = "phase"
      BY <3>1, <2>1 DEF Healthy, Placed
    <3> QED BY <3>1, <2>2, <2>4, <2>8, <2>9, <1>1, <1>2, <1>4 DEF Placed
  <2>13. Quiet(d)'
    <3>1. CASE host'[d].pc \in Waiting BY <3>1 DEF Quiet
    <3>2. CASE host'[d].pc = "idle" /\ ep[d].fifo.kind = "csw" /\ ep[d].fifo.status # "phase"
      <4>1. ~ep[d].rest /\ bot[d].lastSeq = 0 BY <3>2, <2>3
      <4>2. thr[d].pc \notin Writing BY <3>2, <2>4
      <4>3. Dpc(d) \notin Writing BY <3>2, <2>1 DEF Healthy, Placed
      <4>4. ep'[d].fifo.kind = "none" BY <4>1, <2>7 DEF Nothing
      <4> QED BY <4>1, <4>2, <4>3, <4>4, <3>2, <2>2, <2>6, <1>1, <1>4 DEF Quiet, Writing
    <3> QED BY <3>1, <3>2, <1>1 DEF Collects, Waiting
  <2>14. ReadSoFar(d)'
    <3>1. CASE /\ ep[d].fifo.kind = "data" /\ host'[d].pc = "wait"
               /\ host'[d].got = Append(host[d].got, ep[d].fifo.tag)
               /\ host'[d].status = host[d].status
      <4>1. ASSUME host[d].op = "read", thr[d].pc = "data"
            PROVE  \/ ep[d].rest /\ host'[d].got = <<host[d].tag>>
                   \/ ~ep[d].rest /\ host'[d].got = <<host[d].tag, host[d].tag>>
        <5>1. \/ ep[d].rest /\ host[d].got = <<>>
              \/ ~ep[d].rest /\ host[d].got = <<host[d].tag>>
          BY <4>1, <2>1, <1>1 DEF Healthy, ReadSoFar
        <5>2. host[d].tag \in Tag BY DEF TypeInv, HostInv, HostRec
        <5> QED BY <5>1, <5>2, <3>1, <2>3, Appended
      <4>2. ASSUME host[d].op = "read", thr[d].pc = "data"
            PROVE  \/ /\ ~ep'[d].ready /\ ep'[d].fifo = Data(host[d].tag)
                      /\ host'[d].got = <<host[d].tag>>
                   \/ /\ ep'[d].ready /\ ep'[d].fifo.kind = "none"
                      /\ host'[d].got = <<host[d].tag, host[d].tag>>
        BY <4>1, <4>2, <2>7 DEF Nothing
      <4> QED BY <4>2, <3>1, <2>5, <2>6, <2>8, <1>1, <1>2 DEF ReadSoFar
    <3>2. CASE /\ ep[d].fifo.kind = "csw" /\ host'[d].pc = "idle" /\ host'[d].got = host[d].got
               /\ host'[d].status = ep[d].fifo.status /\ host'[d].residue = ep[d].fifo.residue
      BY <3>2, <2>1, <1>1, <1>2 DEF Healthy, ReadSoFar
    <3>3. CASE host'[d].pc = "confused" /\ host'[d].status = host[d].status
      BY <3>3, <2>5 DEF ReadSoFar
    <3> QED BY <3>1, <3>2, <3>3, <1>1 DEF Collects
  <2> QED BY <2>10, <2>11, <2>12, <2>13, <2>14 DEF Healthy
<1> QED BY <1>1, <1>6, <1>7, HostAside DEF OtherEps, hist

(* A reset gives up the command; a thread that works on for it is stray. *)
LEMMA ResetKeeps ==
  ASSUME TypeInv, AwaitInv, NEW d \in Drive, UsbBusReset(d) PROVE AwaitInv'
<1>1. /\ host \in [Drive -> HostRec] /\ ep \in [Drive -> EpRec] /\ bot \in [Drive -> BotRec]
      /\ old \in [Drive -> BOOLEAN] /\ stray \in [Drive -> BOOLEAN]
      /\ 0 \in Thread /\ d \in Thread
  BY Constants DEF TypeInv, HostInv, EpInv, BotInv, HistInv
<1>2. UNCHANGED <<iusb, kbuf, thr>> BY DEF UsbBusReset
<1>3. /\ host'[d].pc = "off" /\ host'[d].tag = host[d].tag /\ host'[d].op = host[d].op
      /\ host'[d].got = host[d].got /\ host'[d].status = host[d].status
      /\ host'[d].residue = host[d].residue
  BY <1>1 DEF UsbBusReset, HostRec
<1>4. ep'[d].fifo = Nothing /\ ~ep'[d].rest /\ ep'[d].ready BY <1>1 DEF UsbBusReset
<1>5. bot'[d].lastSeq = 0 /\ bot'[d].flag = bot[d].flag
  BY <1>1 DEF UsbBusReset, BotRemHandler, BotRec
<1>6. old' = [old EXCEPT ![d] = bot[d].flag] BY DEF UsbBusReset
<1>7. ~stray'[d] => ~stray[d] /\ \A t \in Thread : ~Lingers(t, d)
  BY <1>1 DEF UsbBusReset
<1>8. \A e \in Drive : e # d => /\ host'[e] = host[e] /\ ep'[e] = ep[e] /\ bot'[e] = bot[e]
                                /\ old'[e] = old[e] /\ stray'[e] = stray[e]
  BY <1>1, <1>6, BusResetType
<1>9. Dpc(d)' = Dpc(d) BY <1>2 DEF Dpc
<1>10. Owned(d) /\ (~stray[d] => Healthy(d)) BY DEF AwaitInv
<1>11. Owned(d)' BY <1>2, <1>3, <1>9, <1>10 DEF Owned, Waiting
<1>12. ASSUME ~stray'[d] PROVE Healthy(d)'
  <2>1. Healthy(d) /\ ~Lingers(0, d) /\ ~Lingers(d, d) BY <1>1, <1>7, <1>10, <1>12
  <2>2. /\ Dpc(d) \notin {"picked", "stall", "go"}
        /\ Dpc(d) = "data" => ~thr[0].csw.residue
    BY <2>1 DEF Lingers, Dpc
  <2>3. /\ thr[d].pc \notin {"stall", "go"}
        /\ thr[d].pc = "data" => ~thr[d].csw.residue
    BY <2>1, <1>10 DEF Lingers, Owned
  <2>4. bot'[d].flag => old'[d] BY <1>1, <1>5, <1>6
  <2>5. Quiet(d)' BY <2>2, <2>3, <2>4, <1>2, <1>3, <1>4, <1>5, <1>9 DEF Quiet, Nothing
  <2>6. Placed(d)' /\ InFifo(d)' BY <1>3 DEF Placed, InFifo, Waiting
  <2>7. NotRefused(d)' BY <2>1, <1>2 DEF Healthy, NotRefused, Refused
  <2>8. ReadSoFar(d)' BY <2>1, <1>3 DEF Healthy, ReadSoFar
  <2> QED BY <2>5, <2>6, <2>7, <2>8 DEF Healthy
<1> QED BY <1>2, <1>8, <1>11, <1>12, HostAside

(* Every step keeps it.                                                    *)
LEMMA AwaitStep ==
  ASSUME TypeInv, CommandInv, CaseInv, AwaitInv, Next PROVE AwaitInv'
<1>1. CASE Plain BY <1>1, PlainKeeps
<1>2. CASE DpcProcess
  <2>1. PICK d : d = thr[0].drive OBVIOUS
  <2>2. d \in Drive BY <2>1, <1>2, DpcProcessSends
  <2> QED BY <2>1, <2>2, <1>2, ProcessKeeps
<1>3. ASSUME NEW t \in Thread, Transmit(t) PROVE AwaitInv'
  <2>1. PICK d : d = thr[t].drive OBVIOUS
  <2>2. d \in Drive BY <2>1, <1>3, TransmitSends
  <2> QED BY <2>1, <2>2, <1>3, TransmitKeeps
<1>4. ASSUME NEW d \in Drive, Crash(d) PROVE AwaitInv' BY <1>4, CrashKeeps
<1>5. ASSUME NEW d \in Drive, NEW status \in {"passed", "failed"}, ScsiSendResponse(d, status)
      PROVE  AwaitInv'
  BY <1>5, ResponseKeeps
<1>6. ASSUME NEW d \in Drive, HostData(d) PROVE AwaitInv' BY <1>6, DataKeeps
<1>7. ASSUME NEW d \in Drive, HostIn(d) PROVE AwaitInv' BY <1>7, InKeeps
<1>8. ASSUME NEW d \in Drive, NEW op \in Op, HostCommand(d, op) PROVE AwaitInv'
  BY <1>8, CommandKeeps
<1>9. ASSUME NEW d \in Drive, HostReset(d) \/ HostRecovers(d) PROVE AwaitInv'
  BY <1>9, ResetKeeps DEF HostReset, HostRecovers
<1> QED BY <1>1, <1>2, <1>3, <1>4, <1>5, <1>6, <1>7, <1>8, <1>9, Steps

(* The invariant holds throughout.                                       *)
LEMMA AwaitHolds == Spec => []AwaitInv
<1>1. Init => AwaitInv
  <2> SUFFICES ASSUME Init, NEW d \in Drive PROVE Owned(d) /\ Healthy(d) BY DEF AwaitInv
  <2>1. /\ host[d].pc = "off" /\ host[d].op = "local"
        /\ ep[d].fifo = Nothing /\ ep[d].ready /\ ~ep[d].rest
        /\ bot[d].lastSeq = 0 /\ ~bot[d].flag
    BY DEF Init
  <2>2. thr[d].pc = "off" /\ thr[0].pc = "idle" BY Constants DEF Init
  <2>3. Dpc(d) = "idle" BY <2>2 DEF Dpc, Working
  <2>4. Owned(d) BY <2>1, <2>2, <2>3 DEF Owned, Writing, Waiting
  <2>5. Quiet(d) BY <2>1, <2>2, <2>3 DEF Quiet, Nothing
  <2>6. Placed(d) /\ InFifo(d) BY <2>1 DEF Placed, InFifo, Waiting
  <2>7. NotRefused(d) /\ ReadSoFar(d) BY <2>1, <2>2 DEF NotRefused, ReadSoFar
  <2> QED BY <2>4, <2>5, <2>6, <2>7 DEF Healthy
<1>2. AwaitInv /\ UNCHANGED vars => AwaitInv'
  <2> SUFFICES ASSUME AwaitInv, UNCHANGED vars PROVE AwaitInv' OBVIOUS
  <2>1. ASSUME NEW d \in Drive PROVE Aside(d)
    <3>1. UNCHANGED <<host, ep, bot, iusb, kbuf, thr, old, stray>> BY DEF vars, hist
    <3>2. Dpc(d)' = Dpc(d) BY <3>1 DEF Dpc
    <3> QED BY <3>1, <3>2 DEF Aside
  <2> QED BY <2>1, AsideKeeps DEF AwaitInv
<1>3. TypeInv /\ CommandInv /\ CaseInv /\ AwaitInv /\ [Next]_vars => AwaitInv'
  BY <1>2, AwaitStep
<1> QED BY <1>1, <1>3, TypeHolds, CommandHolds, CaseHolds, PTL DEF Spec

(* What lies in an IN endpoint is for the command its host waits for: no   *)
(* data of another drive, of an earlier command, and no second CSW,        *)
(* whatever resets, late answers, timeouts and crashes came, but for       *)
(* threads that a reset sends home (BotSendCSW, ScsiSendResponse).         *)
THEOREM PacketsAwaited == Spec => []PacketIsAwaited
<1>1. AwaitInv => PacketIsAwaited
  <2> SUFFICES ASSUME AwaitInv, NEW d \in Drive, ~stray[d], ep[d].fifo.kind # "none"
               PROVE  host[d].pc \in {"wait", "confused"} /\ ep[d].fifo.tag = host[d].tag
    BY DEF PacketIsAwaited
  <2>1. Quiet(d) /\ InFifo(d) BY DEF AwaitInv, Healthy
  <2>2. host[d].pc \in Waiting BY <2>1 DEF Quiet
  <2> QED BY <2>1, <2>2 DEF InFifo, Waiting
<1> QED BY <1>1, AwaitHolds, PTL

(* A read that the drive reports complete brought the host both packets of *)
(* its own data, in a reply buffer that belongs to the kind of drive       *)
(* (ScsiSendResponse, UsbTxHandler).                                       *)
THEOREM ReadsOwn == Spec => []HostReadsOwn
<1>1. AwaitInv => HostReadsOwn
  BY DEF AwaitInv, Healthy, ReadSoFar, HostReadsOwn
<1> QED BY <1>1, AwaitHolds, PTL

(* An answer that is passed on is for the command the host waits for: the  *)
(* sequence number sees through every reset and every new command that     *)
(* came while the server worked (ScsiSendResponse).                        *)
THEOREM AnswersAwaited == Spec => AnswerIsAwaited
<1>1. ASSUME TypeInv, CaseInv, AwaitInv, Next, NEW d \in Drive, thr[d].pc = "busy",
             thr'[d].pc \in {"data", "stall", "csw"}, ~stray[d]
      PROVE  host[d].pc = "wait" /\ host[d].tag = thr[d].pkt.tag
  <2>1. thr[d].pkt.seq = bot[d].lastSeq BY <1>1, Answers
  <2>2. thr[d].pkt.seq > 0 BY <1>1 DEF CaseInv, Numbered
  <2>3. bot[d].lastSeq > 0 /\ bot[d].lastSeq # 0 BY <2>1, <2>2
  <2>4. thr[d].pkt = iusb[d].pkt BY <2>1, <2>3, <1>1 DEF CaseInv, Numbered
  <2>5. Healthy(d) BY <1>1 DEF AwaitInv
  <2>6. host[d].pc \in Waiting BY <2>3, <2>5 DEF Healthy, Quiet
  <2>7. Outstanding(d) BY <2>3, <2>4, <2>5, <1>1 DEF Healthy, NotRefused, Outstanding
  <2> QED BY <2>4, <2>5, <2>6, <2>7 DEF Healthy, Placed, Untouched
<1> DEFINE Own == \A d \in Drive :
             thr[d].pc = "busy" /\ thr'[d].pc \in {"data", "stall", "csw"} /\ ~stray[d] =>
               host[d].pc = "wait" /\ host[d].tag = thr[d].pkt.tag
<1>2. TypeInv /\ CaseInv /\ AwaitInv /\ [Next]_vars => [Own]_vars BY <1>1
<1>3. AnswerIsAwaited <=> [][Own]_vars BY DEF AnswerIsAwaited
<1> HIDE DEF Own
<1> QED BY <1>2, <1>3, TypeHolds, CaseHolds, AwaitHolds, PTL DEF Spec
====
