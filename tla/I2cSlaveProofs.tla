---- MODULE I2cSlaveProofs ----
(***************************************************************************)
(* Proofs about I2cSlave, for queues of any length, messages of any length *)
(* and any number of them: the type invariant, and with it that the two    *)
(* queues are rings that agree with their counts, neither read empty nor   *)
(* written full, whatever the bus, the handler and the tasks do; and that  *)
(* a reader gets each message of its kind once, in order, and whole unless *)
(* it was cut into.                                                        *)
(***************************************************************************)
EXTENDS I2cSlave, SequenceTheorems, TLAPS

(* The constants as the provers need them.                                 *)
LEMMA Constants ==
  /\ Slots \in Nat /\ Slots > 0 /\ NumBytes \in Nat /\ NumBytes > 1
  /\ MaxBytes \in Nat /\ MaxBytes > NumBytes /\ MaxMsg \in Nat /\ MaxMsg > 0
BY ConstantsAssumption

Slot == 0..(Slots - 1)
Message == {m \in Seq(Byte) : Len(m) <= MaxBytes}
Queue == [slot : [Slot -> Message], writer : Slot, reader : Slot, entries : 0..Slots]

(* A position of the ring, without the remainder (the indices go back to 0 *)
(* at MAX_FIFO_LEN).                                                       *)
Place(n) == IF n < Slots THEN n ELSE n - Slots

(* The remainder of less than two rounds.                                  *)
LEMMA Remainder ==
  ASSUME NEW n \in 0..(2 * Slots - 1)
  PROVE  n % Slots = Place(n) /\ Place(n) \in Slot
<1>1. CASE n < Slots BY <1>1, Constants DEF Place, Slot
<1>2. CASE n >= Slots
  <2>1. n = Slots + (n - Slots) /\ n - Slots \in 0..(Slots - 1) BY <1>2, Constants
  <2>2. n % Slots = n - Slots BY <2>1, Constants
  <2> QED BY <2>1, <2>2, <1>2, Constants DEF Place, Slot
<1> QED BY <1>1, <1>2, Constants

(* One step further round the ring.                                        *)
LEMMA PlaceNext ==
  ASSUME NEW n \in 0..(2 * Slots - 2)
  PROVE  Place(Place(n) + 1) = Place(n + 1)
BY Constants DEF Place

(* Counting on from the next position.                                     *)
LEMMA PlaceOn ==
  ASSUME NEW a \in 0..(Slots - 1), NEW k \in 0..(Slots - 1)
  PROVE  Place(Place(a + 1) + k) = Place(a + (k + 1))
BY Constants DEF Place

(* A well-formed ring holds as many messages as it says, none of them empty *)
(* or of an address alone (i2cSTOPDET_slave_process).                      *)
Ring(r) ==
  /\ r \in Queue
  /\ r.writer = Place(r.reader + r.entries)
  /\ \A i \in 1..r.entries : Len(r.slot[Place(r.reader + i - 1)]) > 1

(* An empty queue is a well-formed ring (i2c_init_internal_data).          *)
LEMMA EmptyRing == Ring(EmptyQueue)
<1>1. <<>> \in Message BY Constants DEF Message
<1>2. EmptyQueue \in Queue
  BY <1>1, Constants DEF EmptyQueue, Queue, Slot
<1> QED BY <1>2, Constants DEF Ring, EmptyQueue, Place

(* Storing a message behind the newest keeps the ring well formed.         *)
LEMMA StoreKeepsRing ==
  ASSUME NEW r, Ring(r), r.entries < Slots,
         NEW m \in Message, Len(m) > 1
  PROVE  Ring([slot    |-> [r.slot EXCEPT ![r.writer] = m],
               writer  |-> (r.writer + 1) % Slots,
               reader  |-> r.reader,
               entries |-> r.entries + 1])
<1> DEFINE s == [slot    |-> [r.slot EXCEPT ![r.writer] = m],
                 writer  |-> (r.writer + 1) % Slots,
                 reader  |-> r.reader,
                 entries |-> r.entries + 1]
<1>1. /\ r.slot \in [Slot -> Message] /\ r.writer \in 0..(Slots - 1)
      /\ r.reader \in 0..(Slots - 1) /\ r.entries \in 0..(Slots - 1)
      /\ r.writer = Place(r.reader + r.entries)
  BY Constants DEF Ring, Queue, Slot
<1>2. (r.writer + 1) % Slots = Place(r.writer + 1) /\ Place(r.writer + 1) \in Slot
  <2>1. r.writer + 1 \in 0..(2 * Slots - 1) BY <1>1, Constants
  <2> QED BY <2>1, Remainder
<1>3. [r.slot EXCEPT ![r.writer] = m] \in [Slot -> Message] BY <1>1
<1>4. r.entries + 1 \in 0..Slots /\ r.reader \in Slot BY <1>1, Constants DEF Slot
<1>5. s \in Queue BY <1>2, <1>3, <1>4 DEF Queue
<1>6. s.writer = Place(s.reader + s.entries)
  <2>1. r.reader + r.entries \in 0..(2 * Slots - 2) BY <1>1, Constants
  <2>2. Place(r.writer + 1) = Place((r.reader + r.entries) + 1)
    BY <2>1, <1>1, PlaceNext
  <2>3. (r.reader + r.entries) + 1 = r.reader + (r.entries + 1) BY <1>1
  <2> QED BY <2>2, <2>3, <1>2
<1>7. ASSUME NEW i \in 1..s.entries
      PROVE  Len(s.slot[Place(s.reader + i - 1)]) > 1
  <2>1. i \in 1..(r.entries + 1) OBVIOUS
  <2>2. Place(r.reader + i - 1) \in Slot
    <3>1. r.reader + i - 1 \in 0..(2 * Slots - 1) BY <2>1, <1>1, Constants
    <3> QED BY <3>1, Remainder
  <2>3. CASE i = r.entries + 1
    <3>1. r.reader + i - 1 = r.reader + r.entries BY <2>3, <1>1
    <3> QED BY <3>1, <2>2, <1>1
  <2>4. CASE i <= r.entries
    <3>1. Place(r.reader + i - 1) # r.writer
      BY <2>1, <2>4, <1>1, Constants, SMTT(20) DEF Place
    <3>2. Len(r.slot[Place(r.reader + i - 1)]) > 1
      BY <2>1, <2>4, <1>1 DEF Ring
    <3> QED BY <3>1, <3>2, <2>2, <1>1
  <2> QED BY <2>1, <2>3, <2>4, <1>1
<1> HIDE DEF s
<1>8. Ring(s) BY <1>5, <1>6, <1>7 DEF Ring
<1> QED BY <1>8 DEF s

(* Taking the oldest message keeps the ring well formed.                   *)
LEMMA TakeKeepsRing ==
  ASSUME NEW r, Ring(r), r.entries > 0
  PROVE  Ring([slot    |-> [r.slot EXCEPT ![r.reader] = <<>>],
               writer  |-> r.writer,
               reader  |-> (r.reader + 1) % Slots,
               entries |-> r.entries - 1])
<1> DEFINE s == [slot    |-> [r.slot EXCEPT ![r.reader] = <<>>],
                 writer  |-> r.writer,
                 reader  |-> (r.reader + 1) % Slots,
                 entries |-> r.entries - 1]
<1>1. /\ r \in Queue
      /\ r.slot \in [Slot -> Message] /\ r.writer \in Slot
      /\ r.reader \in 0..(Slots - 1) /\ r.entries \in 1..Slots
      /\ r.writer = Place(r.reader + r.entries)
  BY Constants DEF Ring, Queue, Slot
<1>2. (r.reader + 1) % Slots = Place(r.reader + 1) /\ Place(r.reader + 1) \in Slot
  <2>1. r.reader + 1 \in 0..(2 * Slots - 1) BY <1>1, Constants
  <2> QED BY <2>1, Remainder
<1>3. <<>> \in Message BY Constants DEF Message
<1>4. [r.slot EXCEPT ![r.reader] = <<>>] \in [Slot -> Message] BY <1>1, <1>3
<1>5. r.entries - 1 \in 0..Slots BY <1>1, Constants
<1>6. /\ s \in Queue /\ s.writer = r.writer /\ s.entries = r.entries - 1
      /\ s.reader = Place(r.reader + 1) /\ s.slot = [r.slot EXCEPT ![r.reader] = <<>>]
  BY <1>1, <1>2, <1>4, <1>5 DEF Queue
<1> HIDE DEF s
<1>7. s.writer = Place(s.reader + s.entries)
  <2>1. r.entries - 1 \in 0..(Slots - 1) /\ (r.entries - 1) + 1 = r.entries
    BY <1>1, Constants
  <2>2. Place(Place(r.reader + 1) + (r.entries - 1)) = Place(r.reader + r.entries)
    BY <2>1, <1>1, PlaceOn
  <2> QED BY <2>2, <1>1, <1>6
<1>8. ASSUME NEW i \in 1..s.entries
      PROVE  Len(s.slot[Place(s.reader + i - 1)]) > 1
  <2>1. i \in 1..(r.entries - 1) BY <1>6
  <2>2. Place(s.reader + i - 1) = Place(r.reader + (i + 1) - 1)
    BY <2>1, <1>1, <1>6, Constants DEF Place
  <2>3. Place(r.reader + (i + 1) - 1) \in Slot /\ Place(r.reader + (i + 1) - 1) # r.reader
    BY <2>1, <1>1, Constants DEF Place, Slot
  <2>4. i + 1 \in 1..r.entries BY <2>1, <1>1
  <2>5. Len(r.slot[Place(r.reader + (i + 1) - 1)]) > 1 BY <2>4 DEF Ring
  <2>6. s.slot[Place(s.reader + i - 1)] = r.slot[Place(r.reader + (i + 1) - 1)]
    BY <2>2, <2>3, <1>1, <1>6
  <2> QED BY <2>5, <2>6
<1>a. Ring(s) BY <1>6, <1>7, <1>8 DEF Ring
<1> QED BY <1>a DEF s

----------------------------------------------------------------------------
(* The invariant: the types, the rings, and that a byte that waits to be   *)
(* read belongs to the message on the wire.                                *)

WireType == [by : {"none", "own", "ownlast", "remote", "ended"},
             id : 0..MaxMsg, kind : Kinds, at : 0..NumBytes]
Flags == {"SLAVE", "MASTER_XMIT", "MASTER_RECV"}

Typed ==
  /\ wire \in WireType
  /\ pend \subseteq Bits /\ handling \subseteq Bits \cup {"disable"}
  /\ slaveOn \in BOOLEAN /\ slaveMode \in BOOLEAN
  /\ own \in BOOLEAN /\ enabling \in BOOLEAN
  /\ flag \in Flags /\ linear \in Message /\ sent \in 0..MaxMsg
  /\ taken \in [Kinds -> 0..MaxMsg] /\ cut \subseteq 1..MaxMsg
Rings == queue \in [Kinds -> Queue] /\ \A q \in Kinds : Ring(queue[q])
Carried ==
  /\ wire.by \in {"remote", "ended"} => wire.id >= 1
  /\ "rx" \in pend => wire.by \in {"remote", "ended"} /\ wire.at >= 1
TypeInv == Typed /\ Rings /\ Carried

(* What the invariant says in the words of TypeOK.                         *)
LEMMA TypeInvImplies == TypeInv => TypeOK
<1> SUFFICES ASSUME TypeInv PROVE TypeOK
  OBVIOUS
<1> USE DEF TypeInv
<1>1. linear \in Seq(Byte) /\ Len(linear) <= MaxBytes BY DEF Typed, Message
<1>2. ASSUME NEW q \in Kinds
      PROVE  /\ queue[q].entries \in 0..Slots /\ queue[q].reader \in 0..(Slots - 1)
             /\ queue[q].writer = (queue[q].reader + queue[q].entries) % Slots
             /\ \A i \in 0..(Slots - 1) :
                  queue[q].slot[i] \in Seq(Byte) /\ Len(queue[q].slot[i]) <= MaxBytes
             /\ \A i \in 1..queue[q].entries : Len(Contents(q)[i]) > 1
  <2> DEFINE r == queue[q]
  <2>1. Ring(r) BY DEF Rings
  <2>2. /\ r.slot \in [Slot -> Message] /\ r.reader \in 0..(Slots - 1)
        /\ r.entries \in 0..Slots /\ r.writer = Place(r.reader + r.entries)
    BY <2>1 DEF Ring, Queue, Slot
  <2>3. r.writer = (r.reader + r.entries) % Slots
    <3>1. r.reader + r.entries \in 0..(2 * Slots - 1) BY <2>2, Constants
    <3> QED BY <3>1, <2>2, Remainder
  <2>4. \A i \in 0..(Slots - 1) : r.slot[i] \in Seq(Byte) /\ Len(r.slot[i]) <= MaxBytes
    BY <2>2 DEF Slot, Message
  <2>5. ASSUME NEW i \in 1..r.entries PROVE Len(Contents(q)[i]) > 1
    <3>1. r.reader + i - 1 \in 0..(2 * Slots - 1) BY <2>2, Constants
    <3>2. (r.reader + i - 1) % Slots = Place(r.reader + i - 1) BY <3>1, Remainder
    <3>3. Contents(q)[i] = r.slot[(r.reader + i - 1) % Slots] BY DEF Contents
    <3>4. Len(r.slot[Place(r.reader + i - 1)]) > 1 BY <2>1 DEF Ring
    <3> QED BY <3>2, <3>3, <3>4
  <2> QED BY <2>2, <2>3, <2>4, <2>5
<1>3. \A q \in Kinds :
        /\ queue[q].entries \in 0..Slots /\ queue[q].reader \in 0..(Slots - 1)
        /\ queue[q].writer = (queue[q].reader + queue[q].entries) % Slots
        /\ \A i \in 0..(Slots - 1) :
             queue[q].slot[i] \in Seq(Byte) /\ Len(queue[q].slot[i]) <= MaxBytes
        /\ \A i \in 1..queue[q].entries : Len(Contents(q)[i]) > 1
  BY <1>2
<1> QED BY <1>1, <1>3 DEF TypeOK, Typed, WireType, Flags

(* Initially (i2c_init_internal_data).                                     *)
LEMMA InitType == Init => TypeInv
<1> SUFFICES ASSUME Init PROVE TypeInv
  OBVIOUS
<1> USE Constants DEF Init
<1>1. Typed
  <2>1. linear \in Message BY DEF Message
  <2>2. wire \in WireType BY DEF Free, WireType, Kinds
  <2>3. taken \in [Kinds -> 0..MaxMsg] OBVIOUS
  <2>4. flag \in Flags /\ sent \in 0..MaxMsg BY DEF Flags
  <2> QED BY <2>1, <2>2, <2>3, <2>4 DEF Typed
<1>2. Rings
  <2>1. EmptyQueue \in Queue BY EmptyRing DEF Ring
  <2> QED BY <2>1, EmptyRing DEF Rings
<1>3. Carried BY DEF Carried, Free
<1> QED BY <1>1, <1>2, <1>3 DEF TypeInv

(* A step of the bus changes no variable of the software.                  *)
LEMMA WireStep ==
  ASSUME TypeInv, UNCHANGED software, wire' \in WireType, pend' \subseteq Bits,
         sent' \in 0..MaxMsg, cut' = cut, Carried'
  PROVE  TypeInv'
<1>1. Typed' BY DEF TypeInv, Typed, software
<1>2. Rings' BY DEF TypeInv, Rings, software
<1> QED BY <1>1, <1>2 DEF TypeInv

(* The masters and the controller keep to the types.                       *)
LEMMA WireKeepsType == TypeInv /\ Wire => TypeInv'
<1> SUFFICES ASSUME TypeInv, Wire PROVE TypeInv'
  OBVIOUS
<1>0. /\ wire \in WireType /\ pend \subseteq Bits /\ sent \in 0..MaxMsg
      /\ wire.id \in 0..MaxMsg /\ wire.at \in 0..NumBytes /\ Carried
      /\ Free \in WireType
  BY Constants DEF TypeInv, Typed, WireType, Free, Kinds
<1>1. ASSUME NEW kind \in Kinds, RemoteStart(kind) PROVE TypeInv'
  <2>1. sent + 1 \in 1..MaxMsg BY <1>0, <1>1, Constants DEF RemoteStart
  <2>2. wire' \in WireType BY <2>1, <1>1, Constants DEF RemoteStart, WireType
  <2>3. Carried' BY <1>0, <2>1, <1>1 DEF RemoteStart, Carried
  <2> QED BY <1>0, <2>1, <2>2, <2>3, <1>1, WireStep DEF RemoteStart
<1>2. ASSUME NEW kind \in Kinds, RemoteWins(kind) PROVE TypeInv'
  <2>1. sent + 1 \in 1..MaxMsg BY <1>0, <1>2, Constants DEF RemoteWins
  <2>2. wire' \in WireType BY <2>1, <1>2, Constants DEF RemoteWins, WireType
  <2>3. Carried' BY <1>0, <2>1, <1>2 DEF RemoteWins, Carried
  <2>4. pend' \subseteq Bits BY <1>0, <1>2 DEF RemoteWins, Bits
  <2> QED BY <1>0, <2>1, <2>2, <2>3, <2>4, <1>2, WireStep DEF RemoteWins
<1>3. ASSUME RemoteByte PROVE TypeInv'
  <2>1. CASE slaveOn
    <3>1. wire' = [wire EXCEPT !.at = @ + 1] /\ wire.at + 1 \in 1..NumBytes
      BY <1>0, <1>3, <2>1, Constants DEF RemoteByte
    <3>2. wire' \in WireType /\ wire'.by = wire.by /\ wire'.id = wire.id
          /\ wire'.at = wire.at + 1
      BY <1>0, <3>1 DEF WireType
    <3>3. Carried' BY <1>0, <3>1, <3>2, <1>3 DEF RemoteByte, Carried
    <3>4. pend' \subseteq Bits BY <1>0, <1>3, <2>1 DEF RemoteByte, Bits
    <3> QED BY <1>0, <3>2, <3>3, <3>4, <1>3, WireStep DEF RemoteByte
  <2>2. CASE ~slaveOn
    <3>1. wire' = Free /\ pend' = pend BY <1>3, <2>2 DEF RemoteByte
    <3>2. Carried' BY <1>3, <3>1 DEF RemoteByte, Carried, Free
    <3> QED BY <1>0, <3>1, <3>2, <1>3, WireStep DEF RemoteByte
  <2> QED BY <2>1, <2>2
<1>4. ASSUME RemoteStop PROVE TypeInv'
  <2>1. pend' = pend \cup {"stop"} /\ pend' \subseteq Bits
    BY <1>0, <1>4 DEF RemoteStop, Bits
  <2>2. CASE "rx" \in pend
    <3>1. wire' = [wire EXCEPT !.by = "ended"] BY <1>4, <2>2 DEF RemoteStop
    <3>2. wire' \in WireType /\ wire'.by = "ended" /\ wire'.id = wire.id
          /\ wire'.at = wire.at
      BY <1>0, <3>1 DEF WireType
    <3>3. Carried' BY <1>0, <3>2, <2>2, <1>4 DEF RemoteStop, Carried
    <3> QED BY <1>0, <2>1, <3>2, <3>3, <1>4, WireStep DEF RemoteStop
  <2>3. CASE "rx" \notin pend
    <3>1. wire' = Free BY <1>4, <2>3 DEF RemoteStop
    <3>2. Carried' BY <2>1, <2>3, <3>1 DEF Carried, Free
    <3> QED BY <1>0, <2>1, <3>1, <3>2, <1>4, WireStep DEF RemoteStop
  <2> QED BY <2>2, <2>3
<1>5. ASSUME OwnLastByte PROVE TypeInv'
  <2>1. pend' = pend \cup {"done"} /\ pend' \subseteq Bits
    BY <1>0, <1>5 DEF OwnLastByte, Bits
  <2>2. wire' \in WireType /\ wire'.by = "ownlast"
    BY <1>0, <1>5 DEF OwnLastByte, WireType
  <2>3. Carried' BY <1>0, <2>1, <2>2, <1>5 DEF OwnLastByte, Carried
  <2> QED BY <1>0, <2>1, <2>2, <2>3, <1>5, WireStep DEF OwnLastByte
<1>6. ASSUME OwnStop PROVE TypeInv'
  <2>1. pend' = pend \cup {"stop"} /\ pend' \subseteq Bits /\ wire' = Free
    BY <1>0, <1>6 DEF OwnStop, Bits
  <2>2. Carried' BY <1>0, <2>1, <1>6 DEF OwnStop, Carried, Free
  <2> QED BY <1>0, <2>1, <2>2, <1>6, WireStep DEF OwnStop
<1> QED BY <1>1, <1>2, <1>3, <1>4, <1>5, <1>6 DEF Wire

(* The linear buffer takes a byte, and never more than MAX_IPMB_MSG_SIZE   *)
(* (i2cRXFULL_slave_process).                                              *)
LEMMA ExtendedType == TypeInv => Extended(pend) \in Message
<1> SUFFICES ASSUME TypeInv PROVE Extended(pend) \in Message
  OBVIOUS
<1>1. linear \in Message /\ wire \in WireType /\ Carried BY DEF TypeInv, Typed
<1>2. <<>> \in Message BY Constants DEF Message
<1>3. Restarted(pend) \in Message BY <1>1, <1>2 DEF Restarted
<1>4. ASSUME "rx" \in pend PROVE Received \in Byte
  <2>1. wire.id \in 1..MaxMsg /\ wire.at \in 1..NumBytes /\ wire.kind \in Kinds
    BY <1>1, <1>4, Constants DEF Carried, WireType
  <2> QED BY <2>1 DEF Received, Byte
<1>5. ASSUME NEW m \in Message, NEW b \in Byte, Len(m) # MaxBytes
      PROVE  Append(m, b) \in Message
  <2>1. m \in Seq(Byte) /\ Len(m) \in Nat /\ Len(m) < MaxBytes
    BY <1>5, Constants DEF Message
  <2>2. Append(m, b) \in Seq(Byte) /\ Len(Append(m, b)) = Len(m) + 1
    BY <2>1, AppendProperties
  <2> QED BY <2>1, <2>2, Constants DEF Message
<1> HIDE DEF Restarted
<1> QED BY <1>1, <1>3, <1>4, <1>5 DEF Extended

(* A message goes to a queue that exists.                                  *)
LEMMA QueuesType ==
  ASSUME NEW m \in Message
  PROVE  QueuesOf(m) \subseteq Kinds
<1>1. CASE Whole(m)
  <2>1. m \in Seq(Byte) /\ Len(m) = NumBytes BY <1>1 DEF Message, Whole
  <2>2. 1 \in 1..Len(m) BY <2>1, Constants
  <2>3. m[1] \in Byte BY <2>1, <2>2, ElementOfSeq
  <2> QED BY <2>3, <1>1 DEF QueuesOf, Byte
<1>2. CASE ~Whole(m) BY <1>2 DEF QueuesOf, Kinds
<1> QED BY <1>1, <1>2

(* The STOP stores at most one message, in a queue with room, and that     *)
(* message is longer than an address.                                      *)
LEMMA StopKeepsRings ==
  ASSUME TypeInv, NEW m \in Message, StopProcess(m)
  PROVE  Rings' /\ linear' \in Message
<1>1. queue \in [Kinds -> Queue] /\ \A q \in Kinds : Ring(queue[q])
  BY DEF TypeInv, Rings
<1>2. <<>> \in Message BY Constants DEF Message
<1>3. PICK q \in QueuesOf(m) :
        IF m = <<>> \/ Full(q) THEN linear' = m /\ UNCHANGED queue
        ELSE linear' = <<>> /\ queue' = IF Len(m) = 1 THEN queue ELSE Stored(q, m)
  BY DEF StopProcess
<1>4. q \in Kinds BY QueuesType
<1>5. CASE queue' = queue BY <1>1, <1>2, <1>3, <1>5 DEF Rings
<1>6. CASE queue' # queue
  <2>1. m # <<>> /\ ~Full(q) /\ Len(m) # 1 /\ linear' = <<>> /\ queue' = Stored(q, m)
    BY <1>3, <1>6
  <2>2. Len(m) > 1
    <3>1. m \in Seq(Byte) BY DEF Message
    <3>2. Len(m) \in Nat \ {0} BY <3>1, <2>1, EmptySeq
    <3>3. Len(m) # 1 BY <2>1
    <3>4. \A n \in Nat \ {0} : n # 1 => n > 1 OBVIOUS
    <3> QED BY <3>2, <3>3, <3>4
  <2> DEFINE r == queue[q]
             s == [slot    |-> [r.slot EXCEPT ![r.writer] = m],
                   writer  |-> (r.writer + 1) % Slots,
                   reader  |-> r.reader,
                   entries |-> r.entries + 1]
  <2>3. Ring(r) /\ r.entries < Slots
    <3>1. Ring(r) BY <1>1, <1>4
    <3>2. r.entries \in 0..Slots /\ r.entries # Slots BY <3>1, <2>1 DEF Ring, Queue, Full
    <3> QED BY <3>1, <3>2, Constants
  <2>4. Ring(s) BY <2>2, <2>3, StoreKeepsRing
  <2>5. queue' = [queue EXCEPT ![q] = s] BY <2>1 DEF Stored
  <2> HIDE DEF s
  <2>6. s \in Queue BY <2>4 DEF Ring
  <2>7. queue' \in [Kinds -> Queue] BY <2>5, <2>6, <1>1, <1>4
  <2>8. \A k \in Kinds : queue'[k] = s \/ queue'[k] = queue[k] BY <2>5, <1>1, <1>4
  <2>9. \A k \in Kinds : Ring(queue'[k]) BY <2>8, <2>4, <1>1
  <2> QED BY <2>1, <2>7, <2>9, <1>2 DEF Rings
<1> QED BY <1>5, <1>6

(* The handler up to its wait keeps to the types (as_handler).             *)
LEMMA IrqKeepsType == TypeInv /\ Irq => TypeInv'
<1> SUFFICES ASSUME TypeInv, Irq PROVE TypeInv'
  OBVIOUS
<1>0. Typed /\ Carried BY DEF TypeInv
<1>1. Rings' /\ linear' \in Message
  <2>1. Extended(pend) \in Message BY ExtendedType
  <2>2. CASE "stop" \in pend /\ flag' = "SLAVE" /\ Addressed(pend)
    <3>1. StopProcess(Extended(pend)) BY <2>2 DEF Irq
    <3> QED BY <2>1, <3>1, StopKeepsRings
  <2>3. CASE ~("stop" \in pend /\ flag' = "SLAVE" /\ Addressed(pend))
    <3>1. linear' = Extended(pend) /\ queue' = queue BY <2>3 DEF Irq
    <3> QED BY <2>1, <3>1 DEF TypeInv, Rings
  <2> QED BY <2>2, <2>3
<1>2. /\ pend' \subseteq Bits /\ handling' \subseteq Bits \cup {"disable"}
      /\ UNCHANGED <<slaveOn, own, enabling, sent, taken, cut>>
  BY <1>0 DEF Irq, Typed
<1>3. slaveMode' \in BOOLEAN BY DEF Irq
<1>4. flag' \in Flags BY <1>0 DEF Irq, FlagsAfterRx, Typed, Flags
<1>5. wire' \in WireType
  BY <1>0, Constants DEF Irq, Typed, WireType, Free, Kinds
<1>6. Carried' BY <1>0 DEF Irq, Carried, Free
<1>7. Typed' BY <1>0, <1>1, <1>2, <1>3, <1>4, <1>5 DEF Typed
<1> QED BY <1>1, <1>6, <1>7 DEF TypeInv

(* So does the rest of it.                                                 *)
LEMMA IrqRestKeepsType == TypeInv /\ IrqRest => TypeInv'
<1> SUFFICES ASSUME TypeInv, IrqRest PROVE TypeInv'
  OBVIOUS
<1>0. Typed /\ Carried /\ Rings BY DEF TypeInv
<1> DEFINE cleared == IF handling \cap {"stop", "done", "lost"} = {} THEN {} ELSE handling
<1>1. /\ handling' = {} /\ pend' = pend \ cleared
      /\ slaveOn' = (slaveOn /\ ~("disable" \in handling /\ BusFree))
      /\ flag' = IF {"done", "lost"} \cap handling # {} THEN "SLAVE" ELSE flag
      /\ wire' = IF wire.by = "ended" /\ "rx" \in cleared THEN Free ELSE wire
      /\ cut' = IF "rx" \in pend \cap cleared \/ (wire.by = "ended" /\ "stop" \in cleared)
                THEN cut \cup {wire.id} ELSE cut
      /\ UNCHANGED <<slaveMode, linear, queue, own, enabling, sent, taken>>
  BY DEF IrqRest
<1> HIDE DEF cleared
<1>2. slaveOn' \in BOOLEAN /\ flag' \in Flags /\ pend' \subseteq Bits
  BY <1>0, <1>1 DEF Typed, Flags
<1>3. wire' \in WireType
  BY <1>0, <1>1, Constants DEF Typed, WireType, Free, Kinds
<1>4. wire.by \in {"remote", "ended"} => wire.id \in 1..MaxMsg
  BY <1>0 DEF Typed, WireType, Carried
<1>5. cut' \subseteq 1..MaxMsg
  <2>1. "rx" \in pend \/ wire.by = "ended" => wire.id \in 1..MaxMsg
    BY <1>0, <1>4 DEF Carried
  <2> QED BY <1>0, <1>1, <2>1 DEF Typed
<1>6. Carried' BY <1>0, <1>1 DEF Carried, Free
<1>7. Typed' BY <1>0, <1>1, <1>2, <1>3, <1>5 DEF Typed
<1>8. Rings' BY <1>0, <1>1 DEF Rings
<1> QED BY <1>6, <1>7, <1>8 DEF TypeInv

(* A reader takes a message only from a queue that has one                 *)
(* (as_slave_recv, as_mctp_recv).                                          *)
LEMMA TakeKeepsType ==
  ASSUME TypeInv, NEW q \in Kinds, Take(q)
  PROVE  Rings' /\ taken' \in [Kinds -> 0..MaxMsg]
<1> DEFINE r == queue[q]
           s == [slot    |-> [r.slot EXCEPT ![r.reader] = <<>>],
                 writer  |-> r.writer,
                 reader  |-> (r.reader + 1) % Slots,
                 entries |-> r.entries - 1]
<1>1. queue \in [Kinds -> Queue] /\ \A k \in Kinds : Ring(queue[k])
  BY DEF TypeInv, Rings
<1>2. Ring(r) /\ r \in Queue /\ r.entries > 0 BY <1>1 DEF Take
<1>3. Ring(s) BY <1>2, TakeKeepsRing
<1>4. queue' = [queue EXCEPT ![q] = s] BY DEF Take, Removed
<1>5. Oldest(q) \in Message BY <1>2 DEF Oldest, Queue
<1>6. taken \in [Kinds -> 0..MaxMsg] BY DEF TypeInv, Typed
<1> HIDE DEF s
<1>7. Rings'
  <2>1. s \in Queue BY <1>3 DEF Ring
  <2>2. queue' \in [Kinds -> Queue] BY <1>1, <1>4, <2>1
  <2>3. \A k \in Kinds : queue'[k] = s \/ queue'[k] = queue[k] BY <1>1, <1>4
  <2>4. \A k \in Kinds : Ring(queue'[k]) BY <1>1, <1>3, <2>3
  <2> QED BY <2>2, <2>4 DEF Rings
<1>8. taken' \in [Kinds -> 0..MaxMsg]
  <2>1. CASE Whole(Oldest(q))
    <3>1. Oldest(q) \in Seq(Byte) /\ 1 \in 1..Len(Oldest(q))
      BY <1>5, <2>1, Constants DEF Message, Whole
    <3>2. Oldest(q)[1] \in Byte BY <3>1, ElementOfSeq
    <3>3. Oldest(q)[1].id \in 0..MaxMsg BY <3>2 DEF Byte
    <3>4. taken' = [taken EXCEPT ![q] = Oldest(q)[1].id] BY <2>1 DEF Take, TakenNow
    <3> QED BY <3>3, <3>4, <1>6
  <2>2. CASE ~Whole(Oldest(q)) BY <2>2, <1>6 DEF Take, TakenNow
  <2> QED BY <2>1, <2>2
<1> QED BY <1>7, <1>8

(* The tasks keep to the types.                                            *)
LEMMA TasksKeepType == TypeInv /\ Tasks => TypeInv'
<1> SUFFICES ASSUME TypeInv, Tasks PROVE TypeInv'
  OBVIOUS
<1>0. /\ Typed /\ Carried /\ Rings
      /\ Free \in WireType
      /\ "ipmb" \in Kinds /\ "mctp" \in Kinds
  BY Constants DEF TypeInv, WireType, Free, Kinds
<1>a. CutNow \subseteq 1..MaxMsg
  <2>1. wire.by = "remote" => wire.id \in 1..MaxMsg
    BY <1>0 DEF Typed, Carried, WireType
  <2> QED BY <1>0, <2>1 DEF Typed, CutNow
<1>1. CASE OwnStart
  <2>1. flag' \in Flags /\ own' \in BOOLEAN BY <1>1 DEF OwnStart, Flags
  <2>2. /\ pend = {} /\ UNCHANGED <<handling, slaveOn, slaveMode, linear, queue,
                                    enabling, sent, taken>>
    BY <1>1 DEF OwnStart, TaskRuns
  <2>3. CASE BusFree
    <3>1. wire' = [Free EXCEPT !.by = "own"] /\ pend' = {} /\ cut' = cut
      BY <1>1, <2>2, <2>3 DEF OwnStart
    <3>2. wire' \in WireType /\ wire'.by = "own"
      BY <3>1, <1>0 DEF WireType
    <3>3. Typed' BY <1>0, <2>1, <2>2, <3>1, <3>2 DEF Typed
    <3>4. Carried' BY <3>1, <3>2 DEF Carried
    <3>5. Rings' BY <1>0, <2>2 DEF Rings
    <3> QED BY <3>3, <3>4, <3>5 DEF TypeInv
  <2>4. CASE ~BusFree
    <3>1. wire' = wire /\ pend' \in {{}, {"lost"}} /\ cut' = CutNow
      BY <1>1, <2>4 DEF OwnStart
    <3>2. pend' \subseteq Bits /\ "rx" \notin pend' BY <3>1 DEF Bits
    <3>3. Typed' BY <1>0, <1>a, <2>1, <2>2, <3>1, <3>2 DEF Typed
    <3>4. Carried' BY <1>0, <3>1, <3>2 DEF Carried
    <3>5. Rings' BY <1>0, <2>2 DEF Rings
    <3> QED BY <3>3, <3>4, <3>5 DEF TypeInv
  <2> QED BY <2>3, <2>4
<1>2. CASE OwnReturn
  <2>1. Typed' BY <1>0, <1>2 DEF OwnReturn, Typed, Flags
  <2>2. Carried' /\ Rings' BY <1>0, <1>2 DEF OwnReturn, Carried, Rings
  <2> QED BY <2>1, <2>2 DEF TypeInv
<1>3. CASE SlaveRecv
  <2>1. Rings' /\ taken' \in [Kinds -> 0..MaxMsg]
    BY <1>0, <1>3, TakeKeepsType DEF SlaveRecv
  <2>2. Typed' BY <1>0, <2>1, <1>3 DEF SlaveRecv, Typed
  <2>3. Carried' BY <1>0, <1>3 DEF SlaveRecv, Carried
  <2> QED BY <2>1, <2>2, <2>3 DEF TypeInv
<1>4. CASE MctpRecv
  <2>1. Rings' /\ taken' \in [Kinds -> 0..MaxMsg]
    BY <1>0, <1>4, TakeKeepsType DEF MctpRecv
  <2>2. Typed' BY <1>0, <2>1, <1>4 DEF MctpRecv, Typed
  <2>3. Carried' BY <1>0, <1>4 DEF MctpRecv, Carried
  <2> QED BY <2>1, <2>2, <2>3 DEF TypeInv
<1>5. CASE EnableSlave
  <2>1. slaveOn' \in BOOLEAN /\ flag' \in Flags /\ enabling' \in BOOLEAN
    BY <1>0, <1>5 DEF EnableSlave, Typed, Flags
  <2>2. UNCHANGED <<wire, pend, handling, slaveMode, linear, queue, own, sent, taken, cut>>
    BY <1>5 DEF EnableSlave
  <2>3. Typed' BY <1>0, <2>1, <2>2 DEF Typed
  <2>4. Carried' /\ Rings' BY <1>0, <2>2 DEF Carried, Rings
  <2> QED BY <2>3, <2>4 DEF TypeInv
<1>6. CASE Reset
  <2>1. /\ pend = {} /\ wire' = Free /\ slaveOn' = TRUE /\ cut' = CutNow
        /\ UNCHANGED <<pend, handling, flag, slaveMode, linear, queue, own, enabling,
                       sent, taken>>
    BY <1>6 DEF Reset, TaskRuns
  <2>2. Typed' BY <1>0, <1>a, <2>1 DEF Typed
  <2>3. Carried' BY <2>1 DEF Carried, Free
  <2>4. Rings' BY <1>0, <2>1 DEF Rings
  <2> QED BY <2>2, <2>3, <2>4 DEF TypeInv
<1> QED BY <1>1, <1>2, <1>3, <1>4, <1>5, <1>6 DEF Tasks

(* A step that changes nothing.                                            *)
LEMMA StutterKeepsType == TypeInv /\ UNCHANGED vars => TypeInv'
BY DEF vars, TypeInv, Typed, Carried, Rings

(* The types are kept, no message is stored over another or read from an   *)
(* empty queue, and a queue holds no message without a byte after its      *)
(* address (i2cSTOPDET_slave_process, as_slave_recv, as_mctp_recv).        *)
THEOREM TypeCorrect == Spec => []TypeOK
<1>1. TypeInv /\ [Next]_vars => TypeInv'
  BY WireKeepsType, IrqKeepsType, IrqRestKeepsType, TasksKeepType, StutterKeepsType
     DEF Next
<1> QED BY InitType, TypeInvImplies, <1>1, PTL DEF Spec

----------------------------------------------------------------------------
(* What the readers get.  First the rings, message by message.             *)

(* The i-th oldest message of a ring.                                      *)
Held(r, i) == r.slot[Place(r.reader + i - 1)]

(* MessagesWhole of one ring, when its reader has had the messages up to t. *)
Orderly(kind, r, t, x) ==
  \A i \in 1..r.entries :
    IF Whole(Held(r, i))
    THEN /\ Held(r, i)[1].kind = kind /\ Held(r, i)[1].id > t
         /\ \A j \in (i + 1)..r.entries :
              Whole(Held(r, j)) => Held(r, i)[1].id < Held(r, j)[1].id
    ELSE \E j \in DOMAIN Held(r, i) : Held(r, i)[j].id \in x

(* Everything read from a ring, or in it, was sent before message n.       *)
Below(r, t, n) ==
  t < n /\ \A i \in 1..r.entries : Whole(Held(r, i)) => Held(r, i)[1].id < n

(* What is in a ring after a message is stored.                            *)
LEMMA StoredHolds ==
  ASSUME NEW r, Ring(r), r.entries < Slots, NEW m,
         NEW s, s.slot = [r.slot EXCEPT ![r.writer] = m],
         s.reader = r.reader, s.entries = r.entries + 1
  PROVE  /\ r.entries \in Nat /\ s.entries = r.entries + 1
         /\ Held(s, r.entries + 1) = m
         /\ \A i \in 1..r.entries : Held(s, i) = Held(r, i)
<1>1. /\ r.slot \in [Slot -> Message] /\ r.writer \in Slot
      /\ r.reader \in 0..(Slots - 1) /\ r.entries \in 0..(Slots - 1)
      /\ r.writer = Place(r.reader + r.entries)
  BY Constants DEF Ring, Queue, Slot
<1>2. Held(s, r.entries + 1) = m
  <2>1. r.reader + (r.entries + 1) - 1 = r.reader + r.entries BY <1>1
  <2> QED BY <1>1, <2>1 DEF Held
<1>3. ASSUME NEW i \in 1..r.entries PROVE Held(s, i) = Held(r, i)
  <2>1. Place(r.reader + i - 1) # r.writer BY <1>1, Constants DEF Place
  <2>2. Place(r.reader + i - 1) \in Slot
    <3>1. r.reader + i - 1 \in 0..(2 * Slots - 1) BY <1>1, Constants
    <3> QED BY <3>1, Remainder
  <2> QED BY <1>1, <2>1, <2>2 DEF Held
<1> QED BY <1>1, <1>2, <1>3

(* What is in a ring after the oldest message is taken.                    *)
LEMMA TakenHolds ==
  ASSUME NEW r, Ring(r), r.entries > 0,
         NEW s, s.slot = [r.slot EXCEPT ![r.reader] = <<>>],
         s.reader = (r.reader + 1) % Slots, s.entries = r.entries - 1
  PROVE  /\ r.entries \in Nat \ {0} /\ s.entries = r.entries - 1
         /\ Held(r, 1) = r.slot[r.reader]
         /\ \A i \in 1..(r.entries - 1) : Held(s, i) = Held(r, i + 1)
<1>1. /\ r.slot \in [Slot -> Message]
      /\ r.reader \in 0..(Slots - 1) /\ r.entries \in 1..Slots
  BY Constants DEF Ring, Queue, Slot
<1>2. s.reader = Place(r.reader + 1)
  <2>1. r.reader + 1 \in 0..(2 * Slots - 1) BY <1>1, Constants
  <2> QED BY <2>1, Remainder
<1>3. Held(r, 1) = r.slot[r.reader]
  <2>1. r.reader + 1 - 1 = r.reader BY <1>1
  <2>2. Place(r.reader) = r.reader BY <1>1, Constants DEF Place
  <2> QED BY <2>1, <2>2 DEF Held
<1>4. ASSUME NEW i \in 1..(r.entries - 1) PROVE Held(s, i) = Held(r, i + 1)
  <2>1. Place(s.reader + i - 1) = Place(r.reader + (i + 1) - 1)
    <3>1. i - 1 \in 0..(Slots - 1) /\ (i - 1) + 1 = (i + 1) - 1 BY <1>1, Constants
    <3>2. Place(Place(r.reader + 1) + (i - 1)) = Place(r.reader + ((i - 1) + 1))
      BY <3>1, <1>1, PlaceOn
    <3>3. /\ Place(r.reader + 1) + (i - 1) = s.reader + i - 1
          /\ r.reader + ((i - 1) + 1) = r.reader + (i + 1) - 1
      <4>1. Place(r.reader + 1) \in Int BY <1>1, Constants DEF Place
      <4> QED BY <4>1, <1>1, <1>2
    <3> QED BY <3>2, <3>3
  <2>2. Place(r.reader + (i + 1) - 1) # r.reader BY <1>1, Constants DEF Place
  <2>3. Place(r.reader + (i + 1) - 1) \in Slot
    <3>1. r.reader + (i + 1) - 1 \in 0..(2 * Slots - 1) BY <1>1, Constants
    <3> QED BY <3>1, Remainder
  <2> QED BY <1>1, <2>1, <2>2, <2>3 DEF Held
<1> QED BY <1>1, <1>3, <1>4

(* A message that is stored whole after those before it, or with a byte    *)
(* that was cut into, leaves the ring in order.                            *)
LEMMA StoreKeepsOrder ==
  ASSUME NEW r, Ring(r), r.entries < Slots, NEW m,
         NEW s, s.slot = [r.slot EXCEPT ![r.writer] = m],
         s.reader = r.reader, s.entries = r.entries + 1,
         NEW kind, NEW t, NEW x, Orderly(kind, r, t, x),
         Whole(m) => m[1].kind = kind /\ Below(r, t, m[1].id),
         ~Whole(m) => \E j \in DOMAIN m : m[j].id \in x
  PROVE  Orderly(kind, s, t, x)
<1> DEFINE N == r.entries
<1>1. /\ N \in Nat /\ s.entries = N + 1 /\ Held(s, N + 1) = m
      /\ \A i \in 1..N : Held(s, i) = Held(r, i)
  BY StoredHolds
<1> HIDE DEF N
<1>2. \A i \in 1..N : i \in 1..r.entries BY DEF N
<1>3. ASSUME NEW i \in 1..(N + 1)
      PROVE  IF Whole(Held(s, i))
             THEN /\ Held(s, i)[1].kind = kind /\ Held(s, i)[1].id > t
                  /\ \A j \in (i + 1)..(N + 1) :
                       Whole(Held(s, j)) => Held(s, i)[1].id < Held(s, j)[1].id
             ELSE \E j \in DOMAIN Held(s, i) : Held(s, i)[j].id \in x
  <2>1. CASE i = N + 1
    <3>1. Held(s, i) = m /\ (i + 1)..(N + 1) = {} BY <1>1, <2>1
    <3>2. Whole(m) => m[1].kind = kind /\ m[1].id > t BY DEF Below
    <3> QED BY <3>1, <3>2
  <2>2. CASE i # N + 1
    <3>1. i \in 1..N /\ Held(s, i) = Held(r, i) BY <1>1, <2>2
    <3>2. IF Whole(Held(r, i))
          THEN /\ Held(r, i)[1].kind = kind /\ Held(r, i)[1].id > t
               /\ \A j \in (i + 1)..N :
                    Whole(Held(r, j)) => Held(r, i)[1].id < Held(r, j)[1].id
          ELSE \E j \in DOMAIN Held(r, i) : Held(r, i)[j].id \in x
      BY <3>1 DEF Orderly, N
    <3>3. ASSUME Whole(Held(r, i)), NEW j \in (i + 1)..(N + 1), Whole(Held(s, j))
          PROVE  Held(r, i)[1].id < Held(s, j)[1].id
      <4>1. CASE j = N + 1
        <5>1. Held(s, j) = m BY <1>1, <4>1
        <5>2. Below(r, t, m[1].id) BY <5>1, <3>3
        <5> QED BY <5>1, <5>2, <3>1, <3>3, <1>2 DEF Below
      <4>2. CASE j # N + 1
        <5>1. j \in (i + 1)..N /\ j \in 1..N BY <4>2, <1>1, <3>1
        <5>2. Held(s, j) = Held(r, j) BY <5>1, <1>1
        <5> QED BY <5>1, <5>2, <3>2, <3>3
      <4> QED BY <4>1, <4>2
    <3> QED BY <3>1, <3>2, <3>3
  <2> QED BY <2>1, <2>2
<1> QED BY <1>1, <1>3 DEF Orderly

(* Storing a message sent before n.                                        *)
LEMMA StoreKeepsBelow ==
  ASSUME NEW r, Ring(r), r.entries < Slots, NEW m,
         NEW s, s.slot = [r.slot EXCEPT ![r.writer] = m],
         s.reader = r.reader, s.entries = r.entries + 1,
         NEW t, NEW n, Below(r, t, n), Whole(m) => m[1].id < n
  PROVE  Below(s, t, n)
<1> DEFINE N == r.entries
<1>1. /\ N \in Nat /\ s.entries = N + 1 /\ Held(s, N + 1) = m
      /\ \A i \in 1..N : Held(s, i) = Held(r, i)
  BY StoredHolds
<1>2. \A i \in 1..N : Whole(Held(r, i)) => Held(r, i)[1].id < n BY DEF Below
<1>3. t < n BY DEF Below
<1> HIDE DEF N
<1>4. ASSUME NEW i \in 1..(N + 1), Whole(Held(s, i)) PROVE Held(s, i)[1].id < n
  <2>1. CASE i = N + 1 BY <2>1, <1>1, <1>4
  <2>2. CASE i # N + 1
    <3>1. i \in 1..N BY <2>2, <1>1
    <3> QED BY <3>1, <1>1, <1>2, <1>4
  <2> QED BY <2>1, <2>2
<1> QED BY <1>1, <1>3, <1>4 DEF Below

(* The message the reader has had, after it has taken the oldest.          *)
NowTaken(r, t) == IF Whole(Held(r, 1)) THEN Held(r, 1)[1].id ELSE t

(* Taking the oldest message leaves the ring in order.                     *)
LEMMA TakeKeepsOrder ==
  ASSUME NEW r, Ring(r), r.entries > 0,
         NEW s, s.slot = [r.slot EXCEPT ![r.reader] = <<>>],
         s.reader = (r.reader + 1) % Slots, s.entries = r.entries - 1,
         NEW kind, NEW t, NEW x, Orderly(kind, r, t, x)
  PROVE  Orderly(kind, s, NowTaken(r, t), x)
<1> DEFINE N == r.entries
<1>1. /\ N \in Nat \ {0} /\ s.entries = N - 1
      /\ \A i \in 1..(N - 1) : Held(s, i) = Held(r, i + 1)
  BY TakenHolds
<1>2. \A i \in 1..N :
        IF Whole(Held(r, i))
        THEN /\ Held(r, i)[1].kind = kind /\ Held(r, i)[1].id > t
             /\ \A j \in (i + 1)..N :
                  Whole(Held(r, j)) => Held(r, i)[1].id < Held(r, j)[1].id
        ELSE \E j \in DOMAIN Held(r, i) : Held(r, i)[j].id \in x
  BY DEF Orderly
<1> HIDE DEF N
<1>3. ASSUME NEW i \in 1..(N - 1)
      PROVE  IF Whole(Held(s, i))
             THEN /\ Held(s, i)[1].kind = kind /\ Held(s, i)[1].id > NowTaken(r, t)
                  /\ \A j \in (i + 1)..(N - 1) :
                       Whole(Held(s, j)) => Held(s, i)[1].id < Held(s, j)[1].id
             ELSE \E j \in DOMAIN Held(s, i) : Held(s, i)[j].id \in x
  <2>1. i + 1 \in 1..N /\ i + 1 \in (1 + 1)..N /\ 1 \in 1..N /\ Held(s, i) = Held(r, i + 1)
    BY <1>1
  <2>2. CASE ~Whole(Held(r, i + 1)) BY <2>1, <2>2, <1>2
  <2>3. CASE Whole(Held(r, i + 1))
    <3>1. Held(r, i + 1)[1].kind = kind /\ Held(r, i + 1)[1].id > t BY <2>1, <2>3, <1>2
    <3>2. Held(r, i + 1)[1].id > NowTaken(r, t)
      <4>1. CASE Whole(Held(r, 1))
        <5>1. Held(r, 1)[1].id < Held(r, i + 1)[1].id BY <2>1, <2>3, <4>1, <1>2
        <5> QED BY <5>1, <4>1 DEF NowTaken
      <4>2. CASE ~Whole(Held(r, 1)) BY <3>1, <4>2 DEF NowTaken
      <4> QED BY <4>1, <4>2
    <3>3. ASSUME NEW j \in (i + 1)..(N - 1), Whole(Held(s, j))
          PROVE  Held(r, i + 1)[1].id < Held(s, j)[1].id
      <4>1. j \in 1..(N - 1) /\ j + 1 \in ((i + 1) + 1)..N BY <1>1
      <4>2. Held(s, j) = Held(r, j + 1) BY <4>1, <1>1
      <4> QED BY <4>1, <4>2, <2>1, <2>3, <3>3, <1>2
    <3> QED BY <2>1, <2>3, <3>1, <3>2, <3>3
  <2> QED BY <2>2, <2>3
<1> QED BY <1>1, <1>3 DEF Orderly

(* Taking the oldest message leaves the ring below n.                      *)
LEMMA TakeKeepsBelow ==
  ASSUME NEW r, Ring(r), r.entries > 0,
         NEW s, s.slot = [r.slot EXCEPT ![r.reader] = <<>>],
         s.reader = (r.reader + 1) % Slots, s.entries = r.entries - 1,
         NEW t, NEW n, Below(r, t, n)
  PROVE  Below(s, NowTaken(r, t), n)
<1> DEFINE N == r.entries
<1>1. /\ N \in Nat \ {0} /\ s.entries = N - 1
      /\ \A i \in 1..(N - 1) : Held(s, i) = Held(r, i + 1)
  BY TakenHolds
<1>2. t < n /\ \A i \in 1..N : Whole(Held(r, i)) => Held(r, i)[1].id < n BY DEF Below
<1> HIDE DEF N
<1>3. NowTaken(r, t) < n
  <2>1. 1 \in 1..N BY <1>1
  <2> QED BY <2>1, <1>2 DEF NowTaken
<1>4. ASSUME NEW i \in 1..(N - 1), Whole(Held(s, i)) PROVE Held(s, i)[1].id < n
  <2>1. i + 1 \in 1..N BY <1>1
  <2> QED BY <2>1, <1>1, <1>2, <1>4
<1> QED BY <1>1, <1>3, <1>4 DEF Below

(* A ring stays in order when more messages have been cut into.            *)
LEMMA CutKeepsOrder ==
  ASSUME NEW kind, NEW r, NEW t, NEW x, NEW y, x \subseteq y, Orderly(kind, r, t, x)
  PROVE  Orderly(kind, r, t, y)
BY DEF Orderly

----------------------------------------------------------------------------
(* The bus and the handler: what is true of the interrupts that wait.      *)

Inbound == wire.by \in {"remote", "ended"}
(* The message on the wire has not reached the linear buffer.              *)
Fresh == wire.at = 0 \/ (wire.at = 1 /\ "rx" \in pend)

(* A message whose last byte is not read ends with its STOP to be seen,    *)
(* unless that STOP was lost.                                              *)
EndSeen ==
  wire.by = "ended" =>
    /\ "rx" \in pend /\ wire.at \in {1, NumBytes}
    /\ "stop" \in pend \/ wire.id \in cut
(* The handler keeps pace with the bus but where it waits.                 *)
Paced ==
  handling # {} /\ "disable" \notin handling =>
    pend = {} \/ (pend = handling /\ "rx" \notin pend)
Stopped ==
  /\ "disable" \in handling => "stop" \in handling /\ ~slaveMode
  /\ slaveMode => "stop" \notin handling
(* An address match is seen with the address, and not with later bytes.    *)
MatchSeen ==
  "addr" \in pend /\ Inbound /\ wire.at >= 1 =>
    (wire.at = 1 /\ "rx" \in pend) \/ wire.id \in cut
(* The slave is not turned off amid a message.                             *)
OffBetween ==
  ~slaveOn /\ Inbound => wire.at = 0 \/ (wire.by = "ended" /\ wire.id \in cut)
BusInv == EndSeen /\ Paced /\ Stopped /\ MatchSeen /\ OffBetween

(* Initially.                                                              *)
LEMMA InitBus == Init => BusInv
BY DEF Init, Free, BusInv, EndSeen, Paced, Stopped, MatchSeen, OffBetween, Inbound

(* The masters and the controller.                                         *)
LEMMA WireKeepsBus == TypeInv /\ BusInv /\ Wire => BusInv'
<1> SUFFICES ASSUME TypeInv, BusInv, Wire PROVE BusInv'
  OBVIOUS
<1>0. /\ UNCHANGED software /\ cut' = cut /\ InPace
      /\ wire \in WireType /\ wire.at \in Nat /\ NumBytes > 1 /\ NumBytes \in Nat
      /\ EndSeen /\ MatchSeen /\ OffBetween
  BY Constants DEF Wire, RemoteStart, RemoteWins, RemoteByte, RemoteStop, OwnLastByte,
     OwnStop, TypeInv, Typed, WireType, BusInv
<1>1. Paced' BY <1>0 DEF Paced, InPace, software
<1>2. Stopped' BY <1>0 DEF BusInv, Stopped, software
<1> SUFFICES EndSeen' /\ MatchSeen' /\ OffBetween'
  BY <1>1, <1>2 DEF BusInv
<1>a. slaveOn' = slaveOn BY <1>0 DEF software
<1>3. ASSUME NEW kind \in Kinds, RemoteStart(kind) \/ RemoteWins(kind)
      PROVE  EndSeen' /\ MatchSeen' /\ OffBetween'
  <2>1. wire'.by = "remote" /\ wire'.at = 0 BY <1>3 DEF RemoteStart, RemoteWins
  <2> QED BY <2>1 DEF EndSeen, MatchSeen, OffBetween
<1>4. ASSUME RemoteByte PROVE EndSeen' /\ MatchSeen' /\ OffBetween'
  <2>1. CASE slaveOn
    <3>1. wire' = [wire EXCEPT !.at = @ + 1] BY <1>4, <2>1 DEF RemoteByte
    <3>2. wire'.by = "remote" /\ wire'.id = wire.id /\ wire'.at = wire.at + 1
      BY <1>0, <1>4, <3>1 DEF RemoteByte, WireType
    <3>3. pend' = pend \cup {"rx"} \cup (IF wire.at = 0 THEN {"addr"} ELSE {})
          /\ wire.by = "remote" /\ "rx" \notin pend
      BY <1>4, <2>1 DEF RemoteByte
    <3>4. EndSeen' /\ OffBetween' BY <3>2, <2>1, <1>a DEF EndSeen, OffBetween
    <3>5. MatchSeen'
      <4>1. CASE wire.at = 0 BY <4>1, <3>2, <3>3 DEF MatchSeen
      <4>2. CASE wire.at # 0
        <5>1. pend' = pend \cup {"rx"} /\ wire.at >= 1 BY <4>2, <3>3, <1>0
        <5>2. "addr" \in pend => wire.id \in cut
          BY <5>1, <3>3, <1>0 DEF MatchSeen, Inbound
        <5> QED BY <5>1, <5>2, <3>2, <1>0 DEF MatchSeen
      <4> QED BY <4>1, <4>2
    <3> QED BY <3>4, <3>5
  <2>2. CASE ~slaveOn
    <3>1. wire'.by = "none" BY <1>4, <2>2 DEF RemoteByte, Free
    <3> QED BY <3>1 DEF EndSeen, MatchSeen, OffBetween, Inbound
  <2> QED BY <2>1, <2>2
<1>5. ASSUME RemoteStop PROVE EndSeen' /\ MatchSeen' /\ OffBetween'
  <2>0. wire.by = "remote" /\ wire.at \in {1, NumBytes} /\ pend' = pend \cup {"stop"}
    BY <1>5 DEF RemoteStop
  <2>1. CASE "rx" \in pend
    <3>1. wire' = [wire EXCEPT !.by = "ended"] BY <1>5, <2>1 DEF RemoteStop
    <3>2. wire'.by = "ended" /\ wire'.id = wire.id /\ wire'.at = wire.at
      BY <1>0, <3>1 DEF WireType
    <3>3. EndSeen' BY <3>2, <2>0, <2>1 DEF EndSeen
    <3>4. MatchSeen' BY <3>2, <2>0, <2>1, <1>0 DEF MatchSeen, Inbound
    <3>5. OffBetween'
      <4>1. slaveOn BY <2>0, <1>0 DEF OffBetween, Inbound
      <4> QED BY <4>1, <1>a DEF OffBetween
    <3> QED BY <3>3, <3>4, <3>5
  <2>2. CASE "rx" \notin pend
    <3>1. wire'.by = "none" BY <1>5, <2>2 DEF RemoteStop, Free
    <3> QED BY <3>1 DEF EndSeen, MatchSeen, OffBetween, Inbound
  <2> QED BY <2>1, <2>2
<1>6. ASSUME OwnLastByte \/ OwnStop PROVE EndSeen' /\ MatchSeen' /\ OffBetween'
  <2>1. wire'.by \in {"none", "ownlast"}
    BY <1>0, <1>6 DEF OwnLastByte, OwnStop, Free, WireType
  <2> QED BY <2>1 DEF EndSeen, MatchSeen, OffBetween, Inbound
<1> QED BY <1>3, <1>4, <1>5, <1>6 DEF Wire

(* The handler up to its wait.                                             *)
LEMMA IrqKeepsBus == TypeInv /\ BusInv /\ Irq => BusInv'
<1> SUFFICES ASSUME TypeInv, BusInv, Irq PROVE BusInv'
  OBVIOUS
<1>0. /\ pend \subseteq Bits /\ Carried /\ EndSeen /\ MatchSeen /\ OffBetween
      /\ wire.at \in Nat
      /\ slaveOn' = slaveOn /\ cut' = cut
  BY Constants DEF TypeInv, Typed, WireType, BusInv, Irq
<1>1. /\ pend' = IF "rx" \in pend THEN {} ELSE pend
      /\ wire' = IF wire.by = "ended" THEN Free ELSE wire
      /\ slaveMode' = ("stop" \notin pend /\ Addressed(pend))
  BY DEF Irq
<1>2. PICK d \in {{}, {"disable"}} :
        handling' = pend \cup d /\ (d # {} => queue' # queue)
  BY DEF Irq
<1>3. wire'.by # "ended" BY <1>1 DEF Free
<1>4. EndSeen' BY <1>3 DEF EndSeen
<1>5. "disable" \notin pend BY <1>0 DEF Bits
<1>6. Paced'
  <2>1. CASE d = {} BY <2>1, <1>1, <1>2 DEF Paced
  <2>2. CASE d # {} BY <2>2, <1>2 DEF Paced
  <2> QED BY <2>1, <2>2
<1>7. queue' # queue => "stop" \in pend BY DEF Irq
<1>8. Stopped' BY <1>1, <1>2, <1>5, <1>7 DEF Stopped
<1>9. MatchSeen' /\ OffBetween'
  <2>1. CASE "rx" \in pend
    <3>1. pend' = {} /\ wire.at >= 1 /\ wire.by \in {"remote", "ended"}
      BY <2>1, <1>0, <1>1 DEF Carried
    <3>2. CASE wire.by = "ended"
      <4>1. wire'.by = "none" BY <3>2, <1>1 DEF Free
      <4> QED BY <4>1 DEF MatchSeen, OffBetween, Inbound
    <3>3. CASE wire.by = "remote"
      <4>1. wire' = wire BY <3>3, <1>1
      <4>2. slaveOn BY <3>1, <3>3, <1>0 DEF OffBetween, Inbound
      <4> QED BY <4>1, <4>2, <3>1, <1>0 DEF MatchSeen, OffBetween
    <3> QED BY <3>1, <3>2, <3>3
  <2>2. CASE "rx" \notin pend
    <3>1. pend' = pend /\ wire' = wire BY <2>2, <1>0, <1>1 DEF EndSeen
    <3> QED BY <3>1, <1>0 DEF MatchSeen, OffBetween, Inbound
  <2> QED BY <2>1, <2>2
<1> QED BY <1>4, <1>6, <1>8, <1>9 DEF BusInv

(* The rest of the handler: an address match, a byte or a STOP that it     *)
(* writes over is of a message that is then counted as cut into.           *)
LEMMA IrqRestKeepsBus == TypeInv /\ BusInv /\ IrqRest => BusInv'
<1> SUFFICES ASSUME TypeInv, BusInv, IrqRest PROVE BusInv'
  OBVIOUS
<1> DEFINE cleared == IF handling \cap {"stop", "done", "lost"} = {} THEN {} ELSE handling
<1>1. /\ handling' = {} /\ pend' = pend \ cleared
      /\ slaveOn' = (slaveOn /\ ~("disable" \in handling /\ BusFree))
      /\ wire' = IF wire.by = "ended" /\ "rx" \in cleared THEN Free ELSE wire
      /\ cut' = IF "rx" \in pend \cap cleared \/ (wire.by = "ended" /\ "stop" \in cleared)
                THEN cut \cup {wire.id} ELSE cut
      /\ slaveMode' = slaveMode
  BY DEF IrqRest
<1>2. "disable" \in handling => "stop" \in cleared BY DEF BusInv, Stopped
<1>3. EndSeen /\ MatchSeen /\ OffBetween BY DEF BusInv
<1> HIDE DEF cleared
<1>4. Paced' /\ Stopped' BY <1>1 DEF Paced, Stopped
<1>5. CASE wire.by = "ended" /\ "rx" \in cleared
  <2>1. wire'.by = "none" BY <1>1, <1>5 DEF Free
  <2>2. EndSeen' /\ MatchSeen' /\ OffBetween'
    BY <2>1 DEF EndSeen, MatchSeen, OffBetween, Inbound
  <2> QED BY <2>2, <1>4 DEF BusInv
<1>6. CASE ~(wire.by = "ended" /\ "rx" \in cleared)
  <2>1. wire' = wire /\ cut \subseteq cut' BY <1>1, <1>6
  <2>2. EndSeen' BY <2>1, <1>1, <1>3, <1>6 DEF EndSeen
  <2>3. MatchSeen' BY <2>1, <1>1, <1>3 DEF MatchSeen, Inbound
  <2>4. OffBetween'
    <3>1. CASE slaveOn /\ ~slaveOn' /\ Inbound
      <4>1. "disable" \in handling /\ BusFree BY <3>1, <1>1
      <4>2. wire.by = "ended" /\ "stop" \in cleared
        BY <4>1, <3>1, <1>2 DEF BusFree, Inbound
      <4>3. wire.id \in cut' BY <4>2, <1>1
      <4> QED BY <4>2, <4>3, <2>1 DEF OffBetween
    <3>2. CASE ~slaveOn BY <3>2, <2>1, <1>3 DEF OffBetween, Inbound
    <3>3. CASE slaveOn' \/ ~Inbound BY <3>3, <2>1 DEF OffBetween, Inbound
    <3> QED BY <3>1, <3>2, <3>3
  <2> QED BY <2>2, <2>3, <2>4, <1>4 DEF BusInv
<1> QED BY <1>5, <1>6

(* The tasks run when no interrupt waits.                                  *)
LEMMA TasksKeepBus == TypeInv /\ BusInv /\ Tasks => BusInv'
<1> SUFFICES ASSUME TypeInv, BusInv, Tasks PROVE BusInv'
  OBVIOUS
<1>0. /\ pend = {} /\ handling = {} /\ handling' = {} /\ slaveMode' = slaveMode
      /\ cut \subseteq cut'
  BY DEF Tasks, OwnStart, OwnReturn, SlaveRecv, MctpRecv, EnableSlave, Reset, TaskRuns,
     CutNow
<1>1. Paced' /\ Stopped' BY <1>0 DEF Paced, Stopped
<1>2. wire.by # "ended" /\ OffBetween BY <1>0 DEF BusInv, EndSeen
<1>3. \/ wire' = wire /\ (slaveOn' = slaveOn \/ slaveOn' = TRUE)
      \/ wire'.by \in {"none", "own"}
  BY DEF Tasks, OwnStart, OwnReturn, SlaveRecv, MctpRecv, EnableSlave, Reset, Free
<1>4. "addr" \notin pend'
  BY <1>0 DEF Tasks, OwnStart, OwnReturn, SlaveRecv, MctpRecv, EnableSlave, Reset
<1>5. MatchSeen' BY <1>4 DEF MatchSeen
<1>6. EndSeen' /\ OffBetween'
  BY <1>0, <1>2, <1>3 DEF EndSeen, OffBetween, Inbound
<1> QED BY <1>1, <1>5, <1>6 DEF BusInv

(* A step that changes nothing.                                            *)
LEMMA StutterKeepsBus == BusInv /\ UNCHANGED vars => BusInv'
BY DEF vars, BusInv, EndSeen, Paced, Stopped, MatchSeen, OffBetween, Inbound

----------------------------------------------------------------------------
(* The linear buffer and the queues: what is true of their messages.       *)

(* All that is read or queued was sent before message n.                   *)
StoredBelow(n) == \A k \in Kinds : Below(queue[k], taken[k], n)
HasCut(m) == \E j \in DOMAIN m : m[j].id \in cut
(* The first bytes of one message, as far as they have come.               *)
Front(m) ==
  /\ Len(m) \in 1..NumBytes
  /\ \A i \in 1..Len(m) : m[i] = [m[1] EXCEPT !.at = i]

InOrder == \A k \in Kinds : Orderly(k, queue[k], taken[k], cut)
Numbered ==
  /\ wire.id <= sent /\ StoredBelow(sent + 1)
  /\ slaveMode => linear # <<>> /\ linear[1].id <= sent
(* What is in the buffer, or about to be, comes after all that is stored.  *)
BufferLater == slaveMode /\ linear[1].at = 1 => StoredBelow(linear[1].id)
WireLater == Inbound /\ Fresh => StoredBelow(wire.id)
WireNext == slaveMode /\ wire.by = "remote" /\ wire.at = 0 => linear[1].id < wire.id
(* The buffer has all that has come of the message on the wire, ...        *)
Current ==
  /\ Inbound /\ wire.id = linear[1].id /\ wire.kind = linear[1].kind
  /\ flag = "SLAVE" /\ "addr" \notin pend
  /\ Len(linear) = wire.at - (IF "rx" \in pend THEN 1 ELSE 0)
  /\ "stop" \in pend <=> wire.by = "ended"
(* ... or a message that has ended, with its STOP to be seen.              *)
Over ==
  /\ "stop" \in pend /\ Len(linear) \in {1, NumBytes}
  /\ wire.by \in {"none", "remote", "ended"}
  /\ Inbound => wire.at = 0 \/ (wire.at = 1 /\ {"rx", "addr"} \subseteq pend)
SoFar == slaveMode => HasCut(linear) \/ (Front(linear) /\ (Current \/ Over))

OrderInv ==
  InOrder /\ Numbered /\ BufferLater /\ WireLater /\ WireNext /\ SoFar
IInv == TypeInv /\ BusInv /\ OrderInv

(* The first byte of a message that is not empty.                          *)
LEMMA FirstByte ==
  ASSUME NEW m \in Message, m # <<>>
  PROVE  /\ Len(m) \in Nat /\ Len(m) >= 1 /\ DOMAIN m = 1..Len(m) /\ 1 \in DOMAIN m
         /\ m[1] \in Byte /\ m[1].id \in 1..MaxMsg
<1>1. m \in Seq(Byte) BY DEF Message
<1>2. Len(m) \in Nat /\ Len(m) # 0 /\ DOMAIN m = 1..Len(m) BY <1>1, EmptySeq
<1>3. 1 \in 1..Len(m) BY <1>2
<1>4. m[1] \in Byte BY <1>1, <1>3, ElementOfSeq
<1> QED BY <1>2, <1>3, <1>4 DEF Byte

(* A whole message is a front with all the bytes.                          *)
LEMMA WholeFront == \A m : Whole(m) <=> Front(m) /\ Len(m) = NumBytes
BY Constants DEF Whole, Front

(* What was sent before message n was sent before the next.                *)
LEMMA BelowNext ==
  ASSUME NEW r, Ring(r), NEW t \in Nat, NEW n \in Nat, Below(r, t, n)
  PROVE  Below(r, t, n + 1)
<1>1. ASSUME NEW i \in 1..r.entries, Whole(Held(r, i)) PROVE Held(r, i)[1].id < n + 1
  <2>1. /\ r.slot \in [Slot -> Message]
        /\ r.reader \in 0..(Slots - 1) /\ r.entries \in 0..Slots
    BY Constants DEF Ring, Queue, Slot
  <2>2. Place(r.reader + i - 1) \in Slot
    <3>1. r.reader + i - 1 \in 0..(2 * Slots - 1) BY <2>1, Constants
    <3> QED BY <3>1, Remainder
  <2>3. Held(r, i) \in Message BY <2>1, <2>2 DEF Held
  <2>4. Held(r, i) # <<>>
    <3>1. Len(Held(r, i)) = NumBytes BY <1>1 DEF Whole
    <3>2. Len(<<>>) = 0 OBVIOUS
    <3> QED BY <3>1, <3>2, Constants
  <2>5. Held(r, i)[1].id \in 1..MaxMsg BY <2>3, <2>4, FirstByte
  <2>6. Held(r, i)[1].id < n BY <1>1 DEF Below
  <2> QED BY <2>5, <2>6, Constants
<1>2. t < n + 1 BY DEF Below
<1> QED BY <1>1, <1>2 DEF Below

(* Initially.                                                              *)
LEMMA InitOrder == Init => OrderInv
<1> SUFFICES ASSUME Init PROVE OrderInv
  OBVIOUS
<1>1. ASSUME NEW k \in Kinds PROVE queue[k].entries = 0 /\ taken[k] = 0
  BY DEF Init, EmptyQueue
<1>2. wire.id = 0 /\ wire.by = "none" /\ sent = 0 /\ slaveMode = FALSE
  BY DEF Init, Free
<1>3. InOrder BY <1>1 DEF InOrder, Orderly
<1>4. StoredBelow(sent + 1) BY <1>1, <1>2 DEF StoredBelow, Below
<1>5. Numbered BY <1>2, <1>4 DEF Numbered
<1>6. BufferLater /\ WireLater /\ WireNext /\ SoFar
  BY <1>2 DEF BufferLater, WireLater, WireNext, SoFar, Inbound
<1> QED BY <1>3, <1>5, <1>6 DEF OrderInv

(* A step of the bus leaves the buffer and the queues as they are.         *)
LEMMA WireKeepsStored ==
  ASSUME UNCHANGED software, cut' = cut, InOrder
  PROVE  /\ InOrder'
         /\ \A n : StoredBelow(n) =>
                     \A k \in Kinds : Below(queue'[k], taken'[k], n)
BY DEF InOrder, StoredBelow, software

(* The masters and the controller: a new message is later than all others. *)
LEMMA WireKeepsOrder == IInv /\ Wire => OrderInv'
<1> SUFFICES ASSUME IInv, Wire PROVE OrderInv'
  OBVIOUS
<1>0. /\ UNCHANGED software /\ cut' = cut
      /\ wire \in WireType /\ wire.at \in Nat /\ wire.id \in Nat
      /\ NumBytes > 1 /\ NumBytes \in Nat
      /\ Carried /\ EndSeen /\ Rings /\ sent \in Nat /\ taken \in [Kinds -> Nat]
      /\ linear \in Message
      /\ InOrder /\ Numbered /\ BufferLater /\ WireLater /\ WireNext /\ SoFar
  BY Constants DEF Wire, RemoteStart, RemoteWins, RemoteByte, RemoteStop, OwnLastByte,
     OwnStop, TypeInv, Typed, WireType, BusInv, OrderInv, IInv
<1>1. InOrder' BY <1>0, WireKeepsStored
<1>2. /\ slaveMode' = slaveMode /\ linear' = linear /\ flag' = flag
      /\ queue' = queue /\ taken' = taken
  BY <1>0 DEF software
<1>3. BufferLater' BY <1>0, <1>2 DEF BufferLater, StoredBelow
<1>4. slaveMode => linear # <<>> /\ linear[1].id \in Nat
  BY <1>0, FirstByte DEF Numbered
<1> SUFFICES Numbered' /\ WireLater' /\ WireNext' /\ SoFar'
  BY <1>1, <1>3 DEF OrderInv
<1>5. ASSUME NEW kind \in Kinds, RemoteStart(kind) \/ RemoteWins(kind)
      PROVE  Numbered' /\ WireLater' /\ WireNext' /\ SoFar'
  <2>1. /\ wire'.by = "remote" /\ wire'.id = sent + 1 /\ wire'.at = 0 /\ sent' = sent + 1
        /\ pend \subseteq pend'
    BY <1>5 DEF RemoteStart, RemoteWins
  <2>2. StoredBelow(sent + 1) BY <1>0 DEF Numbered
  <2>3. ASSUME NEW k \in Kinds PROVE Below(queue[k], taken[k], (sent + 1) + 1)
    <3>1. Ring(queue[k]) /\ taken[k] \in Nat /\ sent + 1 \in Nat BY <1>0 DEF Rings
    <3>2. Below(queue[k], taken[k], sent + 1) BY <2>2 DEF StoredBelow
    <3> QED BY <3>1, <3>2, BelowNext
  <2>4. Numbered' BY <2>1, <2>3, <1>0, <1>2, <1>4 DEF Numbered, StoredBelow
  <2>5. WireLater' BY <2>1, <2>2, <1>2 DEF WireLater, StoredBelow
  <2>6. WireNext' BY <2>1, <1>0, <1>2, <1>4 DEF WireNext, Numbered
  <2>7. SoFar'
    <3>1. CASE ~slaveMode BY <3>1, <1>2 DEF SoFar
    <3>2. CASE HasCut(linear) BY <3>2, <1>0, <1>2 DEF SoFar, HasCut
    <3>3. CASE Front(linear) /\ (Current \/ Over)
      <4>1. wire.by \in {"none", "own"} BY <1>5 DEF RemoteStart, RemoteWins
      <4>2. Over BY <4>1, <3>3 DEF Current, Inbound
      <4>3. Over' BY <4>2, <2>1, <1>2 DEF Over
      <4> QED BY <4>3, <3>3, <1>2 DEF SoFar, Front
    <3> QED BY <1>0, <3>1, <3>2, <3>3 DEF SoFar
  <2> QED BY <2>4, <2>5, <2>6, <2>7
<1>6. ASSUME sent' = sent, wire'.by = "none" \/ wire'.by = "ownlast",
             wire'.id = wire.id \/ wire'.id = 0
      PROVE  Numbered' /\ WireLater' /\ WireNext'
  <2>1. Numbered' BY <1>6, <1>0, <1>2 DEF Numbered, StoredBelow
  <2>2. WireLater' /\ WireNext' BY <1>6 DEF WireLater, WireNext, Inbound
  <2> QED BY <2>1, <2>2
<1>7. CASE RemoteByte
  <2>0. sent' = sent /\ wire.by = "remote" /\ "rx" \notin pend BY <1>7 DEF RemoteByte
  <2>1. CASE slaveOn
    <3>1. /\ wire' = [wire EXCEPT !.at = @ + 1]
          /\ pend' = pend \cup {"rx"} \cup (IF wire.at = 0 THEN {"addr"} ELSE {})
      BY <1>7, <2>1 DEF RemoteByte
    <3>2. wire'.by = "remote" /\ wire'.id = wire.id /\ wire'.at = wire.at + 1
          /\ wire'.kind = wire.kind
      BY <1>0, <2>0, <3>1 DEF WireType
    <3>3. Numbered' BY <3>2, <2>0, <1>0, <1>2 DEF Numbered, StoredBelow
    <3>4. WireLater'
      <4>1. CASE wire.at = 0
        <5>1. StoredBelow(wire.id) BY <4>1, <2>0, <1>0 DEF WireLater, Inbound, Fresh
        <5> QED BY <5>1, <3>2, <1>2 DEF WireLater, StoredBelow
      <4>2. CASE wire.at # 0
        <5>1. wire'.at # 0 /\ wire'.at # 1 BY <4>2, <3>2, <1>0
        <5> QED BY <5>1 DEF WireLater, Fresh
      <4> QED BY <4>1, <4>2
    <3>5. WireNext' BY <3>2, <1>0 DEF WireNext
    <3>6. SoFar'
      <4>1. CASE ~slaveMode BY <4>1, <1>2 DEF SoFar
      <4>2. CASE HasCut(linear) BY <4>2, <1>0, <1>2 DEF SoFar, HasCut
      <4>3. CASE slaveMode /\ Front(linear) /\ Current
        <5>1. /\ "addr" \notin pend /\ Len(linear) = wire.at /\ "stop" \notin pend
              /\ wire.id = linear[1].id /\ wire.kind = linear[1].kind /\ flag = "SLAVE"
          BY <4>3, <2>0, <1>0 DEF Current
        <5>2. wire.at # 0 BY <5>1, <4>3 DEF Front
        <5>3. /\ "addr" \notin pend' /\ "stop" \notin pend' /\ "rx" \in pend'
          BY <5>1, <5>2, <3>1
        <5>4. Len(linear') = wire'.at - (IF "rx" \in pend' THEN 1 ELSE 0)
          BY <5>1, <5>3, <3>2, <1>2, <1>0
        <5>5. Current' BY <5>1, <5>3, <5>4, <3>2, <1>2 DEF Current, Inbound
        <5> QED BY <5>5, <4>3, <1>2 DEF SoFar, Front
      <4>4. CASE slaveMode /\ Front(linear) /\ Over
        <5>1. wire.at = 0 BY <4>4, <2>0 DEF Over, Inbound
        <5>2. wire'.at = 1 /\ {"rx", "addr"} \subseteq pend' /\ "stop" \in pend'
          BY <5>1, <4>4, <3>1, <3>2 DEF Over
        <5>3. Over' BY <5>2, <4>4, <3>2, <1>2 DEF Over
        <5> QED BY <5>3, <4>4, <1>2 DEF SoFar, Front
      <4> QED BY <1>0, <4>1, <4>2, <4>3, <4>4 DEF SoFar
    <3> QED BY <3>3, <3>4, <3>5, <3>6
  <2>2. CASE ~slaveOn
    <3>1. wire' = Free /\ pend' = pend BY <1>7, <2>2 DEF RemoteByte
    <3>2. wire'.by = "none" /\ wire'.id = 0 BY <3>1 DEF Free
    <3>3. wire.at = 0
      <4>1. OffBetween BY DEF IInv, BusInv
      <4> QED BY <4>1, <2>0, <2>2 DEF OffBetween, Inbound
    <3>4. SoFar'
      <4>1. CASE ~slaveMode BY <4>1, <1>2 DEF SoFar
      <4>2. CASE HasCut(linear) BY <4>2, <1>0, <1>2 DEF SoFar, HasCut
      <4>3. CASE slaveMode /\ Front(linear) /\ Current
        <5>1. Len(linear) = wire.at /\ Len(linear) # 0
          BY <4>3, <2>0, <1>0 DEF Current, Front
        <5> QED BY <5>1, <3>3
      <4>4. CASE slaveMode /\ Front(linear) /\ Over
        <5>1. Over' BY <4>4, <3>1, <3>2, <1>2 DEF Over, Inbound
        <5> QED BY <5>1, <4>4, <1>2 DEF SoFar, Front
      <4> QED BY <1>0, <4>1, <4>2, <4>3, <4>4 DEF SoFar
    <3> QED BY <3>2, <3>4, <2>0, <1>6
  <2> QED BY <2>1, <2>2
<1>8. CASE RemoteStop
  <2>0. /\ sent' = sent /\ wire.by = "remote" /\ wire.at \in {1, NumBytes}
        /\ pend' = pend \cup {"stop"}
    BY <1>8 DEF RemoteStop
  <2>1. CASE "rx" \in pend
    <3>1. wire' = [wire EXCEPT !.by = "ended"] BY <1>8, <2>1 DEF RemoteStop
    <3>2. wire'.by = "ended" /\ wire'.id = wire.id /\ wire'.at = wire.at
          /\ wire'.kind = wire.kind
      BY <1>0, <3>1 DEF WireType
    <3>3. Numbered' BY <3>2, <2>0, <1>0, <1>2 DEF Numbered, StoredBelow
    <3>4. WireLater'
      BY <3>2, <2>0, <1>0, <1>2 DEF WireLater, Inbound, Fresh, StoredBelow
    <3>5. WireNext' BY <3>2 DEF WireNext
    <3>6. SoFar'
      <4>1. CASE ~slaveMode BY <4>1, <1>2 DEF SoFar
      <4>2. CASE HasCut(linear) BY <4>2, <1>0, <1>2 DEF SoFar, HasCut
      <4>3. CASE slaveMode /\ Front(linear) /\ Current
        <5>1. Current' BY <4>3, <3>2, <2>0, <1>2 DEF Current, Inbound
        <5> QED BY <5>1, <4>3, <1>2 DEF SoFar, Front
      <4>4. CASE slaveMode /\ Front(linear) /\ Over
        <5>1. Over' BY <4>4, <3>2, <2>0, <1>2 DEF Over, Inbound
        <5> QED BY <5>1, <4>4, <1>2 DEF SoFar, Front
      <4> QED BY <1>0, <4>1, <4>2, <4>3, <4>4 DEF SoFar
    <3> QED BY <3>3, <3>4, <3>5, <3>6
  <2>2. CASE "rx" \notin pend
    <3>1. wire' = Free BY <1>8, <2>2 DEF RemoteStop
    <3>2. wire'.by = "none" /\ wire'.id = 0 BY <3>1 DEF Free
    <3>3. SoFar'
      <4>1. CASE ~slaveMode BY <4>1, <1>2 DEF SoFar
      <4>2. CASE HasCut(linear) BY <4>2, <1>0, <1>2 DEF SoFar, HasCut
      <4>3. CASE slaveMode /\ Front(linear) /\ (Current \/ Over)
        <5>1. Len(linear) \in {1, NumBytes}
          <6>1. Current => Len(linear) = wire.at - 0 BY <2>2 DEF Current
          <6>2. Current => Len(linear) = wire.at BY <6>1, <1>0
          <6> QED BY <6>2, <4>3, <2>0 DEF Over
        <5>2. Over' BY <5>1, <3>2, <2>0, <1>2 DEF Over, Inbound
        <5> QED BY <5>2, <4>3, <1>2 DEF SoFar, Front
      <4> QED BY <1>0, <4>1, <4>2, <4>3 DEF SoFar
    <3> QED BY <3>2, <3>3, <2>0, <1>6
  <2> QED BY <2>1, <2>2
<1>9. CASE OwnLastByte \/ OwnStop
  <2>1. /\ wire.by \in {"own", "ownlast"} /\ sent' = sent
        /\ wire'.by = "none" \/ wire'.by = "ownlast"
        /\ wire'.id = wire.id \/ wire'.id = 0
    BY <1>0, <1>9 DEF OwnLastByte, OwnStop, Free, WireType
  <2>2. SoFar'
    <3>1. ~Current /\ ~Over BY <2>1 DEF Current, Over, Inbound
    <3>2. slaveMode => HasCut(linear) BY <3>1, <1>0 DEF SoFar
    <3> QED BY <3>2, <1>0, <1>2 DEF SoFar, HasCut
  <2> QED BY <2>1, <2>2, <1>6
<1> QED BY <1>5, <1>7, <1>8, <1>9 DEF Wire

(* What the handler makes of the buffer: an address match begins a new     *)
(* message, ...                                                            *)
LEMMA Begun ==
  ASSUME {"addr", "rx"} \subseteq pend, flag = "SLAVE"
  PROVE  Extended(pend) = <<Received>>
<1>1. Restarted(pend) = <<>> BY DEF Restarted
<1>2. Len(<<>>) # MaxBytes BY Constants
<1>3. Extended(pend) = Append(<<>>, Received) BY <1>1, <1>2 DEF Extended
<1> QED BY <1>3

(* ... a byte continues the message, if there is room, ...                 *)
LEMMA Continued ==
  ASSUME "rx" \in pend, "addr" \notin pend, flag = "SLAVE"
  PROVE  Extended(pend) = IF Len(linear) = MaxBytes THEN linear
                          ELSE Append(linear, Received)
BY DEF Extended, Restarted

(* ... and otherwise it stays as it is.                                    *)
LEMMA Kept ==
  ASSUME "rx" \notin pend \/ flag # "SLAVE"
  PROVE  Extended(pend) = linear
BY DEF Extended

(* A message that is continued begins as it did, and has the bytes it had. *)
LEMMA ContinuedKeeps ==
  ASSUME TypeInv, "rx" \in pend, "addr" \notin pend, flag = "SLAVE", linear # <<>>
  PROVE  /\ Extended(pend) # <<>> /\ Extended(pend)[1] = linear[1]
         /\ HasCut(linear) => HasCut(Extended(pend))
<1> DEFINE m == Extended(pend)
<1>1. linear \in Message BY DEF TypeInv, Typed
<1>2. linear \in Seq(Byte) /\ DOMAIN linear = 1..Len(linear) /\ 1 \in 1..Len(linear)
      /\ Len(linear) \in Nat
  BY <1>1, FirstByte DEF Message
<1>3. m = IF Len(linear) = MaxBytes THEN linear ELSE Append(linear, Received)
  BY Continued
<1> HIDE DEF m
<1>4. CASE m = linear
  <2>1. linear[1] = linear[1] /\ m # <<>> BY <1>4
  <2> QED BY <2>1, <1>4 DEF m
<1>5. CASE m = Append(linear, Received)
  <2>0. wire.id \in 1..MaxMsg /\ wire.at \in 1..NumBytes /\ wire.kind \in Kinds
    BY Constants DEF TypeInv, Carried, Typed, WireType
  <2>1. Received \in Byte BY <2>0 DEF Received, Byte
  <2>2. Len(m) = Len(linear) + 1 /\ \A i \in 1..Len(linear) : m[i] = linear[i]
    BY <1>2, <1>5, <2>1, AppendProperties
  <2>3. m \in Seq(Byte) BY <1>2, <1>5, <2>1, AppendProperties
  <2>4. DOMAIN m = 1..Len(m) /\ m # <<>>
    <3>1. DOMAIN m = 1..Len(m) /\ Len(m) # 0 BY <2>2, <2>3, <1>2
    <3>2. Len(<<>>) = 0 OBVIOUS
    <3> QED BY <3>1, <3>2
  <2>5. \A i \in 1..Len(linear) : i \in DOMAIN m BY <2>2, <2>4, <1>2
  <2>6. HasCut(linear) => HasCut(m) BY <2>2, <2>5, <1>2 DEF HasCut
  <2>7. m[1] = linear[1] BY <2>2, <1>2
  <2> QED BY <2>4, <2>6, <2>7 DEF m
<1> QED BY <1>3, <1>4, <1>5

(* The next byte of a message makes a longer front.                        *)
LEMMA FrontGrows ==
  ASSUME TypeInv, "rx" \in pend, "addr" \notin pend, flag = "SLAVE",
         Front(linear), Len(linear) = wire.at - 1,
         wire.id = linear[1].id, wire.kind = linear[1].kind
  PROVE  Front(Extended(pend)) /\ Len(Extended(pend)) = wire.at
<1> DEFINE m == Extended(pend)
<1>0. /\ linear \in Seq(Byte) /\ Len(linear) \in Nat /\ Len(linear) >= 1
      /\ wire.at \in Nat /\ wire.at <= NumBytes /\ wire.id \in 1..MaxMsg
      /\ wire.at \in 1..NumBytes /\ wire.kind \in Kinds
  BY Constants DEF TypeInv, Typed, Message, WireType, Front, Carried
<1>1. Received \in Byte BY <1>0 DEF Received, Byte
<1>2. m = Append(linear, Received) BY <1>0, Continued, Constants
<1> HIDE DEF m
<1>3. /\ Len(m) = Len(linear) + 1 /\ m[Len(linear) + 1] = Received
      /\ \A i \in 1..Len(linear) : m[i] = linear[i]
  BY <1>0, <1>1, <1>2, AppendProperties
<1>4. Len(m) = wire.at /\ Len(m) \in 1..NumBytes BY <1>0, <1>3
<1>5. m[1] = linear[1] /\ linear[1] \in Byte
  BY <1>0, <1>3, ElementOfSeq
<1>6. ASSUME NEW i \in 1..Len(m) PROVE m[i] = [m[1] EXCEPT !.at = i]
  <2>1. CASE i = Len(m)
    <3>1. m[i] = Received /\ i = wire.at BY <2>1, <1>0, <1>3, <1>4
    <3>2. [linear[1] EXCEPT !.at = i] = [id |-> linear[1].id, at |-> i, kind |-> linear[1].kind]
      BY <1>5 DEF Byte
    <3> QED BY <3>1, <3>2, <1>5 DEF Received
  <2>2. CASE i # Len(m)
    <3>1. i \in 1..Len(linear) BY <2>2, <1>0, <1>3
    <3>2. linear[i] = [linear[1] EXCEPT !.at = i] BY <3>1 DEF Front
    <3> QED BY <3>1, <3>2, <1>3, <1>5
  <2> QED BY <2>1, <2>2
<1>7. Front(m) BY <1>4, <1>6 DEF Front
<1> QED BY <1>4, <1>7 DEF m

(* The state of a message that goes on, after its interrupt.               *)
GoesOn(m) ==
  /\ Front(m) /\ flag = "SLAVE"
  /\ wire.by = "remote" /\ wire.id = m[1].id /\ wire.kind = m[1].kind
  /\ Len(m) = wire.at
  /\ "rx" \in pend \/ "addr" \notin pend

(* The buffer after an interrupt of a slave that is addressed: its message *)
(* comes after all that is stored; at a STOP it is an address, whole or    *)
(* cut into, and otherwise it is cut into or goes on.                      *)
LEMMA AddressedBuffer ==
  ASSUME IInv, Addressed(pend), NEW m, m = Extended(pend)
  PROVE  /\ m \in Message /\ m # <<>> /\ m[1].id <= sent
         /\ m[1].at = 1 => StoredBelow(m[1].id)
         /\ wire.by = "remote" /\ wire.at = 0 => m[1].id < wire.id
         /\ "stop" \in pend => Len(m) = 1 \/ Whole(m) \/ HasCut(m)
         /\ "stop" \notin pend => HasCut(m) \/ GoesOn(m)
<1>0. /\ wire \in WireType /\ wire.at \in Nat /\ wire.id \in Nat
      /\ NumBytes > 1 /\ NumBytes \in Nat
      /\ Carried /\ EndSeen /\ MatchSeen /\ TypeInv
      /\ InOrder /\ Numbered /\ BufferLater /\ WireLater /\ WireNext /\ SoFar
      /\ m \in Message /\ linear \in Message
  BY Constants, ExtendedType DEF TypeInv, Typed, WireType, BusInv, OrderInv, IInv
<1>1. CASE {"addr", "rx"} \subseteq pend /\ flag = "SLAVE"
  <2>1. m = <<Received>> BY <1>1, Begun
  <2>2. Len(m) = 1 /\ m[1] = Received /\ 1 \in DOMAIN m /\ m # <<>>
    BY <2>1
  <2>3. /\ m[1].id = wire.id /\ m[1].at = wire.at /\ m[1].kind = wire.kind
    BY <2>2 DEF Received
  <2>4. Inbound /\ wire.at >= 1 BY <1>0, <1>1 DEF Carried, Inbound
  <2>5. m[1].id <= sent BY <2>3, <1>0 DEF Numbered
  <2>6. m[1].at = 1 => StoredBelow(m[1].id)
    BY <2>3, <2>4, <1>0, <1>1 DEF WireLater, Fresh
  <2>7. "stop" \notin pend => HasCut(m) \/ GoesOn(m)
    <3>1. CASE wire.id \in cut BY <3>1, <2>2, <2>3 DEF HasCut
    <3>2. CASE wire.id \notin cut /\ "stop" \notin pend
      <4>1. wire.by = "remote" BY <3>2, <2>4, <1>0 DEF EndSeen, Inbound
      <4>2. wire.at = 1 BY <3>2, <2>4, <1>0, <1>1 DEF MatchSeen
      <4>3. m[1] = [m[1] EXCEPT !.at = 1]
        <5>1. m[1] = [id |-> wire.id, at |-> 1, kind |-> wire.kind]
          BY <2>2, <4>2 DEF Received
        <5> QED BY <5>1
      <4>4. Front(m)
        <5>1. 1..Len(m) = {1} /\ Len(m) \in 1..NumBytes BY <2>2, <1>0
        <5> QED BY <5>1, <4>3 DEF Front
      <4> QED BY <4>1, <4>2, <4>4, <2>2, <2>3, <1>1 DEF GoesOn
    <3> QED BY <3>1, <3>2
  <2> QED BY <2>2, <2>4, <2>5, <2>6, <2>7, <1>0
<1>2. CASE ~({"addr", "rx"} \subseteq pend /\ flag = "SLAVE")
  <2>1. slaveMode /\ linear # <<>> /\ linear[1].id <= sent
    BY <1>0, <1>2 DEF Addressed, Numbered
  <2>2. CASE "rx" \in pend /\ flag = "SLAVE"
    <3>1. "addr" \notin pend BY <1>2, <2>2
    <3>2. m # <<>> /\ m[1] = linear[1] /\ (HasCut(linear) => HasCut(m))
      BY <1>0, <2>1, <2>2, <3>1, ContinuedKeeps
    <3>3. m[1].at = 1 => StoredBelow(m[1].id) BY <3>2, <2>1, <1>0 DEF BufferLater
    <3>4. wire.by = "remote" /\ wire.at = 0 => m[1].id < wire.id
      BY <3>2, <2>1, <1>0 DEF WireNext
    <3>5. CASE HasCut(linear) BY <3>2, <3>3, <3>4, <3>5, <2>1, <1>0
    <3>6. CASE Front(linear) /\ Current
      <4>1. /\ Len(linear) = wire.at - 1
            /\ wire.id = linear[1].id /\ wire.kind = linear[1].kind
        BY <3>6, <2>2 DEF Current
      <4>2. Front(m) /\ Len(m) = wire.at
        BY <4>1, <3>1, <3>6, <2>2, <1>0, FrontGrows
      <4>3. CASE "stop" \in pend
        <5>1. wire.by = "ended" BY <4>3, <3>6 DEF Current
        <5>2. Len(m) = 1 \/ Len(m) = NumBytes BY <5>1, <4>2, <1>0 DEF EndSeen
        <5>3. Len(m) = 1 \/ Whole(m) BY <5>2, <4>2, WholeFront
        <5> QED BY <5>3, <4>3, <3>2, <3>3, <3>4, <2>1, <1>0
      <4>4. CASE "stop" \notin pend
        <5>1. wire.by = "remote" BY <4>4, <3>6 DEF Current, Inbound
        <5>2. GoesOn(m) BY <5>1, <4>1, <4>2, <3>2, <2>2 DEF GoesOn
        <5> QED BY <5>2, <4>4, <3>2, <3>3, <3>4, <2>1, <1>0
      <4> QED BY <4>3, <4>4
    <3>7. ~(Front(linear) /\ Over)
      <4>1. Over => wire.at = 1 /\ "addr" \in pend
        BY <2>2, <1>0 DEF Over, Carried, Inbound
      <4> QED BY <4>1, <3>1
    <3> QED BY <3>5, <3>6, <3>7, <2>1, <1>0 DEF SoFar
  <2>3. CASE ~("rx" \in pend /\ flag = "SLAVE")
    <3>1. m = linear BY <2>3, Kept
    <3>2. m[1].at = 1 => StoredBelow(m[1].id) BY <3>1, <2>1, <1>0 DEF BufferLater
    <3>3. wire.by = "remote" /\ wire.at = 0 => m[1].id < wire.id
      BY <3>1, <2>1, <1>0 DEF WireNext
    <3>4. CASE HasCut(linear) BY <3>1, <3>2, <3>3, <3>4, <2>1, <1>0
    <3>5. CASE Front(linear) /\ Current
      <4>1. "rx" \notin pend /\ flag = "SLAVE" BY <3>5, <2>3 DEF Current
      <4>2. wire.by = "remote" /\ "stop" \notin pend
        BY <4>1, <3>5, <1>0 DEF Current, EndSeen, Inbound
      <4>3. Len(linear) = wire.at - 0 BY <4>1, <3>5 DEF Current
      <4>4. GoesOn(m) BY <4>1, <4>2, <4>3, <3>1, <3>5, <1>0 DEF GoesOn, Current
      <4> QED BY <4>2, <4>4, <3>1, <3>2, <3>3, <2>1, <1>0
    <3>6. CASE Front(linear) /\ Over
      <4>1. "stop" \in pend /\ (Len(m) = 1 \/ Whole(m))
        BY <3>1, <3>6, WholeFront DEF Over
      <4> QED BY <4>1, <3>1, <3>2, <3>3, <2>1, <1>0
    <3> QED BY <3>4, <3>5, <3>6, <2>1, <1>0 DEF SoFar
  <2> QED BY <2>2, <2>3
<1> QED BY <1>1, <1>2

(* The first byte of a whole message is its address.                       *)
LEMMA WholeBegins ==
  ASSUME NEW m \in Message, Whole(m)
  PROVE  m[1].at = 1 /\ m # <<>>
<1>1. Len(m) = NumBytes /\ m[1] = [m[1] EXCEPT !.at = 1] BY Constants DEF Whole
<1>2. m # <<>>
  <2>1. Len(<<>>) = 0 OBVIOUS
  <2> QED BY <2>1, <1>1, Constants
<1>3. m[1] \in Byte BY <1>2, FirstByte
<1>4. [m[1] EXCEPT !.at = 1].at = 1 BY <1>3 DEF Byte
<1> QED BY <1>1, <1>2, <1>4

(* The STOP stores a message behind those sent before it, whole or cut     *)
(* into, in the queue of its kind.                                         *)
LEMMA StopKeepsOrder ==
  ASSUME TypeInv, InOrder, NEW m \in Message, StopProcess(m), taken' = taken, cut' = cut,
         Len(m) = 1 \/ Whole(m) \/ HasCut(m),
         m[1].at = 1 => StoredBelow(m[1].id)
  PROVE  /\ InOrder'
         /\ \A n : StoredBelow(n) /\ (Whole(m) => m[1].id < n) =>
                     \A k \in Kinds : Below(queue'[k], taken'[k], n)
<1>1. queue \in [Kinds -> Queue] /\ \A q \in Kinds : Ring(queue[q])
  BY DEF TypeInv, Rings
<1>2. PICK q \in QueuesOf(m) :
        IF m = <<>> \/ Full(q) THEN linear' = m /\ UNCHANGED queue
        ELSE linear' = <<>> /\ queue' = IF Len(m) = 1 THEN queue ELSE Stored(q, m)
  BY DEF StopProcess
<1>3. q \in Kinds BY QueuesType
<1>4. CASE queue' = queue BY <1>4 DEF InOrder, StoredBelow
<1>5. CASE queue' # queue
  <2>1. ~Full(q) /\ Len(m) # 1 /\ queue' = Stored(q, m) BY <1>2, <1>5
  <2> DEFINE r == queue[q]
             s == [slot    |-> [r.slot EXCEPT ![r.writer] = m],
                   writer  |-> (r.writer + 1) % Slots,
                   reader  |-> r.reader,
                   entries |-> r.entries + 1]
  <2>2. Ring(r) /\ r.entries < Slots
    <3>1. Ring(r) BY <1>1, <1>3
    <3>2. r.entries \in 0..Slots /\ r.entries # Slots BY <3>1, <2>1 DEF Ring, Queue, Full
    <3> QED BY <3>1, <3>2, Constants
  <2>3. queue' = [queue EXCEPT ![q] = s] BY <2>1 DEF Stored
  <2>4. /\ s.slot = [r.slot EXCEPT ![r.writer] = m]
        /\ s.reader = r.reader /\ s.entries = r.entries + 1
    OBVIOUS
  <2> HIDE DEF s
  <2>5. queue'[q] = s /\ \A k \in Kinds \ {q} : queue'[k] = queue[k]
    BY <2>3, <1>1, <1>3
  <2>6. Orderly(q, r, taken[q], cut) BY <1>3 DEF InOrder
  <2>7. Whole(m) => m[1].kind = q /\ Below(r, taken[q], m[1].id)
    <3>1. SUFFICES ASSUME Whole(m) PROVE m[1].kind = q /\ Below(r, taken[q], m[1].id)
      OBVIOUS
    <3>2. q = m[1].kind BY <3>1 DEF QueuesOf
    <3>3. StoredBelow(m[1].id) BY <3>1, WholeBegins
    <3> QED BY <3>2, <3>3, <1>3 DEF StoredBelow
  <2>8. ~Whole(m) => \E j \in DOMAIN m : m[j].id \in cut BY <2>1 DEF HasCut
  <2> HIDE DEF r
  <2>9. Orderly(q, s, taken[q], cut)
    BY <2>2, <2>4, <2>6, <2>7, <2>8, StoreKeepsOrder
  <2>a. InOrder'
    <3>1. ASSUME NEW k \in Kinds PROVE Orderly(k, queue'[k], taken[k], cut)
      <4>1. CASE k = q BY <4>1, <2>5, <2>9
      <4>2. CASE k # q
        <5>1. queue'[k] = queue[k] BY <4>2, <2>5
        <5> QED BY <5>1 DEF InOrder
      <4> QED BY <4>1, <4>2
    <3> QED BY <3>1 DEF InOrder
  <2>b. ASSUME NEW n, StoredBelow(n), Whole(m) => m[1].id < n, NEW k \in Kinds
        PROVE  Below(queue'[k], taken'[k], n)
    <3>1. CASE k = q
      <4>1. Below(r, taken[q], n) BY <2>b, <1>3 DEF StoredBelow, r
      <4>2. Below(s, taken[q], n) BY <4>1, <2>b, <2>2, <2>4, StoreKeepsBelow
      <4> QED BY <4>2, <3>1, <2>5
    <3>2. CASE k # q
      <4>1. queue'[k] = queue[k] BY <3>2, <2>5
      <4> QED BY <4>1, <2>b DEF StoredBelow
    <3> QED BY <3>1, <3>2
  <2> QED BY <2>a, <2>b
<1> QED BY <1>4, <1>5

(* The handler up to its wait stores no message before its turn.           *)
LEMMA IrqKeepsOrder == IInv /\ Irq => OrderInv'
<1> SUFFICES ASSUME IInv, Irq PROVE OrderInv'
  OBVIOUS
<1> DEFINE m == Extended(pend)
<1>0. /\ UNCHANGED <<slaveOn, own, enabling, sent, taken, cut>>
      /\ slaveMode' = ("stop" \notin pend /\ Addressed(pend))
      /\ pend' = IF "rx" \in pend THEN {} ELSE pend
      /\ wire' = IF wire.by = "ended" THEN Free ELSE wire
      /\ flag' \in FlagsAfterRx(pend)
      /\ IF "stop" \in pend /\ flag' = "SLAVE" /\ Addressed(pend)
         THEN StopProcess(m)
         ELSE linear' = m /\ UNCHANGED queue
  BY DEF Irq
<1>1. /\ wire \in WireType /\ wire.at \in Nat /\ wire.id \in Nat /\ sent \in Nat
      /\ Carried /\ EndSeen /\ TypeInv
      /\ InOrder /\ Numbered /\ WireLater /\ WireNext
      /\ m \in Message
  BY Constants, ExtendedType DEF TypeInv, Typed, WireType, BusInv, OrderInv, IInv
<1>2. Addressed(pend) =>
        /\ m # <<>> /\ m[1].id <= sent
        /\ m[1].at = 1 => StoredBelow(m[1].id)
        /\ wire.by = "remote" /\ wire.at = 0 => m[1].id < wire.id
        /\ "stop" \in pend => Len(m) = 1 \/ Whole(m) \/ HasCut(m)
        /\ "stop" \notin pend => HasCut(m) \/ GoesOn(m)
  BY AddressedBuffer
<1> HIDE DEF m
<1>3. CASE "stop" \in pend
  <2>0. slaveMode' = FALSE BY <1>0, <1>3
  <2>1. /\ InOrder'
        /\ \A n : StoredBelow(n) /\ (Addressed(pend) => m[1].id < n) =>
                    \A k \in Kinds : Below(queue'[k], taken'[k], n)
    <3>1. CASE flag' = "SLAVE" /\ Addressed(pend)
      <4>1. StopProcess(m) BY <3>1, <1>0, <1>3
      <4>2. /\ InOrder'
            /\ \A n : StoredBelow(n) /\ (Whole(m) => m[1].id < n) =>
                        \A k \in Kinds : Below(queue'[k], taken'[k], n)
        BY <4>1, <3>1, <1>0, <1>1, <1>2, <1>3, StopKeepsOrder
      <4> QED BY <4>2, <3>1
    <3>2. CASE ~(flag' = "SLAVE" /\ Addressed(pend))
      <4>1. queue' = queue BY <3>2, <1>0
      <4> QED BY <4>1, <1>0, <1>1 DEF InOrder, StoredBelow
    <3> QED BY <3>1, <3>2
  <2>2. BufferLater' /\ WireNext' /\ SoFar'
    BY <2>0 DEF BufferLater, WireNext, SoFar
  <2>3. Numbered'
    <3>1. wire'.id <= sent BY <1>0, <1>1 DEF Numbered, Free
    <3>2. Addressed(pend) => m[1].id < sent + 1
      <4>1. Addressed(pend) => m[1].id \in 1..MaxMsg BY <1>1, <1>2, FirstByte
      <4> QED BY <4>1, <1>1, <1>2, Constants
    <3>3. StoredBelow(sent + 1) BY <1>1 DEF Numbered
    <3>4. \A k \in Kinds : Below(queue'[k], taken'[k], sent + 1) BY <2>1, <3>2, <3>3
    <3> QED BY <3>1, <3>4, <2>0, <1>0 DEF Numbered, StoredBelow
  <2>4. WireLater'
    <3>1. SUFFICES ASSUME Inbound', Fresh' PROVE StoredBelow(wire.id)' BY DEF WireLater
    <3>2. wire' = wire /\ wire.by = "remote" BY <3>1, <1>0 DEF Inbound, Free
    <3>3. wire.at = 0
      <4>1. "rx" \notin pend' => wire.at = 0 BY <3>1, <3>2 DEF Fresh
      <4>2. CASE "rx" \in pend BY <4>1, <4>2, <1>0
      <4>3. CASE "rx" \notin pend BY <4>1, <4>3, <1>0
      <4> QED BY <4>2, <4>3
    <3>4. StoredBelow(wire.id) /\ (Addressed(pend) => m[1].id < wire.id)
      BY <3>2, <3>3, <1>1, <1>2 DEF WireLater, Inbound, Fresh
    <3>5. \A k \in Kinds : Below(queue'[k], taken'[k], wire.id) BY <2>1, <3>4
    <3> QED BY <3>2, <3>5 DEF StoredBelow
  <2> QED BY <2>1, <2>2, <2>3, <2>4 DEF OrderInv
<1>4. CASE "stop" \notin pend
  <2>0. /\ linear' = m /\ queue' = queue /\ taken' = taken /\ cut' = cut /\ sent' = sent
        /\ slaveMode' <=> Addressed(pend)
    <3>1. slaveMode' <=> "stop" \notin pend /\ Addressed(pend) BY <1>0
    <3>2. slaveMode' <=> Addressed(pend) BY <3>1, <1>4
    <3> QED BY <3>2, <1>0, <1>4
  <2>1. InOrder' BY <2>0, <1>1 DEF InOrder
  <2>2. Numbered'
    <3>1. wire'.id <= sent BY <1>0, <1>1 DEF Numbered, Free
    <3> QED BY <3>1, <2>0, <1>1, <1>2 DEF Numbered, StoredBelow
  <2>3. BufferLater' BY <2>0, <1>2 DEF BufferLater, StoredBelow
  <2>4. WireLater'
    <3>1. SUFFICES ASSUME Inbound', Fresh' PROVE StoredBelow(wire.id)' BY DEF WireLater
    <3>2. wire' = wire /\ Inbound BY <3>1, <1>0 DEF Inbound, Free
    <3>3. Fresh BY <3>1, <3>2, <1>0 DEF Fresh
    <3>4. StoredBelow(wire.id) BY <3>2, <3>3, <1>1 DEF WireLater
    <3> QED BY <3>2, <3>4, <2>0 DEF StoredBelow
  <2>5. WireNext'
    <3>1. SUFFICES ASSUME slaveMode', wire'.by = "remote", wire'.at = 0
                   PROVE  linear'[1].id < wire'.id
      BY DEF WireNext
    <3>2. wire' = wire BY <3>1, <1>0 DEF Free
    <3> QED BY <3>1, <3>2, <2>0, <1>2
  <2>6. SoFar'
    <3>1. CASE ~Addressed(pend) BY <3>1, <2>0 DEF SoFar
    <3>2. CASE HasCut(m) BY <3>2, <2>0 DEF SoFar, HasCut
    <3>3. CASE GoesOn(m)
      <4>1. /\ wire' = wire /\ wire.by = "remote" /\ wire.id = m[1].id
            /\ wire.kind = m[1].kind /\ Len(m) = wire.at /\ flag = "SLAVE" /\ Front(m)
        BY <3>3, <1>0 DEF GoesOn
      <4>2. flag' = "SLAVE" BY <4>1, <1>0 DEF FlagsAfterRx
      <4>3. "addr" \notin pend' /\ "rx" \notin pend' /\ "stop" \notin pend'
        BY <3>3, <1>0, <1>4 DEF GoesOn
      <4>4. Len(linear') = wire'.at - 0 BY <4>1, <2>0, <1>1
      <4>5. Current' BY <4>1, <4>2, <4>3, <4>4, <2>0 DEF Current, Inbound
      <4> QED BY <4>1, <4>5, <2>0 DEF SoFar, Front
    <3> QED BY <3>1, <3>2, <3>3, <1>2, <1>4
  <2> QED BY <2>1, <2>2, <2>3, <2>4, <2>5, <2>6 DEF OrderInv
<1> QED BY <1>3, <1>4

(* What the rest of the handler writes over is counted as cut into.        *)
LEMMA IrqRestKeepsOrder == IInv /\ IrqRest => OrderInv'
<1> SUFFICES ASSUME IInv, IrqRest PROVE OrderInv'
  OBVIOUS
<1> DEFINE cleared == IF handling \cap {"stop", "done", "lost"} = {} THEN {} ELSE handling
<1>1. /\ handling # {} /\ pend' = pend \ cleared
      /\ flag' = IF {"done", "lost"} \cap handling # {} THEN "SLAVE" ELSE flag
      /\ wire' = IF wire.by = "ended" /\ "rx" \in cleared THEN Free ELSE wire
      /\ cut' = IF "rx" \in pend \cap cleared \/ (wire.by = "ended" /\ "stop" \in cleared)
                THEN cut \cup {wire.id} ELSE cut
      /\ UNCHANGED <<slaveMode, linear, queue, own, enabling, sent, taken>>
  BY DEF IrqRest
<1> HIDE DEF cleared
<1>2. /\ wire.id \in Nat /\ sent \in Nat /\ Carried /\ Paced /\ Stopped
      /\ InOrder /\ Numbered /\ BufferLater /\ WireLater /\ WireNext /\ SoFar
  BY Constants DEF TypeInv, Typed, WireType, BusInv, OrderInv, IInv
<1>3. cut \subseteq cut' BY <1>1
<1>4. InOrder' BY <1>1, <1>2, <1>3, CutKeepsOrder DEF InOrder
<1>5. wire' = wire \/ (wire'.by = "none" /\ wire'.id = 0) BY <1>1 DEF Free
<1>6. Numbered' BY <1>1, <1>2, <1>5 DEF Numbered, StoredBelow
<1>7. BufferLater' BY <1>1, <1>2 DEF BufferLater, StoredBelow
<1>8. WireLater'
  <2>1. Inbound' /\ Fresh' => wire' = wire /\ Inbound /\ Fresh
    BY <1>1, <1>5 DEF Inbound, Fresh
  <2> QED BY <2>1, <1>1, <1>2 DEF WireLater, StoredBelow
<1>9. WireNext' BY <1>1, <1>2, <1>5 DEF WireNext
<1>a. SoFar'
  <2>1. CASE ~slaveMode BY <2>1, <1>1 DEF SoFar
  <2>2. CASE HasCut(linear) BY <2>2, <1>1, <1>3 DEF SoFar, HasCut
  <2>3. CASE slaveMode /\ Front(linear) /\ (Current \/ Over)
    <3>1. "stop" \notin handling /\ "disable" \notin handling
      BY <2>3, <1>2 DEF Stopped
    <3>2. "stop" \notin pend /\ "rx" \notin pend
      BY <3>1, <1>1, <1>2 DEF Paced
    <3>3. Current BY <3>2, <2>3 DEF Over
    <3>4. wire.by = "remote" BY <3>2, <3>3 DEF Current, Inbound
    <3>5. wire' = wire BY <3>4, <1>1
    <3>6. flag' = "SLAVE" BY <3>3, <1>1 DEF Current
    <3>7. Current' BY <3>2, <3>3, <3>5, <3>6, <3>4, <1>1 DEF Current, Inbound
    <3> QED BY <3>7, <2>3, <1>1 DEF SoFar, Front
  <2> QED BY <2>1, <2>2, <2>3, <1>2 DEF SoFar
<1> QED BY <1>4, <1>6, <1>7, <1>8, <1>9, <1>a DEF OrderInv

(* A reader takes the oldest message of its queue.                         *)
LEMMA TakeKeepsStored ==
  ASSUME TypeInv, InOrder, NEW q \in Kinds, Take(q), cut' = cut
  PROVE  /\ InOrder'
         /\ \A n : StoredBelow(n) => \A k \in Kinds : Below(queue'[k], taken'[k], n)
<1> DEFINE r == queue[q]
           s == [slot    |-> [r.slot EXCEPT ![r.reader] = <<>>],
                 writer  |-> r.writer,
                 reader  |-> (r.reader + 1) % Slots,
                 entries |-> r.entries - 1]
<1>1. queue \in [Kinds -> Queue] /\ \A k \in Kinds : Ring(queue[k])
      /\ taken \in [Kinds -> 0..MaxMsg]
  BY DEF TypeInv, Rings, Typed
<1>2. Ring(r) /\ r.entries > 0 BY <1>1 DEF Take
<1>3. queue' = [queue EXCEPT ![q] = s] BY DEF Take, Removed
<1>4. /\ s.slot = [r.slot EXCEPT ![r.reader] = <<>>]
      /\ s.reader = (r.reader + 1) % Slots /\ s.entries = r.entries - 1
  OBVIOUS
<1>5. taken' = TakenNow(q) /\ Oldest(q) = r.slot[r.reader] BY DEF Take, Oldest
<1>6. Orderly(q, r, taken[q], cut) BY DEF InOrder
<1>7. \A n : StoredBelow(n) => Below(r, taken[q], n) BY DEF StoredBelow
<1> HIDE DEF s, r
<1>8. queue'[q] = s /\ \A k \in Kinds \ {q} : queue'[k] = queue[k]
  BY <1>3, <1>1
<1>9. taken'[q] = NowTaken(r, taken[q]) /\ \A k \in Kinds \ {q} : taken'[k] = taken[k]
  <2>1. Held(r, 1) = Oldest(q) BY <1>2, <1>4, <1>5, TakenHolds
  <2> QED BY <2>1, <1>1, <1>5 DEF TakenNow, NowTaken
<1>a. Orderly(q, s, NowTaken(r, taken[q]), cut) BY <1>2, <1>4, <1>6, TakeKeepsOrder
<1>b. InOrder'
  <2>1. ASSUME NEW k \in Kinds PROVE Orderly(k, queue'[k], taken'[k], cut)
    <3>1. CASE k = q BY <3>1, <1>8, <1>9, <1>a
    <3>2. CASE k # q
      <4>1. queue'[k] = queue[k] /\ taken'[k] = taken[k] BY <3>2, <1>8, <1>9
      <4> QED BY <4>1 DEF InOrder
    <3> QED BY <3>1, <3>2
  <2> QED BY <2>1 DEF InOrder
<1>c. ASSUME NEW n, StoredBelow(n), NEW k \in Kinds
      PROVE  Below(queue'[k], taken'[k], n)
  <2>1. CASE k = q
    <3>1. Below(r, taken[q], n) BY <1>c, <1>7
    <3>2. Below(s, NowTaken(r, taken[q]), n) BY <3>1, <1>2, <1>4, TakeKeepsBelow
    <3> QED BY <3>2, <2>1, <1>8, <1>9
  <2>2. CASE k # q
    <3>1. queue'[k] = queue[k] /\ taken'[k] = taken[k] BY <2>2, <1>8, <1>9
    <3> QED BY <3>1, <1>c DEF StoredBelow
  <2> QED BY <2>1, <2>2
<1> QED BY <1>b, <1>c

(* The tasks run when no interrupt waits: a message that one of them cuts  *)
(* into is counted.                                                        *)
LEMMA TasksKeepOrder == IInv /\ Tasks => OrderInv'
<1> SUFFICES ASSUME IInv, Tasks PROVE OrderInv'
  OBVIOUS
<1>0. /\ pend = {} /\ handling = {} /\ "rx" \notin pend' /\ "addr" \notin pend'
      /\ "stop" \notin pend'
      /\ slaveMode' = slaveMode /\ linear' = linear /\ sent' = sent
      /\ cut \subseteq cut'
  BY DEF Tasks, OwnStart, OwnReturn, SlaveRecv, MctpRecv, EnableSlave, Reset, TaskRuns,
     CutNow
<1>1. /\ wire.id \in Nat /\ sent \in Nat /\ Carried /\ EndSeen /\ TypeInv
      /\ linear \in Message
      /\ InOrder /\ Numbered /\ BufferLater /\ WireLater /\ WireNext /\ SoFar
  BY Constants DEF TypeInv, Typed, WireType, BusInv, OrderInv, IInv
<1>2. /\ InOrder'
      /\ \A n : StoredBelow(n) => \A k \in Kinds : Below(queue'[k], taken'[k], n)
  <2>1. CASE SlaveRecv \/ MctpRecv
    <3>1. "ipmb" \in Kinds /\ "mctp" \in Kinds BY DEF Kinds
    <3>2. PICK q \in Kinds : Take(q) BY <2>1, <3>1 DEF SlaveRecv, MctpRecv
    <3>3. cut' = cut BY <2>1 DEF SlaveRecv, MctpRecv
    <3> QED BY <3>2, <3>3, <1>1, TakeKeepsStored
  <2>2. CASE OwnStart \/ OwnReturn \/ EnableSlave \/ Reset
    <3>1. queue' = queue /\ taken' = taken
      BY <2>2 DEF OwnStart, OwnReturn, EnableSlave, Reset
    <3> QED BY <3>1, <1>0, <1>1, CutKeepsOrder DEF InOrder, StoredBelow
  <2> QED BY <2>1, <2>2 DEF Tasks
<1>3. \/ wire' = wire
      \/ wire'.by \in {"none", "own"} /\ wire'.id = 0
  BY DEF Tasks, OwnStart, OwnReturn, SlaveRecv, MctpRecv, EnableSlave, Reset, Free
<1>4. Numbered'
  <2>1. StoredBelow(sent + 1) BY <1>1 DEF Numbered
  <2>2. \A k \in Kinds : Below(queue'[k], taken'[k], sent + 1) BY <2>1, <1>2
  <2>3. wire'.id <= sent' BY <1>0, <1>1, <1>3 DEF Numbered
  <2> QED BY <2>2, <2>3, <1>0, <1>1 DEF Numbered, StoredBelow
<1>5. BufferLater'
  <2>1. SUFFICES ASSUME slaveMode, linear[1].at = 1
                 PROVE  \A k \in Kinds : Below(queue'[k], taken'[k], linear[1].id)
    BY <1>0 DEF BufferLater, StoredBelow
  <2>2. StoredBelow(linear[1].id) BY <2>1, <1>1 DEF BufferLater
  <2> QED BY <2>2, <1>2
<1>6. WireLater'
  <2>1. SUFFICES ASSUME Inbound', Fresh' PROVE StoredBelow(wire.id)' BY DEF WireLater
  <2>2. wire' = wire /\ Inbound /\ Fresh BY <2>1, <1>0, <1>3 DEF Inbound, Fresh
  <2>3. StoredBelow(wire.id) BY <2>2, <1>1 DEF WireLater
  <2>4. \A k \in Kinds : Below(queue'[k], taken'[k], wire.id) BY <2>3, <1>2
  <2> QED BY <2>2, <2>4 DEF StoredBelow
<1>7. WireNext' BY <1>0, <1>1, <1>3 DEF WireNext
<1>8. SoFar'
  <2>1. CASE ~slaveMode BY <2>1, <1>0 DEF SoFar
  <2>2. CASE HasCut(linear) BY <2>2, <1>0 DEF SoFar, HasCut
  <2>3. CASE slaveMode /\ Front(linear) /\ (Current \/ Over)
    <3>1. Current BY <2>3, <1>0 DEF Over
    <3>2. wire.by = "remote" /\ wire.id = linear[1].id
      BY <3>1, <1>0, <1>1 DEF Current, Inbound, EndSeen
    <3>3. 1 \in DOMAIN linear BY <2>3, <1>1, FirstByte DEF Numbered
    <3>4. CASE wire.id \in cut'
      <4>1. HasCut(linear)' BY <3>2, <3>3, <3>4, <1>0 DEF HasCut
      <4> QED BY <4>1 DEF SoFar
    <3>5. CASE wire.id \notin cut'
      <4>1. ~OwnStart /\ ~Reset
        BY <3>2, <3>5 DEF OwnStart, Reset, CutNow, BusFree
      <4>2. wire' = wire /\ pend' = pend
        BY <4>1 DEF Tasks, OwnReturn, SlaveRecv, MctpRecv, EnableSlave
      <4>3. flag' = flag \/ flag' = "SLAVE"
        BY <4>1 DEF Tasks, OwnReturn, SlaveRecv, MctpRecv, EnableSlave
      <4>4. flag' = "SLAVE" BY <4>3, <3>1 DEF Current
      <4>5. Current' BY <4>2, <4>4, <3>1, <1>0 DEF Current, Inbound
      <4> QED BY <4>5, <2>3, <1>0 DEF SoFar, Front
    <3> QED BY <3>4, <3>5
  <2> QED BY <2>1, <2>2, <2>3, <1>1 DEF SoFar
<1> QED BY <1>2, <1>4, <1>5, <1>6, <1>7, <1>8 DEF OrderInv

(* A step that changes nothing.                                            *)
LEMMA StutterKeepsOrder == OrderInv /\ UNCHANGED vars => OrderInv'
BY DEF vars, OrderInv, InOrder, Numbered, BufferLater, WireLater, WireNext, SoFar,
   StoredBelow, HasCut, Front, Inbound, Fresh, Current, Over

(* What the invariant says in the words of MessagesWhole.                  *)
LEMMA InOrderImplies == TypeInv /\ InOrder => MessagesWhole
<1> SUFFICES ASSUME TypeInv, InOrder, NEW q \in Kinds PROVE
      \A i \in 1..queue[q].entries :
        LET message == Contents(q)[i] IN
        IF Whole(message)
        THEN /\ message[1].kind = q /\ message[1].id > taken[q]
             /\ \A j \in (i + 1)..queue[q].entries :
                  Whole(Contents(q)[j]) => message[1].id < Contents(q)[j][1].id
        ELSE \E j \in DOMAIN message : message[j].id \in cut
  BY DEF MessagesWhole
<1> DEFINE r == queue[q]
<1>1. Ring(r) BY DEF TypeInv, Rings
<1>2. r.reader \in 0..(Slots - 1) /\ r.entries \in 0..Slots
  BY <1>1 DEF Ring, Queue, Slot
<1>3. ASSUME NEW i \in 1..r.entries PROVE Contents(q)[i] = Held(r, i)
  <2>1. r.reader + i - 1 \in 0..(2 * Slots - 1) BY <1>2, Constants
  <2>2. (r.reader + i - 1) % Slots = Place(r.reader + i - 1) BY <2>1, Remainder
  <2> QED BY <2>2 DEF Contents, Held
<1>4. \A i \in 1..r.entries : \A j \in (i + 1)..r.entries : j \in 1..r.entries
  BY <1>2
<1>5. Orderly(q, r, taken[q], cut) BY DEF InOrder
<1> QED BY <1>3, <1>4, <1>5 DEF Orderly

(* A reader gets the messages of its kind once, in the order they were     *)
(* sent, and one with bytes missing or of another only if a reset, a       *)
(* transfer of the BMC on a busy bus or the wait in the handler cut into   *)
(* it or lost its end (as_handler, i2cSTOPDET_slave_process,               *)
(* as_slave_recv, as_mctp_recv).                                           *)
THEOREM WholeMessages == Spec => []MessagesWhole
<1>1. Init => IInv BY InitType, InitBus, InitOrder DEF IInv
<1>2. IInv /\ [Next]_vars => IInv'
  <2> SUFFICES ASSUME IInv, [Next]_vars PROVE IInv'
    OBVIOUS
  <2>1. TypeInv'
    BY WireKeepsType, IrqKeepsType, IrqRestKeepsType, TasksKeepType, StutterKeepsType
       DEF Next, IInv
  <2>2. BusInv'
    BY WireKeepsBus, IrqKeepsBus, IrqRestKeepsBus, TasksKeepBus, StutterKeepsBus
       DEF Next, IInv
  <2>3. OrderInv'
    BY WireKeepsOrder, IrqKeepsOrder, IrqRestKeepsOrder, TasksKeepOrder,
       StutterKeepsOrder DEF Next, IInv
  <2> QED BY <2>1, <2>2, <2>3 DEF IInv
<1>3. IInv => MessagesWhole BY InOrderImplies DEF IInv, OrderInv
<1> QED BY <1>1, <1>2, <1>3, PTL DEF Spec
====
