---- MODULE I2cSlave ----
(***************************************************************************)
(* Slave reception on one bus of the I2C driver i2c_hw-ARM-AST-src, in     *)
(* byte mode and without SSIF: other masters send IPMB and MCTP messages   *)
(* to the BMC; the interrupt handler puts their bytes into one linear      *)
(* buffer and, at the STOP, into the queue of their kind; two tasks read   *)
(* the queues.  The BMC's own transfers share bus, handler and mode flag.  *)
(*                                                                         *)
(* A task step is what runs between two sleeps or with interrupts off; an  *)
(* interrupt that is pending goes first.  The handler keeps pace with the  *)
(* bus but where it waits, polling, to disable the slave.                  *)
(***************************************************************************)
EXTENDS Integers, Sequences

CONSTANTS
  Slots,      \* MAX_FIFO_LEN
  NumBytes,   \* bytes of a message, its first is the address
  MaxBytes,   \* MAX_IPMB_MSG_SIZE
  MaxMsg      \* bound: messages sent to the BMC

ASSUME ConstantsAssumption ==
  /\ {Slots, NumBytes, MaxBytes, MaxMsg} \subseteq Nat \ {0}
  /\ 1 < NumBytes /\ NumBytes < MaxBytes

VARIABLES
  wire,       \* who has the bus and, of a message to the BMC, how far it is
  pend,       \* I2C_INTR_STATUS_REG
  handling,   \* status2 of a handler in its STOP branch; "disable": both queues are now full
  slaveOn,    \* ENABLE_SLAVE_FUNC
  flag,       \* master_xmit_recv_mode_flag
  slaveMode,  \* slave_mode
  linear,     \* Linear_SlaveRX_data up to Linear_SlaveRX_index
  queue,      \* SlaveRX_* and MCTPRX_*
  own,        \* a transfer of the BMC has begun and not returned
  enabling,   \* the MCTP reader is on its way to i2c_as_enable_slave
  sent,       \* messages the other masters have begun
  taken,      \* history: the message last read from each queue
  cut         \* history: messages that a reset, a transfer of the BMC or the wait cut into

vars == <<wire, pend, handling, slaveOn, flag, slaveMode, linear, queue, own,
          enabling, sent, taken, cut>>
software == <<handling, slaveOn, flag, slaveMode, linear, queue, own, enabling,
              taken>>

Kinds == {"ipmb", "mctp"}
Bits == {"addr", "rx", "stop", "done", "lost"}
Byte == [id : 1..MaxMsg, at : 1..NumBytes, kind : Kinds]
(* The last byte received is that of `wire`: the clock is held while       *)
(* RX_DONE is set, so the data register need not be kept apart.            *)
Free == [by |-> "none", id |-> 0, kind |-> "ipmb", at |-> 0]
Received == [id |-> wire.id, at |-> wire.at, kind |-> wire.kind]

EmptyQueue ==
  [slot |-> [i \in 0..(Slots - 1) |-> <<>>], writer |-> 0, reader |-> 0, entries |-> 0]
Full(q) == queue[q].entries = Slots

Init ==
  /\ wire = Free /\ pend = {} /\ handling = {} /\ slaveOn = TRUE
  /\ flag = "SLAVE" /\ slaveMode = FALSE /\ linear = <<>>
  /\ queue = [q \in Kinds |-> EmptyQueue]
  /\ own = FALSE /\ enabling = FALSE /\ sent = 0
  /\ taken = [q \in Kinds |-> 0] /\ cut = {}

----------------------------------------------------------------------------
(* The bus.                                                                *)

InPace == handling = {} \/ "disable" \in handling
BusFree == wire.by \in {"none", "ended"}

RemoteStart(kind) ==
  /\ InPace /\ wire.by = "none" /\ sent < MaxMsg
  /\ sent' = sent + 1
  /\ wire' = [by |-> "remote", id |-> sent + 1, kind |-> kind, at |-> 0]
  /\ UNCHANGED <<pend, cut, software>>

(* Another master has begun at the same time and wins the arbitration.     *)
RemoteWins(kind) ==
  /\ InPace /\ wire.by = "own" /\ sent < MaxMsg
  /\ sent' = sent + 1
  /\ wire' = [by |-> "remote", id |-> sent + 1, kind |-> kind, at |-> 0]
  /\ pend' = pend \cup {"lost"}
  /\ UNCHANGED <<cut, software>>

(* A byte for the slave; the address is not acknowledged by a slave that   *)
(* is off, and the master gives up.                                        *)
RemoteByte ==
  /\ InPace /\ wire.by = "remote" /\ "rx" \notin pend
  /\ wire.at < NumBytes
  /\ IF slaveOn
     THEN /\ wire' = [wire EXCEPT !.at = @ + 1]
          /\ pend' = pend \cup {"rx"} \cup (IF wire.at = 0 THEN {"addr"} ELSE {})
     ELSE wire' = Free /\ UNCHANGED pend
  /\ UNCHANGED <<sent, cut, software>>

(* A message ends after its last byte; one that only looks for the slave   *)
(* ends after the address.                                                 *)
RemoteStop ==
  /\ InPace /\ wire.by = "remote" /\ wire.at \in {1, NumBytes}
  /\ wire' = IF "rx" \in pend THEN [wire EXCEPT !.by = "ended"] ELSE Free
  /\ pend' = pend \cup {"stop"}
  /\ UNCHANGED <<sent, cut, software>>

OwnLastByte ==
  /\ InPace /\ wire.by = "own"
  /\ wire' = [wire EXCEPT !.by = "ownlast"]
  /\ pend' = pend \cup {"done"}
  /\ UNCHANGED <<sent, cut, software>>

(* The STOP: commanded with the last byte of a read, by the handler after  *)
(* that of a write.                                                        *)
OwnStop ==
  /\ InPace /\ wire.by = "ownlast"
  /\ "done" \in pend => flag = "MASTER_RECV"
  /\ wire' = Free
  /\ pend' = pend \cup {"stop"}
  /\ UNCHANGED <<sent, cut, software>>

Wire ==
  \/ \E kind \in Kinds : RemoteStart(kind) \/ RemoteWins(kind)
  \/ RemoteByte \/ RemoteStop \/ OwnLastByte \/ OwnStop

----------------------------------------------------------------------------
(* The interrupt handler.                                                  *)

(* Mutant of Restarted: an address match does not reset the index.         *)
RestartedNot(status) == linear

(* RX_DONE in slave mode: an address match begins a new message.           *)
Restarted(status) == IF "addr" \in status THEN <<>> ELSE linear
Extended(status) ==
  IF "rx" \notin status \/ flag # "SLAVE" THEN linear
  ELSE IF Len(Restarted(status)) = MaxBytes THEN Restarted(status)
  ELSE Append(Restarted(status), Received)
Addressed(status) == slaveMode \/ ({"addr", "rx"} \subseteq status /\ flag = "SLAVE")

(* The queue by the look of the message; of one with bytes missing, by     *)
(* whatever has moved to where the header is read.                         *)
Whole(message) ==
  /\ Len(message) = NumBytes
  /\ \A i \in 1..NumBytes : message[i] = [message[1] EXCEPT !.at = i]
QueuesOf(message) ==
  IF Whole(message) THEN {message[1].kind}
  ELSE IF Len(message) = 1 THEN {"ipmb"} ELSE Kinds

(* i2cSTOPDET_slave_process.  An empty message is not kept, and one that   *)
(* finds its queue full stays in the linear buffer until the next address. *)
Stored(q, message) ==
  [queue EXCEPT ![q] = [slot    |-> [@.slot EXCEPT ![@.writer] = message],
                        writer  |-> (@.writer + 1) % Slots,
                        reader  |-> @.reader,
                        entries |-> @.entries + 1]]
StopProcess(message) ==
  \E q \in QueuesOf(message) :
    IF message = <<>> \/ Full(q) THEN linear' = message /\ UNCHANGED queue
    ELSE /\ linear' = <<>>
         /\ queue' = IF Len(message) = 1 THEN queue ELSE Stored(q, message)

(* A byte that comes in master mode is data of the transfer, and may be    *)
(* its last.                                                               *)
FlagsAfterRx(status) ==
  IF flag # "MASTER_RECV" \/ status \cap {"rx", "done"} = {} THEN {flag}
  ELSE IF "done" \in status THEN {"SLAVE"} ELSE {"SLAVE", flag}

(* as_handler up to the store of the STOP branch.  Writing status2 back    *)
(* for RX_DONE clears every bit that was read; SLAVE_ADDR_MATCH alone      *)
(* stays.                                                                  *)
Irq ==
  /\ handling = {} /\ pend # {}
  /\ flag' \in FlagsAfterRx(pend)
  /\ IF "stop" \in pend /\ flag' = "SLAVE" /\ Addressed(pend)
     THEN StopProcess(Extended(pend))
     ELSE linear' = Extended(pend) /\ UNCHANGED queue
  /\ slaveMode' = ("stop" \notin pend /\ Addressed(pend))
  /\ handling' = pend \cup
       (IF queue' # queue /\ \A q \in Kinds : queue'[q].entries = Slots THEN {"disable"} ELSE {})
  /\ pend' = IF "rx" \in pend THEN {} ELSE pend
  /\ wire' = IF wire.by = "ended" THEN Free ELSE wire
  /\ UNCHANGED <<slaveOn, own, enabling, sent, taken, cut>>

(* The rest of it: i2c_as_disable_slave, which fails when it finds the bus *)
(* busy each time it looks; the later branches; and the same status2       *)
(* written back once more, over what has come in the meantime: a byte of a *)
(* message, or its STOP.                                                   *)
IrqRest ==
  LET cleared == IF handling \cap {"stop", "done", "lost"} = {} THEN {} ELSE handling IN
  /\ handling # {} /\ handling' = {}
  /\ slaveOn' = (slaveOn /\ ~("disable" \in handling /\ BusFree))
  /\ pend' = pend \ cleared
  /\ flag' = IF {"done", "lost"} \cap handling # {} THEN "SLAVE" ELSE flag
  /\ wire' = IF wire.by = "ended" /\ "rx" \in cleared THEN Free ELSE wire
  /\ cut' = IF "rx" \in pend \cap cleared \/ (wire.by = "ended" /\ "stop" \in cleared)
            THEN cut \cup {wire.id} ELSE cut
  /\ UNCHANGED <<slaveMode, linear, queue, own, enabling, sent, taken>>

----------------------------------------------------------------------------
(* The tasks.                                                              *)

TaskRuns == pend = {} /\ handling = {}
CutNow == IF wire.by = "remote" THEN cut \cup {wire.id} ELSE cut

(* as_master_xfer up to its wait.  On a bus that is busy each of the five  *)
(* times i2c_wait_for_bus_free looks, i2c_bus_recovery finds the lines     *)
(* working and the transfer goes on: the controller then loses the         *)
(* arbitration or says nothing.                                            *)
OwnStart ==
  /\ TaskRuns /\ ~own /\ own' = TRUE
  /\ flag' \in {"MASTER_XMIT", "MASTER_RECV"}
  /\ IF BusFree
     THEN wire' = [Free EXCEPT !.by = "own"] /\ UNCHANGED <<pend, cut>>
     ELSE UNCHANGED wire /\ pend' \in {{}, {"lost"}} /\ cut' = CutNow
  /\ UNCHANGED <<handling, slaveOn, slaveMode, linear, queue, enabling, sent, taken>>

(* as_send_bytes and as_receive_bytes return, woken or timed out.          *)
OwnReturn ==
  /\ TaskRuns /\ own /\ wire.by # "own"
  /\ own' = FALSE /\ flag' = "SLAVE"
  /\ UNCHANGED <<wire, pend, handling, slaveOn, slaveMode, linear, queue, enabling,
                 sent, taken, cut>>

Oldest(q) == queue[q].slot[queue[q].reader]
TakenNow(q) ==
  IF Whole(Oldest(q)) THEN [taken EXCEPT ![q] = Oldest(q)[1].id] ELSE taken
(* Mutant of Removed: the reader's index is not brought back to 0.           *)
RemovedNoWrap(q) ==
  [queue EXCEPT ![q] = [slot    |-> [@.slot EXCEPT ![@.reader] = <<>>],
                        writer  |-> @.writer,
                        reader  |-> @.reader + 1,
                        entries |-> @.entries - 1]]

Removed(q) ==
  [queue EXCEPT ![q] = [slot    |-> [@.slot EXCEPT ![@.reader] = <<>>],
                        writer  |-> @.writer,
                        reader  |-> (@.reader + 1) % Slots,
                        entries |-> @.entries - 1]]
Take(q) ==
  queue[q].entries > 0 /\ queue' = Removed(q) /\ taken' = TakenNow(q)

(* as_slave_recv.                                                          *)
SlaveRecv ==
  /\ TaskRuns /\ Take("ipmb")
  /\ UNCHANGED <<wire, pend, handling, slaveOn, flag, slaveMode, linear, own, enabling,
                 sent, cut>>

(* as_mctp_recv, ...                                                       *)
MctpRecv ==
  /\ TaskRuns /\ ~enabling /\ Take("mctp")
  /\ enabling' = TRUE
  /\ UNCHANGED <<wire, pend, handling, slaveOn, flag, slaveMode, linear, own,
                 sent, cut>>

(* ... which then calls i2c_as_enable_slave.                               *)
EnableSlave ==
  /\ TaskRuns /\ enabling /\ enabling' = FALSE
  /\ IF BusFree /\ ~Full("ipmb") THEN slaveOn' = TRUE /\ flag' = "SLAVE"
     ELSE UNCHANGED <<slaveOn, flag>>
  /\ UNCHANGED <<wire, pend, handling, slaveMode, linear, queue, own, sent, taken, cut>>

(* I2C_RESET: i2c_as_reset turns the controller off, and on again.         *)
Reset ==
  /\ TaskRuns
  /\ wire' = Free /\ slaveOn' = TRUE /\ cut' = CutNow
  /\ UNCHANGED <<pend, handling, flag, slaveMode, linear, queue, own, enabling, sent, taken>>

Tasks == OwnStart \/ OwnReturn \/ SlaveRecv \/ MctpRecv \/ EnableSlave \/ Reset
Next == Wire \/ Irq \/ IrqRest \/ Tasks
Spec == Init /\ [][Next]_vars

(* A master ends what it has begun, the interrupt is taken, the tasks read *)
(* their queues.                                                           *)
Fairness ==
  /\ WF_vars(RemoteByte) /\ WF_vars(RemoteStop) /\ WF_vars(OwnLastByte) /\ WF_vars(OwnStop)
  /\ WF_vars(Irq) /\ WF_vars(IrqRest)
  /\ WF_vars(OwnReturn) /\ WF_vars(SlaveRecv) /\ WF_vars(MctpRecv) /\ WF_vars(EnableSlave)
FairSpec == Spec /\ Fairness

----------------------------------------------------------------------------
(* Properties.                                                             *)

Contents(q) ==
  [i \in 1..queue[q].entries |-> queue[q].slot[(queue[q].reader + i - 1) % Slots]]

(* The queues are rings that agree with their counts, and no more.         *)
TypeOK ==
  /\ wire \in [by : {"none", "own", "ownlast", "remote", "ended"},
               id : 0..MaxMsg, kind : Kinds, at : 0..NumBytes]
  /\ pend \subseteq Bits /\ handling \subseteq Bits \cup {"disable"}
  /\ {slaveOn, slaveMode, own, enabling} \subseteq BOOLEAN
  /\ flag \in {"SLAVE", "MASTER_XMIT", "MASTER_RECV"}
  /\ linear \in Seq(Byte) /\ Len(linear) <= MaxBytes
  /\ sent \in 0..MaxMsg
  /\ taken \in [Kinds -> 0..MaxMsg] /\ cut \subseteq 1..MaxMsg
  /\ \A q \in Kinds :
       /\ queue[q].entries \in 0..Slots /\ queue[q].reader \in 0..(Slots - 1)
       /\ queue[q].writer = (queue[q].reader + queue[q].entries) % Slots
       /\ \A i \in 0..(Slots - 1) :
            queue[q].slot[i] \in Seq(Byte) /\ Len(queue[q].slot[i]) <= MaxBytes
       /\ \A i \in 1..queue[q].entries : Len(Contents(q)[i]) > 1

(* A reader gets the messages of its kind, each one once, in the order     *)
(* they were sent; and a message with bytes missing, or bytes of another,  *)
(* only when a reset, a transfer of the BMC on a busy bus or the wait in   *)
(* the handler cut into the reception, or lost its end.                    *)
MessagesWhole ==
  \A q \in Kinds : \A i \in 1..queue[q].entries :
    LET message == Contents(q)[i] IN
    IF Whole(message)
    THEN /\ message[1].kind = q /\ message[1].id > taken[q]
         /\ \A j \in (i + 1)..queue[q].entries :
              Whole(Contents(q)[j]) => message[1].id < Contents(q)[j][1].id
    ELSE \E j \in DOMAIN message : message[j].id \in cut

(* i2c-transfer.c:1124, "Enable slave as we read data out of buffer": a    *)
(* slave turned off because both queues were full comes back once they are *)
(* read.                                                                   *)
SlaveComesBack == ~slaveOn ~> slaveOn
====
