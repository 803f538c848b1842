# Verification of the BMC host-interface drivers

The repository holds the open-source part of a BMC (baseboard management controller) firmware:
kernel drivers that American Megatrends wrote or changed, most of them split into a *core* module
(`<name>-src`) and a *hardware* module (`<name>_hw-ARM-AST-src`), and a larger number of
third-party packages with local overrides. This directory models the drivers through which a host
and other masters talk to the BMC, the layer that binds core and hardware modules together, and the
watchdog; TLC checks the models on small instances, and TLAPS proves most of the safety properties
for every instance.

All source paths below are relative to `src/Core/Modified_OpenSource/`.

## 1. Inventory

| part | state | operations | hard because | status |
|---|---|---|---|---|
| **KCS channel** `kcs-src`, `kcs_hw-ARM-AST-src` | status, data-in and data-out registers; phase, abort phase, error, sequence number, one receive and one send buffer; flags of the sleeping reader | interrupt handler (a byte of the host's), open, release, read (a request), write (a response), enabling the interrupt, SMS_ATN | the host runs on another processor and moves between register accesses; the handler preempts the write path; copies take no lock; aborts race with answers | partly |
| **BT interface** `bt-src`, `bt_hw-ARM-AST-src` | control register of set, clear and toggle bits, two packet buffers, one receive buffer, the reader's signal | interrupt handler (a request), open, release, read, write, enabling, callback on host reset, reboot notifier | bits that can only be toggled, write-backs of what was read, a host that gives up and retries, two enables stored one after the other | partly |
| **Driver HAL** `helper-src/driver_hal.c` | list of cores, each with its list of hardware modules, their minors, open counts and private data | registering and unregistering cores and hardware modules, open, close, lookup from an interrupt | modules come and go in any order under a list that interrupts use; counts are bytes; minors are handed out by looking for gaps | modelled |
| **LPC reset** `reset-src`, `reset_hw-ARM-AST-src` | callback slots, event flag, waiter count | install, uninstall, wait for a reset, interrupt, counters | the event is cleared by the last waiter to leave, not when it is consumed | partly |
| **POST codes** `snoop-src`, `snoop_hw-ARM-AST-src` | two rings of 512 bytes for each port | interrupt (a code), reads, roll-over on a host reset, loading, unloading | ring arithmetic at the limit, interrupt and reset against a reader, unloading against a reset | partly |
| **Shared LPC interrupt** | one level interrupt, a status bit for each device | handlers that yield to each other by status bits | a handler runs because of another device | see below |
| **Watchdog** `watchdog-src`, `watchdog_hw-ARM-AST-src` | open bit, magic-close flag, timeout, selected timer, two or three timers | open, write, close, ioctls, selection of the timer | several tasks share the file; `get_user` sleeps; the selection changes under an open device; 32-bit microseconds | partly |
| **Virtual media** `iUSB-src`, `cdrom-src`, `hdisk-src` over `usbe-src`, `usb1_hw-ARM-AST-src` | for each drive: endpoint, command, activity, signal, packet; shared between drives: error case, sequence number, reply buffers, the deferred call | SCSI commands in, packets to the media servers, responses out, activation, port reset, timeouts | late answers, state shared by drives, resets that reach a thread in the middle | partly |
| **I2C** `i2c_hw-ARM-AST-src` | linear receive buffer, two queues, mode flag, slave enable | interrupt handler, readers, enabling and disabling the slave, transfers, reset, recovery | status bits that share one interrupt and are written back twice; a transfer of the BMC's own in the middle of a reception | partly |
| keyboard and mouse, USB Ethernet, NC-SI, eSPI, MCTP over PCIe, PECI, GPIO, ADC, PWM, JTAG, SPI flash, UART routing, video, cipher, ... | | | mostly synchronous register access, data paths or third-party code | not modelled, section 5 |

How they interact. A core registers with the HAL; a hardware module registers with its core through
the HAL and gets minors and private data. An interrupt of the hardware module reaches the core's data
through `hw_intr`, a file through `hw_open` and `hw_close`. KCS, BT, snoop and reset share one LPC
interrupt line. On a host reset the reset driver wakes the tasks that wait for it and calls the
handlers that BT and snoop have installed. The IPMI daemon in user space reads requests from KCS, BT
and the IPMB queue of the I2C driver, and writes responses; the host on the other side follows the flow
charts of the IPMI specification, or does not. A drive's SCSI command goes from the USB interrupt to a
deferred call, from there to a media server process that sleeps in an ioctl, and the server's answer
back to the endpoint, all drives using one deferred call, one error variable and one sequence counter.

What makes each correct:

* KCS and BT: a request reaches the daemon once and whole; the host ends its transaction with the
  answer to its own request; state and busy bits are those of the driver; the host can always recover.
* HAL: a module gets minors that are free; counts and references are those of the open files; nobody reaches freed data.
* Reset and snoop: no waiter misses a reset; the rings hold the last codes of this boot and of the one
  before, in order; a reset never calls into a module that is gone.
* Watchdog: the timer runs until it is asked to stop; the system is reset when it is abandoned and not before its time.
* Virtual media: data and status belong to the command that the host of that drive waits for; a
  command is neither lost nor taken for data; every command is answered.
* I2C: a reader gets whole messages of its kind, once, in order; the slave comes back after it was turned off.

The hazards behind these, each at its line, are in `PROJECT.json`; the properties were written for them.

## 2. Modules

| module | what it is | builds on |
|---|---|---|
| `IpmiExchange` | abstract: what a channel promises a patient host: `Ask`, `Deliver`, `Answer` | – |
| `Kcs`, `MCKcs`, `KcsProofs` | one KCS channel, its handler, daemon and host | instantiates `IpmiExchange` |
| `Bt`, `MCBt`, `BtProofs` | the BT interface, its handler, daemon and host | instantiates `IpmiExchange` |
| `DriverHal`, `MCDriverHal`, `DriverHalProofs` | cores, hardware modules, minors and files of one device type | – |
| `SnoopRing`, `SnoopRingProofs` | the ring of POST codes as operators, and what it holds | – |
| `Lpc`, `MCLpc`, `LpcProofs` | host reset, waiters, callback table and the POST-code recorder, composed | extends `SnoopRing` |
| `VirtualMedia`, `MCVirtualMedia`, `VirtualMediaProofs` | USB bulk-only transport, deferred call, media servers and hosts, composed | – |
| `Watchdog`, `MCWatchdog`, `WatchdogProofs` | the watchdog device and its timers | – |
| `I2cSlave`, `MCI2cSlave`, `I2cSlaveProofs` | slave reception of one I2C bus, beside the BMC's own transfers | – |

The `MC` modules give the constants their values for TLC. A module `XProofs` extends `X` and `TLAPS`. What
runs between two sleeps in the kernel is one step of a task: the target is a single core with
`CONFIG_PREEMPT_VOLUNTARY` (`Kernel_platform_ast2500evb_ex-src/01-arch_arm_configs_ast2500evb_defconfig:327`),
so only interrupts, and the hardware or the host, come between. A step is cut wherever one of them can tell.

### `Kcs`

State: the registers (`str` is the state bits 7:6, `ibf`, `cd`, `obf`, `idr`, `odr`, `enabled` is IBFIE),
the fields of `struct kcs_hal` under their own names (`phase`, `abortPhase`, `kcsError`, `seqNo`,
`sendIx`, `sendLen`, `firstTime`, `ifActive`, `wakeup`, `inUse`, `prevAborted`), the two buffers
(`rcvPkt`, `response`), and where each actor is.

* **Handler.** `IrqEnter` is `ast_kcs_irq_handler` up to the state that `kcs_recv_byte` writes before it
  reads data-in. One action for each branch (`TakeWriteStart` ... `TakeUnexpected`) is the read of data-in,
  which clears IBF and frees the host, with all the changes of the branch. `IrqSetError` and `IrqPut` are
  the register writes that come after it. No system call advances while `irq # "off"`.
* **Reader.** `ReaderCall` is `kcs_request` up to the sleep, `ReaderWake` and `ReaderSignal` the two ways out
  of it, `ReaderCopy` the copy to user space, which is made outside `kcs_lock`.
* **Responder.** `RespondCheck` copies the response and compares sequence numbers; `RespondLen`,
  `RespondIndex` and `RespondPut` are the three stores of `send_kcs_response`, and an interrupt may
  fall between any two.
* **Host.** The write, read and error-exit charts of the IPMI specification, with a timeout, a restart
  and stray bytes. This is the environment and is marked external in the map.

The data is abstract: a byte of a request is the number of its transaction; a byte of a response says which
request it answers and where it stands. `kcsError` starts as either value because the code never
initialises it. Left out: the other channels (state is per channel, but one handler serves all of them once any has raised
the line, `ast_kcs.c:504-519`, so in the code a byte can also be taken while the channel's own interrupt is off; `IrqEnter` needs it on),
the SMS_ATN and OBF system calls, the hardware self-test, logging. One process opens the device.

### `Bt`

State: `ctrl` is the set of bits set in the control register. `BmcWritten` and `HostWritten` say what ones
written by either side do to it (clear, set, toggle, nothing). `h2bi` and `h2bie` are the pending and enable
bits of the interrupt, `user` is `bt_enabled_by_user`. Packets are copied in two halves so that a
copy can be torn.

* **Handler.** `IrqEnter` clears the pending bit and decides by `user`; `IrqBusy`, `IrqAtn`, `IrqHead`, `IrqBody`
  are `bthw_read_bt_data_buf`; `IrqDone` clears B_BUSY and signals the reader. `IrqShared` is the same
  handler run because another LPC device raised the line. `ResetIrq` is the callback of the reset driver.
* **Daemon.** `BtOpen`, `BtRelease`, `BtEnable`; `DisableUser` and `DisableIrq`, the two stores of BT_DISABLE;
  `ReaderCall` ... `CopyBody` for `bt_request`; `RespondHead` ... `RespondAttend` for `bthw_write_bt_data_buf`.
  `RespondAttendSlow` and `RespondClear` split `set_b2h_attention` from `clr_write_fifo_ptr`, which reads the
  control register and writes what it read back.
* **Host.** One request at a time; it may give up and retry, or reset.

A system call does not run while an enabled interrupt is pending (`Process`): interrupt latency is taken to
be zero, except where `RespondAttendSlow` lets a delay in. One thread of the daemon enables and disables: no BT_ENABLE of
a second one falls between the two stores of BT_DISABLE (`bthw_mod.c:193-208`). Left out: SMS_ATN, the reboot notifier,
loading and unloading, the FIFO pointers, whose effect is that each packet is read and
written from its start. History: `dropped` (the handler cleared a request without reading it, because
the daemon had not enabled the interface) and `wiped` (the write-back cleared an attention of the host's).

### `DriverHal`

One device type: the types share nothing but the list of cores that every call searches. `core_hal_list_mlock`
makes each call one step, apart from `unregister_hw_hal_module`, whose two halves an interrupt may
separate (`UnregisterFree`, `UnregisterUnlink`). `stage` is how far a hardware module's own init or exit has
come, since the kernel's module states decide whether it can be opened. The core is `"going"` between the begin of its exit (`CoreExit`: the kernel asks for no
reference, no loaded module that is linked to one of its symbols, no open file) and `unregister_core_hal_module`.
`Linked` are the modules that refer to such a symbol (`kcs_core_loaded` and its like); all do but those of SPI flash.

Minors are handed out by `FirstMinor`, the walk over `hw_list`, newest entry first. A module keeps the first of
its minors as its `devId`; unregistering and the interrupt look for the entry that has it (`Found`), as the code does, and not for the module.
`list_add` puts an entry where the list is then no longer in the order of the minors, so from the third module on the walk can give a module minors that are taken. The
history variable `overlapped` marks that. The sources have one module of each type for a board, and no text of theirs speaks of three.

Failing registrations: `RegisterHwFails` is a module that is not linked, registered while the core is going: the core has already allocated
its private data when `try_module_get` fails (`driver_hal.c:184`), and the data stay (`lost`). A call that fails before the core's
`register_hal_module` leaves everything as it was and is no action. Left out: what a core's `register_hal_module` does beside the allocation (LPC reset
handlers are in `Lpc`), and the path that finds no core and then frees a count array it never set (`driver_hal.c:199-204`); only a
module that is not linked can get there.

### `SnoopRing` and `Lpc`

`SnoopRing` has the ring as a record: `Put` is what the interrupt handler does, `FirstCopy` and `RestCopy`
the two copies of `snoop_kfifo_get`, `Get` both, `LastCodes` the reference: the last codes stored, as many as there is room for.
At its seam (`AtSeam`: full, and the write index on the last position) the read leaves the oldest code out and
reports a length that counts it, so the last byte the caller sees is one nobody wrote (`snoopmain.c:406`). The model and
the properties say so.

`Lpc` has four parts. Waiters: `WaitOnReset`, `Return`, `Signal`. The callback table: `Install`, `Uninstall`.
The snoop module coming and going in the order of its init and exit functions: `RegisterSnoop`, `ListSnoop`, `StartSnoop`,
`UnhookSnoop`, `FreeSnoop`, `UnlistSnoop`, with `SwitchIrq` for the ioctls. The port: `HostWrite` replaces an unread code,
`ClearFlag` and `StoreCode` are the handler, which goes by the flag alone, since another device may have raised the line; and the host may write between them. `Reset` is `process_reset_intr` with every
callback, `handle_snoop_reset` among them. A read ioctl is `ReadCodes` (the size), `CopyFirst`, `CopyRest`, `ReadReturns`,
and an interrupt may fall in between: a code that comes before the second copy makes that copy longer than the first one left room for, and a reset
makes its length 2^32 - 1, the state `"wild"`. A read carries the history it is judged by: `from`, the codes stored when it began, and `cut`, that the
ring stood at its seam meanwhile or a reset fell in.

Left out: the reset counter and its ioctls, the test mode of `proc.c`, a failing allocation or `request_irq`,
`CONFIG_SPX_FEATURE_SNOOP_CLEAR_DATA_SUPPORT`, several channels (state is per channel). `StartSnoop` is one step: between
`request_irq` (`ast_snoop.c:358`) and the lookup of the rings (`ast_snoop.c:365`) an interrupt of another device on the line would find
a stale pointer; that window is not modelled.

### `VirtualMedia`

Per drive: the IN endpoint (`ep`), `BOT_IF_DATA` (`bot`), the flags and packet of its iUSB device (`iusb`), its media server's
thread and its host. Shared: the deferred call (thread 0, with `sem`), `CBWErrorOccur` (`cbwErr`), the sequence number, a reply buffer
for each kind of drive (`kbuf`).

* **Interrupts.** `BotRxHandler` (in `HostCommand` and `HostData`), `UsbTxHandler` (in `HostIn`), `BotUnHaltHandler` (in
  `HostClearHalt`), `UsbBusReset` with `BotRemHandler`, `HostConfigure`.
* **Deferred call.** `DpcWake`, `DpcVisit` (the loop over the interfaces, up to the call) and `DpcProcess` (`BotProcessHandler` up to its first sleep).
* **Sending.** A thread, the deferred call's or a server's, sleeps in `"data"`, `"stall"` (`"go"` once it may go on) or `"csw"`; `DataSent`, `Unstalled`, `CSWSent` and the
  three timeouts are how each sleep ends, `BotSendCSW` and `SendData` what runs up to the next.
* **Servers.** `Activate`, `WaitRequest`, `ScsiSendResponse`, `Crash` (a signal in any sleep), `Exit`.

A command is of one of five sorts (`Op`), which are the paths the code takes: a read and a write go to the server, `local`
is answered at once, `short` asks for more than the read covers, `phase` for less. Data are two packets.

Two drives of one kind are excluded (`MediaAssumption`): they share a reply buffer, and the code says itself that it will be
corrupted (`iusb-scsi.c:308`). The history variable `stray` marks a drive for which a thread worked on after a reset had ended its command
(or after it refused the command as out of phase); what such a thread sends may reach the next command, and the properties about
packets leave that out. `crossed` marks a drive whose error case another drive has used since.
Left out: control transfers and descriptors, suspend, HID, instance tables and attachment, authentication keys, vendor commands, floppies.

### `Watchdog`

The file operations and ioctls of `watchdog_core.c`, each one step but `watchdog_write`, which may sleep in
`get_user` at each byte (`WriteBegin`, `WriteMagic`, `WriteEnd`, `WriteFault`). Tasks share the open file (`Share`), so several may be in it.
`Enable`, `Disable`, `SetValue` and `Count` are the hardware module on the selected timer. `Select` is the setter of the
parameter, which looks at the first digit only: there is more to select than there are timers. `Tick` is a second of the hardware.
`SetValue` wraps: the reload value is a 32-bit count of microseconds (`Wrap`).

WDIOS_DISABLECARD stops the watchdog whatever `nowayout` says; the model does what the code does, `overridden` records that it happened, and the run `WatchdogStopped`
holds it against the driver's own message. Selecting another timer while one is in use moves all calls to the new one;
the properties leave out what follows (`moved`). Left out: the reset mask, the proc file, registration and unloading.

### `I2cSlave`

One bus in byte mode. `wire` says who has the bus and how far a message to the BMC is; `pend` is the status register.
The masters and the controller (`RemoteStart` ... `OwnStop`) are external.

* **Handler.** `Irq` is `as_handler` on the status it has read: bytes into the linear buffer, which an address match resets, and at a STOP
  in slave mode the buffer into the queue of its kind. `IrqRest` is what follows: the wait for a free bus when both queues are full,
  turning the slave off, the later branches, and the same status written back a second time, over what has come since.
* **Tasks.** `SlaveRecv` and `MctpRecv` take the oldest message, `EnableSlave` is the call the latter makes, `OwnStart` and
  `OwnReturn` are `as_master_xfer` as far as it turns the mode flag and uses the bus, `Reset` is the ioctl.

Messages have a kind and a number, so that a byte of one in another shows. `cut` is the history of messages into whose reception a
reset, a transfer on a bus that was still busy after five looks (`i2c-transfer.c:381`), or the wait in the handler fell (`i2c-interrupt.c:816`: a byte, or the
STOP, is cleared unseen). What is then stored can be a message with bytes missing or with bytes of two.
Assumed: tasks run only when no interrupt is pending, and the handler keeps pace with the bus but in its wait. Left out: data of the BMC's
transfers, DMA mode, SSIF, SMBus host notify, bus recovery, unloading; of the handler, the branches for a transfer of the BMC's own that is not acknowledged
(`i2c-interrupt.c:634-652`: the mode flag stays MASTER until the task wakes), for an abnormal start or stop and for SCL held low; that at RX_DONE the status is not written back
when TX_DONE_WITH_ACK stands beside it (`i2c-interrupt.c:785`); and a transfer of length 0 (`send_slave_addr`, `i2c-transfer.c:802`), which returns without waiting and leaves the
flag MASTER, so that what is received until the next transfer is not queued.

## 3. Runs

| run | question | bounds | states |
|---|---|---|---|
| `KcsFaults` | lock-step until the first fault; requests whole and not lost after any; every request answered unless something failed; do the state bits follow the phase, and does the error exit recover, whatever anybody does? | 2 transactions, sequence numbers mod 2, bodies of 2, responses of 1 or 2; abort, host restart and signal in both, stray byte, daemon exit and interrupt off in a single one; any three | 1 101 000 |
| `BtFaults` | is B_BUSY the handler's, are requests whole and answered, does the host get in? | 3 transactions; two retries and one of each other fault, any three | 749 000 |
| `DriverHal` | does the walk find free minors, do counts, references and lifetimes agree? | three modules with 1, 2 and 1 minors, the last not linked to the core, 4 minors in all, counts mod 2, two files; after an overlap nothing more is loaded or opened, after a failed registration one module is listed at a time | 2 735 000 |
| `Lpc` | waiters, callbacks and rings, in every order of loading, resets and codes | ring of 3, 3 slots, two tasks, two other handlers; five settings that each give one of them room | 1 278 000 |
| `VirtualMedia` | whose data and status, lost commands, answers | one CD, one disk; eight mixes of up to 3 commands a drive, resets, crashes, exits, timeouts | 570 000 |
| `Watchdog` | runs until asked, no early reset, abandoned systems are reset | 2 tasks, 2 timers, a third selectable, timeouts 2 and 3, load-time 1, 3, 6, wrap at 5 | 807 000 |
| `I2cSlave` | are the queues rings, and the messages whole? | queues of 1, messages of 2 bytes, buffer of 3, 4 messages | 4 074 000 |
| `KcsAborted`, `KcsStale`, `BtBusy`, `WatchdogStopped`, `I2cSlaveOff` | statements of the code's own comments and messages that the code does not keep | one abort (KCS), one retry (BT), as `Watchdog`, 2 messages (I2C) | to the violation |

Why these bounds show something.

* KCS and BT: two transactions with a sequence number that wraps at 2 make it wrap and make two outstanding requests meet; the
  second fault is what lets a late answer meet a second disturbance. A body of two bytes is the shortest with a first and a last
  byte, which the handler treats differently; `MaxPktLen` is one above it. Faults are counted down in `left`, so a bound on faults
  never bounds the program. `MCKcs` adds where the faults of `KcsFaults` fall (`MCRoom`): a second transaction starts only while a fault is left and none of the three kinds that
  are not the host's or a signal has come, and after the third fault an answer has one byte. No step under fairness is stopped by that. `kcsError` starts as one of its two values, since
  the driver only ever shows it to the host.
* HAL: three modules of two sizes in four minors are the fewest with which the walk meets two entries in the wrong order, gaps that fit one module only, and an overlap; the run
  goes on to unload and close after an overlap. With two files a count of 1 is followed by its wrap (256 files in the code). What three modules do after a failed registration differs from what they do
  without it only in `lost`.
* LPC: a ring of 3 is filled, wrapped, and stands at its seam within seven codes; three resets with two waiters let one wait again before the other has left.
  The parts do not touch each other's state except through the reset, which every setting has.
* Virtual media: two drives suffice for everything shared, which is always used by one against another; two or three commands put a late answer after the next command.
* Watchdog: load-time timeouts below, within and beyond the wrap; two tasks let a close meet a write.
* I2C: with queues of one message both are full after two, so that the handler waits while two more messages and a transfer of
  the BMC's own come; with longer queues four messages are too few for that. `NumBytes` of 2 has an address and a byte;
  `MaxBytes` leaves room for a byte too many. How longer queues wrap is covered by the proof of `TypeOK`.

Fairness. KCS and BT: weak fairness of the handler (a level interrupt stays raised until it is served), of the daemon's loop (it opens, enables,
reads and answers), and of a host that has begun a transaction or its error exit, each as one group because each waits for one thing. No fault is fair, and
no host has to begin. LPC: strong fairness of a waiter's return, because the scheduler runs a task that is ready although interrupts keep
coming. Virtual media: weak fairness of threads, of servers that are in their loop, and of the host's next step for a command it has sent; timeouts that the
host's behaviour makes due are fair, those that are faults are not. Watchdog: time passes. I2C: masters end what they began, the handler
runs, the readers read. Deadlock is not checked where the environment may stop for ever (KCS, BT, virtual media, watchdog after a reset, I2C with all
messages sent); it is checked in `Lpc`, and in `DriverHal` until minors overlap.

What the properties say is in the comment above each. The deep ones, in short:

* `ImplementsExchange` (KCS, BT): until the first fault, a refinement of `IpmiExchange` with `asked <- txn`: no request delivered twice or
  never, no answer to another one. `EveryRequestAnswered` is its liveness; it needs the signal to outlive the time the reader spends elsewhere.
* `RequestIntact`, `NoLostRequest`, `RequestWhole`: what aborts, restarts, signals and retries leave in the receive buffer.
* `HostSeesPhase`, `BusyWhileReading`: what the host goes by is right at the moment it may look. `AbortRecovers`, `HostGetsIn`: it is never locked out.
* `SortedWalkFindsFree`: when exactly the walk may give away a minor that is taken. `OpenCountsRight`, `NothingFreedInUse`: the HAL's tables agree with each other in every order of
  loading, opening, failing and unloading.
* `ResetReachesWaiters`, `EventCleared`, `WaitersServed`: the event flag against the waiters. `CurrentIsTail`, `PreviousIsLastBoot`,
  `CodesReadInOrder`, `LastCodeKept`: the rings, and a read in two copies beside the handler, against the codes the host wrote. `CallbackFindsLive`: a reset against unloading.
* `PacketIsAwaited`, `HostReadsOwn`, `AnswerIsAwaited`, `CaseIsOwn`: whose data, status and error case. `CommandNotData`, `NoLostCommand`, `HostServed`: no command misread, left or unanswered.
* `RunsUnlessAsked`, `NoEarlyReset`, `AbandonedResets`: the timer against what users asked for.
* `MessagesWhole`, `TypeOK` of `I2cSlave`: what readers get.

Exceptions that the properties name, because the code does not do better: `orphaned` in `DriverHal` (a hardware module whose
`request_irq` fails after its minor was opened) and `overlapped` (a module got minors of another), `wiped` and `dropped` in `Bt`, `Spared` in `Kcs` (a daemon restarted in
the middle of a request cuts it short; a host off the charts), the seam and `missed` in `Lpc` (a reset that nobody waited for wakes the next to wait) and `cut` (a read at the seam, or with a reset in it),
`stray`, `crossed` and `left` in `VirtualMedia`, `moved`, `overridden` and an oversized load-time timeout in `Watchdog`, `cut` in `I2cSlave`. In each case the excepted behaviour
is one the code really has, and is listed with the hazards.

### Disagreements between the code and what it says

* `KcsAborted`: "If we are responding to an aborted request skip sending data" (`kcsmain.c:829`). An abort
  is recorded only when `KcsIFActive` is 0, but a woken reader still counts as asleep until it has run; an
  abort in that window is forgotten and the aborted request is answered.
* `KcsStale`: "The response is not belong to the current request, so ignore the response" (`kcsmain.c:842`).
  The number is compared once; an abort and a new request before data-out is written give the host a byte of the previous answer.
* `BtBusy`: "Host is busy... and this should not happen" (`bthw_mod.c:285`). After one host timeout it happens,
  and the answer being read is overwritten.
* `WatchdogStopped`: "Watchdog cannot be stopped once started" (`watchdog_core.c:319`), which the driver prints when it is loaded with `nowayout`.
  WDIOC_SETOPTIONS with WDIOS_DISABLECARD clears `nowayout` for the call and stops it (`watchdog_core.c:242`).
* `I2cSlaveOff`: "Enable slave as we read data out of buffer" (`i2c-transfer.c:1124`). When both queues are full the slave is turned
  off; only the MCTP reader turns it on, and not while the IPMB queue is full. With the MCTP queue read first it stays off.

Two more are visible in the models and have no run: `kcsmain.c:1028` wakes the reader "to notify Request Packet is ready", but an abort and the next
WRITE_START before the copy at `kcsmain.c:775` hand it a packet with only its beginning; and `iusb-cdrom.c:228` sees "no contention problems here because we
are under cli" in a function that runs with interrupts on.

## 4. Proofs

| module | theorem | property | rests on |
|---|---|---|---|
| `KcsProofs` | `TypeCorrect` | `TypeOK` | inductive as it stands |
| | `PhaseShown` | `HostSeesPhase` | `HandlerInv` |
| | `RequestsIntact` | `RequestIntact` | `IntactInv` |
| | `NoneLost` | `NoLostRequest` | `Noted`, `IntactInv` |
| | `ExchangeImplemented` | `ImplementsExchange` | `LockStep`, and the three above it |
| `BtProofs` | `TypeCorrect` | `TypeOK` | `TypeInv` |
| | `BusyShown` | `BusyWhileReading` | `BusyInv` |
| | `RequestsWhole` | `RequestWhole` | `RequestInv` |
| | `ExchangeImplemented` | `ImplementsExchange` | `LockStep` |
| `DriverHalProofs` | `TypeCorrect` | `TypeOK` | `TypeInv` |
| | `WalkRightIfSorted` | `SortedWalkFindsFree` | `SortedFree` |
| | `CountsOfOpenFiles`, `NothingFreed` | `OpenCountsRight`, `NothingFreedInUse` | `CoreInv`, `DisjointInv`, `CountInv` |
| `LpcProofs` | `WaitersReached`, `EventsCleared` | `ResetReachesWaiters`, `EventCleared` | `WaitInv` |
| | `CallbacksLive` | `CallbackFindsLive` | `SlotInv` |
| | `NewestKept` | `LastCodeKept` | `PortInv` |
| | `CurrentCodes`, `PreviousCodes` | `CurrentIsTail`, `PreviousIsLastBoot` | `RingInv` and the lemmas of `SnoopRingProofs` |
| | `ReadsInOrder` | `CodesReadInOrder` | `ReadInv` and the lemmas of `SnoopRingProofs` |
| | `TypeCorrect` | `TypeOK` | all of these |
| `VirtualMediaProofs` | `TypeCorrect` | `TypeOK` | `TypeInv` |
| | `CommandsTaken`, `NothingLeft` | `CommandNotData`, `NoLostCommand` | `CommandInv` |
| | `PacketsAwaited`, `ReadsOwn` | `PacketIsAwaited`, `HostReadsOwn` | `AwaitInv` |
| | `AnswersAwaited` | `AnswerIsAwaited` | `AwaitInv`, `CaseInv` |
| | `CaseOwned` | `CaseIsOwn` | `CaseInv` |
| `WatchdogProofs` | `TypeCorrect`, `RunsUntilAsked`, `PatienceKept` | `TypeOK`, `RunsUnlessAsked`, `NoEarlyReset` | one `Inv` |
| `I2cSlaveProofs` | `TypeCorrect` | `TypeOK` | `TypeInv` |
| | `WholeMessages` | `MessagesWhole` | `BusInv`, `OrderInv` |

They hold for every value of the constants that satisfies the assumption of the module: every number of transactions,
tasks, modules, drives, messages and codes, every length, every budget of faults.

The arguments, where the property is not inductive:

* **KCS.** `HostSeesPhase` says nothing while the handler is between setting the state and reading data-in; `HandlerInv` adds what it
  owes there. `IntactInv`: as long as the daemon has not exited and the host has not left the charts (`Orderly`), what is in the receive buffer is the part of one request that the host has written
  (`Received`), and its length agrees with the phase and the host's place in its charts (`Lengths`, `Charted`). `Noted`: a received request is signalled, held by the reader or with the responder. `LockStep`:
  without a fault the whole system is in exactly one of ten places, from `Idle` over `Sending`, `Signalled`, `Delivered` and `Offered` to `Done`; each step leads from one to the same or the next, and
  the places tell which step of `IpmiExchange` it is.
* **BT.** `BusyInv`: the bits the responder has read and will write back do not hold B_BUSY, which would toggle it. `RequestInv`: until an attention was
  wiped, it stands from the host's sending to the handler's clearing, handler and pending request exclude each other, and buffer and what was read of it are of one
  request. `LockStep` as for KCS, with eight places.
* **HAL.** `SortedFree`: in a list in the order of the minors all that lies before a gap ends before it and all behind starts behind it, so the gap is free; this needs no
  invariant, and holds of lists of any length. `CoreInv`: a core that is not loaded, or whose exit has begun, has no module listed and no file open. The rest holds
  until minors overlap. `DisjointInv`: the minors of any two entries are apart, a module is on the list once and under its own `devId`, exactly while it is registered, and its private data
  are there until it gives the `devId` back; a new entry is apart from the others because it does not overlap (`NewMinors`), and a
  lookup by `devId` finds the module itself (`FoundOwn`). `CountInv`, until a module fails its init with files open: an open file is of a listed module, in whose minors its own
  is; no file is of a module whose exit has begun; and counts and references are cardinalities of sets of files. `Wraps` is what a count that wraps does when a file comes or
  goes. Where the list has an entry inserted or taken out, positions shift, and `Shifted` and `Kept` say where each goes.
* **Reset and snoop.** `WaitInv`: the count is the number of waiters, and the event stands while one of those hit is left. `SlotInv`: the
  snoop handler is in at most one slot, and in one from registering to unhooking, because the table has room for all
  (`Cardinality(Handler) < NumSlots`). `RingInv` and `SnoopRingProofs`: a ring *holds* a sequence when its indices and size are those of the
  sequence's length and each position has the code stored there last; `Put` keeps that, and a ring that holds a sequence reads as its tail.
  `ReadInv`: what a read still lacks after the first copy stands below the write index, however far the handler has moved it since, because only passing the end of the ring would overwrite it, which means
  standing at the seam first; `FirstOfTail` and `RestOfTail` say which codes the two copies are.
* **Virtual media.** `CommandInv`: data are expected only between a write's CBW and its data; and a raised flag has either a count of the semaphore left or the running deferred call still before it.
  `CaseInv`: sequence numbers order a server's packet, the packet last formed and the outstanding one; and the error case is that of the last packet formed, and a drive not
  crossed formed it. `AwaitInv` follows a command. `Owned` holds at any time: a server works for its own drive, and what it will still send has the tag of its packet. The rest is about
  a drive that is not `stray`. `Quiet`: a host that waits for nothing has nothing of a command left in the endpoint or with a thread, except data
  whose sender the reset has woken. `Placed`: a command that is waited for is in exactly one place (the flag, the deferred call, the packet of the server, the server that
  answers it), and until it is answered nothing was sent for it. `InFifo`: what is in the endpoint is about it. `ReadSoFar`: packet by packet, what of a read
  is collected, in the endpoint and to come. A step that is not about a drive is `Aside` for it, which one lemma shows to keep all this; the others are taken one
  by one. That the answer is awaited needs both: equal sequence numbers mean the server has the packet last formed (`CaseInv`), and that one is the host's (`Placed`).
* **Watchdog.** What is left on the counter of the selected timer plus the seconds since it was patted is the timeout or more, as long as the timer runs or
  may be started again; and the magic flag is set exactly when a 'V' was written, while the device is open.
* **I2C.** `TypeOK` says that write index, read index and count of each queue agree and that no slot in use is empty or holds an address alone. `TypeInv` adds that a byte waiting in the data register
  belongs to the message on the wire. The lemmas `StoreKeepsRing` and `TakeKeepsRing` are about one ring of any length. For `MessagesWhole`, `BusInv` says what
  the coalesced status bits still tell of the wire: a message that was interrupted by the BMC's own transfer, or whose address match or STOP fell together with another's, is already counted as
  cut, and otherwise the handler keeps pace with the wire to within one byte. `OrderInv` says where the messages are: everything a reader has taken or a queue
  holds came before the message in the linear buffer, and that one before or at the one on the wire; the queues are in order; and what the buffer holds is of a message that was
  cut, or a front of the message on the wire, or a whole one whose STOP is still to be handled. So a STOP stores a message that is whole or was cut.

Only model-checked:

* liveness, which rests on fairness and is beyond the prover: `EveryRequestAnswered`, `AbortRecovers`, `HostGetsIn`, `WaitersServed`, `HostServed`, `AbandonedResets`;
* what a recursive definition computes for every input would need induction over data and is also beyond the prover; the modules have none.

## 5. Not modelled

`PROJECT.json` lists every part with its reason. In groups:

* drivers that are synchronous register access (ADC, PWM, GPIO, PECI, UART routing, JTAG, battery-backed SRAM);
* data paths whose correctness is in the data (cipher, video capture, frame buffer, checksums, encodings, parsers);
* programming of flash and CPLD parts, eSPI, MCTP over PCIe and NC-SI, where the behaviour of the other side is not in the sources;
* keyboard and mouse, which repeat the drives' wait with less in it, and USB Ethernet, whose queueing is the kernel's;
* third-party packages with local patches (kernel, boot loader, OpenSSH, OpenSSL, lighttpd, mod_websocket, ipmitool, busybox, ntp, rsync, stunnel, DHCP and the
  web user interface), their licences and headers. They are most of the 204 000 lines of the repository.

Of the parts that are modelled, what is left out is named in section 2. Three things among it are hazards in their own right: the SMS_ATN calls of KCS and BT, which are
read-modify-writes of registers the handler also writes; the packet length at `MAX_KCS_PKT_LEN`; and, in the watchdog, the private data
that unregistering frees without clearing the pointer. What they lead to follows from the code at once, and no text of the sources claims otherwise.

The shared LPC interrupt has no module of its own: that a handler runs because of another device is an action of `Bt` (`IrqShared`), and
the other three handlers look at their own status bits first.

## 6. Order of work

The modules were written in the order HAL, KCS, BT, `Lpc`, `VirtualMedia`, `Watchdog`, `I2cSlave`, each with its run before its proofs. What would be worth adding next:
SMS_ATN in `Kcs` and `Bt` as the read-modify-write it is; several drives of a kind, which needs the property
restated for what the shared reply buffer still guarantees.

## 7. Running

`tlc -config KcsFaults.cfg MCKcs.tla`, and so on: the module of a run is in `PROJECT.json`, and is the `MC` module whose name begins the name of the
configuration. Each takes between a second and three and a half minutes with two workers. `tlapm KcsProofs.tla`, and so on, check the proofs; the longest takes about a minute and a half.
