---- MODULE Watchdog ----
(***************************************************************************)
(* The watchdog device: watchdog-src/watchdog_core.c over                  *)
(* watchdog_hw-ARM-AST-src/ast_watchdog.c, and the watchdogs of the chip.  *)
(*                                                                         *)
(* Several tasks may use the one open file, as threads or after a fork.    *)
(* Only get_user sleeps (on a page fault), so a write is cut into steps at *)
(* each byte, and open, close and the ioctls are one step each.  The       *)
(* module parameter that selects the watchdog may be written at any time.  *)
(***************************************************************************)
EXTENDS Integers

CONSTANTS
  Task,
  NumDevices,   \* MAX_WDT_DEVICES
  Selectable,   \* what the setter of current_wdt_device lets through
  MinTimeout, MaxTimeout,  \* the limits of WDIOC_SETTIMEOUT (3 and 3600 seconds)
  LoadTimeouts, \* what the parameter watchdog_timeout may be at load time
  Wrap          \* seconds at which the 32-bit count of microseconds wraps

Device == 1..NumDevices
Timeout == (MinTimeout..MaxTimeout) \cup LoadTimeouts

(* The setter looks at the first digit only, so there is more to select    *)
(* than there are watchdogs.                                               *)
ASSUME WatchdogAssumption ==
  /\ NumDevices \in Nat \ {0} /\ Device \subseteq Selectable
  /\ MinTimeout \in Nat \ {0} /\ MaxTimeout \in Nat /\ Wrap \in Nat
  /\ MinTimeout <= MaxTimeout /\ MaxTimeout < Wrap
  /\ LoadTimeouts \subseteq Nat \ {0}

VARIABLES
  nowayout,     \* parameter
  current,      \* current_wdt_device
  timeout,      \* watchdog_timeout
  isOpen,       \* watchdog_is_open
  expectClose,  \* watchdog_expect_close
  holders,      \* tasks that share the open file
  writing,      \* tasks in watchdog_write
  wdt,          \* registers: ENABLE bit, reload value, counter
  fired         \* a watchdog has reset the system

(* History. *)
VARIABLES
  since,        \* seconds since the watchdog was patted, up to Patience
  magic,        \* a 'V' was written since the last opening, or write, began
  asked,        \* the last thing asked for was that it stop
  overridden,   \* last stopped by WDIOS_DISABLECARD in spite of nowayout
  moved         \* selected while in use, or selected what does not exist

history == <<since, magic, asked, overridden, moved>>
vars == <<nowayout, current, timeout, isOpen, expectClose, holders, writing, wdt, fired, history>>

Patience == Wrap

Init ==
  /\ nowayout \in BOOLEAN
  /\ current = 1 /\ timeout \in LoadTimeouts
  /\ isOpen = FALSE /\ expectClose = FALSE
  /\ holders = {} /\ writing = {}
  /\ wdt = [d \in Device |-> [enabled |-> FALSE, value |-> 0, counter |-> 0]]
  /\ fired = FALSE
  /\ since = 0 /\ magic = FALSE /\ asked = TRUE /\ overridden = FALSE /\ moved = FALSE

----------------------------------------------------------------------------
(* The operations of the hardware module, on the selected watchdog; where  *)
(* there is none, the registers written belong to no watchdog.             *)

Enable(w) == IF current \in Device THEN [w EXCEPT ![current].enabled = TRUE] ELSE w
Disable(w) == IF current \in Device THEN [w EXCEPT ![current].enabled = FALSE] ELSE w
SetValue(w, seconds) ==
  IF current \in Device THEN [w EXCEPT ![current].value = seconds % Wrap] ELSE w
Count(w) ==
  IF current \in Device THEN [w EXCEPT ![current].counter = w[current].value] ELSE w

----------------------------------------------------------------------------
(* The file operations.                                                    *)

(* Mutant of WatchdogOpen: the timeout set earlier is not set again.       *)
WatchdogOpenAsLeft(t) ==
  /\ ~fired /\ ~isOpen
  /\ isOpen' = TRUE /\ holders' = {t}
  /\ wdt' = Count(Enable(wdt))
  /\ since' = 0 /\ magic' = FALSE /\ asked' = FALSE /\ overridden' = FALSE
  /\ UNCHANGED <<nowayout, current, timeout, expectClose, writing, fired,
                 moved>>

(* A second open fails with EBUSY.                                         *)
WatchdogOpen(t) ==
  /\ ~fired /\ ~isOpen
  /\ isOpen' = TRUE /\ holders' = {t}
  /\ wdt' = Count(SetValue(Enable(wdt), timeout))
  /\ since' = 0 /\ magic' = FALSE /\ asked' = FALSE /\ overridden' = FALSE
  /\ UNCHANGED <<nowayout, current, timeout, expectClose, writing, fired,
                 moved>>

Share(t, u) ==
  /\ ~fired /\ t \in holders /\ u \notin holders
  /\ holders' = holders \cup {u}
  /\ UNCHANGED <<nowayout, current, timeout, isOpen, expectClose, writing,
                 wdt, fired, history>>

Idle(t) == ~fired /\ t \in holders \ writing

(* watchdog_write up to its first get_user.                                *)
WriteBegin(t) ==
  /\ Idle(t)
  /\ writing' = writing \cup {t}
  /\ expectClose' = FALSE /\ magic' = FALSE
  /\ UNCHANGED <<nowayout, current, timeout, isOpen, holders, wdt, fired,
                 since, asked, overridden, moved>>

WriteMagic(t) ==
  /\ ~fired /\ t \in writing
  /\ expectClose' = TRUE /\ magic' = TRUE
  /\ UNCHANGED <<nowayout, current, timeout, isOpen, holders, writing, wdt,
                 fired, since, asked, overridden, moved>>

WriteEnd(t) ==
  /\ ~fired /\ t \in writing
  /\ writing' = writing \ {t}
  /\ wdt' = Count(wdt) /\ since' = 0
  /\ UNCHANGED <<nowayout, current, timeout, isOpen, expectClose, holders,
                 fired, magic, asked, overridden, moved>>

(* EFAULT: what was written before counts, and nothing is patted.          *)
WriteFault(t) ==
  /\ ~fired /\ t \in writing
  /\ writing' = writing \ {t}
  /\ UNCHANGED <<nowayout, current, timeout, isOpen, expectClose, holders,
                 wdt, fired, history>>

KeepAlive(t) ==
  /\ Idle(t)
  /\ wdt' = Count(wdt) /\ since' = 0
  /\ UNCHANGED <<nowayout, current, timeout, isOpen, expectClose, holders,
                 writing, fired, magic, asked, overridden, moved>>

(* Mutant of SetTimeout: the counter goes on from where it was.            *)
SetTimeoutLater(t, seconds) ==
  /\ Idle(t)
  /\ seconds >= MinTimeout /\ seconds <= MaxTimeout
  /\ timeout' = seconds
  /\ wdt' = SetValue(wdt, seconds) /\ since' = 0
  /\ UNCHANGED <<nowayout, current, isOpen, expectClose, holders, writing,
                 fired, magic, asked, overridden, moved>>

SetTimeout(t, seconds) ==
  /\ Idle(t)
  /\ seconds >= MinTimeout /\ seconds <= MaxTimeout
  /\ timeout' = seconds
  /\ wdt' = Count(SetValue(wdt, seconds)) /\ since' = 0
  /\ UNCHANGED <<nowayout, current, isOpen, expectClose, holders, writing,
                 fired, magic, asked, overridden, moved>>

(* WDIOC_SETOPTIONS disables first, and does not look at nowayout.         *)
SetOptions(t, disable, enable) ==
  /\ Idle(t)
  /\ LET off == IF disable THEN Disable(wdt) ELSE wdt
     IN  wdt' = IF enable THEN Enable(off) ELSE off
  /\ asked' = (~enable /\ (asked \/ (disable /\ ~nowayout)))
  /\ overridden' = (~enable /\ (overridden \/ (disable /\ nowayout)))
  /\ UNCHANGED <<nowayout, current, timeout, isOpen, expectClose, holders,
                 writing, fired, since, magic, moved>>

(* Mutant of WatchdogClose: the magic close is not forgotten.              *)
WatchdogCloseExpecting ==
  /\ wdt' = IF ~nowayout /\ expectClose THEN Disable(wdt) ELSE wdt
  /\ asked' = (asked \/ (~nowayout /\ magic))
  /\ isOpen' = FALSE /\ expectClose' = expectClose

(* Mutant of WatchdogClose: any close stops the watchdog.                  *)
WatchdogCloseStops ==
  /\ wdt' = Disable(wdt)
  /\ asked' = (asked \/ (~nowayout /\ magic))
  /\ isOpen' = FALSE /\ expectClose' = FALSE

(* watchdog_close, on the last close of the file.                          *)
WatchdogClose ==
  /\ wdt' = IF ~nowayout /\ expectClose THEN Disable(wdt) ELSE wdt
  /\ asked' = (asked \/ (~nowayout /\ magic))
  /\ isOpen' = FALSE /\ expectClose' = FALSE

(* Mutant of Close: every close releases the device.                       *)
CloseEach(t) ==
  /\ Idle(t)
  /\ holders' = holders \ {t}
  /\ WatchdogClose
  /\ UNCHANGED <<nowayout, current, timeout, writing, fired, since, magic, overridden, moved>>

(* A task closes the file, or dies.                                        *)
Close(t) ==
  /\ Idle(t)
  /\ holders' = holders \ {t}
  /\ \/ holders = {t} /\ WatchdogClose
     \/ holders # {t} /\ UNCHANGED <<wdt, asked, isOpen, expectClose>>
  /\ UNCHANGED <<nowayout, current, timeout, writing, fired, since, magic,
                 overridden, moved>>

----------------------------------------------------------------------------
(* The parameter, and the hardware.                                        *)

(* cur_wd_set_ushort.                                                      *)
Select(n) ==
  /\ ~fired /\ current' = n
  /\ moved' = \/ moved
              \/ n \notin Device
              \/ n # current /\ (isOpen \/ \E d \in Device : wdt[d].enabled)
  /\ UNCHANGED <<nowayout, timeout, isOpen, expectClose, holders, writing,
                 wdt, fired, since, magic, asked, overridden>>

(* A second passes: running watchdogs count down, and reset the system     *)
(* from 0.                                                                 *)
Tick ==
  /\ ~fired
  /\ wdt' = [d \in Device |->
       IF wdt[d].enabled /\ wdt[d].counter > 0
       THEN [wdt[d] EXCEPT !.counter = wdt[d].counter - 1] ELSE wdt[d]]
  /\ fired' = \E d \in Device : wdt[d].enabled /\ wdt[d].counter <= 1
  /\ since' = IF since < Patience THEN since + 1 ELSE since
  /\ UNCHANGED <<nowayout, current, timeout, isOpen, expectClose, holders,
                 writing, magic, asked, overridden, moved>>

Next ==
  \/ \E t \in Task :
       \/ WatchdogOpen(t) \/ Close(t) \/ KeepAlive(t)
       \/ WriteBegin(t) \/ WriteMagic(t) \/ WriteEnd(t) \/ WriteFault(t)
       \/ \E u \in Task : Share(t, u)
       \/ \E seconds \in Timeout : SetTimeout(t, seconds)
       \/ \E disable, enable \in BOOLEAN : SetOptions(t, disable, enable)
  \/ \E n \in Selectable : Select(n)
  \/ Tick

Spec == Init /\ [][Next]_vars

(* Time passes.                                                            *)
FairSpec == Spec /\ WF_vars(Tick)

----------------------------------------------------------------------------
(* Properties.                                                             *)

Register == [enabled : BOOLEAN, value : 0..(Wrap - 1), counter : 0..(Wrap - 1)]

TypeOK ==
  /\ nowayout \in BOOLEAN /\ current \in Selectable /\ timeout \in Timeout
  /\ isOpen \in BOOLEAN /\ expectClose \in BOOLEAN
  /\ holders \subseteq Task /\ writing \subseteq holders
  /\ isOpen <=> holders # {}
  /\ wdt \in [Device -> Register]
  /\ fired \in BOOLEAN
  /\ since \in 0..Patience
  /\ magic \in BOOLEAN /\ asked \in BOOLEAN /\ overridden \in BOOLEAN /\ moved \in BOOLEAN

Stopped == asked \/ overridden

(* The watchdog runs exactly until it is asked to stop: by a 'V' in the    *)
(* last write before the last close, or by WDIOS_DISABLECARD, neither of   *)
(* which is asking where nowayout stands.  A 'V' of an earlier opening     *)
(* stops nothing.  Except that WDIOS_DISABLECARD overrides nowayout until  *)
(* the next opening or WDIOS_ENABLECARD.                                   *)
RunsUnlessAsked ==
  ~moved => \A d \in Device : wdt[d].enabled <=> (d = current /\ ~Stopped)

(* The system is reset only if for the whole timeout nobody has patted the *)
(* watchdog, whoever opened, closed or disabled it meanwhile.  Not so for  *)
(* a timeout given at load time that does not fit the counter.             *)
NoEarlyReset == fired /\ ~moved /\ timeout < Wrap => since >= timeout

(* A system whose daemon is gone without having asked for a stop is reset, *)
(* or another daemon takes over, unless nowayout was overridden.           *)
AbandonedResets == (~isOpen /\ ~Stopped /\ ~moved) ~> (fired \/ isOpen \/ moved)

(* watchdog_core.c:319 "Watchdog cannot be stopped once started": with     *)
(* nowayout no step stops a watchdog that runs (WDIOC_SETOPTIONS does).    *)
NoWayOut ==
  [][nowayout => \A d \in Device : wdt[d].enabled => wdt'[d].enabled]_vars
====
