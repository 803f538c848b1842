---- MODULE WatchdogProofs ----
(***************************************************************************)
(* Proofs about Watchdog, for any number of tasks and watchdogs and any    *)
(* timeouts: the type invariant, RunsUnlessAsked and NoEarlyReset.         *)
(*                                                                         *)
(* NoEarlyReset follows from an account: what is left on the counter of    *)
(* the selected watchdog and the seconds since it was patted add up to the *)
(* timeout or more, as long as it runs or may be started again.            *)
(***************************************************************************)
EXTENDS Watchdog, TLAPS

(* The constants as the provers need them.                                 *)
LEMMA Constants ==
  /\ NumDevices \in Nat /\ Wrap \in Nat /\ Wrap > 0 /\ 1 \in Device /\ 1 \in Selectable
  /\ Timeout \subseteq Nat \ {0} /\ MinTimeout \in Nat /\ MaxTimeout \in Nat
  /\ MaxTimeout < Wrap /\ LoadTimeouts \subseteq Timeout
  /\ \A s \in Timeout : s % Wrap \in 0..(Wrap - 1) /\ (s < Wrap => s % Wrap = s)
  BY WatchdogAssumption, SMT DEF Device, Timeout

(* What each operation of the hardware module leaves in the registers.      *)

(* ast_watchdog_enable starts the selected watchdog and no other.          *)
LEMMA EnableLeaves ==
  ASSUME NEW w \in [Device -> Register]
  PROVE  /\ Enable(w) \in [Device -> Register]
         /\ \A d \in Device :
              /\ Enable(w)[d].enabled = IF d = current THEN TRUE ELSE w[d].enabled
              /\ Enable(w)[d].value = w[d].value
              /\ Enable(w)[d].counter = w[d].counter
<1>1. \A d \in Device : /\ w[d] \in Register /\ w[d].enabled \in BOOLEAN
                        /\ w[d].value \in 0..(Wrap - 1) /\ w[d].counter \in 0..(Wrap - 1)
  BY DEF Register
<1>2. CASE current \notin Device BY <1>1, <1>2 DEF Enable
<1>3. CASE current \in Device
  <2>1. Enable(w) = [w EXCEPT ![current] = [w[current] EXCEPT !.enabled = TRUE]]
    BY <1>3 DEF Enable
  <2>2. [w[current] EXCEPT !.enabled = TRUE] \in Register
    BY <1>1, <1>3 DEF Register
  <2> QED BY <1>1, <1>3, <2>1, <2>2 DEF Register
<1> QED BY <1>2, <1>3

(* ast_watchdog_disable stops the selected watchdog and no other.          *)
LEMMA DisableLeaves ==
  ASSUME NEW w \in [Device -> Register]
  PROVE  /\ Disable(w) \in [Device -> Register]
         /\ \A d \in Device :
              /\ Disable(w)[d].enabled = IF d = current THEN FALSE ELSE w[d].enabled
              /\ Disable(w)[d].value = w[d].value
              /\ Disable(w)[d].counter = w[d].counter
<1>1. \A d \in Device : /\ w[d] \in Register /\ w[d].enabled \in BOOLEAN
                        /\ w[d].value \in 0..(Wrap - 1) /\ w[d].counter \in 0..(Wrap - 1)
  BY DEF Register
<1>2. CASE current \notin Device BY <1>1, <1>2 DEF Disable
<1>3. CASE current \in Device
  <2>1. Disable(w) = [w EXCEPT ![current] = [w[current] EXCEPT !.enabled = FALSE]]
    BY <1>3 DEF Disable
  <2>2. [w[current] EXCEPT !.enabled = FALSE] \in Register
    BY <1>1, <1>3 DEF Register
  <2> QED BY <1>1, <1>3, <2>1, <2>2 DEF Register
<1> QED BY <1>2, <1>3

(* ast_watchdog_set_value writes the reload value of the selected one.     *)
LEMMA SetValueLeaves ==
  ASSUME NEW w \in [Device -> Register], NEW s \in Timeout
  PROVE  /\ SetValue(w, s) \in [Device -> Register]
         /\ \A d \in Device :
              /\ SetValue(w, s)[d].enabled = w[d].enabled
              /\ SetValue(w, s)[d].value = IF d = current THEN s % Wrap ELSE w[d].value
              /\ SetValue(w, s)[d].counter = w[d].counter
<1>1. \A d \in Device : /\ w[d] \in Register /\ w[d].enabled \in BOOLEAN
                        /\ w[d].value \in 0..(Wrap - 1) /\ w[d].counter \in 0..(Wrap - 1)
  BY DEF Register
<1>2. CASE current \notin Device BY <1>1, <1>2 DEF SetValue
<1>3. CASE current \in Device
  <2>1. SetValue(w, s) = [w EXCEPT ![current] = [w[current] EXCEPT !.value = s % Wrap]]
    BY <1>3 DEF SetValue
  <2>2. [w[current] EXCEPT !.value = s % Wrap] \in Register
    BY <1>1, <1>3, Constants DEF Register
  <2> QED BY <1>1, <1>3, <2>1, <2>2 DEF Register
<1> QED BY <1>2, <1>3

(* ast_watchdog_count copies the reload value to the counter.              *)
LEMMA CountLeaves ==
  ASSUME NEW w \in [Device -> Register]
  PROVE  /\ Count(w) \in [Device -> Register]
         /\ \A d \in Device :
              /\ Count(w)[d].enabled = w[d].enabled
              /\ Count(w)[d].value = w[d].value
              /\ Count(w)[d].counter = IF d = current THEN w[d].value ELSE w[d].counter
<1>1. \A d \in Device : /\ w[d] \in Register /\ w[d].enabled \in BOOLEAN
                        /\ w[d].value \in 0..(Wrap - 1) /\ w[d].counter \in 0..(Wrap - 1)
  BY DEF Register
<1>2. CASE current \notin Device BY <1>1, <1>2 DEF Count
<1>3. CASE current \in Device
  <2>1. Count(w) = [w EXCEPT ![current] = [w[current] EXCEPT !.counter = w[current].value]]
    BY <1>3 DEF Count
  <2>2. [w[current] EXCEPT !.counter = w[current].value] \in Register
    BY <1>1, <1>3 DEF Register
  <2> QED BY <1>1, <1>3, <2>1, <2>2 DEF Register
<1> QED BY <1>2, <1>3

(* What holds of the registers, the seconds and the history at all times:  *)
(* the parts that are not about the type.                                  *)
Remembered ==
  /\ isOpen => (magic <=> expectClose)
  /\ ~isOpen => ~expectClose
  /\ ~moved => current \in Device
Account ==
  (isOpen \/ ~Stopped) /\ ~moved /\ timeout < Wrap =>
    /\ wdt[current].value = timeout
    /\ wdt[current].counter + since >= timeout

(* The inductive invariant.                                                *)
Inv == TypeOK /\ Remembered /\ RunsUnlessAsked /\ Account /\ NoEarlyReset

(* Patting puts the reload value on the counter: the account is right if   *)
(* the reload value is.                                                    *)
LEMMA Patted ==
  ASSUME TypeOK, Remembered, NEW w \in [Device -> Register], NEW s \in Timeout,
         ~moved => (s < Wrap => w[current].value = s)
  PROVE  ~moved /\ s < Wrap => /\ Count(w)[current].value = s
                               /\ Count(w)[current].counter = s
  BY CountLeaves DEF Remembered

(* It holds when the modules are loaded.                                   *)
LEMMA InitInv == Init => Inv
<1> SUFFICES ASSUME Init PROVE Inv OBVIOUS
<1>1. [enabled |-> FALSE, value |-> 0, counter |-> 0] \in Register
  BY Constants DEF Register
<1>2. TypeOK
  <2>1. wdt \in [Device -> Register] BY <1>1 DEF Init
  <2>2. current \in Selectable /\ timeout \in Timeout BY Constants DEF Init
  <2>3. since \in 0..Patience BY Constants DEF Init, Patience
  <2> QED BY <2>1, <2>2, <2>3 DEF Init, TypeOK
<1>3. Remembered BY Constants DEF Init, Remembered
<1>4. RunsUnlessAsked BY DEF Init, RunsUnlessAsked, Stopped
<1>5. Account /\ NoEarlyReset BY DEF Init, Account, NoEarlyReset, Stopped
<1> QED BY <1>2, <1>3, <1>4, <1>5 DEF Inv

(* Every file operation, every selection and every second keeps it.        *)
LEMMA StepInv == Inv /\ [Next]_vars => Inv'
<1> SUFFICES ASSUME Inv, [Next]_vars PROVE Inv' OBVIOUS
<1> USE DEF Inv
<1>1. /\ wdt \in [Device -> Register] /\ timeout \in Timeout /\ timeout \in Nat
      /\ since \in Nat /\ since <= Wrap /\ Wrap \in Nat /\ 0 \in 0..Patience
      /\ \A d \in Device : wdt[d].counter \in Nat /\ wdt[d].value \in Nat
  BY Constants, SMT DEF TypeOK, Patience, Register
<1>2. \A w \in [Device -> Register] : \A d \in Device :
        w[d].enabled \in BOOLEAN /\ w[d].counter \in Nat /\ w[d].value \in Nat
  BY Constants, SMT DEF Register
<1>3. ASSUME NEW t \in Task, WatchdogOpen(t) PROVE Inv'
  <2> DEFINE e == Enable(wdt)
             v == SetValue(e, timeout)
  <2>1. /\ e \in [Device -> Register]
        /\ \A d \in Device : e[d].enabled = IF d = current THEN TRUE ELSE wdt[d].enabled
    BY <1>1, EnableLeaves
  <2> HIDE DEF e
  <2>2. /\ v \in [Device -> Register]
        /\ \A d \in Device : /\ v[d].enabled = e[d].enabled
                             /\ d = current => v[d].value = timeout % Wrap
    <3>1. v \in [Device -> Register] BY <1>1, <2>1, SetValueLeaves
    <3>2. \A d \in Device : v[d].enabled = e[d].enabled BY <1>1, <2>1, SetValueLeaves
    <3>3. \A d \in Device : d = current => v[d].value = timeout % Wrap
      BY <1>1, <2>1, SetValueLeaves
    <3> QED BY <3>1, <3>2, <3>3
  <2> HIDE DEF v
  <2>3. /\ Count(v) \in [Device -> Register]
        /\ \A d \in Device : Count(v)[d].enabled = v[d].enabled
    BY <1>1, <2>2, CountLeaves
  <2>4. ~moved => (timeout < Wrap => v[current].value = timeout)
    BY <1>1, <2>2, Constants DEF Remembered
  <2>5. ~moved /\ timeout < Wrap => /\ Count(v)[current].value = timeout
                                    /\ Count(v)[current].counter = timeout
    BY <1>1, <2>2, <2>4, Patted
  <2>6. wdt' = Count(v) BY <1>3 DEF WatchdogOpen, e, v
  <2>7. TypeOK'
    BY <1>1, <1>3, <2>3, <2>6, Zenon DEF TypeOK, WatchdogOpen
  <2>8. Remembered' BY <1>3 DEF Remembered, WatchdogOpen
  <2>9. RunsUnlessAsked'
    BY <1>3, <2>1, <2>2, <2>3, <2>6 DEF RunsUnlessAsked, WatchdogOpen, Stopped
  <2>10. Account' BY <1>1, <1>3, <2>5, <2>6 DEF Account, WatchdogOpen, Stopped
  <2>11. NoEarlyReset' BY <1>3 DEF NoEarlyReset, WatchdogOpen
  <2> QED BY <2>7, <2>8, <2>9, <2>10, <2>11
<1>4. ASSUME NEW t \in Task, NEW u \in Task, Share(t, u) PROVE Inv'
  <2>1. UNCHANGED <<nowayout, current, timeout, isOpen, expectClose, writing, wdt, fired,
                    since, magic, asked, overridden, moved>>
    BY <1>4 DEF Share, history
  <2>2. holders' = holders \cup {u} /\ holders # {} BY <1>4 DEF Share
  <2> QED BY <2>1, <2>2 DEF TypeOK, Remembered, RunsUnlessAsked, Account, NoEarlyReset, Stopped
<1>5. ASSUME NEW t \in Task,
             \/ WriteBegin(t) /\ writing' = writing \cup {t} /\ t \in holders
             \/ WriteMagic(t) /\ writing' = writing /\ isOpen
             \/ WriteFault(t) /\ writing' = writing \ {t}
      PROVE  Inv'
  <2>1. UNCHANGED <<nowayout, current, timeout, isOpen, holders, wdt, fired, since, asked,
                    overridden, moved>>
    BY <1>5 DEF WriteBegin, WriteMagic, WriteFault, history
  <2>2. \/ expectClose' = FALSE /\ magic' = FALSE
        \/ expectClose' = TRUE /\ magic' = TRUE /\ isOpen
        \/ expectClose' = expectClose /\ magic' = magic
    BY <1>5 DEF WriteBegin, WriteMagic, WriteFault, history
  <2>3. writing' \subseteq holders BY <1>5 DEF TypeOK
  <2>4. TypeOK' BY <2>1, <2>2, <2>3 DEF TypeOK
  <2>5. Remembered' BY <2>1, <2>2 DEF Remembered
  <2> QED BY <2>1, <2>4, <2>5 DEF RunsUnlessAsked, Account, NoEarlyReset, Stopped
<1>6. ASSUME NEW t \in Task, WriteEnd(t) \/ KeepAlive(t) PROVE Inv'
  <2>1. /\ wdt' = Count(wdt) /\ since' = 0 /\ ~fired /\ writing' \subseteq writing
        /\ UNCHANGED <<nowayout, current, timeout, isOpen, expectClose, holders, fired, magic,
                       asked, overridden, moved>>
    BY <1>6 DEF WriteEnd, KeepAlive, Idle
  <2>2. /\ Count(wdt) \in [Device -> Register]
        /\ \A d \in Device : Count(wdt)[d].enabled = wdt[d].enabled
    BY <1>1, CountLeaves
  <2>3. TypeOK' BY <1>1, <2>1, <2>2 DEF TypeOK
  <2>4. Remembered' /\ NoEarlyReset' BY <2>1 DEF Remembered, NoEarlyReset
  <2>5. RunsUnlessAsked' BY <2>1, <2>2 DEF RunsUnlessAsked, Stopped
  <2>6. (isOpen \/ ~Stopped) /\ ~moved /\ timeout < Wrap =>
          Count(wdt)[current].value = timeout /\ Count(wdt)[current].counter = timeout
    BY <1>1, CountLeaves DEF Account, Remembered
  <2>7. Account' BY <1>1, <2>1, <2>6 DEF Account, Stopped
  <2> QED BY <2>3, <2>4, <2>5, <2>7
<1>7. ASSUME NEW t \in Task, NEW seconds \in Timeout, SetTimeout(t, seconds) PROVE Inv'
  <2> DEFINE v == SetValue(wdt, seconds)
  <2>1. v \in [Device -> Register] BY <1>1, SetValueLeaves
  <2>2. \A d \in Device : v[d].enabled = wdt[d].enabled BY <1>1, SetValueLeaves
  <2>3. \A d \in Device : d = current => v[d].value = seconds % Wrap BY <1>1, SetValueLeaves
  <2> HIDE DEF v
  <2>4. /\ Count(v) \in [Device -> Register]
        /\ \A d \in Device : Count(v)[d].enabled = v[d].enabled
    BY <2>1, CountLeaves
  <2>5. ~moved => (seconds < Wrap => v[current].value = seconds)
    BY <2>3, Constants DEF Remembered
  <2>6. ~moved /\ seconds < Wrap => /\ Count(v)[current].value = seconds
                                    /\ Count(v)[current].counter = seconds
    BY <2>1, <2>5, Patted
  <2>7. /\ wdt' = Count(v) /\ timeout' = seconds /\ since' = 0 /\ ~fired
        /\ UNCHANGED <<nowayout, current, isOpen, expectClose, holders, writing, fired, magic,
                       asked, overridden, moved>>
    BY <1>7 DEF SetTimeout, Idle, v
  <2>8. TypeOK' BY <1>1, <2>4, <2>7 DEF TypeOK
  <2>9. Remembered' /\ NoEarlyReset' BY <2>7 DEF Remembered, NoEarlyReset
  <2>10. RunsUnlessAsked' BY <2>2, <2>4, <2>7 DEF RunsUnlessAsked, Stopped
  <2>11. seconds \in Nat BY Constants
  <2>12. Account' BY <2>6, <2>7, <2>11 DEF Account, Stopped
  <2> QED BY <2>8, <2>9, <2>10, <2>12
<1>8. ASSUME NEW t \in Task, NEW disable \in BOOLEAN, NEW enable \in BOOLEAN,
             SetOptions(t, disable, enable)
      PROVE  Inv'
  <2>1. ~fired /\ asked' \in BOOLEAN /\ overridden' \in BOOLEAN
        /\ UNCHANGED <<nowayout, current, timeout, isOpen, expectClose, holders, writing, fired,
                       since, magic, moved>>
    BY <1>8 DEF SetOptions, Idle, TypeOK
  <2>2. Remembered' /\ NoEarlyReset' BY <2>1 DEF Remembered, NoEarlyReset
  <2>3. isOpen BY <1>8 DEF SetOptions, Idle, TypeOK
  <2>4. ASSUME wdt' \in [Device -> Register],
               \A d \in Device : /\ wdt'[d].value = wdt[d].value
                                 /\ wdt'[d].counter = wdt[d].counter,
               \A d \in Device : wdt'[d].enabled <=>
                  IF d = current /\ enable THEN TRUE
                  ELSE IF d = current /\ disable THEN FALSE ELSE wdt[d].enabled
        PROVE  Inv'
    <3>1. TypeOK' BY <2>1, <2>4 DEF TypeOK
    <3>2. Stopped' <=> ~enable /\ (Stopped \/ disable)
      BY <1>8 DEF SetOptions, Stopped, TypeOK
    <3>3. RunsUnlessAsked' BY <2>1, <2>4, <3>2 DEF RunsUnlessAsked
    <3>4. Account' BY <2>1, <2>3, <2>4 DEF Account, Remembered
    <3> QED BY <2>2, <3>1, <3>3, <3>4
  <2> DEFINE off == IF disable THEN Disable(wdt) ELSE wdt
  <2>5. /\ off \in [Device -> Register]
        /\ \A d \in Device : /\ off[d].value = wdt[d].value
                             /\ off[d].counter = wdt[d].counter
                             /\ off[d].enabled = IF d = current /\ disable THEN FALSE
                                                 ELSE wdt[d].enabled
    BY <1>1, DisableLeaves
  <2>6. wdt' = IF enable THEN Enable(off) ELSE off BY <1>8 DEF SetOptions
  <2> HIDE DEF off
  <2>7. CASE enable
    <3>1. /\ Enable(off) \in [Device -> Register]
          /\ \A d \in Device : /\ Enable(off)[d].value = off[d].value
                               /\ Enable(off)[d].counter = off[d].counter
                               /\ Enable(off)[d].enabled = IF d = current THEN TRUE
                                                           ELSE off[d].enabled
      BY <2>5, EnableLeaves
    <3> QED BY <2>4, <2>5, <2>6, <2>7, <3>1
  <2>8. CASE ~enable BY <2>4, <2>5, <2>6, <2>8
  <2> QED BY <2>7, <2>8
<1>9. ASSUME NEW t \in Task, Close(t) PROVE Inv'
  <2>1. /\ ~fired /\ t \in holders /\ t \notin writing /\ holders' = holders \ {t}
        /\ UNCHANGED <<nowayout, current, timeout, writing, fired, since, magic, overridden,
                       moved>>
    BY <1>9 DEF Close, Idle
  <2>2. NoEarlyReset' BY <2>1 DEF NoEarlyReset
  <2>3. CASE holders = {t} /\ WatchdogClose
    <3>1. /\ ~isOpen' /\ ~expectClose' /\ isOpen' \in BOOLEAN /\ expectClose' \in BOOLEAN
          /\ asked' = (asked \/ (~nowayout /\ magic))
          /\ wdt' = IF ~nowayout /\ expectClose THEN Disable(wdt) ELSE wdt
      BY <2>3 DEF WatchdogClose
    <3>2. isOpen /\ (magic <=> expectClose) BY <2>1 DEF TypeOK, Remembered
    <3>3. /\ Disable(wdt) \in [Device -> Register]
          /\ \A d \in Device :
               Disable(wdt)[d].enabled = IF d = current THEN FALSE ELSE wdt[d].enabled
      BY <1>1, DisableLeaves
    <3>4. TypeOK' BY <1>1, <2>1, <2>3, <3>1, <3>3 DEF TypeOK
    <3>5. Remembered' BY <2>1, <3>1 DEF Remembered
    <3>6. CASE ~nowayout /\ expectClose
      <4>1. Stopped' /\ wdt' = Disable(wdt) BY <3>1, <3>2, <3>6 DEF Stopped
      <4>2. RunsUnlessAsked' BY <2>1, <3>3, <4>1 DEF RunsUnlessAsked
      <4>3. Account' BY <3>1, <4>1 DEF Account
      <4> QED BY <2>2, <3>4, <3>5, <4>2, <4>3
    <3>7. CASE nowayout \/ ~expectClose
      <4>1. (Stopped' <=> Stopped) /\ wdt' = wdt BY <2>1, <3>1, <3>2, <3>7 DEF Stopped
      <4>2. RunsUnlessAsked' BY <2>1, <4>1 DEF RunsUnlessAsked
      <4>3. Account' BY <2>1, <3>2, <4>1 DEF Account
      <4> QED BY <2>2, <3>4, <3>5, <4>2, <4>3
    <3> QED BY <3>6, <3>7
  <2>4. CASE holders # {t} /\ UNCHANGED <<wdt, asked, isOpen, expectClose>>
    <3>1. TypeOK' BY <2>1, <2>4 DEF TypeOK
    <3> QED BY <2>1, <2>2, <2>4, <3>1 DEF Remembered, RunsUnlessAsked, Account, Stopped
  <2> QED BY <1>9, <2>3, <2>4 DEF Close
<1>10. ASSUME NEW n \in Selectable, Select(n) PROVE Inv'
  <2>1. /\ ~fired /\ current' = n
        /\ UNCHANGED <<nowayout, timeout, isOpen, expectClose, holders, writing, wdt, fired,
                       since, magic, asked, overridden>>
    BY <1>10 DEF Select
  <2>2. /\ ~moved' => ~moved /\ n \in Device
        /\ ~moved' /\ n # current => ~isOpen /\ \A d \in Device : ~wdt[d].enabled
        /\ moved' \in BOOLEAN
    BY <1>10 DEF Select
  <2>3. TypeOK' BY <2>1, <2>2 DEF TypeOK
  <2>4. Remembered' /\ NoEarlyReset' BY <2>1, <2>2 DEF Remembered, NoEarlyReset
  <2>5. ~moved' /\ n # current => ~isOpen /\ Stopped
    BY <2>2 DEF RunsUnlessAsked, Remembered
  <2>6. RunsUnlessAsked' BY <2>1, <2>2, <2>5 DEF RunsUnlessAsked, Stopped
  <2>7. Account' BY <2>1, <2>2, <2>5 DEF Account, Stopped
  <2> QED BY <2>3, <2>4, <2>6, <2>7
<1>11. CASE Tick
  <2> DEFINE w == [d \in Device |->
                     IF wdt[d].enabled /\ wdt[d].counter > 0
                     THEN [wdt[d] EXCEPT !.counter = wdt[d].counter - 1] ELSE wdt[d]]
  <2>1. /\ ~fired /\ wdt' = w
        /\ fired' = \E d \in Device : wdt[d].enabled /\ wdt[d].counter <= 1
        /\ since' = IF since < Wrap THEN since + 1 ELSE since
        /\ UNCHANGED <<nowayout, current, timeout, isOpen, expectClose, holders, writing, magic,
                       asked, overridden, moved>>
    BY <1>11 DEF Tick, Patience
  <2>2. ASSUME NEW d \in Device
        PROVE  /\ w[d] \in Register /\ w[d].enabled = wdt[d].enabled
               /\ w[d].value = wdt[d].value
               /\ w[d].counter = wdt[d].counter \/ w[d].counter = wdt[d].counter - 1
    <3>1. /\ wdt[d] \in Register /\ wdt[d].counter \in 0..(Wrap - 1)
          /\ w[d] = IF wdt[d].enabled /\ wdt[d].counter > 0
                    THEN [wdt[d] EXCEPT !.counter = wdt[d].counter - 1] ELSE wdt[d]
      BY <1>1 DEF Register
    <3>2. CASE wdt[d].enabled /\ wdt[d].counter > 0
      <4>1. wdt[d].counter - 1 \in 0..(Wrap - 1) BY <1>1, <3>1, <3>2
      <4> QED BY <3>1, <3>2, <4>1 DEF Register
    <3> QED BY <3>1, <3>2
  <2>3. w \in [Device -> Register] BY <2>2
  <2> HIDE DEF w
  <2>4. since' \in 0..Patience BY <1>1, <2>1, SMT DEF Patience
  <2>5. TypeOK' BY <2>1, <2>3, <2>4 DEF TypeOK
  <2>6. Remembered' BY <2>1 DEF Remembered
  <2>7. RunsUnlessAsked' BY <2>1, <2>2 DEF RunsUnlessAsked, Stopped
  <2>8. ASSUME isOpen \/ ~Stopped, ~moved, timeout < Wrap
        PROVE  /\ w[current].value = timeout /\ w[current].counter + since' >= timeout
               /\ fired' => since' >= timeout
    <3>1. /\ current \in Device /\ wdt[current].value = timeout
          /\ wdt[current].counter + since >= timeout
      BY <2>8 DEF Account, Remembered
    <3>2. wdt[current].counter \in Nat /\ wdt[current].counter <= 1 => since' >= timeout
      BY <1>1, <2>1, <2>8, <3>1
    <3>3. fired' => wdt[current].counter <= 1 BY <2>1, <2>8 DEF RunsUnlessAsked
    <3>4. w[current].counter + since' >= timeout
      BY <1>1, <2>1, <2>2, <2>8, <3>1
    <3> QED BY <1>1, <2>2, <3>1, <3>2, <3>3, <3>4
  <2>9. Account' BY <2>1, <2>8 DEF Account, Stopped
  <2>10. fired' /\ ~moved => isOpen \/ ~Stopped BY <2>1 DEF RunsUnlessAsked
  <2>11. NoEarlyReset' BY <2>1, <2>8, <2>10 DEF NoEarlyReset
  <2> QED BY <2>5, <2>6, <2>7, <2>9, <2>11
<1>12. CASE UNCHANGED vars
  BY <1>12 DEF vars, history, TypeOK, Remembered, RunsUnlessAsked, Account, NoEarlyReset, Stopped
<1>13. ASSUME NEW t \in Task, WriteBegin(t) \/ WriteMagic(t) \/ WriteFault(t) PROVE Inv'
  <2>1. CASE WriteBegin(t) BY <1>5, <2>1 DEF WriteBegin, Idle
  <2>2. CASE WriteMagic(t) BY <1>5, <2>2 DEF WriteMagic, TypeOK
  <2>3. CASE WriteFault(t) BY <1>5, <2>3 DEF WriteFault
  <2> QED BY <1>13, <2>1, <2>2, <2>3
<1> QED
  BY <1>3, <1>4, <1>6, <1>7, <1>8, <1>9, <1>10, <1>11, <1>12, <1>13 DEF Next

(* The invariant holds at all times.                                       *)
LEMMA InvHolds == Spec => []Inv
BY InitInv, StepInv, PTL DEF Spec

(* Every variable keeps its type, and the device is open exactly as long   *)
(* as a task holds it (watchdog_is_open).                                  *)
THEOREM TypeCorrect == Spec => []TypeOK
<1>1. Inv => TypeOK BY DEF Inv
<1> QED BY <1>1, InvHolds, PTL

(* The watchdog runs exactly until a magic close, which nowayout forbids,  *)
(* or WDIOC_SETOPTIONS, which ignores it, stops it (watchdog_close,        *)
(* watchdog_ioctlUnlocked).                                                *)
THEOREM RunsUntilAsked == Spec => []RunsUnlessAsked
<1>1. Inv => RunsUnlessAsked BY DEF Inv
<1> QED BY <1>1, InvHolds, PTL

(* Whoever opens, closes, stops and restarts it, the watchdog gives the    *)
(* whole timeout after each pat (watchdog_open, watchdog_ioctlUnlocked).   *)
THEOREM PatienceKept == Spec => []NoEarlyReset
<1>1. Inv => NoEarlyReset BY DEF Inv
<1> QED BY <1>1, InvHolds, PTL
====
