---- MODULE DriverHal ----
(***************************************************************************)
(* The driver HAL of helper-src/driver_hal.c for one device type: a core   *)
(* module (kcs, bt, reset, ...), the hardware modules registered under it, *)
(* the minors they are given, and the files opened on those minors.  Types *)
(* share only the list of cores, which every call searches for its own.    *)
(*                                                                         *)
(* core_hal_list_mlock makes each call one step, but for the interrupt     *)
(* handlers: hw_intr takes the spin lock alone, so it may run between the  *)
(* two halves of unregister_hw_hal_module.                                 *)
(*                                                                         *)
(* A call that fails before the core's register_hal_module (no memory, no  *)
(* core, no room for the minors) leaves everything as it was and is not an *)
(* action; one that fails behind it is RegisterHwFails.                    *)
(***************************************************************************)
EXTENDS Integers, FiniteSets, SequencesExt

CONSTANTS
  Hw,          \* hardware modules of the type
  Instances,   \* num_instances of each
  Linked,      \* those that refer to a symbol of the core (kcs_core_loaded ...)
  MaxDev,      \* MAX_DEV_INSTANCES
  CountMod,    \* an open count is a byte: 256 in the code
  Files,       \* file descriptions that may be open at a time
  NoFile, NoHw \* no open file, nobody in unregister_hw_hal_module

ASSUME ConstantsAssumption ==
  /\ Instances \in [Hw -> Nat \ {0}] /\ Linked \subseteq Hw
  /\ MaxDev \in Nat /\ CountMod \in Nat \ {0}
  /\ NoHw \notin Hw /\ NoFile \notin [minor : 0..MaxDev, hw : Hw]
  /\ IsFiniteSet(Hw) /\ IsFiniteSet(Files)

VARIABLES
  core,      \* "in" core_hal_list, "going" (its exit has begun, but it is listed), or "out"
  coreRefs,  \* references the HAL holds on the core module
  hwList,    \* the core's hw_list
  stage,     \* of each hardware module: how far its init or exit has come
  devId,     \* the dev_id that each was given, and gives back
  refs,      \* references on each hardware module
  live,      \* whose private data (pdrv_data) is allocated
  lost,      \* whose private data a registration that failed has left allocated
  freeing,   \* the module whose private data is freed but which is still listed
  file,      \* open files: the minor, and the module whose data the file holds
  orphaned,  \* history: a module failed its init with files open on it
  overlapped \* history: a module was given a minor of another

history == <<orphaned, overlapped>>
vars == <<core, coreRefs, hwList, stage, devId, refs, live, lost, freeing, file, history>>

Stages == {"out", "registered", "running", "quiet", "failed"}
Entry(m, minor) ==
  [hw |-> m, minor |-> minor, count |-> [i \in 0..(Instances[m] - 1) |-> 0]]
Minors(e) == e.minor..(e.minor + Instances[e.hw] - 1)

Init ==
  /\ core = "out" /\ coreRefs = 0 /\ hwList = <<>>
  /\ stage = [m \in Hw |-> "out"] /\ devId = [m \in Hw |-> 0] /\ refs = [m \in Hw |-> 0]
  /\ live = {} /\ lost = {} /\ freeing = NoHw
  /\ file = [f \in Files |-> NoFile] /\ orphaned = FALSE /\ overlapped = FALSE

Unlocked == freeing = NoHw
OpenFiles == {f \in Files : file[f] # NoFile}
FilesOf(m) == {f \in OpenFiles : file[f].hw = m}

----------------------------------------------------------------------------
(* The core module.                                                        *)

RegisterCore ==
  /\ Unlocked /\ core = "out"
  /\ core' = "in"
  /\ UNCHANGED <<coreRefs, hwList, stage, devId, refs, live, lost, freeing, file, history>>

(* rmmod of the core: the kernel lets its exit begin when nothing refers   *)
(* to it: no reference of the HAL, no hardware module linked to its        *)
(* symbols, no open device file.                                           *)
CoreExit ==
  /\ core = "in" /\ coreRefs = 0 /\ OpenFiles = {}
  /\ \A m \in Linked : stage[m] = "out"
  /\ core' = "going"
  /\ UNCHANGED <<coreRefs, hwList, stage, devId, refs, live, lost, freeing, file, history>>

UnregisterCore ==
  /\ Unlocked /\ core = "going"
  /\ hwList = <<>>
  /\ core' = "out"
  /\ UNCHANGED <<coreRefs, hwList, stage, devId, refs, live, lost, freeing, file, history>>

----------------------------------------------------------------------------
(* Minors.  register_hw_hal_module walks hw_list, newest entry first, and  *)
(* stops at the first entry that leaves a gap of n minors before it.       *)

EndOf(e) == e.minor + Instances[e.hw]
(* last_mnum when the walk reaches entry i.                                *)
LastMinor(i) == IF i = 1 THEN 0 ELSE EndOf(hwList[i - 1])
GapBefore(i, n) == hwList[i].minor - LastMinor(i) >= n
Gaps(n) == {i \in DOMAIN hwList : GapBefore(i, n)}
GapAt(n) == IF Gaps(n) = {} THEN 0 ELSE Min(Gaps(n))

(* Mutant of FirstMinor: the walk forgets how long the last entry is.      *)
FirstMinorShort(n) ==
  IF GapAt(n) # 0 THEN LastMinor(GapAt(n))
  ELSE IF hwList = <<>> THEN 0 ELSE Last(hwList).minor + 1

FirstMinor(n) ==
  IF GapAt(n) = 0 THEN LastMinor(Len(hwList) + 1) ELSE LastMinor(GapAt(n))

(* The minors the walk finds are not all free.                             *)
Overlaps(m) ==
  \E i \in DOMAIN hwList :
    Minors(hwList[i]) \cap Minors(Entry(m, FirstMinor(Instances[m]))) # {}

(* A hardware module that is not linked to the core can be loaded at any   *)
(* time.                                                                   *)
Registers(m) ==
  /\ Unlocked /\ stage[m] = "out"
  /\ FirstMinor(Instances[m]) + Instances[m] <= MaxDev

(* list_add puts the new entry behind the one that follows the gap, or at  *)
(* the head of the list.                                                   *)
RegisterHw(m) ==
  /\ core = "in" /\ Registers(m)
  /\ hwList' = InsertAt(hwList, GapAt(Instances[m]) + 1, Entry(m, FirstMinor(Instances[m])))
  /\ live' = live \cup {m}
  /\ coreRefs' = coreRefs + 1
  /\ stage' = [stage EXCEPT ![m] = "registered"]
  /\ devId' = [devId EXCEPT ![m] = FirstMinor(Instances[m])]
  /\ overlapped' = (overlapped \/ Overlaps(m))
  /\ UNCHANGED <<core, refs, lost, freeing, file, orphaned>>

(* try_module_get fails on a core whose exit has begun; the private data   *)
(* that the core has already allocated stays.                              *)
RegisterHwFails(m) ==
  /\ core = "going" /\ m \notin Linked /\ Registers(m)
  /\ lost' = lost \cup {m}
  /\ UNCHANGED <<core, coreRefs, hwList, stage, devId, refs, live, freeing, file, history>>

(* The module's init goes on to request its interrupt.                     *)
RequestIrq(m) ==
  /\ stage[m] = "registered"
  /\ stage' = [stage EXCEPT ![m] = "running"]
  /\ UNCHANGED <<core, coreRefs, hwList, devId, refs, live, lost, freeing, file, history>>

RequestIrqFails(m) ==
  /\ stage[m] = "registered"
  /\ stage' = [stage EXCEPT ![m] = "failed"]
  /\ UNCHANGED <<core, coreRefs, hwList, devId, refs, live, lost, freeing, file, history>>

(* rmmod: the kernel lets the module's exit run when nothing refers to it, *)
(* and the exit frees the interrupt first.                                 *)
FreeIrq(m) ==
  /\ stage[m] = "running" /\ refs[m] = 0
  /\ stage' = [stage EXCEPT ![m] = "quiet"]
  /\ UNCHANGED <<core, coreRefs, hwList, devId, refs, live, lost, freeing, file, history>>

(* The entry that unregister_hw_hal_module and hw_intr find for a dev_id,  *)
(* which is the first minor of its module.                                 *)
Found(id) == SelectInSeq(hwList, LAMBDA e : e.minor = id)
FoundHw(id) == IF Found(id) = 0 THEN {} ELSE {hwList[Found(id)].hw}

(* Mutant of UnregisterFree: the exit unregisters before it frees the      *)
(* interrupt.                                                              *)
UnregisterFreeRunning(m) ==
  /\ Unlocked
  /\ \/ stage[m] \in {"quiet", "failed"}
     \/ stage[m] = "running" /\ refs[m] = 0
  /\ freeing' = m
  /\ live' = live \ FoundHw(devId[m])
  /\ orphaned' = (orphaned \/ (stage[m] = "failed" /\ FilesOf(m) # {}))
  /\ UNCHANGED <<core, coreRefs, hwList, stage, devId, refs, lost, file, overlapped>>

(* unregister_hw_hal_module frees the private data ...                     *)
UnregisterFree(m) ==
  /\ Unlocked /\ stage[m] \in {"quiet", "failed"}
  /\ freeing' = m
  /\ live' = live \ FoundHw(devId[m])
  /\ orphaned' = (orphaned \/ (stage[m] = "failed" /\ FilesOf(m) # {}))
  /\ UNCHANGED <<core, coreRefs, hwList, stage, devId, refs, lost, file, overlapped>>

(* ... and only then takes the entry off the list.                         *)
UnregisterUnlink(m) ==
  LET i == Found(devId[m]) IN
  /\ freeing = m
  /\ IF i = 0 THEN UNCHANGED <<hwList, coreRefs>>
     ELSE hwList' = RemoveAt(hwList, i) /\ coreRefs' = coreRefs - 1
  /\ stage' = [stage EXCEPT ![m] = "out"]
  /\ devId' = [devId EXCEPT ![m] = 0]
  /\ refs' = [refs EXCEPT ![m] = 0]
  /\ freeing' = NoHw
  /\ UNCHANGED <<core, live, lost, file, history>>

----------------------------------------------------------------------------
(* Opening and closing a minor.                                            *)

(* The entry that both hw_open and hw_close find for a minor, 0 if none.   *)
EntryOf(minor) == SelectInSeq(hwList, LAMBDA e : minor \in Minors(e))
Instance(i, minor) == minor - hwList[i].minor
(* Mutant of Count: the count is no byte.                                  *)
CountUnbounded(i, minor, delta) ==
  [hwList EXCEPT ![i].count[Instance(i, minor)] = @ + delta]
Count(i, minor, delta) ==
  [hwList EXCEPT ![i].count[Instance(i, minor)] = (@ + delta) % CountMod]

(* Mutant of HwOpen: the module is not referenced.                         *)
HwOpenNoGet(f, minor) ==
  /\ Unlocked /\ file[f] = NoFile
  /\ LET i == EntryOf(minor) IN
     /\ i # 0
     /\ stage[hwList[i].hw] # "quiet"
     /\ hwList' = Count(i, minor, 1)
     /\ file' = [file EXCEPT ![f] = [minor |-> minor, hw |-> hwList[i].hw]]
  /\ UNCHANGED <<core, coreRefs, refs, stage, devId, live, lost, freeing, history>>

(* try_module_get fails on a module whose exit has begun, not on one       *)
(* whose init still runs or is failing.                                    *)
HwOpen(f, minor) ==
  /\ Unlocked /\ file[f] = NoFile
  /\ LET i == EntryOf(minor) IN
     /\ i # 0
     /\ stage[hwList[i].hw] # "quiet"
     /\ refs' = [refs EXCEPT ![hwList[i].hw] = @ + 1]
     /\ hwList' = Count(i, minor, 1)
     /\ file' = [file EXCEPT ![f] = [minor |-> minor, hw |-> hwList[i].hw]]
  /\ UNCHANGED <<core, coreRefs, stage, devId, live, lost, freeing, history>>

HwClose(f) ==
  /\ Unlocked /\ file[f] # NoFile
  /\ LET i == EntryOf(file[f].minor) IN
     IF i = 0 THEN UNCHANGED <<refs, hwList>>
     ELSE /\ refs' = [refs EXCEPT ![hwList[i].hw] = @ - 1]
          /\ hwList' = Count(i, file[f].minor, -1)
  /\ file' = [file EXCEPT ![f] = NoFile]
  /\ UNCHANGED <<core, coreRefs, stage, devId, live, lost, freeing, history>>

Next ==
  \/ RegisterCore \/ CoreExit \/ UnregisterCore
  \/ \E m \in Hw : RegisterHw(m) \/ RegisterHwFails(m)
  \/ \E m \in Hw : RequestIrq(m) \/ RequestIrqFails(m) \/ FreeIrq(m)
  \/ \E m \in Hw : UnregisterFree(m) \/ UnregisterUnlink(m)
  \/ \E f \in Files : HwClose(f) \/ \E minor \in 0..(MaxDev - 1) : HwOpen(f, minor)

Spec == Init /\ [][Next]_vars

----------------------------------------------------------------------------
(* Properties.                                                             *)

TypeOK ==
  /\ core \in {"out", "in", "going"} /\ coreRefs \in Nat
  /\ orphaned \in BOOLEAN /\ overlapped \in BOOLEAN
  /\ hwList \in Seq([hw : Hw, minor : 0..MaxDev, count : UNION {[0..(Instances[m] - 1) -> 0..(CountMod - 1)] : m \in Hw}])
  /\ stage \in [Hw -> Stages] /\ devId \in [Hw -> 0..MaxDev] /\ refs \in [Hw -> Int]
  /\ live \in SUBSET Hw /\ lost \in SUBSET Hw /\ freeing \in Hw \cup {NoHw}
  /\ file \in [Files -> [minor : 0..MaxDev, hw : Hw] \cup {NoFile}]

(* The list is in the order of the minors.                                 *)
Sorted == \A i, j \in DOMAIN hwList : i < j => EndOf(hwList[i]) <= hwList[j].minor

(* register_hw_hal_module gives away a minor that is taken only when the   *)
(* list is not in the order of the minors.  (list_add does not keep it in  *)
(* that order, and from the third module on that happens: overlapped.)     *)
SortedWalkFindsFree == [][overlapped' # overlapped => ~Sorted]_vars

(* The counts hw_open and hw_close report are those of the open files, so  *)
(* the drivers initialise on the first open and clean up on the last; a    *)
(* module has as many references as open files; and the core has one for   *)
(* each module listed under it.  The first two hold unless minors overlap  *)
(* or a module failed its init with files open on it.                      *)
OpenCountsRight ==
  /\ coreRefs = Len(hwList)
  /\ ~orphaned /\ ~overlapped =>
       /\ \A i \in DOMAIN hwList : \A minor \in Minors(hwList[i]) :
            hwList[i].count[Instance(i, minor)] =
              Cardinality({f \in OpenFiles : file[f].minor = minor}) % CountMod
       /\ \A m \in Hw : refs[m] = Cardinality(FilesOf(m))

(* Nothing is freed that is in use.  A core stays in as long as a module   *)
(* is listed under it or a device file is open.  Unless minors overlap:    *)
(* it stays in for every module that has registered; the private data      *)
(* behind an open file stays, unless the module failed its init with the   *)
(* file already open; and so does what hw_intr, which takes no mutex,      *)
(* finds for the dev_id of a module whose interrupt is requested, which is *)
(* that module's own.                                                      *)
NothingFreedInUse ==
  /\ hwList # <<>> \/ OpenFiles # {} => core = "in"
  /\ ~overlapped =>
       /\ \A m \in Hw : stage[m] # "out" => core = "in"
       /\ ~orphaned => \A f \in OpenFiles : file[f].hw \in live
       /\ \A m \in Hw : stage[m] = "running" =>
            FoundHw(devId[m]) = {m} /\ m \in live
====
