---- MODULE DriverHalProofs ----
(***************************************************************************)
(* Theorems about DriverHal, for any number of hardware modules, minors    *)
(* and files.  The states are well typed; the core is referenced once for  *)
(* each entry of its list and outlives them all; and the walk of           *)
(* register_hw_hal_module finds free minors in a list that is in their     *)
(* order.  As long as no minor has been given twice, open counts and       *)
(* references are those of the open files, and nothing is freed that is in *)
(* use.                                                                    *)
(***************************************************************************)
EXTENDS DriverHal, FiniteSetTheorems, SequenceTheorems, WellFoundedInduction, TLAPS

EntryRec ==
  {e \in [hw : Hw, minor : 0..MaxDev, count : UNION {[0..(Instances[m] - 1) -> 0..(CountMod - 1)] : m \in Hw}] :
     /\ e.minor + Instances[e.hw] <= MaxDev
     /\ e.count \in [0..(Instances[e.hw] - 1) -> 0..(CountMod - 1)]}
FileRec == [minor : 0..MaxDev, hw : Hw]

(* What each variable is made of; a file's minor is one it was opened on.  *)
ListInv == hwList \in Seq(EntryRec) /\ coreRefs = Len(hwList)
ModuleInv == stage \in [Hw -> Stages] /\ devId \in [Hw -> 0..MaxDev] /\ refs \in [Hw -> Int]
RestInv ==
  /\ core \in {"out", "in", "going"} /\ orphaned \in BOOLEAN /\ overlapped \in BOOLEAN
  /\ live \in SUBSET Hw /\ lost \in SUBSET Hw /\ freeing \in Hw \cup {NoHw}
FileInv == file \in [Files -> FileRec \cup {NoFile}]
TypeInv == ListInv /\ ModuleInv /\ RestInv /\ FileInv

----------------------------------------------------------------------------
(* What the operators return.                                              *)

(* The constants as the provers need them.                                 *)
LEMMA Constants ==
  /\ \A m \in Hw : Instances[m] \in Nat /\ Instances[m] > 0
  /\ MaxDev \in Nat /\ CountMod \in Nat /\ CountMod > 0
  /\ NoHw \notin Hw /\ NoFile \notin FileRec /\ IsFiniteSet(Hw) /\ IsFiniteSet(Files)
BY ConstantsAssumption DEF FileRec

(* A set of positions that is not empty has a smallest one.                *)
LEMMA MinIn ==
  ASSUME NEW n \in Nat, NEW I \in SUBSET (1..n), I # {}
  PROVE  Min(I) \in I
<1>1. I \subseteq Nat OBVIOUS
<1>2. OpToRel(<, Nat) = {p \in Nat \X Nat : p[1] < p[2]} BY DEF OpToRel
<1>3. \E x \in I : \A y \in I : ~(<<y, x>> \in OpToRel(<, Nat))
  BY <1>1, NatLessThanWellFounded, WFMin, Zenon
<1>4. \E x \in I : \A y \in I : x <= y
  <2>1. PICK x \in I : \A y \in I : ~(<<y, x>> \in {p \in Nat \X Nat : p[1] < p[2]})
    BY <1>2, <1>3
  <2>2. ASSUME NEW y \in I PROVE x <= y
    <3>1. x \in Nat /\ y \in Nat BY <1>1
    <3>2. ~(y < x) BY <2>1, <3>1
    <3> QED BY <3>1, <3>2
  <2> QED BY <2>2
<1> QED BY <1>4 DEF Min

(* The entry for a minor, as hw_open and hw_close find it.                 *)
LEMMA EntryOfFinds ==
  ASSUME NEW minor, hwList \in Seq(EntryRec)
  PROVE  /\ EntryOf(minor) \in 0..Len(hwList)
         /\ EntryOf(minor) # 0 => minor \in Minors(hwList[EntryOf(minor)])
         /\ EntryOf(minor) = 0 => \A i \in DOMAIN hwList : minor \notin Minors(hwList[i])
<1> DEFINE I == {i \in 1..Len(hwList) : minor \in Minors(hwList[i])}
<1>1. EntryOf(minor) = IF I # {} THEN Min(I) ELSE 0 BY DEF EntryOf, SelectInSeq
<1>2. I \in SUBSET (1..Len(hwList)) /\ Len(hwList) \in Nat /\ DOMAIN hwList = 1..Len(hwList)
  OBVIOUS
<1>3. CASE I = {}
  <2>1. EntryOf(minor) = 0 BY <1>1, <1>3
  <2> QED BY <2>1, <1>2, <1>3
<1>4. CASE I # {}
  <2>1. Min(I) \in I BY <1>2, <1>4, MinIn
  <2>2. EntryOf(minor) \in I BY <1>1, <1>4, <2>1
  <2> QED BY <2>2, <1>2
<1> QED BY <1>3, <1>4

(* The entry for a dev_id, as unregister_hw_hal_module and hw_intr find it.*)
LEMMA FoundFinds ==
  ASSUME NEW id, hwList \in Seq(EntryRec)
  PROVE  /\ Found(id) \in 0..Len(hwList)
         /\ Found(id) # 0 => hwList[Found(id)].minor = id
         /\ Found(id) = 0 => \A i \in DOMAIN hwList : hwList[i].minor # id
<1> DEFINE I == {i \in 1..Len(hwList) : hwList[i].minor = id}
<1>1. Found(id) = IF I # {} THEN Min(I) ELSE 0 BY DEF Found, SelectInSeq
<1>2. I \in SUBSET (1..Len(hwList)) /\ Len(hwList) \in Nat /\ DOMAIN hwList = 1..Len(hwList)
  OBVIOUS
<1>3. CASE I = {}
  <2>1. Found(id) = 0 BY <1>1, <1>3
  <2> QED BY <2>1, <1>2, <1>3
<1>4. CASE I # {}
  <2>1. Min(I) \in I BY <1>2, <1>4, MinIn
  <2>2. Found(id) \in I BY <1>1, <1>4, <2>1
  <2> QED BY <2>2, <1>2
<1> QED BY <1>3, <1>4

(* The entry before which the walk stops leaves the gap asked for.         *)
LEMMA GapAtFinds ==
  ASSUME NEW n, hwList \in Seq(EntryRec)
  PROVE  /\ GapAt(n) \in 0..Len(hwList)
         /\ GapAt(n) # 0 => GapBefore(GapAt(n), n)
         /\ GapAt(n) = 0 => \A i \in DOMAIN hwList : ~GapBefore(i, n)
<1>1. DOMAIN hwList = 1..Len(hwList) /\ Len(hwList) \in Nat OBVIOUS
<1>2. Gaps(n) \in SUBSET (1..Len(hwList)) BY <1>1 DEF Gaps
<1>3. CASE Gaps(n) = {}
  <2>1. GapAt(n) = 0 BY <1>3 DEF GapAt
  <2> QED BY <2>1, <1>1, <1>3 DEF Gaps
<1>4. CASE Gaps(n) # {}
  <2>1. Min(Gaps(n)) \in Gaps(n) BY <1>1, <1>2, <1>4, MinIn
  <2>2. GapAt(n) \in Gaps(n) BY <1>4, <2>1 DEF GapAt
  <2> QED BY <2>2, <1>1, <1>2 DEF Gaps
<1> QED BY <1>3, <1>4

(* An entry's fields.                                                      *)
LEMMA EntryFields ==
  ASSUME NEW e \in EntryRec
  PROVE  /\ e.hw \in Hw /\ e.minor \in 0..MaxDev /\ Instances[e.hw] \in Nat /\ Instances[e.hw] > 0
         /\ e.minor + Instances[e.hw] <= MaxDev
         /\ e.count \in [0..(Instances[e.hw] - 1) -> 0..(CountMod - 1)]
         /\ Minors(e) \subseteq 0..(MaxDev - 1) /\ e.minor \in Minors(e)
BY Constants DEF EntryRec, Minors

(* A new entry has all counts at 0 (register_hw_hal_module).               *)
LEMMA EntryType ==
  ASSUME NEW m \in Hw, NEW k \in 0..MaxDev, k + Instances[m] <= MaxDev
  PROVE  /\ Entry(m, k) \in EntryRec /\ Entry(m, k).hw = m /\ Entry(m, k).minor = k
         /\ \A i \in 0..(Instances[m] - 1) : Entry(m, k).count[i] = 0
<1> DEFINE c == [i \in 0..(Instances[m] - 1) |-> 0]
<1>1. c \in [0..(Instances[m] - 1) -> 0..(CountMod - 1)] BY Constants
<1> HIDE DEF c
<1>2. Entry(m, k) = [hw |-> m, minor |-> k, count |-> c] BY DEF Entry, c
<1>3. Entry(m, k) \in EntryRec BY <1>1, <1>2 DEF EntryRec
<1> QED BY <1>2, <1>3 DEF c

(* A list with one entry more.                                             *)
LEMMA Inserted ==
  ASSUME NEW s \in Seq(EntryRec), NEW i \in 1..(Len(s) + 1), NEW e \in EntryRec
  PROVE  /\ InsertAt(s, i, e) \in Seq(EntryRec) /\ Len(InsertAt(s, i, e)) = Len(s) + 1
         /\ \A j \in 1..(Len(s) + 1) :
              InsertAt(s, i, e)[j] = IF j < i THEN s[j] ELSE IF j = i THEN e ELSE s[j - 1]
<1>1. Len(s) \in Nat OBVIOUS
<1> DEFINE a == SubSeq(s, 1, i - 1)
           b == SubSeq(s, i, Len(s))
<1>2. a \in Seq(EntryRec) /\ Len(a) = i - 1 /\ \A j \in 1..(i - 1) : a[j] = s[j]
  BY <1>1, SubSeqProperties, ElementOfSeq
<1>3. b \in Seq(EntryRec) /\ Len(b) = Len(s) - i + 1
      /\ \A j \in 1..(Len(s) - i + 1) : b[j] = s[i + j - 1]
  BY <1>1, SubSeqProperties, ElementOfSeq
<1>4. InsertAt(s, i, e) = a \o <<e>> \o b BY DEF InsertAt
<1> HIDE DEF a, b
<1>5. <<e>> \in Seq(EntryRec) /\ Len(<<e>>) = 1 /\ <<e>>[1] = e OBVIOUS
<1> DEFINE c == a \o <<e>>
<1>6. c \in Seq(EntryRec) /\ Len(c) = i /\ \A j \in 1..i : c[j] = IF j < i THEN s[j] ELSE e
  <2>1. c \in Seq(EntryRec) /\ Len(c) = Len(a) + Len(<<e>>)
        /\ \A j \in 1..(Len(a) + Len(<<e>>)) :
             c[j] = IF j <= Len(a) THEN a[j] ELSE <<e>>[j - Len(a)]
    BY <1>2, <1>5, ConcatProperties
  <2> HIDE DEF c
  <2> QED BY <2>1, <1>1, <1>2, <1>5
<1> HIDE DEF c
<1>7. c \o b \in Seq(EntryRec) /\ Len(c \o b) = Len(c) + Len(b)
      /\ \A j \in 1..(Len(c) + Len(b)) :
           (c \o b)[j] = IF j <= Len(c) THEN c[j] ELSE b[j - Len(c)]
  BY <1>3, <1>6, ConcatProperties
<1>8. ASSUME NEW j \in 1..(Len(s) + 1)
      PROVE  (c \o b)[j] = IF j < i THEN s[j] ELSE IF j = i THEN e ELSE s[j - 1]
  <2>1. CASE j <= i BY <2>1, <1>1, <1>3, <1>6, <1>7
  <2>2. CASE j > i
    <3>1. j - i \in 1..(Len(s) - i + 1) /\ i + (j - i) - 1 = j - 1 BY <2>2, <1>1
    <3>2. (c \o b)[j] = b[j - i] BY <2>2, <1>1, <1>3, <1>6, <1>7
    <3>3. b[j - i] = s[j - 1] BY <3>1, <1>3
    <3> QED BY <2>2, <3>2, <3>3
  <2>3. j <= i \/ j > i BY <1>1
  <2> QED BY <2>1, <2>2, <2>3
<1>9. Len(c \o b) = Len(s) + 1 BY <1>1, <1>3, <1>6, <1>7
<1> QED BY <1>4, <1>7, <1>8, <1>9 DEF c

(* A list with one entry less.                                             *)
LEMMA Removed ==
  ASSUME NEW s \in Seq(EntryRec), NEW i \in 1..Len(s)
  PROVE  /\ RemoveAt(s, i) \in Seq(EntryRec) /\ Len(RemoveAt(s, i)) = Len(s) - 1
         /\ \A j \in 1..(Len(s) - 1) :
              RemoveAt(s, i)[j] = IF j < i THEN s[j] ELSE s[j + 1]
<1>1. Len(s) \in Nat OBVIOUS
<1> DEFINE a == SubSeq(s, 1, i - 1)
           b == SubSeq(s, i + 1, Len(s))
<1>2. a \in Seq(EntryRec) /\ Len(a) = i - 1 /\ \A j \in 1..(i - 1) : a[j] = s[j]
  BY <1>1, SubSeqProperties, ElementOfSeq
<1>3. b \in Seq(EntryRec) /\ Len(b) = Len(s) - i
      /\ \A j \in 1..(Len(s) - i) : b[j] = s[i + j]
  BY <1>1, SubSeqProperties, ElementOfSeq
<1>4. RemoveAt(s, i) = a \o b BY DEF RemoveAt
<1> HIDE DEF a, b
<1>0. a \o b \in Seq(EntryRec) /\ Len(a \o b) = Len(a) + Len(b)
      /\ \A j \in 1..(Len(a) + Len(b)) :
           (a \o b)[j] = IF j <= Len(a) THEN a[j] ELSE b[j - Len(a)]
  BY <1>2, <1>3, ConcatProperties
<1>5. a \o b \in Seq(EntryRec) /\ Len(a \o b) = Len(s) - 1 BY <1>0, <1>1, <1>2, <1>3
<1>6. ASSUME NEW j \in 1..(Len(s) - 1)
      PROVE  (a \o b)[j] = IF j < i THEN s[j] ELSE s[j + 1]
  <2>1. CASE j < i BY <2>1, <1>0, <1>1, <1>2, <1>3
  <2>2. CASE j >= i
    <3>1. j - i + 1 \in 1..(Len(s) - i) /\ i + (j - i + 1) = j + 1 BY <2>2, <1>1
    <3>2. (a \o b)[j] = b[j - i + 1] BY <2>2, <1>0, <1>1, <1>2, <1>3
    <3>3. b[j - i + 1] = s[j + 1] BY <3>1, <1>3
    <3>4. ~(j < i) BY <2>2, <1>1
    <3> QED BY <3>2, <3>3, <3>4
  <2>3. j < i \/ j >= i BY <1>1
  <2> QED BY <2>1, <2>2, <2>3
<1> QED BY <1>4, <1>5, <1>6

(* Counting a file in or out changes one count of one entry.               *)
LEMMA CountOne ==
  ASSUME hwList \in Seq(EntryRec), NEW i \in 1..Len(hwList), NEW minor \in Minors(hwList[i]),
         NEW delta \in {1, -1}
  PROVE  LET s == Count(i, minor, delta)
             k == minor - hwList[i].minor IN
         /\ s \in Seq(EntryRec) /\ Len(s) = Len(hwList)
         /\ \A j \in 1..Len(hwList) :
              /\ s[j].hw = hwList[j].hw /\ s[j].minor = hwList[j].minor
              /\ j # i => s[j] = hwList[j]
         /\ \A n \in 0..(Instances[hwList[i].hw] - 1) :
              s[i].count[n] = IF n = k THEN (hwList[i].count[n] + delta) % CountMod
                              ELSE hwList[i].count[n]
<1> DEFINE e == hwList[i]
           k == minor - e.minor
           c == [e.count EXCEPT ![k] = (@ + delta) % CountMod]
           d == [hw |-> e.hw, minor |-> e.minor, count |-> c]
<1>1. e \in EntryRec OBVIOUS
<1>2. /\ e.hw \in Hw /\ e.minor \in 0..MaxDev /\ Instances[e.hw] \in Nat
      /\ e.minor + Instances[e.hw] <= MaxDev
      /\ e.count \in [0..(Instances[e.hw] - 1) -> 0..(CountMod - 1)]
  BY <1>1, EntryFields
<1>3. k \in 0..(Instances[e.hw] - 1) BY <1>2 DEF Minors
<1>4. (e.count[k] + delta) % CountMod \in 0..(CountMod - 1)
  <2>1. e.count[k] \in 0..(CountMod - 1) BY <1>2, <1>3
  <2>2. e.count[k] + delta \in Int BY <2>1, Constants
  <2> HIDE DEF k, e
  <2> QED BY <2>2, Constants
<1>5. /\ c \in [0..(Instances[e.hw] - 1) -> 0..(CountMod - 1)]
      /\ \A n \in 0..(Instances[e.hw] - 1) :
           c[n] = IF n = k THEN (e.count[n] + delta) % CountMod ELSE e.count[n]
  <2> HIDE DEF k, e
  <2> QED BY <1>2, <1>3, <1>4
<1>6. e = [hw |-> e.hw, minor |-> e.minor, count |-> e.count] BY <1>1 DEF EntryRec
<1>7. Count(i, minor, delta) = [hwList EXCEPT ![i] = d]
  <2>1. Count(i, minor, delta) = [hwList EXCEPT ![i] = [e EXCEPT !.count = c]]
    BY DEF Count, Instance
  <2>2. [e EXCEPT !.count = c] = d
    <3> HIDE DEF c, e
    <3> QED BY <1>6
  <2> HIDE DEF d, c, e
  <2> QED BY <2>1, <2>2
<1>8. d \in EntryRec /\ d.hw = e.hw /\ d.minor = e.minor /\ d.count = c
  <2> HIDE DEF c, e
  <2> QED BY <1>2, <1>5 DEF EntryRec
<1> DEFINE s == Count(i, minor, delta)
<1>9. s \in Seq(EntryRec) /\ Len(s) = Len(hwList) /\ s[i] = d
      /\ \A j \in 1..Len(hwList) : j # i => s[j] = hwList[j]
  <2> HIDE DEF d
  <2> QED BY <1>7, <1>8
<1> HIDE DEF s, d, c
<1>10. \A j \in 1..Len(hwList) : s[j].hw = hwList[j].hw /\ s[j].minor = hwList[j].minor
  BY <1>8, <1>9
<1>11. \A n \in 0..(Instances[e.hw] - 1) :
         s[i].count[n] = IF n = k THEN (e.count[n] + delta) % CountMod ELSE e.count[n]
  BY <1>5, <1>8, <1>9
<1> QED BY <1>9, <1>10, <1>11 DEF s

(* Counts go round at 2^8, and come back the same way.                     *)
LEMMA Wraps ==
  ASSUME NEW n \in Nat
  PROVE  /\ ((n % CountMod) + 1) % CountMod = (n + 1) % CountMod
         /\ n > 0 => ((n % CountMod) - 1) % CountMod = (n - 1) % CountMod
<1> DEFINE M == CountMod
           r == n % M
           q == n \div M
<1>1. M \in Nat \ {0} BY Constants
<1> HIDE DEF M
<1>2. r \in 0..(M - 1) /\ q \in Int /\ n = M * q + r BY <1>1
<1>3. ASSUME NEW a \in Int, NEW b \in 0..(M - 1) PROVE (M * a + b) % M = b BY <1>1
<1>4. M % M = 0 /\ (-1) % M = M - 1
  <2>1. (M * 1 + 0) % M = 0 BY <1>1, <1>3
  <2>2. (M * (-1) + (M - 1)) % M = M - 1 BY <1>1, <1>3
  <2>3. M * 1 + 0 = M /\ M * (-1) + (M - 1) = -1 BY <1>1
  <2> QED BY <2>1, <2>2, <2>3
<1>5. \A b \in 0..(M - 1) : b % M = b BY <1>1
<1> HIDE DEF q, r
<1>6. (r + 1) % M = (n + 1) % M
  <2>1. CASE r + 1 < M
    <3>1. r + 1 \in 0..(M - 1) /\ n + 1 = M * q + (r + 1) BY <2>1, <1>1, <1>2
    <3> QED BY <3>1, <1>2, <1>3, <1>5
  <2>2. CASE r + 1 = M
    <3>1. n + 1 = M * (q + 1) + 0 BY <2>2, <1>1, <1>2
    <3>2. (M * (q + 1) + 0) % M = 0 BY <1>1, <1>2, <1>3
    <3> QED BY <2>2, <3>1, <3>2, <1>4
  <2> QED BY <2>1, <2>2, <1>1, <1>2
<1>7. (r - 1) % M = (n - 1) % M
  <2>1. CASE r > 0
    <3>1. r - 1 \in 0..(M - 1) /\ n - 1 = M * q + (r - 1) BY <2>1, <1>1, <1>2
    <3> QED BY <3>1, <1>2, <1>3, <1>5
  <2>2. CASE r = 0
    <3>1. n - 1 = M * (q - 1) + (M - 1) /\ r - 1 = -1 BY <2>2, <1>1, <1>2
    <3>2. (M * (q - 1) + (M - 1)) % M = M - 1 BY <1>1, <1>2, <1>3
    <3> QED BY <3>1, <3>2, <1>4
  <2> QED BY <2>1, <2>2, <1>1, <1>2
<1> QED BY <1>6, <1>7 DEF M, r

(* A hardware module that is given its minors (register_hw_hal_module).    *)
LEMMA RegisterHwList ==
  ASSUME TypeInv, NEW m \in Hw, RegisterHw(m)
  PROVE  /\ ListInv' /\ FirstMinor(Instances[m]) \in 0..MaxDev
         /\ FirstMinor(Instances[m]) + Instances[m] <= MaxDev
         /\ Len(hwList') = Len(hwList) + 1
         /\ LET i == GapAt(Instances[m]) + 1 IN
            /\ i \in 1..(Len(hwList) + 1)
            /\ \A j \in 1..(Len(hwList) + 1) :
                 hwList'[j] = IF j < i THEN hwList[j]
                              ELSE IF j = i THEN Entry(m, FirstMinor(Instances[m]))
                              ELSE hwList[j - 1]
<1> DEFINE n == Instances[m]
           i == GapAt(n)
           k == FirstMinor(n)
<1>1. hwList \in Seq(EntryRec) /\ coreRefs = Len(hwList) /\ Len(hwList) \in Nat
  BY DEF TypeInv, ListInv
<1>2. n \in Nat /\ n > 0 /\ MaxDev \in Nat BY Constants
<1>3. i \in 0..Len(hwList) BY <1>1, GapAtFinds
<1>4. \A j \in 1..(Len(hwList) + 1) : LastMinor(j) \in 0..MaxDev
  <2> TAKE j \in 1..(Len(hwList) + 1)
  <2>1. CASE j = 1 BY <2>1, <1>2 DEF LastMinor
  <2>2. CASE j # 1
    <3>1. j - 1 \in 1..Len(hwList) BY <2>2, <1>1
    <3>2. hwList[j - 1] \in EntryRec BY <3>1, <1>1, ElementOfSeq
    <3>3. EndOf(hwList[j - 1]) \in 0..MaxDev BY <3>2, <1>2, EntryFields DEF EndOf
    <3> QED BY <2>2, <3>3 DEF LastMinor
  <2> QED BY <2>1, <2>2
<1>5. k \in 0..MaxDev
  <2>1. CASE i = 0 BY <2>1, <1>1, <1>4 DEF FirstMinor
  <2>2. CASE i # 0
    <3>1. i \in 1..(Len(hwList) + 1) BY <2>2, <1>1, <1>3
    <3> QED BY <2>2, <3>1, <1>4 DEF FirstMinor
  <2> QED BY <2>1, <2>2
<1>6. k + n <= MaxDev /\ hwList' = InsertAt(hwList, i + 1, Entry(m, k)) /\ coreRefs' = coreRefs + 1
  BY DEF RegisterHw, Registers
<1> HIDE DEF k, i
<1>7. Entry(m, k) \in EntryRec BY <1>5, <1>6, EntryType
<1>8. i + 1 \in 1..(Len(hwList) + 1) BY <1>1, <1>3
<1> DEFINE e == Entry(m, k)
<1> HIDE DEF e, n
<1>9. /\ hwList' \in Seq(EntryRec) /\ Len(hwList') = Len(hwList) + 1
      /\ \A j \in 1..(Len(hwList) + 1) :
              hwList'[j] = IF j < i + 1 THEN hwList[j] ELSE IF j = i + 1 THEN e ELSE hwList[j - 1]
  <2> DEFINE l == i + 1
             s == InsertAt(hwList, l, e)
  <2>1. hwList' = s BY <1>6 DEF e
  <2>2. e \in EntryRec /\ l \in 1..(Len(hwList) + 1) BY <1>7, <1>8 DEF e
  <2> HIDE DEF l
  <2>3. /\ s \in Seq(EntryRec) /\ Len(s) = Len(hwList) + 1
        /\ \A j \in 1..(Len(hwList) + 1) :
              s[j] = IF j < l THEN hwList[j] ELSE IF j = l THEN e ELSE hwList[j - 1]
    BY <1>1, <2>2, Inserted, SMTT(20)
  <2> HIDE DEF s
  <2> QED BY <2>1, <2>3 DEF l
<1>10. ListInv' BY <1>1, <1>6, <1>9 DEF ListInv
<1> QED BY <1>5, <1>6, <1>8, <1>9, <1>10 DEF e, n, i, k

(* The entry that is taken off the list (unregister_hw_hal_module).        *)
LEMMA UnlinkList ==
  ASSUME TypeInv, NEW m \in Hw, UnregisterUnlink(m)
  PROVE  ListInv' /\ hwList' = IF Found(devId[m]) = 0 THEN hwList
                               ELSE RemoveAt(hwList, Found(devId[m]))
<1> DEFINE i == Found(devId[m])
<1>1. hwList \in Seq(EntryRec) /\ coreRefs = Len(hwList) /\ Len(hwList) \in Nat
  BY DEF TypeInv, ListInv
<1>2. i \in 0..Len(hwList) BY <1>1, FoundFinds
<1>3. /\ i = 0 => UNCHANGED <<hwList, coreRefs>>
      /\ i # 0 => hwList' = RemoveAt(hwList, i) /\ coreRefs' = coreRefs - 1
  BY DEF UnregisterUnlink
<1> HIDE DEF i
<1>4. CASE i = 0 BY <1>1, <1>3, <1>4 DEF ListInv, i
<1>5. CASE i # 0
  <2>1. i \in 1..Len(hwList) BY <1>1, <1>2, <1>5
  <2>2. RemoveAt(hwList, i) \in Seq(EntryRec) /\ Len(RemoveAt(hwList, i)) = Len(hwList) - 1
    BY <1>1, <2>1, Removed
  <2> QED BY <1>1, <1>3, <1>5, <2>2 DEF ListInv, i
<1> QED BY <1>4, <1>5

(* A minor that is opened, and the count and reference that go with it.    *)
LEMMA HwOpenType ==
  ASSUME TypeInv, NEW f \in Files, NEW minor \in 0..(MaxDev - 1), HwOpen(f, minor)
  PROVE  /\ ListInv' /\ ModuleInv' /\ FileInv'
         /\ EntryOf(minor) \in 1..Len(hwList) /\ minor \in Minors(hwList[EntryOf(minor)])
         /\ hwList[EntryOf(minor)].hw \in Hw
<1> DEFINE i == EntryOf(minor)
           h == hwList[i].hw
           r == [minor |-> minor, hw |-> h]
<1>1. /\ hwList \in Seq(EntryRec) /\ coreRefs = Len(hwList)
      /\ stage \in [Hw -> Stages] /\ devId \in [Hw -> 0..MaxDev] /\ refs \in [Hw -> Int]
      /\ file \in [Files -> FileRec \cup {NoFile}]
  BY DEF TypeInv, ListInv, ModuleInv, FileInv
<1>2. /\ i # 0 /\ refs' = [refs EXCEPT ![h] = @ + 1] /\ hwList' = Count(i, minor, 1)
      /\ file' = [file EXCEPT ![f] = r] /\ UNCHANGED <<coreRefs, stage, devId>>
  BY DEF HwOpen
<1>3. i \in 1..Len(hwList) /\ minor \in Minors(hwList[i]) BY <1>1, <1>2, EntryOfFinds
<1> HIDE DEF i
<1>4. h \in Hw
  <2>1. hwList[i] \in EntryRec BY <1>1, <1>3
  <2> QED BY <2>1, EntryFields
<1>5. ListInv'
  <2>1. 1 \in {1, -1} OBVIOUS
  <2>2. Count(i, minor, 1) \in Seq(EntryRec) /\ Len(Count(i, minor, 1)) = Len(hwList)
    BY <1>1, <1>3, <2>1, CountOne
  <2> QED BY <1>1, <1>2, <2>2 DEF ListInv
<1>6. ModuleInv'
  <2> HIDE DEF h
  <2> QED BY <1>1, <1>2, <1>4 DEF ModuleInv
<1>7. FileInv'
  <2>1. r \in FileRec BY <1>4, Constants DEF FileRec
  <2> HIDE DEF r
  <2> QED BY <1>1, <1>2, <2>1 DEF FileInv
<1> QED BY <1>3, <1>4, <1>5, <1>6, <1>7 DEF i

(* A file that is closed, and what is given back of the entry its minor    *)
(* has by then.                                                            *)
LEMMA HwCloseType ==
  ASSUME TypeInv, NEW f \in Files, HwClose(f)
  PROVE  ListInv' /\ ModuleInv' /\ FileInv'
<1> DEFINE minor == file[f].minor
           i == EntryOf(minor)
           h == hwList[i].hw
<1>1. /\ hwList \in Seq(EntryRec) /\ coreRefs = Len(hwList)
      /\ stage \in [Hw -> Stages] /\ devId \in [Hw -> 0..MaxDev] /\ refs \in [Hw -> Int]
      /\ file \in [Files -> FileRec \cup {NoFile}]
  BY DEF TypeInv, ListInv, ModuleInv, FileInv
<1>2. /\ i = 0 => UNCHANGED <<refs, hwList>>
      /\ i # 0 => refs' = [refs EXCEPT ![h] = @ - 1] /\ hwList' = Count(i, minor, -1)
      /\ file' = [file EXCEPT ![f] = NoFile] /\ UNCHANGED <<coreRefs, stage, devId>>
  BY DEF HwClose
<1>3. i # 0 => i \in 1..Len(hwList) /\ minor \in Minors(hwList[i]) BY <1>1, EntryOfFinds
<1> HIDE DEF i, minor
<1>4. i # 0 => h \in Hw
  <2> SUFFICES ASSUME i # 0 PROVE h \in Hw OBVIOUS
  <2>1. hwList[i] \in EntryRec BY <1>1, <1>3
  <2> QED BY <2>1, EntryFields
<1>5. ListInv'
  <2>1. CASE i = 0 BY <1>1, <1>2, <2>1 DEF ListInv
  <2>2. CASE i # 0
    <3>1. -1 \in {1, -1} OBVIOUS
    <3>2. Count(i, minor, -1) \in Seq(EntryRec) /\ Len(Count(i, minor, -1)) = Len(hwList)
      BY <1>1, <1>3, <2>2, <3>1, CountOne
    <3> QED BY <1>1, <1>2, <2>2, <3>2 DEF ListInv
  <2> QED BY <2>1, <2>2
<1>6. ModuleInv'
  <2> HIDE DEF h
  <2> QED BY <1>1, <1>2, <1>4 DEF ModuleInv
<1>7. FileInv' BY <1>1, <1>2 DEF FileInv
<1> QED BY <1>5, <1>6, <1>7

----------------------------------------------------------------------------
(* The states are well typed.                                              *)

(* Every step keeps them so.                                               *)
LEMMA TypeStep == ASSUME TypeInv, Next PROVE TypeInv'
<1> ListInv /\ ModuleInv /\ RestInv /\ FileInv BY DEF TypeInv
<1>1. ASSUME UNCHANGED <<hwList, coreRefs>> PROVE ListInv' BY <1>1 DEF ListInv
<1>2. ASSUME UNCHANGED <<stage, devId, refs>> PROVE ModuleInv' BY <1>2 DEF ModuleInv
<1>3. ASSUME UNCHANGED file PROVE FileInv' BY <1>3 DEF FileInv
<1>4. ASSUME UNCHANGED <<core, live, lost, freeing, history>> PROVE RestInv'
  BY <1>4 DEF RestInv, history
<1>5. CASE RegisterCore \/ CoreExit \/ UnregisterCore
  <2>1. UNCHANGED <<coreRefs, hwList, stage, devId, refs, live, lost, freeing, file, history>>
        /\ core' \in {"out", "in", "going"}
    BY <1>5 DEF RegisterCore, CoreExit, UnregisterCore
  <2>2. RestInv' BY <2>1 DEF RestInv, history
  <2> QED BY <2>1, <2>2, <1>1, <1>2, <1>3 DEF TypeInv
<1>6. ASSUME NEW m \in Hw, RegisterHw(m) PROVE TypeInv'
  <2>1. /\ live' = live \cup {m} /\ stage' = [stage EXCEPT ![m] = "registered"]
        /\ devId' = [devId EXCEPT ![m] = FirstMinor(Instances[m])]
        /\ UNCHANGED <<core, refs, lost, freeing, file, orphaned>> /\ overlapped' \in BOOLEAN
    BY <1>6 DEF RegisterHw, RestInv
  <2>2. ListInv' /\ FirstMinor(Instances[m]) \in 0..MaxDev BY <1>6, RegisterHwList
  <2>3. ModuleInv' BY <2>1, <2>2 DEF ModuleInv, Stages
  <2>4. RestInv' BY <2>1 DEF RestInv
  <2> QED BY <2>1, <2>2, <2>3, <2>4, <1>3 DEF TypeInv
<1>7. ASSUME NEW m \in Hw, RequestIrq(m) \/ RequestIrqFails(m) \/ FreeIrq(m) PROVE TypeInv'
  <2>1. /\ \E s \in Stages : stage' = [stage EXCEPT ![m] = s]
        /\ UNCHANGED <<core, coreRefs, hwList, devId, refs, live, lost, freeing, file, history>>
    BY <1>7 DEF RequestIrq, RequestIrqFails, FreeIrq, Stages
  <2>2. ModuleInv' BY <2>1 DEF ModuleInv
  <2> QED BY <2>1, <2>2, <1>1, <1>3, <1>4 DEF TypeInv
<1>8. ASSUME NEW m \in Hw, UnregisterFree(m) PROVE TypeInv'
  <2>1. /\ freeing' = m /\ live' = live \ FoundHw(devId[m]) /\ orphaned' \in BOOLEAN
        /\ UNCHANGED <<core, coreRefs, hwList, stage, devId, refs, lost, file, overlapped>>
    BY <1>8 DEF UnregisterFree, RestInv
  <2>2. RestInv' BY <2>1 DEF RestInv
  <2> QED BY <2>1, <2>2, <1>1, <1>2, <1>3 DEF TypeInv
<1>9. ASSUME NEW m \in Hw, UnregisterUnlink(m) PROVE TypeInv'
  <2>1. /\ stage' = [stage EXCEPT ![m] = "out"] /\ devId' = [devId EXCEPT ![m] = 0]
        /\ refs' = [refs EXCEPT ![m] = 0] /\ freeing' = NoHw
        /\ UNCHANGED <<core, live, lost, file, history>>
    BY <1>9 DEF UnregisterUnlink
  <2>2. ListInv' BY <1>9, UnlinkList
  <2>3. ModuleInv'
    <3>1. 0 \in 0..MaxDev BY Constants
    <3> QED BY <2>1, <3>1 DEF ModuleInv, Stages
  <2>4. RestInv' BY <2>1 DEF RestInv, history
  <2> QED BY <2>1, <2>2, <2>3, <2>4, <1>3 DEF TypeInv
<1>10. ASSUME NEW f \in Files, NEW minor \in 0..(MaxDev - 1), HwOpen(f, minor) PROVE TypeInv'
  <2>1. UNCHANGED <<core, live, lost, freeing, history>> BY <1>10 DEF HwOpen
  <2> QED BY <2>1, <1>4, <1>10, HwOpenType DEF TypeInv
<1>11. ASSUME NEW f \in Files, HwClose(f) PROVE TypeInv'
  <2>1. UNCHANGED <<core, live, lost, freeing, history>> BY <1>11 DEF HwClose
  <2> QED BY <2>1, <1>4, <1>11, HwCloseType DEF TypeInv
<1>12. ASSUME NEW m \in Hw, RegisterHwFails(m) PROVE TypeInv'
  <2>1. UNCHANGED <<core, coreRefs, hwList, stage, devId, refs, live, freeing, file, history>>
        /\ lost' = lost \cup {m}
    BY <1>12 DEF RegisterHwFails
  <2>2. RestInv' BY <2>1 DEF RestInv, history
  <2> QED BY <2>1, <2>2, <1>1, <1>2, <1>3 DEF TypeInv
<1> QED BY <1>5, <1>6, <1>7, <1>8, <1>9, <1>10, <1>11, <1>12 DEF Next

(* A stuttering step too.                                                  *)
LEMMA TypeStutter == ASSUME TypeInv, UNCHANGED vars PROVE TypeInv'
BY DEF vars, history, TypeInv, ListInv, ModuleInv, RestInv, FileInv

(* No core, no list, no file.                                              *)
LEMMA TypeInit == Init => TypeInv
<1> SUFFICES ASSUME Init PROVE TypeInv OBVIOUS
<1>1. ListInv BY EmptySeq DEF Init, ListInv
<1>2. ModuleInv BY Constants DEF Init, ModuleInv, Stages
<1>3. RestInv /\ FileInv BY DEF Init, RestInv, FileInv
<1> QED BY <1>1, <1>2, <1>3 DEF TypeInv

(* The invariant says at least what TypeOK says.                           *)
LEMMA TypeInvImplies == TypeInv => TypeOK
<1> SUFFICES ASSUME TypeInv PROVE TypeOK OBVIOUS
<1> DEFINE E == [hw : Hw, minor : 0..MaxDev,
                 count : UNION {[0..(Instances[m] - 1) -> 0..(CountMod - 1)] : m \in Hw}]
<1>1. hwList \in Seq(EntryRec) /\ coreRefs = Len(hwList) BY DEF TypeInv, ListInv
<1>2. \A e \in EntryRec : e \in E BY DEF EntryRec
<1> HIDE DEF E
<1>3. hwList \in Seq(E) /\ coreRefs \in Nat
  <2>1. Len(hwList) \in Nat /\ \A i \in 1..Len(hwList) : hwList[i] \in EntryRec BY <1>1
  <2>2. \A i \in 1..Len(hwList) : hwList[i] \in E BY <2>1, <1>2
  <2> QED BY <1>1, <2>1, <2>2
<1> QED BY <1>3 DEF TypeOK, TypeInv, ModuleInv, RestInv, FileInv, FileRec, E

(* TypeOK, for any number of modules, minors and files: the list stays one *)
(* of well-formed entries whose counts are bytes, whatever entry a close   *)
(* or an unregistration finds.                                             *)
THEOREM TypeCorrect == Spec => []TypeOK
<1>1. TypeInv /\ [Next]_vars => TypeInv' BY TypeStep, TypeStutter
<1> QED BY <1>1, TypeInit, TypeInvImplies, PTL DEF Spec

----------------------------------------------------------------------------
(* Minors.                                                                 *)

(* In a list in the order of the minors, what the walk finds lies behind   *)
(* all entries before the gap and ends before all others.                  *)
LEMMA SortedFree ==
  ASSUME TypeInv, Sorted, NEW m \in Hw, NEW j \in DOMAIN hwList
  PROVE  Minors(Entry(m, FirstMinor(Instances[m]))) \cap Minors(hwList[j]) = {}
<1> DEFINE n == Instances[m]
           k == FirstMinor(n)
           g == GapAt(n)
<1>1. hwList \in Seq(EntryRec) /\ Len(hwList) \in Nat /\ DOMAIN hwList = 1..Len(hwList)
  BY DEF TypeInv, ListInv
<1>2. \A i \in DOMAIN hwList :
        /\ hwList[i].minor \in Nat /\ Instances[hwList[i].hw] \in Nat
        /\ Instances[hwList[i].hw] > 0
        /\ EndOf(hwList[i]) = hwList[i].minor + Instances[hwList[i].hw]
  <2> TAKE i \in DOMAIN hwList
  <2>1. hwList[i] \in EntryRec BY <1>1
  <2> QED BY <2>1, EntryFields, Constants DEF EndOf
<1>3. n \in Nat /\ n > 0 BY Constants
<1>4. g \in 0..Len(hwList) /\ (g # 0 => GapBefore(g, n)) BY <1>1, GapAtFinds
<1>5. \A i, l \in DOMAIN hwList : i < l => EndOf(hwList[i]) <= hwList[l].minor BY DEF Sorted
<1> HIDE DEF g
<1>6. \/ k \in Nat /\ EndOf(hwList[j]) <= k
      \/ k \in Nat /\ k + n <= hwList[j].minor
  <2>1. CASE g = 0
    <3>1. k = LastMinor(Len(hwList) + 1) BY <2>1 DEF FirstMinor, g
    <3>2. k = EndOf(hwList[Len(hwList)]) BY <3>1, <1>1 DEF LastMinor
    <3>3. CASE j = Len(hwList) BY <3>2, <3>3, <1>2
    <3>4. CASE j < Len(hwList)
      <4>1. EndOf(hwList[j]) <= hwList[Len(hwList)].minor BY <3>4, <1>1, <1>5
      <4> QED BY <3>2, <4>1, <1>1, <1>2
    <3> QED BY <3>3, <3>4, <1>1
  <2>2. CASE g # 0
    <3>1. g \in DOMAIN hwList BY <2>2, <1>1, <1>4
    <3>2. k = LastMinor(g) /\ hwList[g].minor - LastMinor(g) >= n
      BY <2>2, <1>4 DEF FirstMinor, GapBefore, g
    <3>3. CASE j >= g
      <4>1. hwList[g].minor <= hwList[j].minor
        <5>1. CASE j = g BY <5>1, <1>2
        <5>2. CASE j > g
          <6>1. EndOf(hwList[g]) <= hwList[j].minor BY <5>2, <3>1, <1>5
          <6> QED BY <6>1, <3>1, <1>2
        <5> QED BY <5>1, <5>2, <3>1, <3>3, <1>1
      <4>2. k \in Nat
        <5>1. CASE g = 1 BY <5>1, <3>2 DEF LastMinor
        <5>2. CASE g # 1
          <6>1. g - 1 \in DOMAIN hwList /\ k = EndOf(hwList[g - 1])
            BY <5>2, <3>1, <3>2, <1>1 DEF LastMinor
          <6> QED BY <6>1, <1>2
        <5> QED BY <5>1, <5>2
      <4> QED BY <3>1, <3>2, <4>1, <4>2, <1>2, <1>3
    <3>4. CASE j < g
      <4>1. g - 1 \in DOMAIN hwList /\ k = EndOf(hwList[g - 1])
        BY <3>1, <3>2, <3>4, <1>1 DEF LastMinor
      <4>2. CASE j = g - 1 BY <4>1, <4>2, <1>2
      <4>3. CASE j < g - 1
        <5>1. EndOf(hwList[j]) <= hwList[g - 1].minor BY <4>1, <4>3, <1>5
        <5> QED BY <4>1, <5>1, <1>2
      <4> QED BY <4>2, <4>3, <3>1, <3>4, <1>1
    <3> QED BY <3>3, <3>4, <3>1, <1>1
  <2> QED BY <2>1, <2>2
<1> DEFINE p == hwList[j].minor
           q == Instances[hwList[j].hw]
<1>7. /\ p \in Nat /\ q \in Nat /\ q > 0
      /\ (k \in Nat /\ p + q <= k) \/ (k \in Nat /\ k + n <= p)
  BY <1>2, <1>6
<1>8. Minors(Entry(m, k)) = k..(k + n - 1) /\ Minors(hwList[j]) = p..(p + q - 1)
  BY DEF Minors, Entry
<1> HIDE DEF k, n, p, q
<1>9. (k..(k + n - 1)) \cap (p..(p + q - 1)) = {} BY <1>3, <1>7
<1> QED BY <1>8, <1>9 DEF k, n

(* SortedWalkFindsFree: however the modules come and go, the walk goes     *)
(* wrong only in a list that list_add has left out of order.               *)
THEOREM WalkRightIfSorted == Spec => SortedWalkFindsFree
<1>1. TypeInv /\ [Next]_vars => TypeInv' BY TypeStep, TypeStutter
<1>2. TypeInv /\ [Next]_vars => [overlapped' # overlapped => ~Sorted]_vars
  <2> SUFFICES ASSUME TypeInv, Next, overlapped' # overlapped PROVE ~Sorted
    OBVIOUS
  <2>1. PICK m \in Hw : RegisterHw(m)
    <3>1. ASSUME NEW m \in Hw,
                 \/ RequestIrq(m) \/ RequestIrqFails(m) \/ FreeIrq(m) \/ RegisterHwFails(m)
                 \/ UnregisterFree(m) \/ UnregisterUnlink(m)
          PROVE  FALSE
      BY <3>1 DEF RequestIrq, RequestIrqFails, FreeIrq, RegisterHwFails, UnregisterFree,
                  UnregisterUnlink, history
    <3>2. ~(RegisterCore \/ CoreExit \/ UnregisterCore)
      BY DEF RegisterCore, CoreExit, UnregisterCore, history
    <3>3. \A f \in Files : ~HwClose(f) /\ \A minor \in 0..(MaxDev - 1) : ~HwOpen(f, minor)
      BY DEF HwClose, HwOpen, history
    <3> QED BY <3>1, <3>2, <3>3 DEF Next
  <2>2. Overlaps(m) BY <2>1 DEF RegisterHw, TypeInv, RestInv
  <2> QED BY <2>2, SortedFree DEF Overlaps
<1> QED BY <1>1, <1>2, TypeInit, PTL DEF Spec, SortedWalkFindsFree

(* No minor is given to two modules.                                       *)
MinorsDisjoint ==
  \A i, j \in DOMAIN hwList : i # j => Minors(hwList[i]) \cap Minors(hwList[j]) = {}

(* A module is listed from its registration to the unlink, once, under the *)
(* dev_id it knows; its data live until they are freed; and what is freed  *)
(* is that of a module in its exit, or whose init failed.                  *)
ListedOnce == \A i, j \in DOMAIN hwList : i # j => hwList[i].hw # hwList[j].hw
ListedInv ==
  /\ \A i \in DOMAIN hwList :
       stage[hwList[i].hw] # "out" /\ devId[hwList[i].hw] = hwList[i].minor
  /\ ListedOnce
  /\ \A m \in Hw : stage[m] # "out" => \E i \in DOMAIN hwList : hwList[i].hw = m
LiveInv ==
  /\ \A m \in Hw : m \in live <=> (stage[m] # "out" /\ freeing # m)
  /\ freeing \in Hw => stage[freeing] \in {"quiet", "failed"}
DisjointInv == ListedInv /\ MinorsDisjoint /\ LiveInv

(* With disjoint minors a minor leads to its own entry ...                 *)
LEMMA EntryOwn ==
  ASSUME TypeInv, MinorsDisjoint, NEW i \in DOMAIN hwList, NEW minor \in Minors(hwList[i])
  PROVE  EntryOf(minor) = i
<1>1. hwList \in Seq(EntryRec) BY DEF TypeInv, ListInv
<1>2. EntryOf(minor) \in DOMAIN hwList /\ minor \in Minors(hwList[EntryOf(minor)])
  BY <1>1, EntryOfFinds
<1> QED BY <1>2 DEF MinorsDisjoint

(* ... and a dev_id to the module's.                                       *)
LEMMA FoundOwn ==
  ASSUME TypeInv, MinorsDisjoint, NEW i \in DOMAIN hwList
  PROVE  Found(hwList[i].minor) = i
<1> DEFINE j == Found(hwList[i].minor)
<1>1. hwList \in Seq(EntryRec) BY DEF TypeInv, ListInv
<1>2. j \in DOMAIN hwList /\ hwList[j].minor = hwList[i].minor BY <1>1, FoundFinds
<1> HIDE DEF j
<1>3. hwList[i] \in EntryRec /\ hwList[j] \in EntryRec BY <1>1, <1>2
<1>4. hwList[i].minor \in Minors(hwList[i]) /\ hwList[j].minor \in Minors(hwList[j])
  BY <1>3, EntryFields
<1>5. j = i BY <1>2, <1>4 DEF MinorsDisjoint
<1> QED BY <1>5 DEF j

(* So a listed module finds its own entry.                                 *)
LEMMA FoundModule ==
  ASSUME TypeInv, ListedInv, MinorsDisjoint, NEW m \in Hw, stage[m] # "out"
  PROVE  /\ Found(devId[m]) \in DOMAIN hwList /\ hwList[Found(devId[m])].hw = m
         /\ FoundHw(devId[m]) = {m}
<1>1. PICK i \in DOMAIN hwList : hwList[i].hw = m BY DEF ListedInv
<1>2. devId[m] = hwList[i].minor BY <1>1 DEF ListedInv
<1>3. Found(devId[m]) = i BY <1>2, FoundOwn
<1>4. i # 0
  <2>1. hwList \in Seq(EntryRec) BY DEF TypeInv, ListInv
  <2> QED BY <2>1
<1> QED BY <1>1, <1>3, <1>4 DEF FoundHw

(* Where an entry stood before one was inserted at i.                      *)
Shifted(i, j) == IF j < i THEN j ELSE j - 1
(* Registration on free minors inserts one entry and leaves the others as  *)
(* they are.                                                               *)
LEMMA RegisterHwKeeps ==
  ASSUME TypeInv, DisjointInv, NEW m \in Hw, RegisterHw(m), ~overlapped'
  PROVE  DisjointInv'
<1> DEFINE e == Entry(m, FirstMinor(Instances[m]))
           i == GapAt(Instances[m]) + 1
<1>1. hwList \in Seq(EntryRec) /\ Len(hwList) \in Nat /\ DOMAIN hwList = 1..Len(hwList)
  BY DEF TypeInv, ListInv
<1>2. /\ hwList' \in Seq(EntryRec) /\ Len(hwList') = Len(hwList) + 1
      /\ i \in 1..(Len(hwList) + 1)
      /\ \A j \in 1..(Len(hwList) + 1) :
           hwList'[j] = IF j < i THEN hwList[j] ELSE IF j = i THEN e ELSE hwList[j - 1]
      /\ FirstMinor(Instances[m]) \in 0..MaxDev
      /\ FirstMinor(Instances[m]) + Instances[m] <= MaxDev
  BY RegisterHwList DEF ListInv
<1>3. e.hw = m /\ e.minor = FirstMinor(Instances[m]) BY DEF Entry
<1>4. /\ stage[m] = "out" /\ freeing = NoHw /\ live' = live \cup {m}
      /\ stage' = [stage EXCEPT ![m] = "registered"] /\ devId' = [devId EXCEPT ![m] = e.minor]
      /\ UNCHANGED freeing
  BY <1>3 DEF RegisterHw, Registers, Unlocked
<1>5. \A j \in DOMAIN hwList : Minors(e) \cap Minors(hwList[j]) = {}
  BY DEF RegisterHw, Overlaps
<1>6. /\ stage \in [Hw -> Stages] /\ devId \in [Hw -> 0..MaxDev] /\ NoHw \notin Hw
      /\ \A j \in DOMAIN hwList : hwList[j].hw \in Hw
  <2>1. \A j \in DOMAIN hwList : hwList[j] \in EntryRec BY <1>1
  <2> QED BY <2>1, EntryFields, Constants DEF TypeInv, ModuleInv
<1> HIDE DEF e, i
<1>7. /\ DOMAIN hwList' = 1..(Len(hwList) + 1)
      /\ hwList'[i] = e
      /\ \A j \in 1..(Len(hwList) + 1) : j # i =>
           hwList'[j] = hwList[Shifted(i, j)] /\ Shifted(i, j) \in DOMAIN hwList
      /\ \A j, l \in 1..(Len(hwList) + 1) : j # i /\ l # i /\ j # l => Shifted(i, j) # Shifted(i, l)
  <2>1. DOMAIN hwList' = 1..(Len(hwList) + 1) /\ hwList'[i] = e BY <1>1, <1>2
  <2>2. ASSUME NEW j \in 1..(Len(hwList) + 1), j # i
        PROVE  hwList'[j] = hwList[Shifted(i, j)] /\ Shifted(i, j) \in DOMAIN hwList
    <3>1. CASE j < i BY <3>1, <1>1, <1>2 DEF Shifted
    <3>2. CASE j > i
      <4>1. ~(j < i) /\ j # i BY <3>2, <1>1, <1>2
      <4>2. hwList'[j] = hwList[j - 1] BY <4>1, <1>2
      <4> QED BY <3>2, <4>1, <4>2, <1>1, <1>2 DEF Shifted
    <3> QED BY <3>1, <3>2, <2>2, <1>1, <1>2
  <2>3. ASSUME NEW j \in 1..(Len(hwList) + 1), NEW l \in 1..(Len(hwList) + 1), j # i, l # i, j # l
        PROVE  Shifted(i, j) # Shifted(i, l)
    BY <2>3, <1>1, <1>2 DEF Shifted
  <2> QED BY <2>1, <2>2, <2>3
<1>8. \A j \in DOMAIN hwList : hwList[j].hw # m BY <1>4 DEF DisjointInv, ListedInv
<1>9. \A j \in DOMAIN hwList' :
        stage'[hwList'[j].hw] # "out" /\ devId'[hwList'[j].hw] = hwList'[j].minor
  <2> TAKE j \in DOMAIN hwList'
  <2>1. CASE j = i BY <2>1, <1>3, <1>4, <1>6, <1>7
  <2>2. CASE j # i BY <2>2, <1>4, <1>6, <1>7, <1>8 DEF DisjointInv, ListedInv
  <2> QED BY <2>1, <2>2
<1>10. ListedOnce'
  <2> SUFFICES ASSUME NEW j \in DOMAIN hwList', NEW l \in DOMAIN hwList', j # l
               PROVE  hwList'[j].hw # hwList'[l].hw
    BY DEF ListedOnce
  <2>1. CASE j = i \/ l = i BY <2>1, <1>3, <1>7, <1>8
  <2>2. CASE j # i /\ l # i BY <2>2, <1>7 DEF DisjointInv, ListedInv, ListedOnce
  <2> QED BY <2>1, <2>2
<1>11. MinorsDisjoint'
  <2>1. \A x : Minors(x)' = Minors(x) BY DEF Minors
  <2> SUFFICES ASSUME NEW j \in DOMAIN hwList', NEW l \in DOMAIN hwList', j # l
               PROVE  Minors(hwList'[j]) \cap Minors(hwList'[l]) = {}
    BY DEF MinorsDisjoint, Minors
  <2>2. CASE j = i BY <2>2, <1>5, <1>7
  <2>3. CASE l = i BY <2>3, <1>5, <1>7
  <2>4. CASE j # i /\ l # i BY <2>4, <1>7 DEF DisjointInv, MinorsDisjoint
  <2> QED BY <2>2, <2>3, <2>4
<1>12. \A a \in Hw : stage'[a] # "out" => \E j \in DOMAIN hwList' : hwList'[j].hw = a
  <2> SUFFICES ASSUME NEW a \in Hw, stage'[a] # "out"
               PROVE  \E j \in DOMAIN hwList' : hwList'[j].hw = a
    OBVIOUS
  <2>1. CASE a = m BY <2>1, <1>2, <1>3, <1>7
  <2>2. CASE a # m
    <3>1. PICK j \in DOMAIN hwList : hwList[j].hw = a
      BY <2>2, <1>4, <1>6 DEF DisjointInv, ListedInv
    <3>2. CASE j < i
      <4>1. j \in 1..(Len(hwList) + 1) /\ hwList'[j] = hwList[j] BY <3>2, <1>1, <1>2
      <4> QED BY <3>1, <4>1, <1>7
    <3>3. CASE j >= i
      <4>1. j + 1 \in 1..(Len(hwList) + 1) /\ ~(j + 1 < i) /\ j + 1 # i /\ (j + 1) - 1 = j
        BY <3>3, <1>1, <1>2
      <4>2. hwList'[j + 1] = hwList[j] BY <4>1, <1>2
      <4> QED BY <3>1, <4>1, <4>2, <1>7
    <3> QED BY <3>2, <3>3, <1>1, <1>2
  <2> QED BY <2>1, <2>2
<1>13. LiveInv' BY <1>4, <1>6 DEF DisjointInv, LiveInv
<1> QED BY <1>9, <1>10, <1>11, <1>12, <1>13 DEF DisjointInv, ListedInv

(* Where an entry stood before the one at i was taken off.                 *)
Kept(i, j) == IF j < i THEN j ELSE j + 1
(* The unlink takes off the module's own entry and no other.               *)
LEMMA UnlinkTakesOwn ==
  ASSUME TypeInv, DisjointInv, NEW m \in Hw, UnregisterUnlink(m)
  PROVE  \E i \in DOMAIN hwList :
           /\ hwList[i].hw = m
           /\ \A j \in DOMAIN hwList' : /\ Kept(i, j) \in DOMAIN hwList /\ Kept(i, j) # i
                                       /\ hwList'[j] = hwList[Kept(i, j)]
           /\ \A j, l \in DOMAIN hwList' : j # l => Kept(i, j) # Kept(i, l)
           /\ \A a \in DOMAIN hwList : a # i => \E j \in DOMAIN hwList' : Kept(i, j) = a
<1> DEFINE i == Found(devId[m])
           s == RemoveAt(hwList, i)
<1>1. hwList \in Seq(EntryRec) /\ Len(hwList) \in Nat /\ DOMAIN hwList = 1..Len(hwList)
  BY DEF TypeInv, ListInv
<1>2. freeing = m /\ stage[m] # "out" BY DEF UnregisterUnlink, DisjointInv, LiveInv
<1>3. i \in 1..Len(hwList) /\ hwList[i].hw = m BY <1>1, <1>2, FoundModule DEF DisjointInv
<1>4. hwList' = s BY <1>1, <1>3, UnlinkList
<1>5. /\ s \in Seq(EntryRec) /\ Len(s) = Len(hwList) - 1
      /\ \A j \in 1..(Len(hwList) - 1) : s[j] = IF j < i THEN hwList[j] ELSE hwList[j + 1]
  BY <1>1, <1>3, Removed
<1> HIDE DEF i, s
<1>6. DOMAIN hwList' = 1..(Len(hwList) - 1) BY <1>1, <1>4, <1>5
<1>7. ASSUME NEW j \in DOMAIN hwList'
      PROVE  Kept(i, j) \in DOMAIN hwList /\ Kept(i, j) # i /\ hwList'[j] = hwList[Kept(i, j)]
  <2>1. CASE j < i BY <2>1, <1>1, <1>3, <1>4, <1>5, <1>6 DEF Kept
  <2>2. CASE ~(j < i) BY <2>2, <1>1, <1>3, <1>4, <1>5, <1>6 DEF Kept
  <2> QED BY <2>1, <2>2
<1>8. \A j, l \in DOMAIN hwList' : j # l => Kept(i, j) # Kept(i, l)
  BY <1>1, <1>3, <1>6 DEF Kept
<1>9. ASSUME NEW a \in DOMAIN hwList, a # i PROVE \E j \in DOMAIN hwList' : Kept(i, j) = a
  <2>1. CASE a < i
    <3>1. a \in DOMAIN hwList' /\ Kept(i, a) = a BY <2>1, <1>1, <1>3, <1>6 DEF Kept
    <3> QED BY <3>1
  <2>2. CASE a > i
    <3>1. a - 1 \in DOMAIN hwList' /\ Kept(i, a - 1) = a BY <2>2, <1>1, <1>3, <1>6 DEF Kept
    <3> QED BY <3>1
  <2> QED BY <2>1, <2>2, <1>9, <1>1, <1>3
<1> QED BY <1>1, <1>3, <1>7, <1>8, <1>9

(* So the rest stays listed once, on minors of its own.                    *)
LEMMA UnlinkKeeps ==
  ASSUME TypeInv, DisjointInv, NEW m \in Hw, UnregisterUnlink(m)
  PROVE  DisjointInv'
<1>1. PICK i \in DOMAIN hwList :
           /\ hwList[i].hw = m
           /\ \A j \in DOMAIN hwList' : /\ Kept(i, j) \in DOMAIN hwList /\ Kept(i, j) # i
                                       /\ hwList'[j] = hwList[Kept(i, j)]
           /\ \A j, l \in DOMAIN hwList' : j # l => Kept(i, j) # Kept(i, l)
           /\ \A a \in DOMAIN hwList : a # i => \E j \in DOMAIN hwList' : Kept(i, j) = a
  BY UnlinkTakesOwn
<1>2. /\ freeing = m /\ stage' = [stage EXCEPT ![m] = "out"] /\ devId' = [devId EXCEPT ![m] = 0]
      /\ freeing' = NoHw /\ live' = live
  BY DEF UnregisterUnlink
<1>3. /\ stage \in [Hw -> Stages] /\ devId \in [Hw -> 0..MaxDev] /\ NoHw \notin Hw
      /\ \A j \in DOMAIN hwList : hwList[j].hw \in Hw
  <2>1. \A j \in DOMAIN hwList : hwList[j] \in EntryRec BY DEF TypeInv, ListInv
  <2> QED BY <2>1, EntryFields, Constants DEF TypeInv, ModuleInv
<1>4. \A j \in DOMAIN hwList' : hwList'[j].hw # m
  BY <1>1 DEF DisjointInv, ListedInv, ListedOnce
<1>5. \A j \in DOMAIN hwList' :
        stage'[hwList'[j].hw] # "out" /\ devId'[hwList'[j].hw] = hwList'[j].minor
  BY <1>1, <1>2, <1>3, <1>4 DEF DisjointInv, ListedInv
<1>6. ListedOnce' BY <1>1 DEF DisjointInv, ListedInv, ListedOnce
<1>7. MinorsDisjoint' BY <1>1 DEF DisjointInv, MinorsDisjoint, Minors
<1>8. \A a \in Hw : stage'[a] # "out" => \E j \in DOMAIN hwList' : hwList'[j].hw = a
  <2> SUFFICES ASSUME NEW a \in Hw, stage'[a] # "out"
               PROVE  \E j \in DOMAIN hwList' : hwList'[j].hw = a
    OBVIOUS
  <2>1. a # m /\ stage[a] # "out" BY <1>2, <1>3
  <2>2. PICK l \in DOMAIN hwList : hwList[l].hw = a BY <2>1 DEF DisjointInv, ListedInv
  <2>3. PICK j \in DOMAIN hwList' : Kept(i, j) = l BY <2>1, <2>2, <1>1
  <2> QED BY <2>2, <2>3, <1>1
<1>9. LiveInv' BY <1>2, <1>3 DEF DisjointInv, LiveInv
<1> QED BY <1>5, <1>6, <1>7, <1>8, <1>9 DEF DisjointInv, ListedInv

(* A step that leaves the list's modules and minors alone keeps it right,  *)
(* the counts aside.                                                       *)
LEMMA SameListKeeps ==
  ASSUME TypeInv, DisjointInv, DOMAIN hwList' = DOMAIN hwList,
         \A j \in DOMAIN hwList :
           hwList'[j].hw = hwList[j].hw /\ hwList'[j].minor = hwList[j].minor,
         \A m \in Hw : stage'[m] = "out" <=> stage[m] = "out", UNCHANGED devId
  PROVE  ListedInv' /\ MinorsDisjoint'
<1>1. \A j \in DOMAIN hwList : hwList[j].hw \in Hw
  <2>1. \A j \in DOMAIN hwList : hwList[j] \in EntryRec BY DEF TypeInv, ListInv
  <2> QED BY <2>1, EntryFields
<1>2. ListedInv' BY <1>1 DEF DisjointInv, ListedInv, ListedOnce
<1>3. MinorsDisjoint' BY DEF DisjointInv, MinorsDisjoint, Minors
<1> QED BY <1>2, <1>3

(* Every step that does not make minors overlap keeps this.                *)
LEMMA DisjointStep ==
  ASSUME TypeInv, DisjointInv, Next, ~overlapped'
  PROVE  DisjointInv'
<1>1. /\ stage \in [Hw -> Stages] /\ devId \in [Hw -> 0..MaxDev] /\ NoHw \notin Hw
      /\ hwList \in Seq(EntryRec)
  BY Constants DEF TypeInv, ModuleInv, ListInv
<1>2. CASE RegisterCore \/ CoreExit \/ UnregisterCore \/ \E m \in Hw : RegisterHwFails(m)
  <2>1. UNCHANGED <<hwList, stage, devId, live, freeing>>
    BY <1>2 DEF RegisterCore, CoreExit, UnregisterCore, RegisterHwFails
  <2>2. ListedInv' /\ MinorsDisjoint' BY <2>1, SameListKeeps
  <2>3. LiveInv' BY <2>1 DEF DisjointInv, LiveInv
  <2> QED BY <2>2, <2>3 DEF DisjointInv
<1>3. ASSUME NEW m \in Hw, RegisterHw(m) PROVE DisjointInv' BY <1>3, RegisterHwKeeps
<1>4. ASSUME NEW m \in Hw, RequestIrq(m) \/ RequestIrqFails(m) \/ FreeIrq(m) PROVE DisjointInv'
  <2>1. /\ stage[m] \in {"registered", "running"}
        /\ \E s \in {"running", "failed", "quiet"} : stage' = [stage EXCEPT ![m] = s]
        /\ UNCHANGED <<hwList, devId, live, freeing>>
    BY <1>4 DEF RequestIrq, RequestIrqFails, FreeIrq
  <2>2. \A a \in Hw : stage'[a] = "out" <=> stage[a] = "out" BY <2>1, <1>1
  <2>3. ListedInv' /\ MinorsDisjoint' BY <2>1, <2>2, SameListKeeps
  <2>4. freeing # m BY <2>1 DEF DisjointInv, LiveInv
  <2>5. LiveInv' BY <2>1, <2>2, <2>4, <1>1 DEF DisjointInv, LiveInv
  <2> QED BY <2>3, <2>5 DEF DisjointInv
<1>5. ASSUME NEW m \in Hw, UnregisterFree(m) PROVE DisjointInv'
  <2>1. /\ freeing = NoHw /\ stage[m] \in {"quiet", "failed"} /\ freeing' = m
        /\ live' = live \ FoundHw(devId[m]) /\ UNCHANGED <<hwList, stage, devId>>
    BY <1>5 DEF UnregisterFree, Unlocked
  <2>2. FoundHw(devId[m]) = {m} BY <2>1, FoundModule DEF DisjointInv
  <2>3. ListedInv' /\ MinorsDisjoint' BY <2>1, SameListKeeps
  <2>4. LiveInv' BY <2>1, <2>2, <1>1 DEF DisjointInv, LiveInv
  <2> QED BY <2>3, <2>4 DEF DisjointInv
<1>6. ASSUME NEW m \in Hw, UnregisterUnlink(m) PROVE DisjointInv' BY <1>6, UnlinkKeeps
<1>7. ASSUME NEW i \in 1..Len(hwList), NEW minor \in Minors(hwList[i]), NEW delta \in {1, -1},
             hwList' = Count(i, minor, delta), UNCHANGED <<stage, devId, live, freeing>>
      PROVE  DisjointInv'
  <2> DEFINE s == Count(i, minor, delta)
  <2>1. /\ s \in Seq(EntryRec) /\ Len(s) = Len(hwList)
        /\ \A j \in 1..Len(hwList) : s[j].hw = hwList[j].hw /\ s[j].minor = hwList[j].minor
    <3>1. hwList \in Seq(EntryRec) BY <1>1
    <3> QED BY ONLY <3>1, <1>7, CountOne, SMTT(30)
  <2>2. hwList' = s BY <1>7
  <2> HIDE DEF s
  <2>3. ListedInv' /\ MinorsDisjoint' BY <1>1, <1>7, <2>1, <2>2, SameListKeeps
  <2>4. LiveInv' BY <1>7 DEF DisjointInv, LiveInv
  <2> QED BY <2>3, <2>4 DEF DisjointInv
<1>8. ASSUME NEW f \in Files, NEW minor \in 0..(MaxDev - 1), HwOpen(f, minor) PROVE DisjointInv'
  <2>1. hwList' = Count(EntryOf(minor), minor, 1) /\ UNCHANGED <<stage, devId, live, freeing>>
    BY <1>8 DEF HwOpen
  <2>2. EntryOf(minor) \in 1..Len(hwList) /\ minor \in Minors(hwList[EntryOf(minor)])
    BY <1>8, HwOpenType
  <2>3. 1 \in {1, -1} OBVIOUS
  <2> QED BY <2>1, <2>2, <2>3, <1>7
<1>9. ASSUME NEW f \in Files, HwClose(f) PROVE DisjointInv'
  <2> DEFINE minor == file[f].minor
  <2>1. /\ UNCHANGED <<stage, devId, live, freeing>>
        /\ EntryOf(minor) = 0 => UNCHANGED hwList
        /\ EntryOf(minor) # 0 => hwList' = Count(EntryOf(minor), minor, -1)
    BY <1>9 DEF HwClose
  <2> HIDE DEF minor
  <2>2. CASE EntryOf(minor) = 0
    <3>1. ListedInv' /\ MinorsDisjoint' BY <2>1, <2>2, SameListKeeps
    <3>2. LiveInv' BY <2>1 DEF DisjointInv, LiveInv
    <3> QED BY <3>1, <3>2 DEF DisjointInv
  <2>3. CASE EntryOf(minor) # 0
    <3>1. EntryOf(minor) \in 1..Len(hwList) /\ minor \in Minors(hwList[EntryOf(minor)])
      BY <1>1, <2>3, EntryOfFinds
    <3>2. -1 \in {1, -1} OBVIOUS
    <3> QED BY <2>1, <2>3, <3>1, <3>2, <1>7
  <2> QED BY <2>2, <2>3
<1> QED BY <1>2, <1>3, <1>4, <1>5, <1>6, <1>8, <1>9 DEF Next

(* Nothing is listed at first.                                             *)
LEMMA DisjointInit == Init => DisjointInv
BY Constants DEF Init, DisjointInv, ListedInv, ListedOnce, MinorsDisjoint, LiveInv

----------------------------------------------------------------------------
(* Counts and references are those of the open files.                      *)

FilesAt(minor) == {f \in OpenFiles : file[f].minor = minor}

(* Until a module fails its init under its files: every open file is on a  *)
(* minor of the module it was opened on, a module in its exit has none,    *)
(* and counts and references say how many there are.                       *)
OnListed ==
  \A f \in OpenFiles : \E i \in DOMAIN hwList :
    hwList[i].hw = file[f].hw /\ file[f].minor \in Minors(hwList[i])
NoneInExit == \A m \in Hw : stage[m] = "quiet" \/ freeing = m => FilesOf(m) = {}
CountsTrue ==
  \A i \in DOMAIN hwList : \A minor \in Minors(hwList[i]) :
    hwList[i].count[minor - hwList[i].minor] = Cardinality(FilesAt(minor)) % CountMod
RefsTrue == \A m \in Hw : refs[m] = Cardinality(FilesOf(m))
CountInv == ~orphaned => OnListed /\ NoneInExit /\ CountsTrue /\ RefsTrue

(* The files of a minor and of a module are finitely many.                 *)
LEMMA FilesFinite ==
  ASSUME NEW x
  PROVE  /\ IsFiniteSet(FilesAt(x)) /\ Cardinality(FilesAt(x)) \in Nat
         /\ IsFiniteSet(FilesOf(x)) /\ Cardinality(FilesOf(x)) \in Nat
<1>1. FilesAt(x) \in SUBSET Files /\ FilesOf(x) \in SUBSET Files
  BY DEF FilesAt, FilesOf, OpenFiles
<1> QED BY <1>1, Constants, FS_Subset, FS_CardinalityType

(* A step that opens and closes nothing leaves the files as they are.      *)
LEMMA SameFiles ==
  ASSUME UNCHANGED file
  PROVE  OpenFiles' = OpenFiles /\ \A x : FilesAt(x)' = FilesAt(x) /\ FilesOf(x)' = FilesOf(x)
BY DEF OpenFiles, FilesAt, FilesOf

(* An opened file is one more of its minor and of its module.              *)
LEMMA OpenedFiles ==
  ASSUME TypeInv, NEW f \in Files, file[f] = NoFile, NEW r \in FileRec,
         file' = [file EXCEPT ![f] = r]
  PROVE  /\ OpenFiles' = OpenFiles \cup {f} /\ f \notin OpenFiles /\ file'[f] = r
         /\ \A g \in OpenFiles : file'[g] = file[g]
         /\ \A x : FilesAt(x)' = IF x = r.minor THEN FilesAt(x) \cup {f} ELSE FilesAt(x)
         /\ \A x : FilesOf(x)' = IF x = r.hw THEN FilesOf(x) \cup {f} ELSE FilesOf(x)
<1>1. file \in [Files -> FileRec \cup {NoFile}] BY DEF TypeInv, FileInv
<1>2. r # NoFile BY Constants
<1>3. file'[f] = r /\ \A g \in Files : g # f => file'[g] = file[g] BY <1>1
<1>4. OpenFiles' = OpenFiles \cup {f} /\ f \notin OpenFiles BY <1>2, <1>3 DEF OpenFiles
<1>5. \A g \in OpenFiles : g \in Files /\ g # f BY DEF OpenFiles
<1>6. ASSUME NEW x
      PROVE  FilesAt(x)' = IF x = r.minor THEN FilesAt(x) \cup {f} ELSE FilesAt(x)
  BY <1>3, <1>4, <1>5 DEF FilesAt
<1>7. ASSUME NEW x
      PROVE  FilesOf(x)' = IF x = r.hw THEN FilesOf(x) \cup {f} ELSE FilesOf(x)
  BY <1>3, <1>4, <1>5 DEF FilesOf
<1> QED BY <1>3, <1>4, <1>5, <1>6, <1>7

(* A closed one is one less.                                               *)
LEMMA ClosedFiles ==
  ASSUME TypeInv, NEW f \in Files, file[f] # NoFile, file' = [file EXCEPT ![f] = NoFile]
  PROVE  /\ OpenFiles' = OpenFiles \ {f} /\ f \in OpenFiles
         /\ \A g \in OpenFiles' : file'[g] = file[g]
         /\ \A x : FilesAt(x)' = FilesAt(x) \ {f} /\ (f \in FilesAt(x) <=> x = file[f].minor)
         /\ \A x : FilesOf(x)' = FilesOf(x) \ {f} /\ (f \in FilesOf(x) <=> x = file[f].hw)
<1>1. file \in [Files -> FileRec \cup {NoFile}] BY DEF TypeInv, FileInv
<1>2. file'[f] = NoFile /\ \A g \in Files : g # f => file'[g] = file[g] BY <1>1
<1>3. OpenFiles' = OpenFiles \ {f} /\ f \in OpenFiles BY <1>2 DEF OpenFiles
<1>4. \A g \in OpenFiles' : g \in Files /\ g # f BY <1>3 DEF OpenFiles
<1>5. ASSUME NEW x PROVE FilesAt(x)' = FilesAt(x) \ {f} /\ (f \in FilesAt(x) <=> x = file[f].minor)
  BY <1>2, <1>3, <1>4 DEF FilesAt
<1>6. ASSUME NEW x PROVE FilesOf(x)' = FilesOf(x) \ {f} /\ (f \in FilesOf(x) <=> x = file[f].hw)
  BY <1>2, <1>3, <1>4 DEF FilesOf
<1> QED BY <1>2, <1>3, <1>4, <1>5, <1>6

(* The module of an open file is listed, and its entry is the one hw_close *)
(* finds.                                                                  *)
LEMMA FileEntry ==
  ASSUME TypeInv, DisjointInv, OnListed, NEW f \in OpenFiles
  PROVE  LET i == EntryOf(file[f].minor) IN
         /\ i \in DOMAIN hwList /\ hwList[i].hw = file[f].hw /\ file[f].minor \in Minors(hwList[i])
         /\ i \in 1..Len(hwList) /\ i # 0 /\ file[f].hw \in Hw
<1>1. PICK i \in DOMAIN hwList :
        hwList[i].hw = file[f].hw /\ file[f].minor \in Minors(hwList[i])
  BY DEF OnListed
<1>2. EntryOf(file[f].minor) = i BY <1>1, EntryOwn DEF DisjointInv
<1>3. hwList \in Seq(EntryRec) /\ hwList[i] \in EntryRec BY DEF TypeInv, ListInv
<1>4. hwList[i].hw \in Hw /\ i \in 1..Len(hwList) /\ i # 0 BY <1>3, EntryFields
<1> QED BY <1>1, <1>2, <1>4

(* An opened minor counts one more file, and so does its module.           *)
LEMMA HwOpenCounts ==
  ASSUME TypeInv, DisjointInv, CountInv,
         NEW f \in Files, NEW minor \in 0..(MaxDev - 1), HwOpen(f, minor)
  PROVE  CountInv'
<1> DEFINE i == EntryOf(minor)
           h == hwList[i].hw
           r == [minor |-> minor, hw |-> h]
           s == Count(i, minor, 1)
<1>1. /\ freeing = NoHw /\ file[f] = NoFile /\ stage[h] # "quiet"
      /\ refs' = [refs EXCEPT ![h] = @ + 1] /\ hwList' = s
      /\ file' = [file EXCEPT ![f] = r] /\ UNCHANGED <<stage, freeing, orphaned>>
  BY DEF HwOpen, Unlocked, history
<1>2. i \in 1..Len(hwList) /\ minor \in Minors(hwList[i]) /\ h \in Hw BY HwOpenType
<1>3. hwList \in Seq(EntryRec) /\ DOMAIN hwList = 1..Len(hwList)
      /\ refs \in [Hw -> Int] /\ NoHw \notin Hw
  BY Constants DEF TypeInv, ListInv, ModuleInv
<1>4. /\ s \in Seq(EntryRec) /\ Len(s) = Len(hwList)
      /\ \A j \in 1..Len(hwList) :
           /\ s[j].hw = hwList[j].hw /\ s[j].minor = hwList[j].minor
           /\ j # i => s[j] = hwList[j]
      /\ \A n \in 0..(Instances[h] - 1) :
           s[i].count[n] = IF n = minor - hwList[i].minor THEN (hwList[i].count[n] + 1) % CountMod
                           ELSE hwList[i].count[n]
  <2>1. 1 \in {1, -1} OBVIOUS
  <2> QED BY <1>2, <1>3, <2>1, CountOne
<1>5. r \in FileRec /\ r.minor = minor /\ r.hw = h BY <1>2, Constants DEF FileRec
<1> HIDE DEF i, h, r, s
<1>6. /\ OpenFiles' = OpenFiles \cup {f} /\ f \notin OpenFiles /\ file'[f] = r
      /\ \A g \in OpenFiles : file'[g] = file[g]
      /\ \A x : FilesAt(x)' = IF x = minor THEN FilesAt(x) \cup {f} ELSE FilesAt(x)
      /\ \A x : FilesOf(x)' = IF x = h THEN FilesOf(x) \cup {f} ELSE FilesOf(x)
  <2>1. /\ OpenFiles' = OpenFiles \cup {f} /\ f \notin OpenFiles /\ file'[f] = r
        /\ \A g \in OpenFiles : file'[g] = file[g]
        /\ \A x : FilesAt(x)' = IF x = r.minor THEN FilesAt(x) \cup {f} ELSE FilesAt(x)
        /\ \A x : FilesOf(x)' = IF x = r.hw THEN FilesOf(x) \cup {f} ELSE FilesOf(x)
    BY <1>1, <1>5, OpenedFiles
  <2> QED BY <2>1, <1>5
<1>7. /\ DOMAIN hwList' = DOMAIN hwList
      /\ \A j \in DOMAIN hwList : hwList'[j].hw = hwList[j].hw /\ Minors(hwList'[j]) = Minors(hwList[j])
  BY <1>1, <1>3, <1>4 DEF Minors
<1> SUFFICES ASSUME ~orphaned PROVE (OnListed /\ NoneInExit /\ CountsTrue /\ RefsTrue)'
  BY <1>1 DEF CountInv
<1>8. OnListed /\ NoneInExit /\ CountsTrue /\ RefsTrue BY DEF CountInv
<1>9. OnListed'
  <2> SUFFICES ASSUME NEW g \in OpenFiles'
               PROVE  \E j \in DOMAIN hwList' :
                        hwList'[j].hw = file'[g].hw /\ file'[g].minor \in Minors(hwList'[j])
    BY DEF OnListed, Minors
  <2>1. CASE g = f BY <2>1, <1>2, <1>3, <1>5, <1>6, <1>7 DEF h
  <2>2. CASE g # f BY <2>2, <1>6, <1>7, <1>8 DEF OnListed
  <2> QED BY <2>1, <2>2
<1>10. NoneInExit' BY <1>1, <1>2, <1>3, <1>6, <1>8 DEF NoneInExit
<1>11. ASSUME NEW x PROVE f \notin FilesAt(x) /\ f \notin FilesOf(x)
  BY <1>6 DEF FilesAt, FilesOf
<1>12. CountsTrue'
  <2> SUFFICES ASSUME NEW j \in DOMAIN hwList, NEW k \in Minors(hwList[j])
               PROVE  hwList'[j].count[k - hwList'[j].minor] = Cardinality(FilesAt(k)') % CountMod
    BY <1>7 DEF CountsTrue, Minors, FilesAt
  <2>1. hwList[j].count[k - hwList[j].minor] = Cardinality(FilesAt(k)) % CountMod
    BY <1>8 DEF CountsTrue
  <2>2. hwList'[j].minor = hwList[j].minor BY <1>1, <1>3, <1>4
  <2>3. CASE k = minor
    <3>1. j = i BY <2>3, <1>2, <1>3 DEF DisjointInv, MinorsDisjoint
    <3>2. k - hwList[j].minor \in 0..(Instances[h] - 1)
      <4>1. hwList[j] \in EntryRec BY <1>3
      <4> QED BY <3>1, <4>1, EntryFields DEF Minors, h
    <3>3. hwList'[j].count[k - hwList[j].minor] = (hwList[j].count[k - hwList[j].minor] + 1) % CountMod
      BY <2>3, <3>1, <3>2, <1>1, <1>4
    <3>4. Cardinality(FilesAt(k)') = Cardinality(FilesAt(k)) + 1
      <4>1. FilesAt(k)' = FilesAt(k) \cup {f} BY <2>3, <1>6
      <4> QED BY <4>1, <1>11, FilesFinite, FS_AddElement
    <3>5. Cardinality(FilesAt(k)) \in Nat BY FilesFinite
    <3> QED BY <2>1, <2>2, <3>3, <3>4, <3>5, Wraps
  <2>4. CASE k # minor
    <3>1. FilesAt(k)' = FilesAt(k) BY <2>4, <1>6
    <3>2. hwList'[j].count[k - hwList[j].minor] = hwList[j].count[k - hwList[j].minor]
      <4>1. CASE j # i BY <4>1, <1>1, <1>3, <1>4
      <4>2. CASE j = i
        <5>1. hwList[j] \in EntryRec BY <1>3
        <5>2. k - hwList[j].minor \in 0..(Instances[h] - 1) /\ hwList[j].minor \in Int /\ k \in Int
          BY <4>2, <5>1, EntryFields DEF Minors, h
        <5>3. k - hwList[j].minor # minor - hwList[i].minor BY <2>4, <4>2, <5>2
        <5> QED BY <4>2, <5>2, <5>3, <1>1, <1>4
      <4> QED BY <4>1, <4>2
    <3> QED BY <2>1, <2>2, <3>1, <3>2
  <2> QED BY <2>3, <2>4
<1>13. RefsTrue'
  <2> SUFFICES ASSUME NEW m \in Hw PROVE refs'[m] = Cardinality(FilesOf(m)')
    BY DEF RefsTrue, FilesOf
  <2>1. refs[m] = Cardinality(FilesOf(m)) BY <1>8 DEF RefsTrue
  <2>2. CASE m = h
    <3>1. FilesOf(m)' = FilesOf(m) \cup {f} BY <2>2, <1>6
    <3>2. Cardinality(FilesOf(m)') = Cardinality(FilesOf(m)) + 1
      BY <3>1, <1>11, FilesFinite, FS_AddElement
    <3> QED BY <2>1, <2>2, <3>2, <1>1, <1>3
  <2>3. CASE m # h
    <3>1. FilesOf(m)' = FilesOf(m) BY <2>3, <1>6
    <3> QED BY <2>1, <2>3, <3>1, <1>1, <1>3
  <2> QED BY <2>2, <2>3
<1> QED BY <1>9, <1>10, <1>12, <1>13

(* A closed one counts one less.                                           *)
LEMMA HwCloseCounts ==
  ASSUME TypeInv, DisjointInv, CountInv, NEW f \in Files, HwClose(f)
  PROVE  CountInv'
<1> DEFINE minor == file[f].minor
           i == EntryOf(minor)
           h == file[f].hw
           s == Count(i, minor, -1)
<1>1. /\ file[f] # NoFile /\ file' = [file EXCEPT ![f] = NoFile]
      /\ i # 0 => refs' = [refs EXCEPT ![hwList[i].hw] = @ - 1] /\ hwList' = s
      /\ UNCHANGED <<stage, freeing, orphaned>>
  BY DEF HwClose, history
<1> SUFFICES ASSUME ~orphaned PROVE (OnListed /\ NoneInExit /\ CountsTrue /\ RefsTrue)'
  BY <1>1 DEF CountInv
<1>2. OnListed /\ NoneInExit /\ CountsTrue /\ RefsTrue BY DEF CountInv
<1>3. f \in OpenFiles BY <1>1 DEF OpenFiles
<1>4. /\ i \in 1..Len(hwList) /\ i # 0 /\ hwList[i].hw = h /\ minor \in Minors(hwList[i]) /\ h \in Hw
  BY <1>2, <1>3, FileEntry
<1>5. hwList \in Seq(EntryRec) /\ DOMAIN hwList = 1..Len(hwList)
      /\ refs \in [Hw -> Int]
  BY DEF TypeInv, ListInv, ModuleInv
<1>6. /\ s \in Seq(EntryRec) /\ Len(s) = Len(hwList)
      /\ \A j \in 1..Len(hwList) :
           /\ s[j].hw = hwList[j].hw /\ s[j].minor = hwList[j].minor
           /\ j # i => s[j] = hwList[j]
      /\ \A n \in 0..(Instances[hwList[i].hw] - 1) :
           s[i].count[n] = IF n = minor - hwList[i].minor THEN (hwList[i].count[n] + (-1)) % CountMod
                           ELSE hwList[i].count[n]
  <2>1. -1 \in {1, -1} OBVIOUS
  <2> HIDE DEF minor, i
  <2> QED BY <1>4, <1>5, <2>1, CountOne
<1> HIDE DEF minor, i, h, s
<1>7. /\ OpenFiles' = OpenFiles \ {f}
      /\ \A g \in OpenFiles' : file'[g] = file[g]
      /\ \A x : FilesAt(x)' = FilesAt(x) \ {f} /\ (f \in FilesAt(x) <=> x = minor)
      /\ \A x : FilesOf(x)' = FilesOf(x) \ {f} /\ (f \in FilesOf(x) <=> x = h)
  BY <1>1, ClosedFiles DEF minor, h
<1>8. /\ DOMAIN hwList' = DOMAIN hwList /\ hwList' = s
      /\ \A j \in DOMAIN hwList : /\ hwList'[j].hw = hwList[j].hw
                                 /\ hwList'[j].minor = hwList[j].minor
                                 /\ Minors(hwList'[j]) = Minors(hwList[j])
  BY <1>1, <1>4, <1>5, <1>6 DEF Minors
<1>9. OnListed'
  <2> SUFFICES ASSUME NEW g \in OpenFiles'
               PROVE  \E j \in DOMAIN hwList' :
                        hwList'[j].hw = file'[g].hw /\ file'[g].minor \in Minors(hwList'[j])
    BY DEF OnListed, Minors
  <2> QED BY <1>2, <1>7, <1>8 DEF OnListed
<1>10. NoneInExit'
  <2> SUFFICES ASSUME NEW m \in Hw, stage'[m] = "quiet" \/ freeing' = m PROVE FilesOf(m)' = {}
    BY DEF NoneInExit, FilesOf, OpenFiles
  <2>1. FilesOf(m) = {} BY <1>1, <1>2 DEF NoneInExit
  <2> QED BY <2>1, <1>7
<1>11. CountsTrue'
  <2> SUFFICES ASSUME NEW j \in DOMAIN hwList, NEW k \in Minors(hwList[j])
               PROVE  hwList'[j].count[k - hwList'[j].minor] = Cardinality(FilesAt(k)') % CountMod
    BY <1>8 DEF CountsTrue, Minors, FilesAt
  <2>1. hwList[j].count[k - hwList[j].minor] = Cardinality(FilesAt(k)) % CountMod
    BY <1>2 DEF CountsTrue
  <2>2. hwList'[j].minor = hwList[j].minor BY <1>8
  <2>5. hwList[j] \in EntryRec BY <1>5
  <2>6. k - hwList[j].minor \in 0..(Instances[hwList[j].hw] - 1) /\ hwList[j].minor \in Int /\ k \in Int
    BY <2>5, EntryFields DEF Minors
  <2>3. CASE k = minor
    <3>1. j = i BY <2>3, <1>4, <1>5 DEF DisjointInv, MinorsDisjoint
    <3>3. hwList'[j].count[k - hwList[j].minor] = (hwList[j].count[k - hwList[j].minor] + (-1)) % CountMod
      BY <2>3, <2>6, <3>1, <1>6, <1>8
    <3>4. Cardinality(FilesAt(k)') = Cardinality(FilesAt(k)) - 1
      <4>1. FilesAt(k)' = FilesAt(k) \ {f} /\ f \in FilesAt(k) BY <2>3, <1>7
      <4> QED BY <4>1, FilesFinite, FS_RemoveElement
    <3>5. Cardinality(FilesAt(k)) \in Nat /\ Cardinality(FilesAt(k)) > 0
      <4>1. FilesAt(k) # {} BY <2>3, <1>7
      <4> QED BY <4>1, FilesFinite, FS_EmptySet
    <3>6. (Cardinality(FilesAt(k)) % CountMod) + (-1) = (Cardinality(FilesAt(k)) % CountMod) - 1
      BY <3>5, Constants
    <3> QED BY <2>1, <2>2, <3>3, <3>4, <3>5, <3>6, Wraps
  <2>4. CASE k # minor
    <3>1. FilesAt(k)' = FilesAt(k) BY <2>4, <1>7
    <3>2. hwList'[j].count[k - hwList[j].minor] = hwList[j].count[k - hwList[j].minor]
      <4>1. CASE j # i BY <4>1, <1>5, <1>6, <1>8
      <4>2. CASE j = i
        <5>1. minor \in Int
          <6>1. hwList[i] \in EntryRec BY <1>4, <1>5
          <6> QED BY <6>1, <1>4, EntryFields DEF Minors
        <5>2. k - hwList[j].minor # minor - hwList[i].minor BY <2>4, <2>6, <4>2, <5>1
        <5> QED BY <2>6, <4>2, <5>2, <1>6, <1>8
      <4> QED BY <4>1, <4>2
    <3> QED BY <2>1, <2>2, <3>1, <3>2
  <2> QED BY <2>3, <2>4
<1>12. RefsTrue'
  <2> SUFFICES ASSUME NEW m \in Hw PROVE refs'[m] = Cardinality(FilesOf(m)')
    BY DEF RefsTrue, FilesOf
  <2>1. refs[m] = Cardinality(FilesOf(m)) BY <1>2 DEF RefsTrue
  <2>2. CASE m = h
    <3>1. FilesOf(m)' = FilesOf(m) \ {f} /\ f \in FilesOf(m) BY <2>2, <1>7
    <3>2. Cardinality(FilesOf(m)') = Cardinality(FilesOf(m)) - 1
      BY <3>1, FilesFinite, FS_RemoveElement
    <3> QED BY <2>1, <2>2, <3>2, <1>1, <1>4, <1>5
  <2>3. CASE m # h
    <3>1. FilesOf(m)' = FilesOf(m) BY <2>3, <1>7
    <3> QED BY <2>1, <2>3, <3>1, <1>1, <1>4, <1>5
  <2> QED BY <2>2, <2>3
<1> QED BY <1>9, <1>10, <1>11, <1>12

(* A registration moves the other entries and leaves them as they are.     *)
LEMMA RegisterHwMoves ==
  ASSUME TypeInv, NEW m \in Hw, RegisterHw(m)
  PROVE  \E i \in DOMAIN hwList' :
           /\ hwList'[i] = Entry(m, FirstMinor(Instances[m]))
           /\ \A j \in DOMAIN hwList' : j # i =>
                Shifted(i, j) \in DOMAIN hwList /\ hwList'[j] = hwList[Shifted(i, j)]
           /\ \A a \in DOMAIN hwList : \E j \in DOMAIN hwList' : j # i /\ Shifted(i, j) = a
<1> DEFINE e == Entry(m, FirstMinor(Instances[m]))
           i == GapAt(Instances[m]) + 1
<1>1. Len(hwList) \in Nat /\ DOMAIN hwList = 1..Len(hwList) BY DEF TypeInv, ListInv
<1>2. /\ DOMAIN hwList' = 1..(Len(hwList) + 1) /\ i \in 1..(Len(hwList) + 1)
      /\ \A j \in 1..(Len(hwList) + 1) :
           hwList'[j] = IF j < i THEN hwList[j] ELSE IF j = i THEN e ELSE hwList[j - 1]
  BY RegisterHwList DEF ListInv
<1> HIDE DEF e, i
<1>3. hwList'[i] = e BY <1>1, <1>2
<1>4. ASSUME NEW j \in DOMAIN hwList', j # i
      PROVE  Shifted(i, j) \in DOMAIN hwList /\ hwList'[j] = hwList[Shifted(i, j)]
  <2>1. CASE j < i BY <2>1, <1>1, <1>2 DEF Shifted
  <2>2. CASE ~(j < i) BY <2>2, <1>1, <1>2, <1>4 DEF Shifted
  <2> QED BY <2>1, <2>2
<1>5. ASSUME NEW a \in DOMAIN hwList PROVE \E j \in DOMAIN hwList' : j # i /\ Shifted(i, j) = a
  <2>1. CASE a < i
    <3>1. a \in DOMAIN hwList' /\ a # i /\ Shifted(i, a) = a BY <2>1, <1>1, <1>2 DEF Shifted
    <3> QED BY <3>1
  <2>2. CASE ~(a < i)
    <3>1. a + 1 \in DOMAIN hwList' /\ a + 1 # i /\ Shifted(i, a + 1) = a
      BY <2>2, <1>1, <1>2 DEF Shifted
    <3> QED BY <3>1
  <2> QED BY <2>1, <2>2
<1> QED BY <1>2, <1>3, <1>4, <1>5 DEF e

(* A module that registers is given minors on which nothing is open.       *)
LEMMA RegisterHwCounts ==
  ASSUME TypeInv, DisjointInv, CountInv, NEW m \in Hw, RegisterHw(m), ~overlapped'
  PROVE  CountInv'
<1> DEFINE e == Entry(m, FirstMinor(Instances[m]))
<1>1. /\ freeing = NoHw /\ stage[m] = "out" /\ stage' = [stage EXCEPT ![m] = "registered"]
      /\ UNCHANGED <<refs, freeing, file, orphaned>>
  BY DEF RegisterHw, Registers, Unlocked
<1> SUFFICES ASSUME ~orphaned PROVE (OnListed /\ NoneInExit /\ CountsTrue /\ RefsTrue)'
  BY <1>1 DEF CountInv
<1>2. OnListed /\ NoneInExit /\ CountsTrue /\ RefsTrue BY DEF CountInv
<1>3. PICK i \in DOMAIN hwList' :
           /\ hwList'[i] = e
           /\ \A j \in DOMAIN hwList' : j # i =>
                Shifted(i, j) \in DOMAIN hwList /\ hwList'[j] = hwList[Shifted(i, j)]
           /\ \A a \in DOMAIN hwList : \E j \in DOMAIN hwList' : j # i /\ Shifted(i, j) = a
  BY RegisterHwMoves
<1>4. /\ e \in EntryRec /\ e.hw = m
      /\ \A n \in 0..(Instances[m] - 1) : e.count[n] = 0
  BY RegisterHwList, EntryType
<1>5. \A j \in DOMAIN hwList : Minors(e) \cap Minors(hwList[j]) = {}
  BY DEF RegisterHw, Overlaps
<1>6. stage \in [Hw -> Stages] BY DEF TypeInv, ModuleInv
<1> HIDE DEF e
<1>7. OpenFiles' = OpenFiles /\ \A x : FilesAt(x)' = FilesAt(x) /\ FilesOf(x)' = FilesOf(x)
  BY <1>1, SameFiles
<1>8. OnListed'
  <2> SUFFICES ASSUME NEW g \in OpenFiles
               PROVE  \E j \in DOMAIN hwList' :
                        hwList'[j].hw = file[g].hw /\ file[g].minor \in Minors(hwList'[j])
    BY <1>1, <1>7 DEF OnListed, Minors
  <2>1. PICK a \in DOMAIN hwList : hwList[a].hw = file[g].hw /\ file[g].minor \in Minors(hwList[a])
    BY <1>2 DEF OnListed
  <2>2. PICK j \in DOMAIN hwList' : j # i /\ Shifted(i, j) = a BY <1>3
  <2>3. hwList'[j] = hwList[a] BY <1>3, <2>2
  <2> QED BY <2>1, <2>3
<1>9. NoneInExit' BY <1>1, <1>2, <1>6, <1>7 DEF NoneInExit
<1>10. CountsTrue'
  <2> SUFFICES ASSUME NEW j \in DOMAIN hwList', NEW k \in Minors(hwList'[j])
               PROVE  hwList'[j].count[k - hwList'[j].minor] = Cardinality(FilesAt(k)) % CountMod
    BY <1>7 DEF CountsTrue, Minors
  <2>1. CASE j # i
    <3>1. Shifted(i, j) \in DOMAIN hwList /\ hwList'[j] = hwList[Shifted(i, j)] BY <2>1, <1>3
    <3> QED BY <3>1, <1>2 DEF CountsTrue
  <2>2. CASE j = i
    <3>1. hwList'[j] = e BY <2>2, <1>3
    <3>2. FilesAt(k) = {}
      <4>1. \A g \in OpenFiles : file[g].minor # k BY <3>1, <1>2, <1>5 DEF OnListed
      <4> QED BY <4>1 DEF FilesAt
    <3>3. Cardinality(FilesAt(k)) = 0 BY <3>2, FS_EmptySet
    <3>4. k - e.minor \in 0..(Instances[m] - 1) BY <3>1, <1>4, EntryFields DEF Minors
    <3>5. 0 % CountMod = 0 BY Constants
    <3> QED BY <3>1, <3>3, <3>4, <3>5, <1>4
  <2> QED BY <2>1, <2>2
<1>11. RefsTrue' BY <1>1, <1>2, <1>7 DEF RefsTrue
<1> QED BY <1>8, <1>9, <1>10, <1>11

(* A module that is unlinked had no file left.                             *)
LEMMA UnlinkCounts ==
  ASSUME TypeInv, DisjointInv, CountInv, NEW m \in Hw, UnregisterUnlink(m)
  PROVE  CountInv'
<1>1. /\ freeing = m /\ stage' = [stage EXCEPT ![m] = "out"] /\ freeing' = NoHw
      /\ refs' = [refs EXCEPT ![m] = 0] /\ UNCHANGED <<file, orphaned>>
  BY DEF UnregisterUnlink, history
<1> SUFFICES ASSUME ~orphaned PROVE (OnListed /\ NoneInExit /\ CountsTrue /\ RefsTrue)'
  BY <1>1 DEF CountInv
<1>2. OnListed /\ NoneInExit /\ CountsTrue /\ RefsTrue BY DEF CountInv
<1>3. FilesOf(m) = {} BY <1>1, <1>2 DEF NoneInExit
<1>4. PICK i \in DOMAIN hwList :
           /\ hwList[i].hw = m
           /\ \A j \in DOMAIN hwList' : /\ Kept(i, j) \in DOMAIN hwList /\ Kept(i, j) # i
                                       /\ hwList'[j] = hwList[Kept(i, j)]
           /\ \A j, l \in DOMAIN hwList' : j # l => Kept(i, j) # Kept(i, l)
           /\ \A a \in DOMAIN hwList : a # i => \E j \in DOMAIN hwList' : Kept(i, j) = a
  BY UnlinkTakesOwn
<1>5. stage \in [Hw -> Stages] /\ refs \in [Hw -> Int] /\ NoHw \notin Hw
  BY Constants DEF TypeInv, ModuleInv
<1>6. OpenFiles' = OpenFiles /\ \A x : FilesAt(x)' = FilesAt(x) /\ FilesOf(x)' = FilesOf(x)
  BY <1>1, SameFiles
<1>7. OnListed'
  <2> SUFFICES ASSUME NEW g \in OpenFiles
               PROVE  \E j \in DOMAIN hwList' :
                        hwList'[j].hw = file[g].hw /\ file[g].minor \in Minors(hwList'[j])
    BY <1>1, <1>6 DEF OnListed, Minors
  <2>1. PICK a \in DOMAIN hwList : hwList[a].hw = file[g].hw /\ file[g].minor \in Minors(hwList[a])
    BY <1>2 DEF OnListed
  <2>2. a # i BY <2>1, <1>3, <1>4 DEF FilesOf
  <2>3. PICK j \in DOMAIN hwList' : Kept(i, j) = a BY <2>2, <1>4
  <2>4. hwList'[j] = hwList[a] BY <1>4, <2>3
  <2> QED BY <2>1, <2>4
<1>8. NoneInExit' BY <1>1, <1>2, <1>5, <1>6 DEF NoneInExit
<1>9. CountsTrue'
  <2> SUFFICES ASSUME NEW j \in DOMAIN hwList', NEW k \in Minors(hwList'[j])
               PROVE  hwList'[j].count[k - hwList'[j].minor] = Cardinality(FilesAt(k)) % CountMod
    BY <1>6 DEF CountsTrue, Minors
  <2>1. Kept(i, j) \in DOMAIN hwList /\ hwList'[j] = hwList[Kept(i, j)] BY <1>4
  <2> QED BY <2>1, <1>2 DEF CountsTrue
<1>10. RefsTrue'
  <2> SUFFICES ASSUME NEW a \in Hw PROVE refs'[a] = Cardinality(FilesOf(a))
    BY <1>6 DEF RefsTrue
  <2>1. CASE a = m BY <2>1, <1>1, <1>3, <1>5, FS_EmptySet
  <2>2. CASE a # m BY <2>2, <1>1, <1>2, <1>5 DEF RefsTrue
  <2> QED BY <2>1, <2>2
<1> QED BY <1>7, <1>8, <1>9, <1>10

(* Every step keeps the counts.                                            *)
LEMMA CountStep ==
  ASSUME TypeInv, DisjointInv, CountInv, Next, ~overlapped'
  PROVE  CountInv'
<1>1. ASSUME UNCHANGED <<hwList, refs, file>>, orphaned => orphaned', ~orphaned => NoneInExit' \/ orphaned'
      PROVE  CountInv'
  <2>1. OpenFiles' = OpenFiles /\ \A x : FilesAt(x)' = FilesAt(x) /\ FilesOf(x)' = FilesOf(x)
    BY <1>1, SameFiles
  <2> SUFFICES ASSUME ~orphaned' PROVE (OnListed /\ NoneInExit /\ CountsTrue /\ RefsTrue)'
    BY DEF CountInv
  <2>2. OnListed /\ CountsTrue /\ RefsTrue /\ NoneInExit' BY <1>1 DEF CountInv
  <2>3. OnListed' BY <1>1, <2>1, <2>2 DEF OnListed, Minors
  <2>4. CountsTrue' BY <1>1, <2>1, <2>2 DEF CountsTrue, Minors
  <2>5. RefsTrue' BY <1>1, <2>1, <2>2 DEF RefsTrue
  <2> QED BY <2>2, <2>3, <2>4, <2>5
<1>2. \A m \in Hw : m # NoHw BY Constants
<1>3. stage \in [Hw -> Stages] BY DEF TypeInv, ModuleInv
<1>4. CASE RegisterCore \/ CoreExit \/ UnregisterCore \/ \E m \in Hw : RegisterHwFails(m)
  <2>1. UNCHANGED <<hwList, refs, stage, freeing, file, orphaned>>
    BY <1>4 DEF RegisterCore, CoreExit, UnregisterCore, RegisterHwFails, history
  <2>2. ~orphaned => NoneInExit'
    BY <2>1, SameFiles DEF CountInv, NoneInExit
  <2> QED BY <2>1, <2>2, <1>1
<1>5. ASSUME NEW m \in Hw, RegisterHw(m) PROVE CountInv' BY <1>5, RegisterHwCounts
<1>6. ASSUME NEW m \in Hw, RequestIrq(m) \/ RequestIrqFails(m) PROVE CountInv'
  <2>1. /\ \E s \in {"running", "failed"} : stage' = [stage EXCEPT ![m] = s]
        /\ UNCHANGED <<hwList, refs, freeing, file, orphaned>>
    BY <1>6 DEF RequestIrq, RequestIrqFails, history
  <2>2. \A a \in Hw : stage'[a] = "quiet" => stage[a] = "quiet" BY <2>1, <1>3
  <2>3. ~orphaned => NoneInExit' BY <2>1, <2>2, SameFiles DEF CountInv, NoneInExit
  <2> QED BY <2>1, <2>3, <1>1
<1>7. ASSUME NEW m \in Hw, FreeIrq(m) PROVE CountInv'
  <2>1. /\ refs[m] = 0 /\ stage' = [stage EXCEPT ![m] = "quiet"]
        /\ UNCHANGED <<hwList, refs, freeing, file, orphaned>>
    BY <1>7 DEF FreeIrq, history
  <2>2. \A a \in Hw : a # m => stage'[a] = stage[a] BY <2>1, <1>3
  <2>3. ASSUME ~orphaned PROVE NoneInExit'
    <3>1. FilesOf(m) = {}
      <4>1. Cardinality(FilesOf(m)) = 0 BY <2>1, <2>3 DEF CountInv, RefsTrue
      <4> QED BY <4>1, FilesFinite, FS_EmptySet
    <3> QED BY <2>1, <2>2, <2>3, <3>1, SameFiles DEF CountInv, NoneInExit
  <2> QED BY <2>1, <2>3, <1>1
<1>8. ASSUME NEW m \in Hw, UnregisterFree(m) PROVE CountInv'
  <2>1. /\ freeing' = m /\ stage[m] \in {"quiet", "failed"}
        /\ orphaned' = (orphaned \/ (stage[m] = "failed" /\ FilesOf(m) # {}))
        /\ UNCHANGED <<hwList, refs, stage, file>>
    BY <1>8 DEF UnregisterFree
  <2>2. ASSUME ~orphaned, ~orphaned' PROVE NoneInExit'
    <3>1. FilesOf(m) = {} BY <2>1, <2>2 DEF CountInv, NoneInExit
    <3> QED BY <2>1, <2>2, <3>1, SameFiles DEF CountInv, NoneInExit
  <2>3. orphaned => orphaned' BY <2>1
  <2> QED BY <2>1, <2>2, <2>3, <1>1
<1>9. ASSUME NEW m \in Hw, UnregisterUnlink(m) PROVE CountInv' BY <1>9, UnlinkCounts
<1>10. ASSUME NEW f \in Files, HwClose(f) PROVE CountInv' BY <1>10, HwCloseCounts
<1>11. ASSUME NEW f \in Files, NEW minor \in 0..(MaxDev - 1), HwOpen(f, minor) PROVE CountInv'
  BY <1>11, HwOpenCounts
<1> QED BY <1>4, <1>5, <1>6, <1>7, <1>8, <1>9, <1>10, <1>11 DEF Next

(* Nothing is open at first.                                               *)
LEMMA CountInit == Init => CountInv
<1> SUFFICES ASSUME Init PROVE CountInv OBVIOUS
<1>1. OpenFiles = {} BY DEF Init, OpenFiles
<1>2. \A x : FilesOf(x) = {} BY <1>1 DEF FilesOf
<1>3. OnListed /\ NoneInExit BY <1>1, <1>2 DEF OnListed, NoneInExit
<1>4. CountsTrue BY DEF Init, CountsTrue
<1>5. RefsTrue BY <1>2, FS_EmptySet DEF Init, RefsTrue
<1> QED BY <1>3, <1>4, <1>5 DEF CountInv

----------------------------------------------------------------------------
(* The core, and all of the invariant.                                     *)

(* The core stays in under what is listed and open (try_module_get).       *)
CoreInv == hwList # <<>> \/ OpenFiles # {} => core = "in"

(* A list that has an entry is not empty.                                  *)
LEMMA Listed == ASSUME TypeInv PROVE coreRefs = 0 <=> hwList = <<>>
BY DEF TypeInv, ListInv

(* Every step keeps it in: its exit does not begin while it is referenced, *)
(* and a registration that comes later fails.                              *)
LEMMA CoreStep == ASSUME TypeInv, CoreInv, Next PROVE CoreInv'
<1>1. hwList \in Seq(EntryRec) BY DEF TypeInv, ListInv
<1>2. ASSUME UNCHANGED <<core, hwList, file>> PROVE CoreInv' BY <1>2 DEF CoreInv, OpenFiles
<1>3. CASE RegisterCore BY <1>3 DEF RegisterCore, CoreInv, OpenFiles
<1>4. CASE CoreExit
  <2>1. hwList = <<>> BY <1>4, Listed DEF CoreExit
  <2> QED BY <1>4, <2>1 DEF CoreExit, CoreInv, OpenFiles
<1>5. CASE UnregisterCore BY <1>5 DEF UnregisterCore, CoreInv, OpenFiles
<1>6. ASSUME NEW m \in Hw, RegisterHw(m) PROVE CoreInv' BY <1>6 DEF RegisterHw, CoreInv
<1>7. ASSUME NEW m \in Hw,
             \/ RegisterHwFails(m) \/ RequestIrq(m) \/ RequestIrqFails(m) \/ FreeIrq(m)
             \/ UnregisterFree(m)
      PROVE  CoreInv'
  BY <1>2, <1>7 DEF RegisterHwFails, RequestIrq, RequestIrqFails, FreeIrq, UnregisterFree
<1>8. ASSUME NEW m \in Hw, UnregisterUnlink(m) PROVE CoreInv'
  <2>1. UNCHANGED <<core, file>> /\ (hwList = <<>> => hwList' = <<>>)
    <3>1. hwList = <<>> => Found(devId[m]) = 0
      <4> SUFFICES ASSUME hwList = <<>> PROVE Found(devId[m]) = 0 OBVIOUS
      <4>1. Found(devId[m]) \in 0..Len(hwList) BY <1>1, FoundFinds
      <4> QED BY <4>1
    <3> QED BY <1>8, <3>1 DEF UnregisterUnlink
  <2> QED BY <2>1 DEF CoreInv, OpenFiles
<1>9. ASSUME NEW f \in Files, NEW minor \in 0..(MaxDev - 1), HwOpen(f, minor) PROVE CoreInv'
  <2>1. hwList # <<>>
    <3>1. EntryOf(minor) \in 1..Len(hwList) BY <1>9, HwOpenType
    <3> QED BY <3>1
  <2>2. core' = core BY <1>9 DEF HwOpen
  <2> QED BY <2>1, <2>2 DEF CoreInv
<1>10. ASSUME NEW f \in Files, HwClose(f) PROVE CoreInv'
  <2>1. f \in OpenFiles /\ core' = core BY <1>10 DEF HwClose, OpenFiles
  <2> QED BY <2>1 DEF CoreInv
<1> QED BY <1>3, <1>4, <1>5, <1>6, <1>7, <1>8, <1>9, <1>10 DEF Next

(* From the initial states through every step; what is about one module's  *)
(* minors and files until minors overlap.                                  *)
HalInv == TypeInv /\ CoreInv /\ (~overlapped => DisjointInv /\ CountInv)
LEMMA HalInvariant == Spec => []HalInv
<1>1. Init => HalInv
  <2>1. Init => CoreInv BY DEF Init, CoreInv, OpenFiles
  <2> QED BY <2>1, TypeInit, DisjointInit, CountInit DEF HalInv
<1>2. HalInv /\ [Next]_vars => HalInv'
  <2>1. ASSUME HalInv, UNCHANGED vars PROVE HalInv'
    <3>1. TypeInv' BY <2>1, TypeStutter DEF HalInv
    <3>2. CoreInv' BY <2>1 DEF HalInv, vars, CoreInv, OpenFiles
    <3>3. ~overlapped' => DisjointInv'
      BY <2>1 DEF HalInv, vars, history, DisjointInv, ListedInv, ListedOnce, MinorsDisjoint,
                  Minors, LiveInv
    <3>4. ~overlapped' => CountInv'
      BY <2>1 DEF HalInv, vars, history, CountInv, OnListed, NoneInExit, CountsTrue, RefsTrue,
                  FilesAt, FilesOf, OpenFiles, Minors
    <3> QED BY <3>1, <3>2, <3>3, <3>4 DEF HalInv
  <2>2. ASSUME HalInv, Next PROVE HalInv'
    <3>1. TypeInv' BY <2>2, TypeStep DEF HalInv
    <3>2. CoreInv' BY <2>2, CoreStep DEF HalInv
    <3>3. ~overlapped' => ~overlapped
      <4>1. ASSUME NEW m \in Hw,
                   \/ RequestIrq(m) \/ RequestIrqFails(m) \/ FreeIrq(m) \/ RegisterHwFails(m)
                   \/ UnregisterFree(m) \/ UnregisterUnlink(m)
            PROVE  overlapped' = overlapped
        BY <4>1 DEF RequestIrq, RequestIrqFails, FreeIrq, RegisterHwFails, UnregisterFree,
                    UnregisterUnlink, history
      <4>2. RegisterCore \/ CoreExit \/ UnregisterCore => overlapped' = overlapped
        BY DEF RegisterCore, CoreExit, UnregisterCore, history
      <4>3. \A f \in Files, minor \in 0..(MaxDev - 1) :
              HwOpen(f, minor) => overlapped' = overlapped
        BY DEF HwOpen, history
      <4>4. \A f \in Files : HwClose(f) => overlapped' = overlapped BY DEF HwClose, history
      <4>5. \A m \in Hw : RegisterHw(m) => (overlapped => overlapped') BY DEF RegisterHw
      <4> QED BY <2>2, <4>1, <4>2, <4>3, <4>4, <4>5 DEF Next
    <3>4. ASSUME ~overlapped' PROVE DisjointInv' /\ CountInv'
      <4>1. TypeInv /\ DisjointInv /\ CountInv BY <2>2, <3>3, <3>4 DEF HalInv
      <4> QED BY <2>2, <3>4, <4>1, DisjointStep, CountStep
    <3> QED BY <3>1, <3>2, <3>4 DEF HalInv
  <2> QED BY <2>1, <2>2
<1> QED BY <1>1, <1>2, PTL DEF Spec

(* OpenCountsRight: the counts and references are those of the open files, *)
(* through opens and closes, wrap-around, registrations beside open files  *)
(* and unregistrations.                                                    *)
THEOREM CountsOfOpenFiles == Spec => []OpenCountsRight
<1>1. HalInv => OpenCountsRight
  <2> SUFFICES ASSUME HalInv PROVE OpenCountsRight OBVIOUS
  <2>1. coreRefs = Len(hwList) BY DEF HalInv, TypeInv, ListInv
  <2>2. ASSUME ~orphaned, ~overlapped, NEW i \in DOMAIN hwList, NEW minor \in Minors(hwList[i])
        PROVE  hwList[i].count[Instance(i, minor)] =
                 Cardinality({f \in OpenFiles : file[f].minor = minor}) % CountMod
    BY <2>2 DEF HalInv, CountInv, CountsTrue, FilesAt, Instance
  <2>3. ASSUME ~orphaned, ~overlapped, NEW m \in Hw PROVE refs[m] = Cardinality(FilesOf(m))
    BY <2>3 DEF HalInv, CountInv, RefsTrue
  <2> QED BY <2>1, <2>2, <2>3 DEF OpenCountsRight
<1>2. Spec => []HalInv BY HalInvariant
<1> QED BY <1>1, <1>2, PTL

(* NothingFreedInUse: the core outlives what is registered under it; the   *)
(* data behind an open file live, since a module in its exit has no file   *)
(* and any other is listed; and hw_intr finds for a running module its own *)
(* data, which live, even in the middle of another module's                *)
(* unregistration.                                                         *)
THEOREM NothingFreed == Spec => []NothingFreedInUse
<1>1. HalInv => NothingFreedInUse
  <2> SUFFICES ASSUME HalInv PROVE NothingFreedInUse OBVIOUS
  <2>1. CoreInv BY DEF HalInv
  <2>2. ASSUME ~overlapped, ~orphaned, NEW f \in OpenFiles PROVE file[f].hw \in live
    <3>1. DisjointInv /\ OnListed /\ NoneInExit BY <2>2 DEF HalInv, CountInv
    <3>2. /\ EntryOf(file[f].minor) \in DOMAIN hwList
          /\ hwList[EntryOf(file[f].minor)].hw = file[f].hw /\ file[f].hw \in Hw
      BY <3>1, FileEntry DEF HalInv
    <3>3. stage[file[f].hw] # "out" BY <3>1, <3>2 DEF DisjointInv, ListedInv
    <3>4. f \in FilesOf(file[f].hw) BY DEF FilesOf
    <3>5. freeing # file[f].hw BY <3>1, <3>2, <3>4 DEF NoneInExit
    <3> QED BY <3>1, <3>2, <3>3, <3>5 DEF DisjointInv, LiveInv
  <2>3. ASSUME ~overlapped, NEW m \in Hw, stage[m] = "running"
        PROVE  FoundHw(devId[m]) = {m} /\ m \in live
    <3>1. TypeInv /\ DisjointInv BY <2>3 DEF HalInv
    <3>2. FoundHw(devId[m]) = {m} BY <2>3, <3>1, FoundModule DEF DisjointInv
    <3>3. freeing # m BY <2>3, <3>1 DEF DisjointInv, LiveInv
    <3> QED BY <2>3, <3>1, <3>2, <3>3 DEF DisjointInv, LiveInv
  <2>4. ASSUME ~overlapped, NEW m \in Hw, stage[m] # "out" PROVE core = "in"
    <3>1. DOMAIN hwList # {} BY <2>4 DEF HalInv, DisjointInv, ListedInv
    <3>2. hwList # <<>> BY <3>1
    <3> QED BY <2>1, <3>2 DEF CoreInv
  <2> QED BY <2>1, <2>2, <2>3, <2>4 DEF NothingFreedInUse, CoreInv
<1>2. Spec => []HalInv BY HalInvariant
<1> QED BY <1>1, <1>2, PTL
====
