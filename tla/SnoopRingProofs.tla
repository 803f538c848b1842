---- MODULE SnoopRingProofs ----
(***************************************************************************)
(* What the ring of POST codes holds, for every size of the ring: facts    *)
(* about the operators of SnoopRing that LpcProofs rests on.               *)
(***************************************************************************)
EXTENDS SnoopRing, SequenceTheorems, TLAPS

Byte == Code \cup {Junk}

(* The ring holds the tail of the codes stored so far: below the write     *)
(* index the newest, from it on those of the round before.                 *)
Holds(r, s) ==
  /\ r.in \in Slots
  /\ r.size = IF Len(s) < BufSize THEN Len(s) ELSE BufSize
  /\ Len(s) < BufSize => r.in = Len(s) /\ r.out = 0
  /\ Len(s) >= BufSize => r.out = Succ(r.in)
  /\ \A i \in Slots : i < r.in => r.data[i] = s[Len(s) - r.in + i + 1]
  /\ \A i \in Slots :
       i >= r.in /\ r.size = BufSize => r.data[i] = s[Len(s) - r.in + i + 1 - BufSize]

(* What [i \in 1..n |-> f[i]] is as a sequence.                            *)
LEMMA FunctionSeq ==
  ASSUME NEW n \in Nat, NEW f \in [1..n -> Byte]
  PROVE  f \in Seq(Byte) /\ Len(f) = n
<1>1. f \in Seq(Byte) OBVIOUS
<1>2. DOMAIN f = 1..n OBVIOUS
<1>3. Len(f) \in Nat /\ DOMAIN f = 1..Len(f) BY <1>1, LenProperties
<1>4. n = Len(f) BY <1>2, <1>3
<1> QED BY <1>1, <1>4

(* A ring just allocated holds no codes (register_snoop_hal_module).       *)
LEMMA NewRingHolds == NewRing \in Ring /\ Holds(NewRing, <<>>)
BY RingAssumption DEF NewRing, Ring, Holds, Slots

(* Storing a code keeps the ring well formed and holding the tail          *)
(* (ast_snoop_irq_handler).                                                *)
LEMMA PutHolds ==
  ASSUME NEW r \in Ring, NEW s \in Seq(Code), NEW c \in Code, Holds(r, s)
  PROVE  Put(r, c) \in Ring /\ Holds(Put(r, c), Append(s, c))
<1> DEFINE q == Put(r, c)
           t == Append(s, c)
<1>1. /\ t \in Seq(Code) /\ Len(t) = Len(s) + 1 /\ t[Len(s) + 1] = c
      /\ \A i \in 1..Len(s) : t[i] = s[i]
  OBVIOUS
<1>2. /\ r.data \in [Slots -> Byte] /\ r.in \in Slots /\ r.out \in Slots
      /\ r.size \in 0..BufSize /\ Len(s) \in Nat
  BY DEF Ring, Holds, Byte
<1>3. /\ q.data = [r.data EXCEPT ![r.in] = c] /\ q.in = Succ(r.in)
      /\ q.out = (IF r.size >= BufSize - 1 THEN Succ(r.out) ELSE r.out)
      /\ q.size = (IF r.size = BufSize THEN r.size ELSE r.size + 1)
  BY DEF Put
<1>4. Succ(r.in) \in Slots /\ Succ(r.out) \in Slots
  BY <1>2, RingAssumption DEF Succ, Slots
<1>5. q \in Ring
  BY <1>2, <1>4, RingAssumption DEF Put, Ring, Byte, Slots
<1> HIDE DEF q, t
<1>6. q.size = IF Len(t) < BufSize THEN Len(t) ELSE BufSize
  BY <1>1, <1>2, <1>3, RingAssumption DEF Holds
<1>7. Len(t) < BufSize => q.in = Len(t) /\ q.out = 0
  BY <1>1, <1>2, <1>3, RingAssumption DEF Holds, Succ
<1>8. ASSUME Len(t) >= BufSize PROVE q.out = Succ(q.in)
  <2>1. CASE Len(s) < BufSize
    <3>1. Len(s) = BufSize - 1 BY <2>1, <1>8, <1>1, <1>2, RingAssumption
    <3>2. r.in = BufSize - 1 /\ r.out = 0 /\ r.size = BufSize - 1
      BY <3>1, <2>1 DEF Holds
    <3>3. q.in = 0 /\ q.out = Succ(0) BY <3>2, <1>3, RingAssumption DEF Succ
    <3> QED BY <3>3
  <2>2. CASE Len(s) >= BufSize
    <3>1. r.out = Succ(r.in) /\ r.size = BufSize
      BY <2>2, <1>2, RingAssumption DEF Holds
    <3>2. q.out = Succ(Succ(r.in)) BY <3>1, <1>3, RingAssumption
    <3> QED BY <3>2, <1>3
  <2> QED BY <2>1, <2>2, <1>2, RingAssumption
<1>9. ASSUME NEW i \in Slots, i < q.in
      PROVE  q.data[i] = t[Len(t) - q.in + i + 1]
  <2>1. q.in = r.in + 1
    BY <1>2, <1>3, <1>9 DEF Succ, Slots
  <2>2. CASE i = r.in
    <3>1. Len(t) - q.in + i + 1 = Len(s) + 1 BY <2>1, <2>2, <1>1, <1>2 DEF Slots
    <3>2. q.data[i] = c BY <2>2, <1>2, <1>3
    <3> QED BY <3>1, <3>2, <1>1
  <2>3. CASE i < r.in
    <3>1. q.data[i] = s[Len(s) - r.in + i + 1]
      BY <2>3, <1>2, <1>3 DEF Holds, Slots
    <3>2. Len(s) - r.in + i + 1 \in 1..Len(s)
      BY <2>3, <1>2, RingAssumption DEF Holds, Slots, Succ
    <3>3. Len(t) - q.in + i + 1 = Len(s) - r.in + i + 1
      BY <2>1, <1>1, <1>2 DEF Slots
    <3> QED BY <3>1, <3>2, <3>3, <1>1
  <2> QED BY <2>1, <2>2, <2>3, <1>2, <1>9 DEF Slots
<1>10. ASSUME NEW i \in Slots, i >= q.in, q.size = BufSize
       PROVE  q.data[i] = t[Len(t) - q.in + i + 1 - BufSize]
  <2>1. CASE r.in = BufSize - 1
    <3>1. q.in = 0 /\ Len(s) >= BufSize - 1
      BY <2>1, <1>2, <1>3, <1>10, RingAssumption DEF Succ, Holds, Slots
    <3>2. CASE i = r.in
      <4>1. Len(t) - q.in + i + 1 - BufSize = Len(s) + 1
        BY <3>1, <3>2, <2>1, <1>1, <1>2, RingAssumption DEF Slots
      <4>2. q.data[i] = c BY <3>2, <1>2, <1>3
      <4> QED BY <4>1, <4>2, <1>1
    <3>3. CASE i < r.in
      <4>1. q.data[i] = s[Len(s) - r.in + i + 1]
        BY <3>3, <1>2, <1>3 DEF Holds, Slots
      <4>2. Len(s) - r.in + i + 1 \in 1..Len(s)
        BY <3>1, <3>3, <2>1, <1>2, RingAssumption DEF Slots
      <4>3. Len(t) - q.in + i + 1 - BufSize = Len(s) - r.in + i + 1
        BY <3>1, <2>1, <1>1, <1>2, RingAssumption DEF Slots
      <4> QED BY <4>1, <4>2, <4>3, <1>1
    <3> QED BY <3>2, <3>3, <2>1, <1>2, RingAssumption DEF Slots
  <2>2. CASE r.in # BufSize - 1
    <3>1. q.in = r.in + 1 /\ i > r.in
      BY <2>2, <1>2, <1>3, <1>10 DEF Succ, Slots
    <3>2. r.size = BufSize /\ Len(s) >= BufSize
      BY <2>2, <1>2, <1>3, <1>10, RingAssumption DEF Holds, Slots
    <3>3. q.data[i] = s[Len(s) - r.in + i + 1 - BufSize]
      <4>1. q.data[i] = r.data[i] BY <3>1, <1>2, <1>3 DEF Slots
      <4>2. i >= r.in BY <3>1, <1>2 DEF Slots
      <4> QED BY <4>1, <4>2, <3>2 DEF Holds
    <3>4. Len(s) - r.in + i + 1 - BufSize \in 1..Len(s)
      BY <3>1, <3>2, <1>2, RingAssumption DEF Slots
    <3>5. Len(t) - q.in + i + 1 - BufSize = Len(s) - r.in + i + 1 - BufSize
      <4>1. r.in \in Int /\ Len(s) \in Int /\ i \in Int /\ BufSize \in Int
        BY <1>2, RingAssumption DEF Slots
      <4>2. Len(t) = Len(s) + 1 /\ q.in = r.in + 1 BY <3>1, <1>1
      <4> QED BY <4>1, <4>2
    <3> QED BY <3>3, <3>4, <3>5, <1>1
  <2> QED BY <2>1, <2>2
<1>11. q.in \in Slots BY <1>3, <1>4
<1>12. Holds(q, t) BY <1>6, <1>7, <1>8, <1>9, <1>10, <1>11 DEF Holds
<1> QED BY <1>5, <1>12 DEF q, t

(* The two copies stay inside the ring, whatever it holds                  *)
(* (snoop_kfifo_get).                                                      *)
LEMMA CopyType ==
  ASSUME NEW r \in Ring
  PROVE  /\ FirstCopy(r) \in Seq(Byte) /\ Get(r) \in Seq(Byte)
         /\ r.out # 0 => /\ RestCopy(r) \in Seq(Byte)
                         /\ Len(RestCopy(r)) = r.out - 1
                         /\ \A i \in 1..(r.out - 1) : RestCopy(r)[i] = r.data[i - 1]
<1>1. /\ r.data \in [Slots -> Byte] /\ r.in \in 0..BufSize /\ r.out \in Slots
      /\ r.size \in 0..BufSize
  BY DEF Ring, Byte
<1>0. ASSUME r.out # 0
      PROVE  /\ RestCopy(r) \in Seq(Byte) /\ Len(RestCopy(r)) = r.out - 1
             /\ \A i \in 1..(r.out - 1) : RestCopy(r)[i] = r.data[i - 1]
  <2>0. r.out \in 1..(BufSize - 1) BY <1>0, <1>1, RingAssumption DEF Slots
  <2>3. RestCopy(r) \in [1..(r.out - 1) -> Byte]
    <3>1. \A i \in 1..(r.out - 1) : i - 1 \in Slots BY <2>0, RingAssumption DEF Slots
    <3> QED BY <3>1, <1>1 DEF RestCopy
  <2>4. RestCopy(r) \in Seq(Byte) /\ Len(RestCopy(r)) = r.out - 1
    BY <2>0, <2>3, FunctionSeq, RingAssumption
  <2>5. \A i \in 1..(r.out - 1) : RestCopy(r)[i] = r.data[i - 1] BY DEF RestCopy
  <2> QED BY <2>4, <2>5
<1>2. CASE Wrapped(r)
  <2>1. r.out \in 1..(BufSize - 1)
    BY <1>1, <1>2, RingAssumption DEF Wrapped, Slots
  <2>2. FirstCopy(r) \in Seq(Byte)
    <3>1. CASE r.size - r.out + 1 < 0
      <4>1. FirstCopy(r) \in [1..0 -> Byte]
        BY <3>1, <2>1, <1>1, <1>2, RingAssumption DEF FirstCopy
      <4> QED BY <4>1, FunctionSeq
    <3>2. CASE r.size - r.out + 1 >= 0
      <4>1. \A i \in 1..(r.size - r.out + 1) : r.out - 1 + i - 1 \in Slots
        BY <1>1, <2>1, RingAssumption DEF Slots
      <4>2. FirstCopy(r) \in [1..(r.size - r.out + 1) -> Byte]
        BY <4>1, <1>1, <1>2 DEF FirstCopy
      <4>3. r.size - r.out + 1 \in Nat BY <3>2, <1>1, <2>1, RingAssumption
      <4> QED BY <4>2, <4>3, FunctionSeq
    <3> QED BY <3>1, <3>2, <1>1, <2>1, RingAssumption
  <2> QED BY <2>1, <2>2, <1>0, <1>2, ConcatProperties DEF Get
<1>3. CASE ~Wrapped(r)
  <2>1. \A i \in 1..(r.in - r.out) : r.out + i - 1 \in Slots
    BY <1>1, RingAssumption DEF Slots
  <2>2. FirstCopy(r) \in [1..(r.in - r.out) -> Byte]
    BY <2>1, <1>1, <1>3 DEF FirstCopy
  <2>3. r.in - r.out \in Nat
    BY <1>1, <1>3, RingAssumption DEF Wrapped, Slots
  <2>4. FirstCopy(r) \in Seq(Byte) BY <2>2, <2>3, FunctionSeq
  <2> QED BY <2>4, <1>0, <1>3 DEF Get
<1> QED BY <1>0, <1>2, <1>3

(* The last codes of a sequence, one by one.                               *)
LEMMA LastCodesType ==
  ASSUME NEW s \in Seq(Code)
  PROVE  /\ LastCodes(s) \in Seq(Code)
         /\ Len(LastCodes(s)) = IF Len(s) < BufSize THEN Len(s) ELSE BufSize
         /\ \A k \in 1..Len(LastCodes(s)) :
              LastCodes(s)[k] = s[Len(s) - Len(LastCodes(s)) + k]
<1>1. Len(s) \in Nat /\ BufSize \in Nat BY RingAssumption
<1>2. CASE Len(s) <= BufSize
  <2>1. LastCodes(s) = s BY <1>2 DEF LastCodes
  <2>2. \A k \in 1..Len(s) : Len(s) - Len(s) + k = k BY <1>1
  <2> QED BY <2>1, <2>2, <1>1, <1>2
<1>3. CASE Len(s) > BufSize
  <2> DEFINE m == Len(s) - BufSize + 1
  <2>1. LastCodes(s) = SubSeq(s, m, Len(s)) BY <1>1, <1>3 DEF LastCodes
  <2>2. m \in Int /\ m \in 1..Len(s) /\ Len(s) - m + 1 = BufSize BY <1>1, <1>3, RingAssumption
  <2> HIDE DEF m
  <2>3. \A i \in m..Len(s) : s[i] \in Code
    <3>1. \A i \in m..Len(s) : i \in 1..Len(s) BY <2>2, <1>1
    <3> QED BY <3>1
  <2>4. /\ LastCodes(s) \in Seq(Code) /\ Len(LastCodes(s)) = BufSize
        /\ \A k \in 1..BufSize : LastCodes(s)[k] = s[m + k - 1]
    BY <2>1, <2>2, <2>3, <1>1, <1>3, SubSeqProperties
  <2>5. \A k \in 1..BufSize : m + k - 1 = Len(s) - BufSize + k BY <2>2, <1>1
  <2> QED BY <2>4, <2>5, <1>1, <1>3
<1> QED BY <1>1, <1>2, <1>3

(* A ring that holds the tail of s gives it out in order, but for the      *)
(* oldest code at the seam (snoop_kfifo_get).                              *)
LEMMA GetIsTail ==
  ASSUME NEW r \in Ring, NEW s \in Seq(Code), Holds(r, s)
  PROVE  /\ r.size = Len(LastCodes(s))
         /\ Get(r) = IF AtSeam(r) THEN Tail(LastCodes(s)) ELSE LastCodes(s)
         /\ Len(Get(r)) = IF AtSeam(r) THEN BufSize - 1 ELSE r.size
<1> DEFINE L == LastCodes(s)
<1>1. /\ r.data \in [Slots -> Byte] /\ r.in \in Slots /\ r.out \in Slots
      /\ r.size \in 0..BufSize /\ Len(s) \in Nat
  BY DEF Ring, Holds, Byte
<1>2. L \in Seq(Code) /\ Len(L) = r.size
      /\ \A k \in 1..r.size : L[k] = s[Len(s) - r.size + k]
  <2>1. Len(L) = r.size BY <1>1, LastCodesType, RingAssumption DEF Holds
  <2>2. L \in Seq(Code) /\ \A k \in 1..Len(L) : L[k] = s[Len(s) - Len(L) + k]
    BY ONLY LastCodesType, s \in Seq(Code)
  <2> HIDE DEF L
  <2> QED BY ONLY <2>1, <2>2
<1>3. L \in Seq(Byte) BY <1>2, SeqMonotonic DEF Byte
<1>4. Get(r) \in Seq(Byte) BY CopyType
<1> HIDE DEF L
<1>5. CASE Len(s) < BufSize
  <2>1. r.in = Len(s) /\ r.out = 0 /\ r.size = Len(s) /\ ~Wrapped(r) /\ ~AtSeam(r)
    BY <1>1, <1>5, RingAssumption DEF Holds, Wrapped, AtSeam, Slots
  <2>2. Get(r) = [i \in 1..(Len(s) - 0) |-> r.data[0 + i - 1]]
    BY <2>1 DEF Get, FirstCopy
  <2>3. Get(r) \in [1..Len(s) -> Byte]
    <3>1. \A i \in 1..Len(s) : 0 + i - 1 \in Slots BY <1>1, <1>5, RingAssumption DEF Slots
    <3>2. Len(s) - 0 = Len(s) BY <1>1
    <3> QED BY <3>1, <3>2, <2>2, <1>1
  <2>4. Len(Get(r)) = Len(s) BY <2>3, <1>1, FunctionSeq
  <2>5. ASSUME NEW i \in 1..Len(s) PROVE Get(r)[i] = L[i]
    <3>1. i - 1 \in Slots /\ i - 1 < r.in /\ Len(s) - r.in + (i - 1) + 1 = i
          /\ Len(s) - r.size + i = i /\ i \in 1..r.size /\ 0 + i - 1 = i - 1
          /\ i \in 1..(Len(s) - 0)
      BY <2>1, <1>1, <1>5, RingAssumption DEF Slots
    <3>2. r.data[i - 1] = s[i] BY <3>1 DEF Holds
    <3> QED BY <3>1, <3>2, <2>2, <1>2
  <2>6. Get(r) = L BY <2>1, <2>4, <2>5, <1>2, <1>3, <1>4, SeqEqual
  <2> QED BY <2>1, <2>4, <2>6, <1>2 DEF L
<1>6. CASE Len(s) >= BufSize /\ r.in = BufSize - 1
  <2>1. r.size = BufSize /\ r.out = 0 /\ ~Wrapped(r) /\ AtSeam(r)
    BY <1>1, <1>6, RingAssumption DEF Holds, Wrapped, AtSeam, Succ
  <2>2. Get(r) = [i \in 1..(BufSize - 1 - 0) |-> r.data[0 + i - 1]]
    BY <2>1, <1>6 DEF Get, FirstCopy
  <2>3. Get(r) \in [1..(BufSize - 1) -> Byte]
    <3>1. \A i \in 1..(BufSize - 1) : 0 + i - 1 \in Slots BY RingAssumption DEF Slots
    <3>2. BufSize - 1 - 0 = BufSize - 1 BY RingAssumption
    <3> QED BY <3>1, <3>2, <2>2, <1>1
  <2>4. Len(Get(r)) = BufSize - 1 BY <2>3, FunctionSeq, RingAssumption
  <2>5. /\ Tail(L) \in Seq(Byte) /\ Len(Tail(L)) = BufSize - 1
        /\ \A i \in 1..(BufSize - 1) : Tail(L)[i] = L[i + 1]
    <3>1. L # <<>> BY <1>2, <2>1, RingAssumption
    <3> QED BY <3>1, <1>2, <1>3, <2>1, HeadTailProperties, RingAssumption
  <2>6. ASSUME NEW i \in 1..(BufSize - 1) PROVE Get(r)[i] = Tail(L)[i]
    <3>1. i - 1 \in Slots /\ i - 1 < r.in /\ i + 1 \in 1..r.size
          /\ Len(s) - r.in + (i - 1) + 1 = Len(s) - r.size + (i + 1)
          /\ i \in 1..(BufSize - 1 - 0) /\ 0 + i - 1 = i - 1
      BY <2>1, <1>1, <1>6, RingAssumption DEF Slots
    <3>2. r.data[i - 1] = s[Len(s) - r.size + (i + 1)] BY <3>1 DEF Holds
    <3>3. L[i + 1] = s[Len(s) - r.size + (i + 1)] BY <3>1, <1>2
    <3>4. Get(r)[i] = r.data[i - 1] BY <3>1, <2>2
    <3> QED BY <3>2, <3>3, <3>4, <2>5
  <2>7. Get(r) = Tail(L) BY <2>4, <2>5, <2>6, <1>4, SeqEqual
  <2> QED BY <2>1, <2>4, <2>7, <1>2 DEF L
<1>7. CASE Len(s) >= BufSize /\ r.in # BufSize - 1
  <2>1. r.size = BufSize /\ r.out = r.in + 1 /\ Wrapped(r) /\ ~AtSeam(r)
    BY <1>1, <1>7, RingAssumption DEF Holds, Wrapped, AtSeam, Succ, Slots
  <2> DEFINE n == BufSize - r.in
             F == FirstCopy(r)
             R == RestCopy(r)
  <2>0. r.in \in Int /\ r.in >= 0 /\ r.in < BufSize /\ BufSize \in Int /\ Len(s) \in Int
    BY <1>1, RingAssumption DEF Slots
  <2>2. /\ n \in Int /\ n >= 0 /\ n \in Nat /\ n + r.in = BufSize
        /\ r.size - r.out + 1 = n /\ r.out - 1 = r.in
    BY <2>0, <2>1
  <2>3. F = [i \in 1..n |-> r.data[r.in + i - 1]]
    BY <2>1, <2>2 DEF FirstCopy
  <2> HIDE DEF n
  <2>4. F \in [1..n -> Byte]
    <3>1. \A i \in 1..n : r.in + i - 1 \in Slots BY <2>0, <2>2 DEF Slots
    <3> QED BY <3>1, <2>3, <1>1
  <2>5. F \in Seq(Byte) /\ Len(F) = n BY <2>2, <2>4, FunctionSeq
  <2>6. /\ R \in Seq(Byte) /\ Len(R) = r.in
        /\ \A i \in 1..r.in : R[i] = r.data[i - 1]
    <3>1. r.out # 0 /\ r.out - 1 = r.in BY <2>0, <2>1
    <3>2. /\ R \in Seq(Byte) /\ Len(R) = r.out - 1
          /\ \A i \in 1..(r.out - 1) : R[i] = r.data[i - 1]
      BY <3>1, CopyType
    <3> QED BY <3>1, <3>2
  <2>7. Get(r) = F \o R BY <2>1 DEF Get
  <2> HIDE DEF F, R
  <2>8. /\ Len(Get(r)) = BufSize
        /\ \A i \in 1..BufSize : Get(r)[i] = IF i <= n THEN F[i] ELSE R[i - n]
    <3>1. /\ Len(F \o R) = Len(F) + Len(R)
          /\ \A i \in 1..(Len(F) + Len(R)) :
               (F \o R)[i] = IF i <= Len(F) THEN F[i] ELSE R[i - Len(F)]
      BY <2>5, <2>6, ConcatProperties
    <3>2. Len(F) + Len(R) = BufSize BY <2>2, <2>5, <2>6
    <3> QED BY <3>1, <3>2, <2>5, <2>7
  <2>9. ASSUME NEW i \in 1..BufSize PROVE Get(r)[i] = L[i]
    <3>1. L[i] = s[Len(s) - BufSize + i] BY <1>2, <2>1
    <3>2. CASE i <= n
      <4>1. r.in + i - 1 \in Slots /\ r.in + i - 1 >= r.in /\ i \in 1..n
            /\ Len(s) - r.in + (r.in + i - 1) + 1 - BufSize = Len(s) - BufSize + i
        BY <3>2, <2>0, <2>2 DEF Slots
      <4>2. r.data[r.in + i - 1] = s[Len(s) - BufSize + i] BY <4>1, <2>1 DEF Holds
      <4>3. F[i] = r.data[r.in + i - 1] BY <4>1, <2>3
      <4> QED BY <4>2, <4>3, <3>1, <3>2, <2>8
    <3>3. CASE ~(i <= n)
      <4>0. /\ i - n \in 1..r.in /\ i - n - 1 \in Slots /\ i - n - 1 < r.in
        <5>1. i \in Int /\ i > n /\ i <= BufSize BY <3>3, <2>0, <2>2
        <5>2. i - n \in Int /\ i - n >= 1 /\ i - n <= r.in BY <5>1, <2>0, <2>2
        <5> QED BY <5>2, <2>0 DEF Slots
      <4>1. Len(s) - r.in + (i - n - 1) + 1 = Len(s) - BufSize + i
        <5>1. r.in = BufSize - n BY <2>0, <2>2
        <5> QED BY <5>1, <2>0, <2>2
      <4>2. r.data[i - n - 1] = s[Len(s) - BufSize + i] BY <4>0, <4>1 DEF Holds
      <4>3. R[i - n] = r.data[i - n - 1] BY <4>0, <2>6
      <4> QED BY <4>2, <4>3, <3>1, <3>3, <2>8
    <3> QED BY <3>2, <3>3
  <2>10. Get(r) = L BY <2>1, <2>8, <2>9, <1>2, <1>3, <1>4, SeqEqual
  <2> QED BY <2>1, <2>8, <2>10, <1>2 DEF L
<1> QED BY <1>1, <1>5, <1>6, <1>7, RingAssumption

(* Away from the seam the first copy is the older part of the tail, and    *)
(* all of it in a ring that is not full (snoop_kfifo_get).                 *)
LEMMA FirstOfTail ==
  ASSUME NEW r \in Ring, NEW s \in Seq(Code), Holds(r, s), ~AtSeam(r)
  PROVE  /\ Wrapped(r) =>
              /\ r.size = BufSize /\ Len(s) >= BufSize
              /\ Len(FirstCopy(r)) = BufSize - r.in
              /\ \A i \in 1..(BufSize - r.in) : FirstCopy(r)[i] = s[Len(s) - BufSize + i]
         /\ ~Wrapped(r) =>
              /\ Len(s) < BufSize
              /\ Len(FirstCopy(r)) = Len(s)
              /\ \A i \in 1..Len(s) : FirstCopy(r)[i] = s[i]
<1>1. /\ r.data \in [Slots -> Byte] /\ r.in \in Slots /\ r.out \in Slots
      /\ r.size \in 0..BufSize /\ Len(s) \in Nat
  BY DEF Ring, Holds, Byte
<1>2. r.in \in Int /\ r.in >= 0 /\ r.in < BufSize /\ BufSize \in Int /\ BufSize >= 2
  BY <1>1, RingAssumption DEF Slots
<1>3. CASE Len(s) < BufSize
  <2>1. r.in = Len(s) /\ r.out = 0 /\ ~Wrapped(r)
    BY <1>1, <1>2, <1>3 DEF Holds, Wrapped
  <2>2. FirstCopy(r) = [i \in 1..(Len(s) - 0) |-> r.data[0 + i - 1]]
    BY <2>1 DEF FirstCopy
  <2>3. Len(s) - 0 = Len(s) BY <1>1
  <2>4. FirstCopy(r) \in [1..Len(s) -> Byte]
    <3>1. \A i \in 1..Len(s) : 0 + i - 1 \in Slots BY <1>1, <1>2, <1>3 DEF Slots
    <3> QED BY <3>1, <2>2, <2>3, <1>1
  <2>5. Len(FirstCopy(r)) = Len(s) BY <2>4, <1>1, FunctionSeq
  <2>6. ASSUME NEW i \in 1..Len(s) PROVE FirstCopy(r)[i] = s[i]
    <3>1. /\ i - 1 \in Slots /\ i - 1 < r.in /\ Len(s) - r.in + (i - 1) + 1 = i
          /\ 0 + i - 1 = i - 1
      BY <2>1, <1>1, <1>2 DEF Slots
    <3>2. r.data[i - 1] = s[i] BY <3>1 DEF Holds
    <3> QED BY <3>1, <3>2, <2>2, <2>3
  <2> QED BY <2>1, <2>5, <2>6, <1>3
<1>4. CASE Len(s) >= BufSize
  <2>1. r.size = BufSize BY <1>1, <1>2, <1>4 DEF Holds
  <2>2. r.out = r.in + 1 /\ Wrapped(r)
    <3>1. r.in # BufSize - 1 BY <2>1 DEF AtSeam
    <3>2. r.out = Succ(r.in) BY <1>4 DEF Holds
    <3> QED BY <3>1, <3>2, <1>2 DEF Succ, Wrapped
  <2> DEFINE n == BufSize - r.in
  <2>3. n \in Nat /\ r.size - r.out + 1 = n /\ r.out - 1 = r.in
    BY <1>2, <2>1, <2>2
  <2>4. FirstCopy(r) = [i \in 1..n |-> r.data[r.in + i - 1]]
    BY <2>2, <2>3 DEF FirstCopy
  <2>5. \A i \in 1..n : r.in + i - 1 \in Slots BY <1>2 DEF Slots
  <2>6. Len(FirstCopy(r)) = n
    <3> HIDE DEF n
    <3>1. FirstCopy(r) \in [1..n -> Byte] BY <2>4, <2>5, <1>1
    <3> QED BY <3>1, <2>3, FunctionSeq
  <2>7. ASSUME NEW i \in 1..n PROVE FirstCopy(r)[i] = s[Len(s) - BufSize + i]
    <3>1. i \in Int /\ i >= 1 OBVIOUS
    <3> HIDE DEF n
    <3>2. r.in + i - 1 \in Slots BY <2>5
    <3>3. r.in + i - 1 >= r.in BY <3>1, <1>2
    <3>4. Len(s) - r.in + (r.in + i - 1) + 1 - BufSize = Len(s) - BufSize + i
      <4> DEFINE a == Len(s)
                 b == r.in
      <4>1. a \in Int /\ b \in Int /\ BufSize \in Int /\ i \in Int BY <1>1, <1>2, <3>1
      <4> HIDE DEF a, b
      <4>2. a - b + (b + i - 1) + 1 - BufSize = a - BufSize + i BY ONLY <4>1
      <4> QED BY <4>2 DEF a, b
    <3>5. r.data[r.in + i - 1] = s[Len(s) - BufSize + i]
      BY <3>2, <3>3, <3>4, <2>1 DEF Holds
    <3> QED BY <3>5, <2>4
  <2> QED BY <2>1, <2>2, <2>6, <2>7, <1>4
<1> QED BY <1>1, <1>2, <1>3, <1>4

(* Away from the seam of a full ring the second copy is the newer part of  *)
(* the tail: what stands below the write index (snoop_kfifo_get).          *)
LEMMA RestOfTail ==
  ASSUME NEW r \in Ring, NEW s \in Seq(Code), Holds(r, s), ~AtSeam(r), r.size = BufSize
  PROVE  /\ r.out # 0 /\ RestCopy(r) \in Seq(Byte) /\ Len(RestCopy(r)) = r.in
         /\ \A i \in 1..r.in : RestCopy(r)[i] = s[Len(s) - r.in + i]
<1>1. /\ r.in \in Slots /\ r.in \in Int /\ r.in >= 0 /\ r.in < BufSize /\ BufSize \in Int
      /\ Len(s) \in Nat
  BY RingAssumption DEF Holds, Slots
<1>2. r.out = r.in + 1
  <2>1. r.in # BufSize - 1 BY DEF AtSeam
  <2>2. Len(s) >= BufSize BY <1>1 DEF Holds
  <2>3. r.out = Succ(r.in) BY <2>2 DEF Holds
  <2> QED BY <2>1, <2>3, <1>1 DEF Succ
<1>3. r.out # 0 /\ r.out - 1 = r.in BY <1>1, <1>2
<1>4. /\ RestCopy(r) \in Seq(Byte) /\ Len(RestCopy(r)) = r.in
      /\ \A i \in 1..r.in : RestCopy(r)[i] = r.data[i - 1]
  <2>1. /\ RestCopy(r) \in Seq(Byte) /\ Len(RestCopy(r)) = r.out - 1
        /\ \A i \in 1..(r.out - 1) : RestCopy(r)[i] = r.data[i - 1]
    BY <1>3, CopyType
  <2> QED BY <2>1, <1>3
<1>5. ASSUME NEW i \in 1..r.in PROVE r.data[i - 1] = s[Len(s) - r.in + i]
  <2>1. /\ i - 1 \in Slots /\ i - 1 < r.in
        /\ Len(s) - r.in + (i - 1) + 1 = Len(s) - r.in + i
    BY <1>1 DEF Slots
  <2> QED BY <2>1 DEF Holds
<1> QED BY <1>3, <1>4, <1>5
====
