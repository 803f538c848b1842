---- MODULE SnoopRing ----
(***************************************************************************)
(* The ring of BIOS POST codes of the snoop drivers: a struct kfifo of     *)
(* which only the storage is the kernel's.  ast_snoop.c writes it,         *)
(* snoop_kfifo_get of snoopmain.c reads it, and the field "mask" of the    *)
(* kfifo holds the number of codes.                                        *)
(***************************************************************************)
EXTENDS Integers, Sequences

CONSTANTS
  BufSize,  \* SNOOP_BUFSIZE, 512 in the code
  Code,     \* POST codes
  Junk      \* a byte of storage nothing was stored in

ASSUME RingAssumption == BufSize \in Nat /\ BufSize >= 2

Slots == 0..(BufSize - 1)
Ring == [data : [Slots -> Code \cup {Junk}], in : 0..BufSize, out : Slots, size : 0..BufSize]

(* kfifo_alloc, then mask = 0.                                             *)
NewRing == [data |-> [i \in Slots |-> Junk], in |-> 0, out |-> 0, size |-> 0]

(* (i + 1) % 512 of an index below 512.                                    *)
Succ(i) == IF i = BufSize - 1 THEN 0 ELSE i + 1

(* Mutant of Put: the oldest code is given up one code late.               *)
PutLate(r, c) ==
  [data |-> [r.data EXCEPT ![r.in] = c],
   in |-> Succ(r.in),
   out |-> IF r.size = BufSize THEN Succ(r.out) ELSE r.out,
   size |-> IF r.size = BufSize THEN r.size ELSE r.size + 1]

(* Mutant of Put: the write index does not wrap.                           *)
PutUnwrapped(r, c) ==
  [data |-> [i \in Slots |-> IF i = r.in THEN c ELSE r.data[i]],
   in |-> r.in + 1,
   out |-> IF r.size >= BufSize - 1 THEN Succ(r.out) ELSE r.out,
   size |-> IF r.size = BufSize THEN r.size ELSE r.size + 1]

(* The interrupt handler stores a code: out moves on from the code that    *)
(* fills the ring, so that out = in + 1 in a full ring.                    *)
Put(r, c) ==
  [data |-> [r.data EXCEPT ![r.in] = c],
   in |-> Succ(r.in),
   out |-> IF r.size >= BufSize - 1 THEN Succ(r.out) ELSE r.out,
   size |-> IF r.size = BufSize THEN r.size ELSE r.size + 1]

(* The two copies of snoop_kfifo_get.                                      *)
Wrapped(r) == r.in < r.out
FirstCopy(r) ==
  IF Wrapped(r)
  THEN [i \in 1..(r.size - r.out + 1) |-> r.data[r.out - 1 + i - 1]]
  ELSE [i \in 1..(r.in - r.out) |-> r.data[r.out + i - 1]]
RestCopy(r) == [i \in 1..(r.out - 1) |-> r.data[i - 1]]

Get(r) == IF Wrapped(r) THEN FirstCopy(r) \o RestCopy(r) ELSE FirstCopy(r)

(* The write index stands at the end of a full ring: out has wrapped to 0, *)
(* Wrapped is false and the oldest code is not copied.                     *)
AtSeam(r) == r.size = BufSize /\ r.in = BufSize - 1

(* The last codes stored, as many as the ring has room for.                *)
LastCodes(stored) ==
  IF Len(stored) <= BufSize THEN stored
  ELSE SubSeq(stored, Len(stored) - BufSize + 1, Len(stored))
====
