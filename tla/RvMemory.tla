------------------------------ MODULE RvMemory ------------------------------
(***************************************************************************)
(* The memory the instruction set promises a program: an array of bytes,   *)
(* little endian.  An instruction works in two cycles: its address is      *)
(* given in the first (ID), its data move in the second (EX).  A load must *)
(* be aligned to be answered with the bytes it names; a store writes the   *)
(* naturally aligned bytes around its address.                             *)
(***************************************************************************)
EXTENDS Integers

CONSTANTS
  NumBytes,  \* byte addresses are 0 .. NumBytes - 1
  ByteVals,  \* byte values are 0 .. ByteVals - 1
  StoreData  \* register values programs store, byte by byte

Addr  == 0 .. NumBytes - 1

Loads  == {"lb", "lbu", "lh", "lhu", "lw"}
Stores == {"sb", "sh", "sw"}
Size(op) == IF op \in {"lb", "lbu", "sb"} THEN 1 ELSE IF op \in {"lh", "lhu", "sh"} THEN 2 ELSE 4

VARIABLES
  bytes,  \* the memory
  st_EX,  \* the store instruction in EX, "none" if there is none
  base,   \* the naturally aligned address it writes
  result  \* the register value a load in EX writes, <<>> if none is promised

vars == <<bytes, st_EX, base, result>>

\* Sign or zero extension of the Size(op) bytes from address a.
Fill(op, top) ==
  IF op \in {"lb", "lh"} /\ 2 * top >= ByteVals THEN ByteVals - 1 ELSE 0
Loaded(op, m, a) ==
  [i \in 0 .. 3 |-> IF i < Size(op) THEN m[a + i] ELSE Fill(op, m[a + Size(op) - 1])]

\* The memory after the store in EX wrote register value d.
Done(d) ==
  [a \in Addr |-> IF st_EX \in Stores /\ a \in base .. base + Size(st_EX) - 1
                  THEN d[a - base] ELSE bytes[a]]

AlignDown(a, n) == a - (a % n)

Init ==
  /\ bytes = [a \in Addr |-> 0]
  /\ st_EX = "none"
  /\ base = 0
  /\ result = <<>>

Other ==
  /\ st_EX' = "none"
  /\ base' = 0
  /\ result' = <<>>

\* A load sees the store that finishes in its first cycle.
Load(op, a) ==
  /\ st_EX' = "none"
  /\ base' = 0
  /\ result' = IF a % Size(op) = 0 THEN Loaded(op, bytes', a) ELSE <<>>

Store(op, a) ==
  /\ st_EX' = op
  /\ base' = AlignDown(a, Size(op))
  /\ result' = <<>>

\* One instruction gives its address while the store before it, if any, writes.
Next ==
  /\ \E d \in StoreData : bytes' = Done(d)
  /\ \/ Other
     \/ \E op \in Loads, a \in Addr : Load(op, a)
     \/ \E op \in Stores, a \in Addr : Store(op, a)

Spec == Init /\ [][Next]_vars
=============================================================================
