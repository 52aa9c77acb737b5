------------------------------ MODULE DataPort ------------------------------
(***************************************************************************)
(* The data-memory port as load and store instructions use it: the address *)
(* of ldst.n's ID stage, the lane steering of dm_merge (lib/dm.p) and the  *)
(* extension of loads in EX, over the word memory wDM.  For wDM this       *)
(* module takes SeqMemory, the memory that DmWbb, the buffered one behind  *)
(* dm_merge, is shown to implement between resets (ResetMemory).           *)
(***************************************************************************)
EXTENDS Integers

CONSTANTS
  NumRows,    \* words of the memory
  ByteVals,   \* byte values (256 in the source)
  StoreData,  \* register values programs store
  NoLoad

Lane == 0 .. 3
Byte == 0 .. ByteVals - 1
Word == [Lane -> Byte]
Addr == 0 .. 4 * NumRows - 1

ASSUME DataPortAssumption ==
  /\ NumRows \in Nat \ {0}
  /\ ByteVals \in Nat \ {0, 1}
  /\ StoreData \subseteq Word /\ StoreData # {}
  /\ NoLoad \notin Word

VARIABLES
  mem, prow, pstrb, rd,  \* the word memory wDM
  col_ff,                \* column (address in the word) of the last access
  st_ff,                 \* the store instruction in EX, "none" if none
  ld_EX                  \* the load instruction in EX, "none" if none

vars == <<mem, prow, pstrb, rd, col_ff, st_ff, ld_EX>>

WDM == INSTANCE SeqMemory WITH Zero <- 0

Loads  == {"lb", "lbu", "lh", "lhu", "lw"}
Stores == {"sb", "sh", "sw"}

Init ==
  /\ mem = [r \in 0 .. NumRows - 1 |-> [l \in Lane |-> 0]]
  /\ prow = 0
  /\ pstrb = {}
  /\ rd = NoLoad
  /\ col_ff = 0
  /\ st_ff = "none"
  /\ ld_EX = "none"

\* process_request: the byte write mask of a store ...
WriteMask(op, col) ==
  CASE op = "sw" -> Lane
    [] op = "sh" -> {2 * (col \div 2), 2 * (col \div 2) + 1}
    [] op = "sb" -> {col}

\* ... and its data, one cycle later, replicated to the lanes it may go to.
WriteData(d) ==
  [l \in Lane |-> CASE st_ff = "sw"   -> d[l]
                    [] st_ff = "sh"   -> d[l % 2]
                    [] st_ff = "sb"   -> d[0]
                    [] st_ff = "none" -> 0]

\* Fault: the high byte of a halfword always comes from the low half of the word.
ReadHighFromOne(l) == IF l = 0 THEN rd[col_ff] ELSE IF l = 1 THEN rd[1] ELSE rd[l]

\* process_result: the low bytes of a load come from the column it addressed.
ReadByte(l) ==
  CASE l = 0 -> rd[col_ff]
    [] l = 1 -> rd[2 * (col_ff \div 2) + 1]
    [] OTHER -> rd[l]

\* The load-extension unit: sign bit of the topmost byte loaded, or zeros.
Extended(n, signed) ==
  LET fill == IF signed /\ 2 * ReadByte(n - 1) >= ByteVals THEN ByteVals - 1 ELSE 0
  IN  [l \in Lane |-> IF l < n THEN ReadByte(l) ELSE fill]

\* The value a load in EX writes to its register.
LoadResult ==
  CASE ld_EX = "lb"  -> Extended(1, TRUE)
    [] ld_EX = "lbu" -> Extended(1, FALSE)
    [] ld_EX = "lh"  -> Extended(2, TRUE)
    [] ld_EX = "lhu" -> Extended(2, FALSE)
    [] ld_EX = "lw"  -> [l \in Lane |-> ReadByte(l)]

\* Data on the core's side of the port: rs2 of the store in EX.
CoreData == IF st_ff = "none" THEN {[l \in Lane |-> 0]} ELSE StoreData

LoadInstr(op, a, d) ==
  /\ WDM!Load(a \div 4, WriteData(d))
  /\ col_ff' = a % 4
  /\ st_ff' = "none"
  /\ ld_EX' = op

StoreInstr(op, a, d) ==
  /\ WDM!Store(a \div 4, WriteMask(op, a % 4), WriteData(d))
  /\ col_ff' = a % 4
  /\ st_ff' = op
  /\ ld_EX' = "none"

\* Any other instruction, a bubble or a stall: the address bus has no meaning.
OtherInstr(d) ==
  /\ WDM!Idle(WriteData(d))
  /\ col_ff' = 0
  /\ st_ff' = "none"
  /\ ld_EX' = "none"

Next == \E d \in CoreData :
  \/ OtherInstr(d)
  \/ \E op \in Loads, a \in Addr : LoadInstr(op, a, d)
  \/ \E op \in Stores, a \in Addr : StoreInstr(op, a, d)

Spec == Init /\ [][Next]_vars
-----------------------------------------------------------------------------
TypeOK ==
  /\ mem \in [0 .. NumRows - 1 -> Word]
  /\ prow \in 0 .. NumRows - 1
  /\ pstrb \in SUBSET Lane
  /\ rd \in Word \union {NoLoad}
  /\ col_ff \in Lane
  /\ st_ff \in Stores \union {"none"}
  /\ ld_EX \in Loads \union {"none"}

SizeEX == CASE ld_EX \in {"lb", "lbu"} \/ st_ff = "sb" -> 1
            [] ld_EX \in {"lh", "lhu"} \/ st_ff = "sh" -> 2
            [] OTHER -> 4

\* The port gives loads and stores the memory of the instruction set: every
\* aligned load of one, two or four bytes returns the bytes last stored at its
\* addresses, sign or zero extended, and a store of any size and column writes
\* its own bytes and no other.
Rv == INSTANCE RvMemory WITH
         NumBytes <- 4 * NumRows,
         bytes    <- [a \in Addr |-> mem[a \div 4][a % 4]],
         st_EX    <- st_ff,
         base     <- IF st_ff = "none" THEN 0
                     ELSE 4 * prow + col_ff - (col_ff % SizeEX),
         result   <- IF ld_EX # "none" /\ col_ff % SizeEX = 0 THEN LoadResult ELSE <<>>

ImplementsRvMemory == Rv!Spec
=============================================================================
