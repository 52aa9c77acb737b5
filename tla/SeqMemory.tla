----------------------------- MODULE SeqMemory -----------------------------
(***************************************************************************)
(* What the data-memory port promises the core, one step per clock cycle:  *)
(* a memory with byte lanes in which every store takes effect when its     *)
(* data arrives, one cycle after its address, and every load answers, one  *)
(* cycle after its address, with the bytes of the latest earlier stores.   *)
(* No buffer, no bypass, no port conflict: those belong to DmWbb.          *)
(***************************************************************************)
EXTENDS Naturals

CONSTANTS
  NumRows,  \* word addresses are 0 .. NumRows - 1
  Lane,     \* byte lanes of a word
  Byte,     \* byte values
  Zero,     \* the reset value of a byte
  NoLoad    \* no load answer is due in this cycle

Row  == 0 .. NumRows - 1
Word == [Lane -> Byte]
Strobe == SUBSET Lane

VARIABLES
  mem,    \* the bytes of every word
  prow,   \* row of the last store requested
  pstrb,  \* lanes of the store whose data is due now, {} when there is none
  rd      \* the load answer due now, or NoLoad

vars == <<mem, prow, pstrb, rd>>

Init ==
  /\ mem \in [Row -> Word]
  /\ prow = 0
  /\ pstrb = {}
  /\ rd = NoLoad

\* The memory after the store whose data wr is on the bus, if there is one.
Arrived(wr) ==
  [r \in Row |-> [l \in Lane |-> IF r = prow /\ l \in pstrb THEN wr[l] ELSE mem[r][l]]]

Idle(wr) ==
  /\ mem' = Arrived(wr)
  /\ pstrb' = {}
  /\ rd' = NoLoad
  /\ UNCHANGED prow

Load(a, wr) ==
  /\ mem' = Arrived(wr)
  /\ rd' = Arrived(wr)[a]
  /\ pstrb' = {}
  /\ UNCHANGED prow

Store(a, s, wr) ==
  /\ mem' = Arrived(wr)
  /\ prow' = a
  /\ pstrb' = s
  /\ rd' = NoLoad

\* The simulator writes one byte between two cycles. A load answer of that
\* cycle may or may not see it.
Poke(a, l, v) ==
  /\ mem' = [mem EXCEPT ![a][l] = v]
  /\ \/ UNCHANGED rd
     \/ /\ rd # NoLoad
        /\ rd' = [rd EXCEPT ![l] = v]
  /\ UNCHANGED <<prow, pstrb>>

Next ==
  \/ \E wr \in Word : Idle(wr)
  \/ \E a \in Row, wr \in Word : Load(a, wr)
  \/ \E a \in Row, s \in Strobe \ {{}}, wr \in Word : Store(a, s, wr)
  \/ \E a \in Row, l \in Lane, v \in Byte : Poke(a, l, v)

Spec == Init /\ [][Next]_vars
=============================================================================
