------------------------------- MODULE DmWbb -------------------------------
(***************************************************************************)
(* The write-back buffer of the data memory port (lib/dm.p, dm_wbb) and    *)
(* the single-port memory eDM behind it. One action is one clock cycle of  *)
(* the port: every register takes its new value at the end of the cycle.   *)
(*                                                                         *)
(* A store's address is requested in the ID stage of its instruction, its  *)
(* data arrive on wdm_wr one cycle later. eDM has one address port, so a   *)
(* load keeps a store that is due from being written; the store then waits *)
(* in edm_data_ff, at the row and lanes edm_addr_ff and edm_strb_ff, until *)
(* a cycle without a load.                                                 *)
(***************************************************************************)
EXTENDS Naturals

CONSTANTS
  NumRows,  \* words of eDM; word addresses are 0 .. NumRows - 1
  Lane,     \* byte lanes of a word (four in the source)
  Byte,     \* byte values
  Zero,     \* the byte 0
  NoLoad    \* stands for "no load answer in this cycle"

ASSUME NumRowsAssumption == NumRows \in Nat \ {0}
ASSUME ByteAssumption == Zero \in Byte
ASSUME NoLoadAssumption == NoLoad \notin [Lane -> Byte]

Row    == 0 .. NumRows - 1
Word   == [Lane -> Byte]
Strobe == SUBSET Lane
ZeroWord == [l \in Lane |-> Zero]

VARIABLES
  eDM,                \* the memory
  edm_rd,             \* its registered read data
  edm_addr_ff,        \* row of the last store requested
  edm_strb_ff,        \* lanes of the last store requested
  edm_st_ff,          \* a store was requested in the previous cycle
  edm_data_ff,        \* the write-back buffer
  edm_wbb_ff,         \* the buffer holds a store
  edm_addr_match_ff,  \* the last load was of the row edm_addr_ff
  ld_EX               \* the instruction in EX is a load: it takes wdm_rd now

vars == <<eDM, edm_rd, edm_addr_ff, edm_strb_ff, edm_st_ff, edm_data_ff,
          edm_wbb_ff, edm_addr_match_ff, ld_EX>>

Init ==
  /\ eDM \in [Row -> Word]
  /\ edm_rd = ZeroWord
  /\ edm_addr_ff = 0
  /\ edm_strb_ff = {}
  /\ edm_st_ff = FALSE
  /\ edm_data_ff = ZeroWord
  /\ edm_wbb_ff = FALSE
  /\ edm_addr_match_ff = FALSE
  /\ ld_EX = FALSE

\* Fault: the bypass ignores which row the load addressed.
WdmRdNoMatch ==
  [l \in Lane |-> IF edm_wbb_ff /\ l \in edm_strb_ff THEN edm_data_ff[l] ELSE edm_rd[l]]

\* process_result: the read data the core sees, lane by lane from the buffer
\* when it holds a store to the row the load addressed.
WdmRd ==
  [l \in Lane |-> IF edm_wbb_ff /\ edm_addr_match_ff /\ l \in edm_strb_ff
                  THEN edm_data_ff[l] ELSE edm_rd[l]]

\* The values wdm_wr can have: dm_merge drives it with a store's data in the
\* cycle after its address and with zero otherwise.
WriteBus == IF edm_st_ff THEN Word ELSE {ZeroWord}

\* eDM after its byte-strobed write of d.
Written(d) ==
  [eDM EXCEPT ![edm_addr_ff] = [l \in Lane |-> IF l \in edm_strb_ff THEN d[l] ELSE @[l]]]

\* Fault: the buffer is not marked empty when it is written.
WriteCycleNoReset(wr) ==
  /\ eDM' = IF edm_wbb_ff THEN Written(edm_data_ff)
            ELSE IF edm_st_ff THEN Written(wr) ELSE eDM
  /\ edm_rd' = ZeroWord
  /\ ld_EX' = FALSE
  /\ UNCHANGED <<edm_wbb_ff, edm_data_ff, edm_addr_match_ff>>

\* process_request in a cycle without a load: the buffered store goes first,
\* otherwise the store of the previous cycle with the data now on the bus.
WriteCycle(wr) ==
  /\ eDM' = IF edm_wbb_ff THEN Written(edm_data_ff)
            ELSE IF edm_st_ff THEN Written(wr) ELSE eDM
  /\ edm_wbb_ff' = FALSE
  /\ edm_rd' = ZeroWord
  /\ ld_EX' = FALSE
  /\ UNCHANGED <<edm_data_ff, edm_addr_match_ff>>

\* Fault: the buffer drains only when the next store comes.
IdleKeepsBuffer(wr) ==
  /\ eDM' = IF edm_st_ff /\ ~edm_wbb_ff THEN Written(wr) ELSE eDM
  /\ edm_rd' = ZeroWord
  /\ edm_st_ff' = FALSE
  /\ ld_EX' = FALSE
  /\ UNCHANGED <<edm_data_ff, edm_wbb_ff, edm_addr_match_ff, edm_addr_ff, edm_strb_ff>>

Idle(wr) ==
  /\ WriteCycle(wr)
  /\ edm_st_ff' = FALSE
  /\ UNCHANGED <<edm_addr_ff, edm_strb_ff>>

Store(a, s, wr) ==
  /\ WriteCycle(wr)
  /\ edm_addr_ff' = a
  /\ edm_strb_ff' = s
  /\ edm_st_ff' = TRUE

\* process_request with a load: it takes the address port, and the store of
\* the previous cycle is buffered.
Load(a, wr) ==
  /\ edm_rd' = eDM[a]
  /\ edm_addr_match_ff' = (a = edm_addr_ff)
  /\ edm_data_ff' = IF edm_st_ff THEN wr ELSE edm_data_ff
  /\ edm_wbb_ff' = (edm_wbb_ff \/ edm_st_ff)
  /\ edm_st_ff' = FALSE
  /\ ld_EX' = TRUE
  /\ UNCHANGED <<eDM, edm_addr_ff, edm_strb_ff>>

\* dbg_access_wDM, for reading and for writing.
InBuffer(a, l) == edm_wbb_ff /\ edm_addr_ff = a /\ l \in edm_strb_ff

DbgRead(a, l) == IF InBuffer(a, l) THEN edm_data_ff[l] ELSE eDM[a][l]

DbgWrite(a, l, v) ==
  /\ eDM' = [eDM EXCEPT ![a][l] = v]
  /\ edm_data_ff' = IF InBuffer(a, l) THEN [edm_data_ff EXCEPT ![l] = v]
                    ELSE edm_data_ff
  /\ UNCHANGED <<edm_rd, edm_addr_ff, edm_strb_ff, edm_st_ff, edm_wbb_ff,
                 edm_addr_match_ff, ld_EX>>

\* The reset, the debugger's included, clears the registers of the port and of
\* the pipeline; the memory keeps its words and its read data.
Reset ==
  /\ edm_addr_ff' = 0
  /\ edm_strb_ff' = {}
  /\ edm_st_ff' = FALSE
  /\ edm_data_ff' = ZeroWord
  /\ edm_wbb_ff' = FALSE
  /\ edm_addr_match_ff' = FALSE
  /\ ld_EX' = FALSE
  /\ UNCHANGED <<eDM, edm_rd>>

IdleCycle  == \E wr \in WriteBus : Idle(wr)
StoreCycle == \E a \in Row, s \in Strobe \ {{}}, wr \in WriteBus : Store(a, s, wr)
LoadCycle  == \E a \in Row, wr \in WriteBus : Load(a, wr)
DbgAccess  == \E a \in Row, l \in Lane, v \in Byte : DbgWrite(a, l, v)

Next == IdleCycle \/ StoreCycle \/ LoadCycle \/ DbgAccess \/ Reset

\* A program cannot load in every cycle for ever: the program memory is finite
\* and the jump that closes a loop is not a load.
Fairness == WF_vars(IdleCycle \/ StoreCycle)

Spec == Init /\ [][Next]_vars
FairSpec == Spec /\ Fairness
-----------------------------------------------------------------------------
TypeOK ==
  /\ eDM \in [Row -> Word]
  /\ edm_rd \in Word
  /\ edm_addr_ff \in Row
  /\ edm_strb_ff \in Strobe
  /\ edm_st_ff \in BOOLEAN
  /\ edm_data_ff \in Word
  /\ edm_wbb_ff \in BOOLEAN
  /\ edm_addr_match_ff \in BOOLEAN
  /\ ld_EX \in BOOLEAN

\* Row and lanes of the buffered store and of the store that waits for its
\* data share the registers edm_addr_ff and edm_strb_ff: dm_wbb is correct
\* only because the two never wait at once, or the older one would be written
\* to the row of the younger.
OneStoreWaits == ~(edm_wbb_ff /\ edm_st_ff)

\* The memory as a debugger reads it, and so as loads must see it.
AbsMem == [r \in Row |-> [l \in Lane |-> DbgRead(r, l)]]

Abs == INSTANCE ResetMemory WITH
         mem   <- AbsMem,
         prow  <- edm_addr_ff,
         pstrb <- IF edm_st_ff THEN edm_strb_ff ELSE {},
         rd    <- IF ld_EX THEN WdmRd ELSE NoLoad,
         kept  <- eDM[edm_addr_ff]

\* The buffered port implements the unbuffered memory: whatever the order of
\* loads and stores, a load answers with the latest stored bytes, in every
\* lane, and no store is lost, repeated or written to another row, but for the
\* last one when a reset comes before the first cycle without a load (the
\* reset of trv32p3_cnn.v:219).
ImplementsMemory == Abs!ResetSpec

\* eDM catches up with what the core stored: a byte that is the content of the
\* memory is written to eDM unless another store replaces it first.
StoresReachMemory ==
  \A r \in Row, l \in Lane, v \in Byte :
    (DbgRead(r, l) = v) ~> (eDM[r][l] = v \/ DbgRead(r, l) # v)
=============================================================================
