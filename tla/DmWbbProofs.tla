---------------------------- MODULE DmWbbProofs ----------------------------
(***************************************************************************)
(* Proofs about DmWbb, for every number of rows, every set of byte lanes   *)
(* and every set of byte values.                                           *)
(***************************************************************************)
EXTENDS DmWbb, TLAPS

USE NumRowsAssumption, ByteAssumption

\* What the bus carries is a word.
LEMMA WriteBusIsWord == WriteBus \subseteq Word
  BY DEF WriteBus, Word, ZeroWord

\* A write keeps eDM a memory.
LEMMA WrittenType ==
  ASSUME TypeOK, NEW d \in Word
  PROVE  Written(d) \in [Row -> Word]
  BY DEF TypeOK, Written, Word

LEMMA WriteCycleType ==
  ASSUME TypeOK, NEW wr \in Word, WriteCycle(wr)
  PROVE  /\ eDM' \in [Row -> Word]
         /\ edm_rd' \in Word
         /\ edm_data_ff' \in Word
         /\ edm_wbb_ff' \in BOOLEAN
         /\ edm_addr_match_ff' \in BOOLEAN
         /\ ld_EX' \in BOOLEAN
  <1>1. Written(wr) \in [Row -> Word] /\ Written(edm_data_ff) \in [Row -> Word]
    BY WrittenType DEF TypeOK
  <1>2. ZeroWord \in Word
    BY DEF ZeroWord, Word
  <1>3. QED
    BY <1>1, <1>2 DEF WriteCycle, TypeOK

\* Type correctness: every register of the port keeps a value of its width.
THEOREM TypeCorrect == Spec => []TypeOK
  <1>1. Init => TypeOK
    <2>1. 0 \in Row
      BY DEF Row
    <2>2. ZeroWord \in Word
      BY DEF ZeroWord, Word
    <2>3. QED
      BY <2>1, <2>2 DEF Init, TypeOK, Strobe
  <1>2. TypeOK /\ [Next]_vars => TypeOK'
    <2> SUFFICES ASSUME TypeOK, [Next]_vars PROVE TypeOK'
      OBVIOUS
    <2>1. CASE IdleCycle
      <3> PICK wr \in WriteBus : Idle(wr)
        BY <2>1 DEF IdleCycle
      <3>1. wr \in Word /\ WriteCycle(wr)
        BY WriteBusIsWord DEF Idle
      <3>2. QED
        BY <3>1, WriteCycleType DEF TypeOK, Idle
    <2>2. CASE StoreCycle
      <3> PICK a \in Row, s \in Strobe \ {{}}, wr \in WriteBus : Store(a, s, wr)
        BY <2>2 DEF StoreCycle
      <3>1. wr \in Word /\ WriteCycle(wr)
        BY WriteBusIsWord DEF Store
      <3>2. QED
        BY <3>1, WriteCycleType DEF TypeOK, Store
    <2>3. CASE LoadCycle
      <3> PICK a \in Row, wr \in WriteBus : Load(a, wr)
        BY <2>3 DEF LoadCycle
      <3>1. wr \in Word
        BY WriteBusIsWord
      <3>2. QED
        BY <3>1 DEF TypeOK, Load
    <2>4. CASE DbgAccess
      BY <2>4 DEF DbgAccess, DbgWrite, TypeOK, Word
    <2>5. CASE Reset
      <3>1. 0 \in Row /\ ZeroWord \in Word
        BY DEF Row, ZeroWord, Word
      <3>2. QED
        BY <2>5, <3>1 DEF Reset, TypeOK, Strobe
    <2>6. CASE UNCHANGED vars
      BY <2>6 DEF vars, TypeOK
    <2>7. QED
      BY <2>1, <2>2, <2>3, <2>4, <2>5, <2>6 DEF Next
  <1>3. QED
    BY <1>1, <1>2, PTL DEF Spec

\* A store in the buffer and a store that waits for its data never coexist.
\* It is inductive as it stands: a cycle that requests a store is a cycle
\* without a load, which empties the buffer, and a load requests no store.
THEOREM WaitingStoresExclusive == Spec => []OneStoreWaits
  <1>1. Init => OneStoreWaits
    BY DEF Init, OneStoreWaits
  <1>2. OneStoreWaits /\ [Next]_vars => OneStoreWaits'
    BY DEF OneStoreWaits, Next, vars, IdleCycle, StoreCycle, LoadCycle, DbgAccess,
           Idle, Store, Load, DbgWrite, WriteCycle, Reset
  <1>3. QED
    BY <1>1, <1>2, PTL DEF Spec
-----------------------------------------------------------------------------
\* The refinement, step by step.

\* A cycle without a load leaves in the abstract memory the store that was due
\* with the data on the bus, and nothing else changes.
LEMMA WriteCycleMem ==
  ASSUME TypeOK, OneStoreWaits, NEW wr \in Word, WriteCycle(wr)
  PROVE  AbsMem' = Abs!Arrived(wr)
  <1> SUFFICES ASSUME NEW r \in Row, NEW l \in Lane
               PROVE  DbgRead(r, l)' =
                        IF r = edm_addr_ff /\ l \in (IF edm_st_ff THEN edm_strb_ff ELSE {})
                        THEN wr[l] ELSE DbgRead(r, l)
    BY DEF AbsMem, Abs!Arrived, Abs!Row, Row
  <1>1. DbgRead(r, l)' = eDM'[r][l]
    BY DEF DbgRead, InBuffer, WriteCycle
  <1>2. CASE edm_wbb_ff
    BY <1>1, <1>2 DEF WriteCycle, Written, DbgRead, InBuffer, OneStoreWaits, TypeOK, Word
  <1>3. CASE ~edm_wbb_ff
    BY <1>1, <1>3 DEF WriteCycle, Written, DbgRead, InBuffer, TypeOK, Word
  <1>4. QED
    BY <1>2, <1>3

\* A load buffers the store that was due: the abstract memory changes in the
\* same way as in a cycle without a load.
LEMMA LoadMem ==
  ASSUME TypeOK, OneStoreWaits, NEW a \in Row, NEW wr \in Word, Load(a, wr)
  PROVE  AbsMem' = Abs!Arrived(wr)
  <1> SUFFICES ASSUME NEW r \in Row, NEW l \in Lane
               PROVE  DbgRead(r, l)' =
                        IF r = edm_addr_ff /\ l \in (IF edm_st_ff THEN edm_strb_ff ELSE {})
                        THEN wr[l] ELSE DbgRead(r, l)
    BY DEF AbsMem, Abs!Arrived, Abs!Row, Row
  <1>1. QED
    BY DEF Load, DbgRead, InBuffer, OneStoreWaits, TypeOK, Word

\* The answer of a load, read through the bypass in the next cycle, is the row
\* of the abstract memory of that cycle.
LEMMA LoadAnswer ==
  ASSUME TypeOK, NEW a \in Row, NEW wr \in Word, Load(a, wr)
  PROVE  WdmRd' = AbsMem'[a]
  BY DEF Load, WdmRd, AbsMem, DbgRead, InBuffer, TypeOK, Word

\* After a cycle without a load nothing is left to be written.
LEMMA WriteCycleDrains ==
  ASSUME TypeOK, NEW wr \in Word, WriteCycle(wr)
  PROVE  AbsMem' = eDM'
  <1>1. eDM' \in [Row -> Word]
    BY WriteCycleType
  <1>2. QED
    BY <1>1 DEF WriteCycle, AbsMem, DbgRead, InBuffer, Word

LEMMA InitRefines == Init => Abs!ResetInit
  <1> SUFFICES ASSUME Init PROVE Abs!ResetInit
    OBVIOUS
  <1>1. AbsMem = eDM
    BY DEF Init, AbsMem, DbgRead, InBuffer, Word
  <1>2. QED
    BY <1>1 DEF Init, Abs!ResetInit, Abs!Init, Abs!Row, Abs!Word, Row, Word

\* A debug write between two cycles is the abstract Poke.
LEMMA DbgWriteRefines ==
  ASSUME TypeOK, NEW a \in Row, NEW l \in Lane, NEW v \in Byte, DbgWrite(a, l, v)
  PROVE  /\ Abs!Poke(a, l, v)
         /\ eDM'[edm_addr_ff'] = IF a = edm_addr_ff THEN [eDM[edm_addr_ff] EXCEPT ![l] = v]
                                                   ELSE eDM[edm_addr_ff]
  <1>1. AbsMem' = [AbsMem EXCEPT ![a][l] = v]
    <2> SUFFICES ASSUME NEW r \in Row, NEW k \in Lane
                 PROVE  DbgRead(r, k)' = IF r = a /\ k = l THEN v ELSE DbgRead(r, k)
      BY DEF AbsMem
    <2>1. QED
      BY DEF DbgWrite, DbgRead, InBuffer, TypeOK, Word
  <1>2. \/ WdmRd' = WdmRd
        \/ WdmRd' = [WdmRd EXCEPT ![l] = v]
    BY DEF DbgWrite, WdmRd, InBuffer, TypeOK, Word
  <1>3. WdmRd \in [Lane -> Byte]
    BY DEF WdmRd, TypeOK, Word
  <1>4. WdmRd # NoLoad
    BY <1>3, NoLoadAssumption
  <1>5. Abs!Poke(a, l, v)
    BY <1>1, <1>2, <1>4 DEF Abs!Poke, DbgWrite
  <1>6. QED
    BY <1>5 DEF DbgWrite, TypeOK, Word

\* A reset leaves what eDM holds: only the row of the buffered store changes.
LEMMA ResetRefines ==
  ASSUME TypeOK, Reset
  PROVE  Abs!Reset
  <1>1. AbsMem' = eDM
    <2>1. \A r \in Row, l \in Lane : DbgRead(r, l)' = eDM[r][l]
      BY DEF Reset, DbgRead, InBuffer
    <2>2. QED
      BY <2>1 DEF AbsMem, TypeOK, Word
  <1>2. eDM = [AbsMem EXCEPT ![edm_addr_ff] = eDM[edm_addr_ff]]
    <2>1. \A r \in Row \ {edm_addr_ff}, l \in Lane : DbgRead(r, l) = eDM[r][l]
      BY DEF DbgRead, InBuffer
    <2>2. \A r \in Row \ {edm_addr_ff} : AbsMem[r] = eDM[r]
      BY <2>1 DEF AbsMem, TypeOK, Word
    <2>3. QED
      BY <2>2 DEF AbsMem, TypeOK
  <1>3. QED
    BY <1>1, <1>2 DEF Reset, Abs!Reset, Abs!KeepsAll

LEMMA StepRefines ==
  ASSUME TypeOK, OneStoreWaits, [Next]_vars
  PROVE  [Abs!ResetNext]_(Abs!allVars)
  <1>1. CASE IdleCycle
    <2> PICK wr \in WriteBus : Idle(wr)
      BY <1>1 DEF IdleCycle
    <2>1. wr \in Word /\ WriteCycle(wr)
      BY WriteBusIsWord DEF Idle
    <2>2. Abs!Idle(wr)
      BY <2>1, WriteCycleMem DEF Abs!Idle, Idle, WriteCycle
    <2>3. Abs!KeepsAll
      BY <2>1, WriteCycleDrains DEF Abs!KeepsAll
    <2>4. QED
      BY <2>1, <2>2, <2>3 DEF Abs!ResetNext, Abs!Word, Word
  <1>2. CASE StoreCycle
    <2> PICK a \in Row, s \in Strobe \ {{}}, wr \in WriteBus : Store(a, s, wr)
      BY <1>2 DEF StoreCycle
    <2>1. wr \in Word /\ WriteCycle(wr)
      BY WriteBusIsWord DEF Store
    <2>2. Abs!Store(a, s, wr)
      BY <2>1, WriteCycleMem DEF Abs!Store, Store, WriteCycle
    <2>3. Abs!KeepsAll
      BY <2>1, WriteCycleDrains DEF Abs!KeepsAll
    <2>4. QED
      BY <2>1, <2>2, <2>3 DEF Abs!ResetNext, Abs!Word, Word, Abs!Row, Row, Abs!Strobe, Strobe
  <1>3. CASE LoadCycle
    <2> PICK a \in Row, wr \in WriteBus : Load(a, wr)
      BY <1>3 DEF LoadCycle
    <2>1. wr \in Word
      BY WriteBusIsWord
    <2>2. AbsMem' = Abs!Arrived(wr) /\ WdmRd' = AbsMem'[a]
      BY <2>1, LoadMem, LoadAnswer
    <2>3. Abs!Load(a, wr)
      BY <2>2 DEF Abs!Load, Load
    <2>4. UNCHANGED eDM[edm_addr_ff]
      BY DEF Load
    <2>5. QED
      BY <2>1, <2>3, <2>4 DEF Abs!ResetNext, Abs!Word, Word, Abs!Row, Row
  <1>4. CASE DbgAccess
    <2> PICK a \in Row, l \in Lane, v \in Byte : DbgWrite(a, l, v)
      BY <1>4 DEF DbgAccess
    <2>1. /\ Abs!Poke(a, l, v)
          /\ eDM'[edm_addr_ff'] = IF a = edm_addr_ff THEN [eDM[edm_addr_ff] EXCEPT ![l] = v]
                                                    ELSE eDM[edm_addr_ff]
      BY DbgWriteRefines
    <2>2. QED
      BY <2>1 DEF Abs!ResetNext, Abs!Row, Row
  <1>5. CASE Reset
    BY <1>5, ResetRefines DEF Abs!ResetNext
  <1>6. CASE UNCHANGED vars
    BY <1>6 DEF vars, Abs!allVars, Abs!vars, AbsMem, DbgRead, InBuffer, WdmRd
  <1>7. QED
    BY <1>1, <1>2, <1>3, <1>4, <1>5, <1>6 DEF Next

\* The port implements the sequential memory: a load answers with the latest
\* stored bytes in every lane, no store is lost, repeated or misplaced, and a
\* reset undoes at most the last one, before the first cycle without a load.
THEOREM Refinement == Spec => ImplementsMemory
  <1>1. TypeOK /\ OneStoreWaits /\ [Next]_vars => [Abs!ResetNext]_(Abs!allVars)
    BY StepRefines
  <1>2. QED
    BY <1>1, InitRefines, TypeCorrect, WaitingStoresExclusive, PTL
    DEF Spec, ImplementsMemory, Abs!ResetSpec
=============================================================================
