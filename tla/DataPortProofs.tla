--------------------------- MODULE DataPortProofs ---------------------------
(***************************************************************************)
(* Proof that DataPort implements RvMemory, for every size of the memory   *)
(* and every size of a byte.                                               *)
(***************************************************************************)
EXTENDS DataPort, TLAPS

\* The lanes a store waits to write, and the instruction in EX: one at a time.
StoreInEX ==
  /\ pstrb = IF st_ff = "none" THEN {} ELSE WriteMask(st_ff, col_ff)
  /\ st_ff = "none" \/ ld_EX = "none"

IInv == TypeOK /\ StoreInEX

\* A byte address is a row and a column.
LEMMA RowAndColumn ==
  ASSUME NEW a \in Addr
  PROVE  /\ a \div 4 \in 0 .. NumRows - 1
         /\ a % 4 \in Lane
         /\ a % 4 = a - 4 * (a \div 4)
  <1>1. a \in Nat /\ NumRows \in Nat /\ a < 4 * NumRows
    BY DataPortAssumption DEF Addr
  <1>2. a % 4 = a - 4 * (a \div 4) /\ a % 4 \in 0 .. 3 /\ a \div 4 \in Nat
    BY <1>1
  <1>3. a \div 4 < NumRows
    BY <1>1, <1>2
  <1>4. QED
    BY <1>1, <1>2, <1>3 DEF Lane

LEMMA AddressOf ==
  ASSUME NEW r \in 0 .. NumRows - 1, NEW l \in Lane
  PROVE  /\ 4 * r + l \in Addr
         /\ (4 * r + l) \div 4 = r
         /\ (4 * r + l) % 4 = l
  BY DataPortAssumption DEF Addr, Lane

LEMMA WriteDataType ==
  ASSUME TypeOK, NEW d \in CoreData
  PROVE  WriteData(d) \in Word
  <1>1. d \in Word /\ 0 \in Byte
    BY DataPortAssumption DEF CoreData, Word, Byte, Lane
  <1>2. ASSUME NEW l \in Lane
        PROVE  (CASE st_ff = "sw" -> d[l] [] st_ff = "sh" -> d[l % 2]
                  [] st_ff = "sb" -> d[0] [] st_ff = "none" -> 0) \in Byte
    <2>1. l % 2 \in Lane /\ 0 \in Lane
      BY DEF Lane
    <2>2. d[l] \in Byte /\ d[l % 2] \in Byte /\ d[0] \in Byte
      BY <1>1, <2>1 DEF Word
    <2>3. QED
      BY <1>1, <2>2 DEF TypeOK, Stores
  <1>3. QED
    BY <1>2 DEF WriteData, Word

LEMMA MaskType ==
  ASSUME NEW op \in Stores, NEW c \in Lane
  PROVE  WriteMask(op, c) \in SUBSET Lane
  BY DEF WriteMask, Stores, Lane

LEMMA ArrivedType ==
  ASSUME TypeOK, NEW wr \in Word
  PROVE  WDM!Arrived(wr) \in [0 .. NumRows - 1 -> Word]
  BY DEF TypeOK, WDM!Arrived, WDM!Row, Word

LEMMA StepIInv == IInv /\ [Next]_vars => IInv'
  <1> SUFFICES ASSUME IInv, [Next]_vars PROVE IInv'
    OBVIOUS
  <1>1. CASE UNCHANGED vars
    BY <1>1 DEF vars, IInv, TypeOK, StoreInEX
  <1>2. ASSUME NEW d \in CoreData, OtherInstr(d) PROVE IInv'
    <2>1. WDM!Arrived(WriteData(d)) \in [0 .. NumRows - 1 -> Word]
      BY WriteDataType, ArrivedType DEF IInv
    <2>2. QED
      BY <1>2, <2>1 DEF OtherInstr, WDM!Idle, IInv, TypeOK, StoreInEX, Lane
  <1>3. ASSUME NEW d \in CoreData, NEW op \in Loads, NEW a \in Addr, LoadInstr(op, a, d)
        PROVE  IInv'
    <2>1. WDM!Arrived(WriteData(d)) \in [0 .. NumRows - 1 -> Word]
      BY WriteDataType, ArrivedType DEF IInv
    <2>2. QED
      BY <1>3, <2>1, RowAndColumn DEF LoadInstr, WDM!Load, IInv, TypeOK, StoreInEX
  <1>4. ASSUME NEW d \in CoreData, NEW op \in Stores, NEW a \in Addr, StoreInstr(op, a, d)
        PROVE  IInv'
    <2>1. WDM!Arrived(WriteData(d)) \in [0 .. NumRows - 1 -> Word]
      BY WriteDataType, ArrivedType DEF IInv
    <2>2. a % 4 \in Lane /\ a \div 4 \in 0 .. NumRows - 1
      BY RowAndColumn
    <2>3. WriteMask(op, a % 4) \in SUBSET Lane /\ op # "none"
      BY <2>2, MaskType DEF Stores
    <2>4. TypeOK'
      BY <1>4, <2>1, <2>2, <2>3 DEF StoreInstr, WDM!Store, IInv, TypeOK
    <2>5. StoreInEX'
      BY <1>4, <2>3 DEF StoreInstr, WDM!Store, StoreInEX
    <2>6. QED
      BY <2>4, <2>5 DEF IInv
  <1>5. QED
    BY <1>1, <1>2, <1>3, <1>4 DEF Next

LEMMA InductiveInvariant == Spec => []IInv
  <1>1. Init => IInv
    <2>1. 0 \in 0 .. NumRows - 1 /\ 0 \in Byte /\ 0 \in Lane
      BY DataPortAssumption DEF Byte, Lane
    <2>2. QED
      BY <2>1 DEF Init, IInv, TypeOK, StoreInEX, Word
  <1>2. QED
    BY <1>1, StepIInv, PTL DEF Spec
-----------------------------------------------------------------------------
\* The store in EX.

BytesOf(m) == [a \in Addr |-> m[a \div 4][a % 4]]
StoreBase == IF st_ff = "none" THEN 0 ELSE 4 * prow + col_ff - (col_ff % SizeEX)

\* The lanes of the write mask are the bytes from the base on, and the data on
\* them are the low bytes of the register.
LEMMA MaskIsRange ==
  ASSUME IInv, st_ff # "none", NEW d, NEW r \in 0 .. NumRows - 1, NEW l \in Lane,
         NEW a \in Int, a = 4 * r + l
  PROVE  /\ (r = prow /\ l \in pstrb) <=> a \in StoreBase .. StoreBase + Rv!Size(st_ff) - 1
         /\ (r = prow /\ l \in pstrb) => WriteData(d)[l] = d[a - StoreBase]
  <1>1. /\ prow \in Nat /\ r \in Nat /\ l \in 0 .. 3 /\ col_ff \in 0 .. 3
        /\ st_ff \in {"sb", "sh", "sw"} /\ ld_EX = "none"
        /\ pstrb = WriteMask(st_ff, col_ff)
    BY DataPortAssumption DEF IInv, TypeOK, StoreInEX, Lane, Stores
  <1>2. CASE st_ff = "sw"
    <2>1. SizeEX = 4 /\ Rv!Size(st_ff) = 4 /\ pstrb = Lane /\ WriteData(d)[l] = d[l]
      BY <1>1, <1>2 DEF SizeEX, Rv!Size, WriteMask, WriteData
    <2>2. StoreBase = 4 * prow
      BY <1>1, <1>2, <2>1 DEF StoreBase
    <2>3. QED
      BY <1>1, <2>1, <2>2
  <1>3. CASE st_ff = "sh"
    <2>1. /\ SizeEX = 2 /\ Rv!Size(st_ff) = 2 /\ WriteData(d)[l] = d[l % 2]
          /\ pstrb = {2 * (col_ff \div 2), 2 * (col_ff \div 2) + 1}
      BY <1>1, <1>3 DEF SizeEX, Rv!Size, WriteMask, WriteData
    <2>2. StoreBase = 4 * prow + 2 * (col_ff \div 2)
      BY <1>1, <1>3, <2>1 DEF StoreBase
    <2>3. QED
      BY <1>1, <2>1, <2>2
  <1>4. CASE st_ff = "sb"
    <2>1. SizeEX = 1 /\ Rv!Size(st_ff) = 1 /\ pstrb = {col_ff} /\ WriteData(d)[l] = d[0]
      BY <1>1, <1>4 DEF SizeEX, Rv!Size, WriteMask, WriteData
    <2>2. StoreBase = 4 * prow + col_ff
      BY <1>1, <1>4, <2>1 DEF StoreBase
    <2>3. QED
      BY <1>1, <2>1, <2>2
  <1>5. QED
    BY <1>1, <1>2, <1>3, <1>4

\* The memory after a cycle is the promised one: the store in EX has written.
LEMMA StoreDone ==
  ASSUME IInv, NEW d \in CoreData, mem' = WDM!Arrived(WriteData(d))
  PROVE  \E e \in StoreData : BytesOf(mem)' = Rv!Done(e)
  <1>1. TypeOK /\ StoreInEX
    BY DEF IInv
  <1>2. ASSUME NEW a \in Addr
        PROVE  mem'[a \div 4][a % 4] = IF a \div 4 = prow /\ a % 4 \in pstrb
                                       THEN WriteData(d)[a % 4] ELSE mem[a \div 4][a % 4]
    BY RowAndColumn DEF WDM!Arrived, WDM!Row
  <1>3. CASE st_ff = "none"
    <2>1. PICK e \in StoreData : TRUE
      BY DataPortAssumption
    <2>2. \A a \in Addr : mem'[a \div 4][a % 4] = mem[a \div 4][a % 4]
      BY <1>1, <1>2, <1>3 DEF StoreInEX
    <2>3. BytesOf(mem)' = BytesOf(mem)
      BY <2>2 DEF BytesOf
    <2>4. Rv!Done(e) = BytesOf(mem)
      BY <1>3 DEF Rv!Done, Rv!Stores, Rv!Addr, Addr, BytesOf
    <2>5. QED
      BY <2>3, <2>4
  <1>4. CASE st_ff # "none"
    <2>1. d \in StoreData /\ st_ff \in Rv!Stores
      BY <1>1, <1>4 DEF CoreData, TypeOK, Stores, Rv!Stores
    <2>2. ASSUME NEW a \in Addr
          PROVE  mem'[a \div 4][a % 4]
                   = IF a \in StoreBase .. StoreBase + Rv!Size(st_ff) - 1
                     THEN d[a - StoreBase] ELSE mem[a \div 4][a % 4]
      <3> DEFINE r == a \div 4
                 l == a % 4
      <3>1. r \in 0 .. NumRows - 1 /\ l \in Lane /\ l = a - 4 * r
        BY RowAndColumn
      <3>2. a \in Int /\ r \in Int /\ l \in Int
        BY <3>1, DataPortAssumption DEF Addr, Lane
      <3> HIDE DEF r, l
      <3>3. a = 4 * r + l
        BY <3>1, <3>2
      <3>4. /\ (r = prow /\ l \in pstrb) <=> a \in StoreBase .. StoreBase + Rv!Size(st_ff) - 1
            /\ (r = prow /\ l \in pstrb) => WriteData(d)[l] = d[a - StoreBase]
        BY <1>4, <3>1, <3>2, <3>3, MaskIsRange
      <3>5. QED
        BY <1>2, <3>4 DEF r, l
    <2>3. Rv!Done(d) = [a \in Addr |-> IF a \in StoreBase .. StoreBase + Rv!Size(st_ff) - 1
                                       THEN d[a - StoreBase] ELSE mem[a \div 4][a % 4]]
      BY <2>1 DEF Rv!Done, Rv!Addr, Addr, StoreBase
    <2>4. BytesOf(mem)' = Rv!Done(d)
      BY <2>2, <2>3 DEF BytesOf
    <2>5. QED
      BY <2>1, <2>4
  <1>5. QED
    BY <1>3, <1>4
-----------------------------------------------------------------------------
\* The load in ID.

LEMMA AlignedColumn ==
  ASSUME NEW op \in Loads \union Stores, NEW a \in Addr
  PROVE  a % Rv!Size(op) = (a % 4) % Rv!Size(op)
  <1>1. a \in Nat
    BY DataPortAssumption DEF Addr
  <1>2. a % 1 = (a % 4) % 1 /\ a % 2 = (a % 4) % 2 /\ a % 4 = (a % 4) % 4
    BY <1>1
  <1>3. Rv!Size(op) \in {1, 2, 4}
    BY DEF Rv!Size
  <1>4. QED
    BY <1>2, <1>3

\* The low bytes of an aligned load are the bytes from its address on.
LEMMA BytesRead ==
  ASSUME NEW d \in CoreData, NEW op \in Loads, NEW a \in Addr, LoadInstr(op, a, d),
         a % Rv!Size(op) = 0, NEW l \in Lane, l < Rv!Size(op)
  PROVE  ReadByte(l)' = BytesOf(mem)'[a + l]
  <1>1. rd' = mem'[a \div 4] /\ col_ff' = a % 4
    BY DEF LoadInstr, WDM!Load
  <1>2. a \in Nat /\ a % 4 \in 0 .. 3 /\ a \div 4 \in 0 .. NumRows - 1 /\ a % 4 = a - 4 * (a \div 4)
    BY RowAndColumn, DataPortAssumption DEF Addr, Lane
  <1>3. (a % 4) % Rv!Size(op) = 0
    BY AlignedColumn
  <1>4. /\ (a % 4) + l \in 0 .. 3
        /\ ReadByte(l)' = rd'[(a % 4) + l]
    <2> DEFINE c == a % 4
    <2>1. c \in 0 .. 3 /\ l \in 0 .. 3 /\ col_ff' = c
      BY <1>1, <1>2 DEF Lane
    <2> HIDE DEF c
    <2>2. ReadByte(l)' = IF l = 0 THEN rd'[c] ELSE IF l = 1 THEN rd'[2 * (c \div 2) + 1]
                         ELSE rd'[l]
      BY <2>1 DEF ReadByte
    <2>3. CASE Rv!Size(op) = 1
      BY <2>1, <2>2, <2>3 DEF c
    <2>4. CASE Rv!Size(op) = 2
      <3>1. c % 2 = 0
        BY <1>3, <2>4 DEF c
      <3>2. c \in {0, 2} /\ l \in {0, 1}
        BY <2>1, <2>4, <3>1
      <3>3. QED
        BY <2>1, <2>2, <3>2 DEF c
    <2>5. CASE Rv!Size(op) = 4
      <3>1. c % 4 = 0
        BY <1>3, <2>5 DEF c
      <3>2. c = 0
        BY <2>1, <3>1
      <3>3. QED
        BY <2>1, <2>2, <3>2 DEF c
    <2>6. QED
      BY <2>3, <2>4, <2>5 DEF Rv!Size
  <1>5. BytesOf(mem)'[a + l] = mem'[a \div 4][(a % 4) + l]
    <2> DEFINE r == a \div 4
               c == a % 4
    <2>1. r \in 0 .. NumRows - 1 /\ c + l \in Lane /\ c \in Int /\ l \in Int /\ c = a - 4 * r
      BY <1>2, <1>4 DEF Lane
    <2> HIDE DEF r, c
    <2>2. /\ 4 * r + (c + l) \in Addr
          /\ (4 * r + (c + l)) \div 4 = r
          /\ (4 * r + (c + l)) % 4 = c + l
      BY <2>1, AddressOf
    <2>3. a + l = 4 * r + (c + l)
      BY <1>2, <2>1, DataPortAssumption
    <2>4. BytesOf(mem)'[a + l] = mem'[r][c + l]
      BY <2>2, <2>3 DEF BytesOf
    <2>5. QED
      BY <2>4 DEF r, c
  <1>6. QED
    BY <1>1, <1>4, <1>5

LEMMA LoadAnswers ==
  ASSUME NEW d \in CoreData, NEW op \in Loads, NEW a \in Addr, LoadInstr(op, a, d),
         a % Rv!Size(op) = 0
  PROVE  LoadResult' = Rv!Loaded(op, BytesOf(mem)', a)
  <1> DEFINE n == Rv!Size(op)
             fill == Rv!Fill(op, BytesOf(mem)'[a + n - 1])
             B(l) == IF l < n THEN BytesOf(mem)'[a + l] ELSE fill
  <1>1. ld_EX' = op
    BY DEF LoadInstr
  <1>2. ASSUME NEW l \in Lane, l < n PROVE ReadByte(l)' = BytesOf(mem)'[a + l]
    BY <1>2, BytesRead
  <1>3. n \in {1, 2, 4} /\ a \in Int
    BY DataPortAssumption DEF Rv!Size, Addr
  <1>4. n - 1 \in Lane /\ n - 1 < n /\ a + n - 1 = a + (n - 1)
    BY <1>3 DEF Lane
  <1>5. ReadByte(n - 1)' = BytesOf(mem)'[a + n - 1]
    BY <1>2, <1>4
  <1>6. Rv!Loaded(op, BytesOf(mem)', a) = [l \in Lane |-> B(l)]
    BY DEF Rv!Loaded, Lane
  <1>7. LoadResult' = [l \in Lane |-> B(l)]
    <2>1. CASE op \in {"lb", "lh"}
      <3>1. LoadResult' = Extended(n, TRUE)'
        BY <1>1, <2>1 DEF LoadResult, Rv!Size
      <3>2. Extended(n, TRUE)' = [l \in Lane |-> IF l < n THEN ReadByte(l)' ELSE fill]
        BY <1>5, <2>1 DEF Extended, Rv!Fill
      <3>3. QED
        BY <1>2, <3>1, <3>2
    <2>2. CASE op \in {"lbu", "lhu"}
      <3>1. LoadResult' = Extended(n, FALSE)'
        BY <1>1, <2>2 DEF LoadResult, Rv!Size
      <3>2. Extended(n, FALSE)' = [l \in Lane |-> IF l < n THEN ReadByte(l)' ELSE fill]
        BY <2>2 DEF Extended, Rv!Fill
      <3>3. QED
        BY <1>2, <3>1, <3>2
    <2>3. CASE op = "lw"
      <3>1. LoadResult' = [l \in Lane |-> ReadByte(l)']
        BY <1>1, <2>3 DEF LoadResult
      <3>2. n = 4
        BY <2>3 DEF Rv!Size
      <3>3. \A l \in Lane : l < n
        BY <3>2 DEF Lane
      <3>4. QED
        BY <1>2, <3>1, <3>3
    <2>4. QED
      BY <2>1, <2>2, <2>3 DEF Loads
  <1>8. QED
    BY <1>6, <1>7
-----------------------------------------------------------------------------
\* Every step of the port is one of the promised memory.

AbsResult == IF ld_EX # "none" /\ col_ff % SizeEX = 0 THEN LoadResult ELSE <<>>

LEMMA OtherStep ==
  ASSUME IInv, NEW d \in CoreData, OtherInstr(d)
  PROVE  Rv!Next
  <1>1. mem' = WDM!Arrived(WriteData(d)) /\ st_ff' = "none" /\ ld_EX' = "none"
    BY DEF OtherInstr, WDM!Idle
  <1>2. \E e \in StoreData : BytesOf(mem)' = Rv!Done(e)
    BY <1>1, StoreDone
  <1>3. Rv!Other
    BY <1>1 DEF Rv!Other
  <1>4. QED
    BY <1>2, <1>3 DEF Rv!Next, BytesOf

LEMMA LoadStep ==
  ASSUME IInv, NEW d \in CoreData, NEW op \in Loads, NEW a \in Addr, LoadInstr(op, a, d)
  PROVE  Rv!Next
  <1>1. /\ mem' = WDM!Arrived(WriteData(d)) /\ st_ff' = "none" /\ ld_EX' = op /\ op # "none"
        /\ col_ff' = a % 4
    BY DEF LoadInstr, WDM!Load, Loads
  <1>2. \E e \in StoreData : BytesOf(mem)' = Rv!Done(e)
    BY <1>1, StoreDone
  <1>3. SizeEX' = Rv!Size(op)
    BY <1>1 DEF SizeEX, Rv!Size, Loads
  <1>4. col_ff' % SizeEX' = a % Rv!Size(op)
    BY <1>1, <1>3, AlignedColumn
  <1>5. AbsResult' = IF a % Rv!Size(op) = 0 THEN Rv!Loaded(op, BytesOf(mem)', a) ELSE <<>>
    BY <1>1, <1>4, LoadAnswers DEF AbsResult
  <1>6. Rv!Load(op, a)
    BY <1>1, <1>5 DEF Rv!Load, BytesOf, AbsResult
  <1>7. QED
    BY <1>2, <1>6 DEF Rv!Next, BytesOf, Rv!Loads, Loads, Rv!Addr, Addr

LEMMA StoreStep ==
  ASSUME IInv, NEW d \in CoreData, NEW op \in Stores, NEW a \in Addr, StoreInstr(op, a, d)
  PROVE  Rv!Next
  <1>1. /\ mem' = WDM!Arrived(WriteData(d)) /\ st_ff' = op /\ op # "none" /\ ld_EX' = "none"
        /\ col_ff' = a % 4 /\ prow' = a \div 4
    BY DEF StoreInstr, WDM!Store, Stores
  <1>2. \E e \in StoreData : BytesOf(mem)' = Rv!Done(e)
    BY <1>1, StoreDone
  <1>3. SizeEX' = Rv!Size(op) /\ SizeEX' \in {1, 2, 4}
    BY <1>1 DEF SizeEX, Rv!Size, Stores
  <1>4. col_ff' % SizeEX' = a % Rv!Size(op)
    BY <1>1, <1>3, AlignedColumn
  <1>5. StoreBase' = a - (a % Rv!Size(op))
    <2> DEFINE r == a \div 4
               c == a % 4
               off == a % Rv!Size(op)
    <2>1. a \in Int /\ r \in Int /\ c \in Int /\ c = a - 4 * r
      BY RowAndColumn, DataPortAssumption DEF Addr, Lane
    <2>0. off \in Int
      <3>1. Rv!Size(op) \in {1, 2, 4}
        BY DEF Rv!Size
      <3>2. a % 1 \in Int /\ a % 2 \in Int /\ a % 4 \in Int
        BY <2>1
      <3>3. QED
        BY <3>1, <3>2
    <2>2. prow' = r /\ col_ff' = c /\ col_ff' % SizeEX' = off
      BY <1>1, <1>4
    <2>3. StoreBase' = 4 * prow' + col_ff' - (col_ff' % SizeEX')
      BY <1>1 DEF StoreBase
    <2> HIDE DEF r, c, off
    <2>4. StoreBase' = 4 * r + c - off
      BY <2>2, <2>3
    <2>5. a = 4 * r + c
      BY <2>1
    <2>6. StoreBase' = a - off
      BY <2>0, <2>1, <2>4, <2>5
    <2>7. QED
      BY <2>6 DEF off
  <1>6. Rv!Store(op, a)
    <2>1. StoreBase' = Rv!AlignDown(a, Rv!Size(op))
      BY <1>5 DEF Rv!AlignDown
    <2>2. QED
      BY <1>1, <2>1 DEF Rv!Store, StoreBase
  <1>7. QED
    BY <1>2, <1>6 DEF Rv!Next, BytesOf, Rv!Stores, Stores, Rv!Addr, Addr

\* Loads return the bytes stored last at their addresses, extended, and stores
\* write their own bytes only, whatever their sizes and columns (dm.p,
\* process_request and process_result).
THEOREM Implements == Spec => ImplementsRvMemory
  <1>1. Init => Rv!Init
    <2> SUFFICES ASSUME Init PROVE Rv!Init
      OBVIOUS
    <2>1. ASSUME NEW a \in Addr PROVE mem[a \div 4][a % 4] = 0
      BY RowAndColumn DEF Init
    <2>2. QED
      BY <2>1 DEF Init, Rv!Init, Rv!Addr, Addr
  <1>2. IInv /\ [Next]_vars => [Rv!Next]_Rv!vars
    <2> SUFFICES ASSUME IInv, [Next]_vars PROVE [Rv!Next]_Rv!vars
      OBVIOUS
    <2>1. CASE UNCHANGED vars
      BY <2>1 DEF vars, Rv!vars, SizeEX, LoadResult, Extended, ReadByte
    <2>2. CASE Next
      BY <2>2, OtherStep, LoadStep, StoreStep DEF Next
    <2>3. QED
      BY <2>1, <2>2
  <1>3. QED
    BY <1>1, <1>2, InductiveInvariant, PTL DEF Spec, ImplementsRvMemory, Rv!Spec
=============================================================================
