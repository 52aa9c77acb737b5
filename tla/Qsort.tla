-------------------------------- MODULE Qsort --------------------------------
(***************************************************************************)
(* qsort of the run-time library (runtime/src/qsort.c): the quicksort of   *)
(* Bentley and McIlroy, which gathers the elements equal to the pivot at   *)
(* the two ends, swaps them to the middle, and sorts by insertion when the *)
(* array is short or when the partition has swapped nothing.               *)
(*                                                                         *)
(* Elements are keys, pointers are indexes, and a turn of a loop is a      *)
(* step.  An array is a function on exactly its indexes: nothing outside   *)
(* is ever read or written, or the function would be applied outside its   *)
(* domain.                                                                 *)
(***************************************************************************)
EXTENDS Integers, Sequences, FiniteSets

CONSTANTS
  Short,   \* 7 in the source: fewer elements are sorted by insertion
  Long     \* 40 in the source: with more the pivot is a median of medians

ASSUME LengthsAssumption == Short \in Nat \ {0} /\ Long \in Nat

VARIABLES
  given,            \* the array that the program has called qsort with
  array,            \* what has become of it
  todo,             \* the parts that are still to be sorted: the last one is, now,
                    \* the others are those for which calls have to go on
  at,               \* the loop that is run, or "idle", or "done"
  pa, pb, pc, pd,   \* the pointers of the partition
  swap_cnt,
  pm, pl            \* the pointers of the insertion

sortVars == <<given, array, todo, at, pa, pb, pc, pd, swap_cnt, pm, pl>>

\* The part that is sorted: n elements from a on.
Part(a, n) == [a |-> a, n |-> n]

Current == todo[Len(todo)]
lo == Current.a
hi == Current.a + Current.n - 1

QsortInit ==
  /\ given = <<>> /\ array = <<>> /\ todo = <<>> /\ at = "idle"
  /\ pa = 0 /\ pb = 0 /\ pc = 0 /\ pd = 0 /\ swap_cnt = 0
  /\ pm = 0 /\ pl = 0

partition == <<pa, pb, pc, pd, swap_cnt>>
insertion == <<pm, pl>>

Qsort(b, n) ==
  /\ at = "idle"
  /\ given' = b /\ array' = b
  /\ todo' = <<Part(0, n)>>
  /\ at' = "loop"
  /\ UNCHANGED <<partition, insertion>>

Swap(b, i, j) == [b EXCEPT ![i] = b[j], ![j] = b[i]]

(* vecswap: r elements from i on with r elements from j on. *)
SwapRange(b, i, j, r) ==
  LET swapped[k \in 0 .. r] == IF k = 0 THEN b ELSE Swap(swapped[k - 1], i + k - 1, j + k - 1)
  IN  IF r > 0 THEN swapped[r] ELSE b

med3(b, i, j, k) ==
  IF b[i] < b[j]
  THEN IF b[j] < b[k] THEN j ELSE IF b[i] < b[k] THEN k ELSE i
  ELSE IF b[j] > b[k] THEN j ELSE IF b[i] < b[k] THEN i ELSE k

PivotIndex(b, a, n) ==
  LET mid == a + n \div 2
      end == a + n - 1
      d   == n \div 8
  IN  CASE n > Long  -> med3(b, med3(b, a, a + d, a + 2 * d),
                                med3(b, mid - d, mid, mid + d),
                                med3(b, end - 2 * d, end - d, end))
        [] n > Short /\ n <= Long -> med3(b, a, mid, end)
        [] OTHER -> mid

FewElements ==
  /\ at = "loop" /\ Current.n < Short
  /\ pm' = lo + 1
  /\ at' = "insert"
  /\ UNCHANGED <<given, array, todo, partition, pl>>

(* The pivot goes to lo.  The partition keeps elements equal to it before  *)
(* pa and after pd, less before pb, greater after pc.                      *)
ChoosePivot ==
  /\ at = "loop" /\ Current.n >= Short
  /\ array' = Swap(array, lo, PivotIndex(array, lo, Current.n))
  /\ pa' = lo + 1 /\ pb' = lo + 1 /\ pc' = hi /\ pd' = hi
  /\ swap_cnt' = 0
  /\ at' = "up"
  /\ UNCHANGED <<given, todo, insertion>>

PassUp ==
  /\ at = "up" /\ pb <= pc /\ array[pb] <= array[lo]
  /\ pb' = pb + 1
  /\ IF array[pb] = array[lo]
     THEN array' = Swap(array, pa, pb) /\ pa' = pa + 1 /\ swap_cnt' = 1
     ELSE UNCHANGED <<array, pa, swap_cnt>>
  /\ UNCHANGED <<given, todo, at, pc, pd, insertion>>

UpEnds ==
  /\ at = "up" /\ (pb <= pc => array[pb] > array[lo])
  /\ at' = "down"
  /\ UNCHANGED <<given, array, todo, partition, insertion>>

PassDown ==
  /\ at = "down" /\ pb <= pc /\ array[pc] >= array[lo]
  /\ pc' = pc - 1
  /\ IF array[pc] = array[lo]
     THEN array' = Swap(array, pc, pd) /\ pd' = pd - 1 /\ swap_cnt' = 1
     ELSE UNCHANGED <<array, pd, swap_cnt>>
  /\ UNCHANGED <<given, todo, at, pa, pb, insertion>>

Exchange ==
  /\ at = "down" /\ pb <= pc /\ array[pc] < array[lo]
  /\ array' = Swap(array, pb, pc)
  /\ swap_cnt' = 1
  /\ pb' = pb + 1 /\ pc' = pc - 1
  /\ at' = "up"
  /\ UNCHANGED <<given, todo, pa, pd, insertion>>

NothingSwapped ==
  /\ at = "down" /\ pb > pc /\ swap_cnt = 0
  /\ pm' = lo + 1
  /\ at' = "insert"
  /\ UNCHANGED <<given, array, todo, partition, pl>>

Min2(x, y) == IF x < y THEN x ELSE y

(* Fault: all equal elements are swapped, also beyond those that are less. *)
GatheredOver(b) ==
  LET n == pa - lo
      r == Min2(pd - pc, hi - pd)
  IN  SwapRange(SwapRange(b, lo, pb - n, n), pb, hi + 1 - r, r)

(* The equal elements of both ends go to the middle. *)
Gathered(b) ==
  LET n == Min2(pa - lo, pb - pa)
      r == Min2(pd - pc, hi - pd)
  IN  SwapRange(SwapRange(b, lo, pb - n, n), pb, hi + 1 - r, r)

\* A call returns: what it was part of goes on.
Rest == SubSeq(todo, 1, Len(todo) - 1)
GoOn(parts) == todo' = parts /\ at' = IF parts = <<>> THEN "done" ELSE "loop"

(* The part that is less is sorted by a call, the greater one by another   *)
(* turn of the loop after it.                                              *)
Gather ==
  LET less    == pb - pa
      greater == pd - pc
      later   == IF greater > 1 THEN Append(Rest, Part(hi + 1 - greater, greater)) ELSE Rest
  IN  /\ at = "down" /\ pb > pc /\ swap_cnt = 1
      /\ array' = Gathered(array)
      /\ GoOn(IF less > 1 THEN Append(later, Part(lo, less)) ELSE later)
      /\ UNCHANGED <<given, partition, insertion>>

NextElement ==
  /\ at = "insert" /\ pm <= hi
  /\ pl' = pm
  /\ at' = "sink"
  /\ UNCHANGED <<given, array, todo, partition, pm>>

Sink ==
  /\ at = "sink" /\ pl > lo /\ array[pl - 1] > array[pl]
  /\ array' = Swap(array, pl, pl - 1)
  /\ pl' = pl - 1
  /\ UNCHANGED <<given, todo, at, partition, pm>>

SinkEnds ==
  /\ at = "sink" /\ (pl > lo => array[pl - 1] <= array[pl])
  /\ pm' = pm + 1
  /\ at' = "insert"
  /\ UNCHANGED <<given, array, todo, partition, pl>>

InsertEnds ==
  /\ at = "insert" /\ pm > hi
  /\ GoOn(Rest)
  /\ UNCHANGED <<given, array, partition, insertion>>

QsortReturns ==
  /\ at = "done"
  /\ at' = "idle" /\ given' = <<>> /\ array' = <<>>
  /\ pa' = 0 /\ pb' = 0 /\ pc' = 0 /\ pd' = 0 /\ swap_cnt' = 0
  /\ pm' = 0 /\ pl' = 0
  /\ UNCHANGED todo

Turn ==
  \/ FewElements \/ ChoosePivot
  \/ PassUp \/ UpEnds \/ PassDown \/ Exchange
  \/ NothingSwapped \/ Gather
  \/ NextElement \/ Sink \/ SinkEnds \/ InsertEnds
  \/ QsortReturns

(* A program sorts any arrays, one after the other. *)
QsortNext == (\E n \in Nat : \E b \in [0 .. n - 1 -> Int] : Qsort(b, n)) \/ Turn

QsortSpec == QsortInit /\ [][QsortNext]_sortVars
-----------------------------------------------------------------------------
(* The result is in order and has every key as often as the array had. *)
Sorted(a, b) ==
  LET I == DOMAIN a
  IN  /\ DOMAIN b = I
      /\ \A i, j \in I : i < j => b[i] <= b[j]
      /\ \A i \in I : Cardinality({j \in I : b[j] = a[i]}) = Cardinality({j \in I : a[j] = a[i]})

(* What is left to do, in the order of the dictionary: the elements of all *)
(* parts to be sorted, the loop, and its turns.                            *)
Unsorted == UNION {todo[k].a .. todo[k].a + todo[k].n - 1 : k \in DOMAIN todo}

Work ==
  CASE at = "loop"   -> <<Cardinality(Unsorted), 3, 0, 0>>
    [] at = "up"     -> <<Cardinality(Unsorted), 2, pc - pb + 1, 1>>
    [] at = "down"   -> <<Cardinality(Unsorted), 2, pc - pb + 1, 0>>
    [] at = "insert" -> <<Cardinality(Unsorted), 1, hi + 2 - pm, Current.n>>
    [] at = "sink"   -> <<Cardinality(Unsorted), 1, hi + 2 - pm, pl - lo>>
    [] OTHER         -> <<0, 0, 0, 0>>

Fewer(x, y) == \E k \in 1 .. 4 : x[k] < y[k] /\ \A j \in 1 .. k - 1 : x[j] = y[j]

(* qsort leaves the same elements, in order, whichever of its ways the     *)
(* array takes, and looks at nothing outside it; and with every turn of a  *)
(* loop there is less to do, so that it ends (qsort.c:100-182).            *)
SortExact ==
  /\ [](at = "done" => Sorted(given, array))
  /\ [][at \notin {"idle", "done"} =>
          Fewer(Work', Work) /\ Work' \in Nat \X Nat \X Nat \X Nat]_sortVars
=============================================================================
